-------------------------- MODULE TestManagerProofs --------------------------
(* Theorems about TestManager, for every value of its constants. *)
EXTENDS TestManager, SequenceTheorems, FiniteSetTheorems, TLAPS

-----------------------------------------------------------------------------
(* The inductive invariant. *)

\* Where the main thread is: before the process is launched, before it waits
\* for the test bundle, on its way through that loop, and past it.
Early == {"control", "control2", "session", "session2", "launch"}
SettingUp == Early \cup {"launch2", "pid", "pid2"}
InWait == {"wait", "authorize", "authorize2"}
Late == {"watch", "start", "start2", "loop"}

\* What waits to be received on the session connection; the runner's message k
\* is pending while it is there.
Queue == inbox["session"]
Pending(k) == \E i \in DOMAIN Queue : Queue[i].id = k
StillPending(k) == \E i \in DOMAIN Queue' : Queue'[i].id = k

\* The runner's messages arrive in the order of their ids; an answer has none.
Arrival ==
  /\ \A i \in DOMAIN Queue :
       \/ Queue[i].id = 0 /\ Queue[i].kind \in {"empty", "value"}
       \/ /\ Queue[i].id \in DOMAIN said
          /\ Queue[i].kind = said[Queue[i].id]
  /\ \A i, j \in DOMAIN Queue :
       i < j /\ Queue[i].id # 0 /\ Queue[j].id # 0 => Queue[i].id < Queue[j].id

\* What the runner says, it says once, and in this order.
Protocol ==
  /\ said # <<>> => launched = "yes"
  /\ \A j, k \in DOMAIN said : said[j] = said[k] /\ said[j] \notin Chatter => j = k
  /\ \A k \in DOMAIN said :
       said[k] = "logConf" => \E j \in DOMAIN said : j < k /\ said[j] = "ready"
  /\ \A k \in DOMAIN said : said[k] \in Verdicts => ConfSent

\* The process is launched once.
Launching ==
  /\ asked["process"] => launched = "no" /\ pc = "launch2"
  /\ launched = "no" => inbox["process"] = <<>>
  /\ launched # "no" => pc \notin Early

\* On the control connection there is at most the answer to the call in
\* progress; it says that the session is authorized if the process runs.
Prepared == launched = "yes" => authorized

Controlling ==
  /\ asked["control"] \/ inbox["control"] # <<>> =>
       pc \in {"control2", "pid2", "authorize2"}
  /\ asked["control"] => inbox["control"] = <<>>
  /\ Len(inbox["control"]) <= 1 /\ (inbox["control"] # <<>> => Prepared)
  /\ pc \in {"pid", "pid2"} => ios = 11
  /\ pc \in {"authorize", "authorize2"} => ios = 12 /\ readyId # 0
  /\ pc \in Late \/ (pc = "wait" /\ (ios = 11 \/ readyId # 0)) => Prepared

\* On the session connection answers come only to the two calls that set it up,
\* before the runner says anything, and to the start call.
Answering ==
  /\ pc # "crashed"
  /\ pc \in (SettingUp \cup InWait) \ {"session2"} =>
       /\ ~(asked["session"] /\ up)
       /\ \A i \in DOMAIN Queue : Queue[i].kind \in Kinds
  /\ pc = "session2" => /\ Len(Queue) <= 1
                        /\ asked["session"] /\ up => Queue = <<>>

\* readyId is the id of the ready message, from the time that is received; the
\* configuration is sent after the runner asked for it.
Readiness ==
  /\ readyId # 0 => /\ readyId \in DOMAIN said /\ said[readyId] = "ready"
                    /\ ~Pending(readyId)
  /\ \A k \in DOMAIN said : said[k] = "ready" /\ ~Pending(k) => readyId = k
  /\ ConfSent => \E k \in DOMAIN said : said[k] = "logConf" /\ ~Pending(k)

\* Only what was received is replied to, and `msg` was.
Replying ==
  /\ \A i \in DOMAIN replies :
       /\ replies[i].to \in DOMAIN said /\ ~Pending(replies[i].to)
       /\ replies[i].what = "conf" <=> said[replies[i].to] = "ready"
  /\ msg.kind \in Kinds => /\ msg.id \in DOMAIN said /\ said[msg.id] = msg.kind
                           /\ ~Pending(msg.id)

\* The test plan is started after the configuration was sent.
Starting ==
  /\ pc \in Late \/ started => ConfSent
  /\ started => authorized
  /\ pc \in Late => msg.kind # "ready"

\* The messages received and not replied to, at each place.
Lost == {k \in Unanswered : ios = 12 \/ said[k] # "logConf"}

Keeping ==
  /\ pc \in SettingUp => Unanswered = {} /\ readyId = 0
  /\ pc \in InWait => \A k \in Unanswered : k = readyId /\ ~ConfSent
  /\ pc \in {"start", "start2"} \/ (pc = "watch" /\ ios = 11) => Lost = {}
  /\ pc \in Late => \A j, k \in Lost : j = k

\* What is known of the messages wherever the main thread is, and what is at
\* each place.
Mail == Arrival /\ Protocol /\ Readiness /\ Replying
Places == Launching /\ Controlling /\ Answering /\ Starting /\ Keeping

Inv == TypeOK /\ Mail /\ Places /\ AnsweredAtMostOnce

-----------------------------------------------------------------------------
(* The lengths and lookups of a well-typed state, and what the operations of *)
(* the connections do to it.                                                 *)

Answer == [to: 0 .. Len(said), what: {"ack", "conf"}]

\* The received sequence and the answers due are proper sequences.
LEMMA Basics ==
  ASSUME TypeOK
  PROVE  /\ \A c \in Conn : /\ inbox[c] \in Seq(Message) /\ Len(inbox[c]) \in Nat
                            /\ DOMAIN inbox[c] = 1 .. Len(inbox[c])
                            /\ inbox[c] # <<>> <=> Len(inbox[c]) >= 1
         /\ \A c \in Conn : \A i \in DOMAIN inbox[c] :
              inbox[c][i] \in Message /\ inbox[c][i].id \in Nat
         /\ Len(said) \in Nat /\ DOMAIN said = 1 .. Len(said)
         /\ \A k \in DOMAIN said : said[k] \in Kinds
         /\ Len(replies) \in Nat /\ DOMAIN replies = 1 .. Len(replies)
         /\ \A i \in DOMAIN replies : replies[i] \in Answer
         /\ readyId \in Nat
<1>1. ASSUME NEW c \in Conn
      PROVE  /\ inbox[c] \in Seq(Message) /\ Len(inbox[c]) \in Nat
             /\ DOMAIN inbox[c] = 1 .. Len(inbox[c])
             /\ inbox[c] # <<>> <=> Len(inbox[c]) >= 1
             /\ \A i \in DOMAIN inbox[c] :
                  inbox[c][i] \in Message /\ inbox[c][i].id \in Nat
  <2>1. inbox[c] \in Seq(Message)
    BY DEF TypeOK
  <2>2. \A m \in Message : m.id \in Nat
    BY DEF Message
  <2>3. /\ Len(inbox[c]) \in Nat /\ DOMAIN inbox[c] = 1 .. Len(inbox[c])
        /\ inbox[c] # <<>> <=> Len(inbox[c]) >= 1
    BY <2>1, LenProperties, EmptySeq
  <2>4. \A i \in DOMAIN inbox[c] : inbox[c][i] \in Message
    BY <2>1, <2>3, ElementOfSeq
  <2>5. QED BY <2>1, <2>2, <2>3, <2>4
<1>2. /\ Len(said) \in Nat /\ DOMAIN said = 1 .. Len(said)
      /\ \A k \in DOMAIN said : said[k] \in Kinds
  BY LenProperties, ElementOfSeq DEF TypeOK
<1>3. /\ Len(replies) \in Nat /\ DOMAIN replies = 1 .. Len(replies)
      /\ \A i \in DOMAIN replies : replies[i] \in Answer
  <2>1. replies \in Seq(Answer)
    BY DEF TypeOK, Answer
  <2>2. QED BY <2>1, LenProperties, ElementOfSeq
<1>4. readyId \in Nat
  BY <1>2 DEF TypeOK
<1>5. QED BY <1>1, <1>2, <1>3, <1>4

\* A message is taken from the front of its connection.
LEMMA PopEffect ==
  ASSUME TypeOK, NEW c \in Conn, Recv(c)
  PROVE  /\ inbox' \in [Conn -> Seq(Message)]
         /\ Len(inbox[c]) >= 1 /\ 1 \in DOMAIN inbox[c] /\ inbox[c][1] \in Message
         /\ Len(inbox'[c]) = Len(inbox[c]) - 1
         /\ DOMAIN inbox'[c] = 1 .. Len(inbox[c]) - 1
         /\ \A i \in DOMAIN inbox'[c] : inbox'[c][i] = inbox[c][i + 1]
         /\ \A d \in Conn : d # c => inbox'[d] = inbox[d]
         /\ UNCHANGED <<asked, said, launched, authorized, output, up>>
<1>1. /\ inbox[c] \in Seq(Message) /\ inbox[c] # <<>> /\ inbox \in [Conn -> Seq(Message)]
      /\ inbox' = [inbox EXCEPT ![c] = Tail(@)] /\ Len(inbox[c]) \in Nat
  BY Basics DEF Recv, TypeOK
<1>2. /\ Tail(inbox[c]) \in Seq(Message)
      /\ Len(Tail(inbox[c])) = Len(inbox[c]) - 1
      /\ \A i \in 1 .. Len(Tail(inbox[c])) : Tail(inbox[c])[i] = inbox[c][i + 1]
  BY <1>1, HeadTailProperties
<1>3. inbox' \in [Conn -> Seq(Message)] /\ inbox'[c] = Tail(inbox[c])
      /\ \A d \in Conn : d # c => inbox'[d] = inbox[d]
  BY <1>1, <1>2
<1>4. DOMAIN inbox'[c] = 1 .. Len(inbox'[c])
  BY <1>2, <1>3, LenProperties
<1>5. Len(inbox[c]) >= 1 /\ 1 \in DOMAIN inbox[c] /\ inbox[c][1] \in Message
  BY <1>1, Basics
<1>6. QED BY <1>2, <1>3, <1>4, <1>5 DEF Recv

\* A message is put at the end of its connection.
LEMMA PushEffect ==
  ASSUME TypeOK, NEW c \in Conn, NEW m \in Message, ToClient(c, m)
  PROVE  /\ inbox' \in [Conn -> Seq(Message)]
         /\ Len(inbox'[c]) = Len(inbox[c]) + 1
         /\ DOMAIN inbox'[c] = 1 .. Len(inbox[c]) + 1
         /\ \A i \in DOMAIN inbox[c] : inbox'[c][i] = inbox[c][i]
         /\ inbox'[c][Len(inbox[c]) + 1] = m
         /\ \A d \in Conn : d # c => inbox'[d] = inbox[d]
<1>1. /\ inbox[c] \in Seq(Message) /\ inbox \in [Conn -> Seq(Message)]
      /\ inbox' = [inbox EXCEPT ![c] = Append(@, m)]
      /\ DOMAIN inbox[c] = 1 .. Len(inbox[c])
  BY Basics DEF ToClient, TypeOK
<1>2. /\ Append(inbox[c], m) \in Seq(Message)
      /\ Len(Append(inbox[c], m)) = Len(inbox[c]) + 1
      /\ \A i \in 1 .. Len(inbox[c]) : Append(inbox[c], m)[i] = inbox[c][i]
      /\ Append(inbox[c], m)[Len(inbox[c]) + 1] = m
  BY <1>1, AppendProperties
<1>3. inbox' \in [Conn -> Seq(Message)] /\ inbox'[c] = Append(inbox[c], m)
      /\ \A d \in Conn : d # c => inbox'[d] = inbox[d]
  BY <1>1, <1>2
<1>4. DOMAIN inbox'[c] = 1 .. Len(inbox'[c])
  BY <1>2, <1>3, LenProperties
<1>5. QED BY <1>1, <1>2, <1>3, <1>4

\* What a reply that may fail does to what was replied.
LEMMA ReplyEffect ==
  ASSUME TypeOK, NEW rs \in Seq(Answer), NEW next, Reply(rs, next)
  PROVE  /\ replies' \in Seq(Answer) /\ DOMAIN replies \subseteq DOMAIN replies'
         /\ \A i \in DOMAIN replies : replies'[i] = replies[i]
         /\ \A i \in DOMAIN replies' :
              i \in DOMAIN replies \/ \E j \in DOMAIN rs : replies'[i] = rs[j]
         /\ pc' = next \/ (pc' = "exit" /\ ~up)
         /\ pc' # "exit" \/ up =>
              /\ replies' = replies \o rs /\ pc' = next
              /\ \A j \in DOMAIN rs : \E i \in DOMAIN replies' : replies'[i] = rs[j]
<1>1. /\ replies \in Seq(Answer) /\ DOMAIN replies = 1 .. Len(replies)
      /\ Len(replies) \in Nat /\ Len(rs) \in Nat /\ DOMAIN rs = 1 .. Len(rs)
  BY Basics, LenProperties DEF TypeOK, Answer
<1> HIDE DEF Answer
<1>2. ASSUME NEW ts \in Seq(Answer), replies' = replies \o ts
      PROVE  /\ replies' \in Seq(Answer) /\ DOMAIN replies \subseteq DOMAIN replies'
             /\ \A i \in DOMAIN replies : replies'[i] = replies[i]
             /\ \A i \in DOMAIN replies' :
                  i \in DOMAIN replies \/ \E j \in DOMAIN ts : replies'[i] = ts[j]
             /\ \A j \in DOMAIN ts : \E i \in DOMAIN replies' : replies'[i] = ts[j]
  <2>1. Len(ts) \in Nat /\ DOMAIN ts = 1 .. Len(ts)
    BY LenProperties
  <2>2. /\ replies' \in Seq(Answer) /\ DOMAIN replies' = 1 .. Len(replies) + Len(ts)
        /\ \A i \in 1 .. Len(replies) + Len(ts) :
             replies'[i] = IF i <= Len(replies) THEN replies[i] ELSE ts[i - Len(replies)]
    BY <1>1, <1>2, ConcatProperties, LenProperties
  <2>3. \A i \in DOMAIN replies' : i \in DOMAIN replies \/ i - Len(replies) \in DOMAIN ts
    BY <1>1, <2>1, <2>2
  <2>4. \A i \in DOMAIN replies : i \in DOMAIN replies' /\ replies'[i] = replies[i]
    BY <1>1, <2>1, <2>2
  <2>5. ASSUME NEW i \in DOMAIN replies', i \notin DOMAIN replies
        PROVE  \E j \in DOMAIN ts : replies'[i] = ts[j]
    <3>1. i - Len(replies) \in DOMAIN ts /\ replies'[i] = ts[i - Len(replies)]
      BY <1>1, <2>2, <2>3, <2>5
    <3>2. QED BY <3>1
  <2>6. ASSUME NEW j \in DOMAIN ts
        PROVE  \E i \in DOMAIN replies' : replies'[i] = ts[j]
    <3>1. /\ j + Len(replies) \in DOMAIN replies' /\ ~(j + Len(replies) <= Len(replies))
          /\ (j + Len(replies)) - Len(replies) = j
      BY <1>1, <2>1, <2>2
    <3>2. replies'[j + Len(replies)] = ts[j]
      BY <1>1, <2>1, <2>2, <3>1
    <3>3. QED BY <3>1, <3>2
  <2>7. QED BY <2>2, <2>4, <2>5, <2>6
<1>3. CASE replies' = replies \o rs /\ pc' = next
  BY <1>2, <1>3 DEF Reply
<1>4. CASE ~up /\ pc' = "exit" /\ \E n \in 0 .. Len(rs) - 1 : replies' = replies \o SubSeq(rs, 1, n)
  <2>1. PICK n \in 0 .. Len(rs) - 1 : replies' = replies \o SubSeq(rs, 1, n)
    BY <1>4
  <2>2. \A i \in 1 .. n : i \in DOMAIN rs /\ rs[i] \in Answer
    BY <1>1, ElementOfSeq
  <2>3. /\ SubSeq(rs, 1, n) \in Seq(Answer) /\ Len(SubSeq(rs, 1, n)) = n
        /\ \A i \in 1 .. n : SubSeq(rs, 1, n)[i] = rs[i]
    BY <1>1, <2>2, SubSeqProperties
  <2>4. DOMAIN SubSeq(rs, 1, n) = 1 .. n
    BY <2>3, LenProperties
  <2> DEFINE ts == SubSeq(rs, 1, n)
  <2>5. ts \in Seq(Answer) /\ replies' = replies \o ts
        /\ \A j \in DOMAIN ts : j \in DOMAIN rs /\ ts[j] = rs[j]
    BY <2>1, <2>2, <2>3, <2>4
  <2> HIDE DEF ts
  <2>6. /\ replies' \in Seq(Answer) /\ DOMAIN replies \subseteq DOMAIN replies'
        /\ \A i \in DOMAIN replies : replies'[i] = replies[i]
        /\ \A i \in DOMAIN replies' :
             i \in DOMAIN replies \/ \E j \in DOMAIN ts : replies'[i] = ts[j]
    BY <1>2, <2>5
  <2>7. \A i \in DOMAIN replies' :
          i \in DOMAIN replies \/ \E j \in DOMAIN rs : replies'[i] = rs[j]
    BY <2>5, <2>6
  <2>8. QED BY <1>4, <2>6, <2>7
<1>5. QED BY <1>3, <1>4 DEF Reply

-----------------------------------------------------------------------------
(* The messages: what is pending, received and replied to. *)

\* Nothing happens on the session connection, and to what came from it.
LEMMA MailKept ==
  ASSUME Mail, UNCHANGED <<said, replies, readyId, msg>>, Queue' = Queue,
         launched = "yes" => launched' = "yes"
  PROVE  /\ Mail' /\ ConfSent' = ConfSent /\ Unanswered' = Unanswered
         /\ ios' = ios => Lost' = Lost
         /\ (up' => up) => (AnsweredAtMostOnce => AnsweredAtMostOnce')
<1>1. Arrival' /\ ConfSent' = ConfSent /\ \A k : Pending(k)' = Pending(k)
  BY DEF Mail, Arrival, ConfSent, Pending
<1>2. Protocol' /\ Readiness' /\ Replying'
  BY <1>1 DEF Mail, Protocol, Readiness, Replying, Pending
<1>3. Unanswered' = Unanswered
  BY DEF Unanswered, Answered, Queue
<1>4. QED BY <1>1, <1>2, <1>3 DEF Mail, Lost, AnsweredAtMostOnce

\* Unanswered and ConfSent, by what is pending and what was replied.
LEMMA UnansweredDef ==
  /\ Unanswered = {k \in DOMAIN said : ~Answered(k) /\ ~Pending(k)}
  /\ Unanswered' = {k \in DOMAIN said' : ~Answered(k)' /\ ~Pending(k)'}
BY DEF Unanswered, Pending, Queue, Answered

\* The main thread receives on the session connection.
LEMMA TakeEffect ==
  ASSUME TypeOK, Arrival, Recv("session")
  PROVE  /\ Queue[1] \in Message /\ Queue[1].id \in Nat /\ 1 \in DOMAIN Queue
         /\ Queue[1].kind \notin Kinds =>
              Queue[1].id = 0 /\ Queue[1].kind \in {"empty", "value"}
         /\ Queue[1].kind \in Kinds =>
              /\ Queue[1].id \in DOMAIN said /\ said[Queue[1].id] = Queue[1].kind
              /\ Pending(Queue[1].id) /\ Queue[1].id # 0
         /\ \A k \in DOMAIN said : StillPending(k) <=> Pending(k) /\ k # Queue[1].id
         /\ \A k \in DOMAIN said : StillPending(k) => Queue[1].id < k
         /\ Arrival' /\ said' = said
         /\ \A i \in DOMAIN Queue' : i + 1 \in DOMAIN Queue /\ Queue'[i] = Queue[i + 1]
<1>1. /\ Len(Queue) >= 1 /\ 1 \in DOMAIN Queue /\ Queue[1] \in Message
      /\ DOMAIN Queue' = 1 .. Len(Queue) - 1
      /\ \A i \in DOMAIN Queue' : Queue'[i] = Queue[i + 1]
      /\ said' = said
  BY PopEffect DEF Queue, Conn
<1>2. /\ Len(Queue) \in Nat /\ DOMAIN Queue = 1 .. Len(Queue) /\ Queue[1].id \in Nat
      /\ DOMAIN said = 1 .. Len(said) /\ Len(said) \in Nat
      /\ \A k \in DOMAIN said : said[k] \in Kinds
      /\ \A i \in DOMAIN Queue : Queue[i].id \in Nat
  BY <1>1, Basics DEF Queue, Conn
<1> DEFINE m == Queue[1]
           q == Queue
           r == Queue'
<1>3. \A i \in DOMAIN r : i + 1 \in DOMAIN q /\ r[i] = q[i + 1]
  BY <1>1, <1>2
<1>4. \A i \in DOMAIN q : i = 1 \/ (i - 1 \in DOMAIN r /\ q[i] = r[i - 1])
  <2>1. \A i \in DOMAIN q : i = 1 \/ (i - 1 \in DOMAIN r /\ (i - 1) + 1 = i)
    BY <1>1, <1>2
  <2>2. QED BY <1>3, <2>1
<1> HIDE DEF q, r, m
<1>5. /\ \A i \in DOMAIN q :
           \/ q[i].id = 0 /\ q[i].kind \in {"empty", "value"}
           \/ q[i].id \in DOMAIN said /\ q[i].kind = said[q[i].id]
      /\ \A i, j \in DOMAIN q :
           i < j /\ q[i].id # 0 /\ q[j].id # 0 => q[i].id < q[j].id
  BY DEF Arrival, q
<1>6. (m.kind \notin Kinds => m.id = 0 /\ m.kind \in {"empty", "value"})
      /\ (m.kind \in Kinds => /\ m.id \in DOMAIN said /\ said[m.id] = m.kind
                              /\ (\E i \in DOMAIN q : q[i].id = m.id) /\ m.id # 0)
  <2>1. m = q[1] /\ 1 \in DOMAIN q
    BY <1>1 DEF m, q
  <2>2. \/ m.id = 0 /\ m.kind \in {"empty", "value"}
        \/ m.id \in DOMAIN said /\ m.kind = said[m.id]
    BY <1>5, <2>1
  <2>3. 0 \notin DOMAIN said
    BY <1>2
  <2>4. QED BY <1>2, <2>1, <2>2, <2>3 DEF Kinds
<1>7. \A i \in DOMAIN r : r[i].id # 0 => m.id < r[i].id
  <2> SUFFICES ASSUME NEW i \in DOMAIN r, r[i].id # 0 PROVE m.id < r[i].id
    OBVIOUS
  <2>1. i + 1 \in DOMAIN q /\ r[i] = q[i + 1] /\ 1 < i + 1 /\ 1 \in DOMAIN q /\ m = q[1]
    BY <1>1, <1>2, <1>3 DEF r, q, m
  <2>2. r[i].id \in Nat
    BY <1>2, <2>1 DEF q
  <2>3. QED BY <1>2, <1>5, <2>1, <2>2 DEF m
<1>8. \A k \in DOMAIN said :
        (\E i \in DOMAIN r : r[i].id = k) <=> (\E i \in DOMAIN q : q[i].id = k) /\ k # m.id
  <2> SUFFICES ASSUME NEW k \in DOMAIN said
               PROVE  (\E i \in DOMAIN r : r[i].id = k)
                         <=> (\E i \in DOMAIN q : q[i].id = k) /\ k # m.id
    OBVIOUS
  <2>1. k # 0 /\ k \in Nat
    BY <1>2
  <2>2. ASSUME NEW i \in DOMAIN r, r[i].id = k
        PROVE  (\E j \in DOMAIN q : q[j].id = k) /\ k # m.id
    <3>1. m.id < k
      BY <1>7, <2>1, <2>2
    <3>2. QED BY <1>2, <1>3, <2>1, <2>2, <3>1 DEF m
  <2>3. ASSUME NEW i \in DOMAIN q, q[i].id = k, k # m.id
        PROVE  \E j \in DOMAIN r : r[j].id = k
    <3>1. i # 1
      BY <2>3 DEF q, m
    <3>2. QED BY <1>4, <2>3, <3>1
  <2>4. QED BY <2>2, <2>3
<1>9. Arrival'
  <2>1. \A i \in DOMAIN r :
          \/ r[i].id = 0 /\ r[i].kind \in {"empty", "value"}
          \/ r[i].id \in DOMAIN said /\ r[i].kind = said[r[i].id]
    BY <1>3, <1>5
  <2>2. \A i, j \in DOMAIN r :
          i < j /\ r[i].id # 0 /\ r[j].id # 0 => r[i].id < r[j].id
    <3>1. \A i, j \in DOMAIN r : i < j => i + 1 < j + 1
      BY <1>1 DEF r
    <3>2. QED BY <1>3, <1>5, <3>1
  <2>3. QED BY <1>1, <2>1, <2>2 DEF Arrival, r
<1>10. /\ \A k \in DOMAIN said : StillPending(k) <=> Pending(k) /\ k # m.id
       /\ \A k \in DOMAIN said : StillPending(k) => m.id < k
  <2>1. 0 \notin DOMAIN said
    BY <1>2
  <2>2. QED BY <1>7, <1>8, <2>1 DEF Pending, StillPending, q, r
<1>11. QED BY <1>1, <1>2, <1>3, <1>6, <1>9, <1>10 DEF m, q, r, Pending

\* What was received is remembered and replied to, whatever the place.
LEMMA TakeKeepsMail ==
  ASSUME TypeOK, Mail, Recv("session"),
         msg' = msg \/ msg' = Queue[1],
         readyId' = IF Queue[1].kind = "ready" THEN Queue[1].id ELSE readyId,
         DOMAIN replies \subseteq DOMAIN replies',
         \A i \in DOMAIN replies : replies'[i] = replies[i],
         \A i \in DOMAIN replies' : i \notin DOMAIN replies =>
            /\ replies'[i].to \in DOMAIN said
            /\ replies'[i].to = Queue[1].id \/ replies'[i].to = readyId
            /\ replies'[i].what = "conf" <=> said[replies'[i].to] = "ready"
            /\ replies'[i].what = "conf" => Queue[1].kind = "logConf"
  PROVE  Mail'
<1> DEFINE m == Queue[1]
<1>1. /\ m.id \in Nat /\ said' = said /\ Arrival' /\ launched' = launched
      /\ m.kind \notin Kinds => m.id = 0 /\ m.kind \in {"empty", "value"}
      /\ m.kind \in Kinds => /\ m.id \in DOMAIN said /\ said[m.id] = m.kind
                             /\ Pending(m.id) /\ m.id # 0
      /\ \A k \in DOMAIN said : StillPending(k) <=> Pending(k) /\ k # m.id
  BY TakeEffect DEF Mail, Recv
<1> HIDE DEF m
<1>2. Readiness /\ Replying /\ Protocol
  BY DEF Mail
<1>3. Protocol'
  <2>1. ConfSent => ConfSent'
    BY DEF ConfSent
  <2>2. QED BY <1>1, <1>2, <2>1 DEF Protocol
<1>4. Readiness'
  <2>1. /\ ConfSent' => \E k \in DOMAIN said : said[k] = "logConf" /\ ~StillPending(k)
    <3>1. SUFFICES ASSUME ConfSent'
                   PROVE  \E k \in DOMAIN said : said[k] = "logConf" /\ ~StillPending(k)
      OBVIOUS
    <3>2. PICK i \in DOMAIN replies' : replies'[i].what = "conf"
      BY <3>1 DEF ConfSent
    <3>3. CASE i \in DOMAIN replies
      <4>1. ConfSent
        BY <3>2, <3>3 DEF ConfSent
      <4>2. QED BY <1>1, <1>2, <4>1 DEF Readiness
    <3>4. CASE i \notin DOMAIN replies
      <4>1. m.kind = "logConf"
        BY <3>2, <3>4 DEF m
      <4>2. m.id \in DOMAIN said /\ said[m.id] = "logConf" /\ ~StillPending(m.id)
        BY <1>1, <4>1 DEF Kinds
      <4>3. QED BY <4>2
    <3>5. QED BY <3>3, <3>4
  <2>2. readyId' = IF m.kind = "ready" THEN m.id ELSE readyId
    BY DEF m
  <2>3. /\ readyId' # 0 => /\ readyId' \in DOMAIN said /\ said[readyId'] = "ready"
                           /\ ~StillPending(readyId')
        /\ \A k \in DOMAIN said : said[k] = "ready" /\ ~StillPending(k) => readyId' = k
    <3>1. CASE m.kind = "ready"
      <4>1. readyId' = m.id /\ m.id \in DOMAIN said /\ said[m.id] = "ready" /\ ~StillPending(m.id)
        BY <1>1, <2>2, <3>1 DEF Kinds
      <4>2. \A k \in DOMAIN said : said[k] = "ready" => k = m.id
        <5>1. "ready" \notin Chatter
          BY ConstantsAssumption
        <5>2. QED BY <1>2, <4>1, <5>1 DEF Protocol
      <4>3. ~StillPending(readyId')
        BY <4>1
      <4>4. QED BY <4>1, <4>2, <4>3
    <3>2. CASE m.kind # "ready"
      <4>1. readyId' = readyId
        BY <2>2, <3>2
      <4>2. \A k \in DOMAIN said : said[k] = "ready" /\ ~StillPending(k) => ~Pending(k)
        <5>1. 0 \notin DOMAIN said
          BY Basics
        <5>2. QED BY <1>1, <3>2, <5>1
      <4>3. readyId # 0 => ~StillPending(readyId')
        BY <1>1, <1>2, <4>1 DEF Readiness
      <4>4. QED BY <1>2, <4>1, <4>2, <4>3 DEF Readiness
    <3>3. QED BY <3>1, <3>2
  <2>4. QED BY <1>1, <2>1, <2>3 DEF Readiness, Pending, StillPending
<1>5. Replying'
  <2>1. ASSUME NEW i \in DOMAIN replies'
        PROVE  /\ replies'[i].to \in DOMAIN said /\ ~StillPending(replies'[i].to)
               /\ replies'[i].what = "conf" <=> said[replies'[i].to] = "ready"
    <3>1. CASE i \in DOMAIN replies
      <4>1. /\ replies'[i] = replies[i]
            /\ replies[i].to \in DOMAIN said /\ ~Pending(replies[i].to)
            /\ replies[i].what = "conf" <=> said[replies[i].to] = "ready"
        BY <1>2, <3>1 DEF Replying
      <4>2. ~StillPending(replies'[i].to)
        BY <1>1, <4>1
      <4>3. QED BY <4>1, <4>2
    <3>2. CASE i \notin DOMAIN replies
      <4>1. /\ replies'[i].to \in DOMAIN said
            /\ replies'[i].to = m.id \/ replies'[i].to = readyId
            /\ replies'[i].what = "conf" <=> said[replies'[i].to] = "ready"
        BY <3>2 DEF m
      <4>2. replies'[i].to = m.id => ~StillPending(replies'[i].to)
        BY <1>1, <4>1
      <4>3. 0 \notin DOMAIN said
        BY Basics
      <4>4. replies'[i].to = readyId => ~Pending(readyId)
        BY <1>2, <4>1, <4>3 DEF Readiness
      <4>5. replies'[i].to = readyId => ~StillPending(replies'[i].to)
        BY <1>1, <4>1, <4>4
      <4>6. QED BY <4>1, <4>2, <4>5
    <3>3. QED BY <3>1, <3>2
  <2>2. msg'.kind \in Kinds => /\ msg'.id \in DOMAIN said /\ said[msg'.id] = msg'.kind
                               /\ ~StillPending(msg'.id)
    <3>1. CASE msg' = msg
      <4>1. msg.kind \in Kinds => /\ msg.id \in DOMAIN said /\ said[msg.id] = msg.kind
                                  /\ ~Pending(msg.id)
        BY <1>2 DEF Replying
      <4>2. msg.kind \in Kinds => ~StillPending(msg'.id)
        BY <1>1, <3>1, <4>1
      <4>3. QED BY <3>1, <4>1, <4>2
    <3>2. CASE msg' = m
      <4>1. m.kind \in Kinds => ~StillPending(msg'.id)
        BY <1>1, <3>2
      <4>2. QED BY <1>1, <3>2, <4>1
    <3>3. QED BY <3>1, <3>2 DEF m
  <2>3. QED BY <1>1, <2>1, <2>2 DEF Replying, Pending, StillPending
<1>6. QED BY <1>1, <1>3, <1>4, <1>5 DEF Mail

\* One more message waits on the session connection: an answer, or one that the
\* runner said just now.
LEMMA PushKeepsMail ==
  ASSUME TypeOK, Mail, NEW m \in Message, ToClient("session", m),
         UNCHANGED <<replies, readyId, msg>>,
         \/ /\ said' = said /\ m.id = 0 /\ m.kind \in {"empty", "value"}
            /\ launched' = launched
         \/ /\ m.kind \in Kinds /\ m.id = Len(said) + 1
            /\ said' = Append(said, m.kind) /\ launched = "yes" /\ launched' = "yes"
            /\ m.kind \in Chatter \/ ~Said(m.kind)
            /\ m.kind = "logConf" => Said("ready")
            /\ m.kind \in Verdicts => ConfSent
  PROVE  /\ Mail' /\ Unanswered' = Unanswered /\ ConfSent' = ConfSent
         /\ (up' => up) => (AnsweredAtMostOnce => AnsweredAtMostOnce')
         /\ \A k \in DOMAIN said : k \in DOMAIN said' /\ said'[k] = said[k]
         /\ \A k \in DOMAIN said' : k \in DOMAIN said \/ (k = m.id /\ StillPending(k))
<1> DEFINE q == Queue
           r == Queue'
           n == Len(Queue)
           h == Len(said)
<1>1. /\ n \in Nat /\ DOMAIN q = 1 .. n /\ DOMAIN r = 1 .. n + 1
      /\ \A i \in DOMAIN q : r[i] = q[i] /\ q[i].id \in Nat
      /\ r[n + 1] = m
  BY PushEffect, Basics DEF Queue, Conn
<1>2. /\ h \in Nat /\ DOMAIN said = 1 .. h /\ 0 \notin DOMAIN said
      /\ readyId \in Nat
  BY Basics
<1>3. \/ /\ said' = said /\ m.id = 0 /\ m.kind \in {"empty", "value"}
         /\ DOMAIN said' = 1 .. h
      \/ /\ m.kind \in Kinds /\ m.id = h + 1 /\ DOMAIN said' = 1 .. h + 1
         /\ said'[h + 1] = m.kind
  <2>1. ASSUME m.kind \in Kinds, said' = Append(said, m.kind)
        PROVE  DOMAIN said' = 1 .. h + 1 /\ said'[h + 1] = m.kind
    BY <2>1, AppendProperties, LenProperties DEF TypeOK
  <2>2. QED BY <1>2, <2>1
<1>4. \A k \in DOMAIN said : k \in DOMAIN said' /\ said'[k] = said[k]
  <2>1. CASE said' = said
    BY <2>1
  <2>2. CASE m.kind \in Kinds /\ said' = Append(said, m.kind)
    <3> DEFINE x == m.kind
    <3>1. said \in Seq(Kinds) /\ x \in Kinds /\ said' = Append(said, x)
      BY <2>2 DEF TypeOK
    <3> HIDE DEF x
    <3>2. \A k \in 1 .. Len(said) : said'[k] = said[k]
      BY <3>1, AppendProperties
    <3>3. QED BY <1>2, <1>3, <3>2
  <2>3. QED BY <2>1, <2>2
<1>5. Arrival /\ Protocol /\ Readiness /\ Replying
  BY DEF Mail
<1> HIDE DEF q, r, n, h
<1>6. \A k \in DOMAIN said' : k \in DOMAIN said \/ (k = m.id /\ k = h + 1 /\ m.kind \in Kinds)
  BY <1>2, <1>3
<1>7. /\ \A i \in DOMAIN q : \/ q[i].id = 0 /\ q[i].kind \in {"empty", "value"}
                             \/ q[i].id \in DOMAIN said /\ q[i].kind = said[q[i].id]
      /\ \A i, j \in DOMAIN q :
           i < j /\ q[i].id # 0 /\ q[j].id # 0 => q[i].id < q[j].id
  BY <1>5 DEF Arrival, q
<1>8. Arrival'
  <2>1. \A i \in DOMAIN r : i \in DOMAIN q \/ i = n + 1
    BY <1>1
  <2>2. \A i \in DOMAIN r : \/ r[i].id = 0 /\ r[i].kind \in {"empty", "value"}
                            \/ r[i].id \in DOMAIN said' /\ r[i].kind = said'[r[i].id]
    <3>1. \/ m.id = 0 /\ m.kind \in {"empty", "value"}
          \/ m.id \in DOMAIN said' /\ m.kind = said'[m.id]
      BY <1>2, <1>3
    <3>2. QED BY <1>1, <1>4, <1>7, <2>1, <3>1
  <2>3. ASSUME NEW i \in DOMAIN r, NEW j \in DOMAIN r, i < j, r[i].id # 0, r[j].id # 0
        PROVE  r[i].id < r[j].id
    <3>1. i \in DOMAIN q /\ r[i] = q[i]
      <4>1. i # n + 1
        BY <1>1, <2>1, <2>3
      <4>2. QED BY <1>1, <2>1, <4>1
    <3>2. CASE j \in DOMAIN q
      BY <1>1, <1>7, <2>3, <3>1, <3>2
    <3>3. CASE j = n + 1
      <4>1. m.id = h + 1
        BY <1>1, <1>3, <2>3, <3>3
      <4>2. q[i].id \in 1 .. h
        BY <1>2, <1>7, <2>3, <3>1
      <4>3. QED BY <1>1, <1>2, <3>1, <3>3, <4>1, <4>2
    <3>4. QED BY <2>1, <3>2, <3>3
  <2>4. QED BY <2>2, <2>3 DEF Arrival, r
<1>9. /\ \A k \in DOMAIN said : StillPending(k) <=> Pending(k)
      /\ \A k \in DOMAIN said' : k \in DOMAIN said \/ (k = m.id /\ StillPending(k))
  <2>1. \A i \in DOMAIN r : i \in DOMAIN q \/ i = n + 1
    BY <1>1
  <2>2. \A i \in DOMAIN q : i \in DOMAIN r
    BY <1>1
  <2>3. n + 1 \in DOMAIN r
    BY <1>1
  <2>4. m.id \notin DOMAIN said
    BY <1>2, <1>3
  <2>5. \A k \in DOMAIN said :
          (\E i \in DOMAIN r : r[i].id = k) <=> (\E i \in DOMAIN q : q[i].id = k)
    BY <1>1, <2>1, <2>2, <2>4
  <2>6. \E i \in DOMAIN r : r[i].id = m.id
    BY <1>1, <2>3
  <2>7. QED BY <1>6, <2>5, <2>6 DEF Pending, StillPending, q, r
<1>10. /\ ConfSent' = ConfSent /\ \A k : Answered(k)' <=> Answered(k)
       /\ (up' => up) => (AnsweredAtMostOnce => AnsweredAtMostOnce')
  BY DEF ConfSent, Answered, AnsweredAtMostOnce
<1>11. Protocol'
  <2>1. CASE said' = said
    BY <1>5, <1>10, <2>1 DEF Protocol
  <2>2. CASE /\ m.kind \in Kinds /\ m.id = Len(said) + 1
             /\ said' = Append(said, m.kind) /\ launched = "yes" /\ launched' = "yes"
             /\ m.kind \in Chatter \/ ~Said(m.kind)
             /\ m.kind = "logConf" => Said("ready")
             /\ m.kind \in Verdicts => ConfSent
    <3>1. said'[h + 1] = m.kind /\ \A k \in DOMAIN said' : k \in DOMAIN said \/ k = h + 1
      BY <1>3, <1>6, <2>2, <1>2
    <3>2. \A j \in DOMAIN said : j < h + 1
      BY <1>2
    <3>3. \A j, k \in DOMAIN said' : said'[j] = said'[k] /\ said'[j] \notin Chatter => j = k
      <4>1. \A j \in DOMAIN said : said[j] = m.kind => m.kind \in Chatter
        BY <2>2 DEF Said
      <4>2. \A j, k \in DOMAIN said : said[j] = said[k] /\ said[j] \notin Chatter => j = k
        BY <1>5 DEF Protocol
      <4>3. QED BY <1>4, <3>1, <4>1, <4>2
    <3>4. \A k \in DOMAIN said' :
            said'[k] = "logConf" => \E j \in DOMAIN said' : j < k /\ said'[j] = "ready"
      <4>1. \A k \in DOMAIN said :
              said[k] = "logConf" => \E j \in DOMAIN said : j < k /\ said[j] = "ready"
        BY <1>5 DEF Protocol
      <4>2. m.kind = "logConf" => \E j \in DOMAIN said : said[j] = "ready"
        BY <2>2 DEF Said
      <4>3. QED BY <1>4, <3>1, <3>2, <4>1, <4>2
    <3>5. \A k \in DOMAIN said' : said'[k] \in Verdicts => ConfSent
      <4>1. \A k \in DOMAIN said : said[k] \in Verdicts => ConfSent
        BY <1>5 DEF Protocol
      <4>2. QED BY <1>4, <2>2, <3>1, <4>1
    <3>6. QED BY <1>10, <2>2, <3>3, <3>4, <3>5 DEF Protocol, Verdicts
  <2>3. QED BY <2>1, <2>2
<1>12. Readiness'
  <2>1. readyId' # 0 => /\ readyId' \in DOMAIN said' /\ said'[readyId'] = "ready"
                        /\ ~StillPending(readyId')
    BY <1>4, <1>5, <1>9 DEF Readiness
  <2>2. \A k \in DOMAIN said' : said'[k] = "ready" /\ ~StillPending(k) => readyId' = k
    BY <1>4, <1>5, <1>9 DEF Readiness
  <2>3. ConfSent' => \E k \in DOMAIN said' : said'[k] = "logConf" /\ ~StillPending(k)
    <3>1. ConfSent => \E k \in DOMAIN said : said[k] = "logConf" /\ ~Pending(k)
      BY <1>5 DEF Readiness
    <3>2. QED BY <1>4, <1>9, <1>10, <3>1
  <2>4. QED BY <2>1, <2>2, <2>3 DEF Readiness, Pending, StillPending
<1>13. Replying'
  <2>1. \A i \in DOMAIN replies :
          /\ replies[i].to \in DOMAIN said' /\ ~StillPending(replies[i].to)
          /\ replies[i].what = "conf" <=> said'[replies[i].to] = "ready"
    BY <1>4, <1>5, <1>9 DEF Replying
  <2>2. msg.kind \in Kinds => /\ msg.id \in DOMAIN said' /\ said'[msg.id] = msg.kind
                              /\ ~StillPending(msg.id)
    BY <1>4, <1>5, <1>9 DEF Replying
  <2>3. QED BY <2>1, <2>2 DEF Replying, Pending, StillPending
<1>14. Unanswered' = Unanswered
  <2>1. \A k \in DOMAIN said' : Pending(k)' <=> StillPending(k)
    BY DEF Pending, StillPending
  <2>2. Unanswered' = {k \in DOMAIN said' : ~Answered(k) /\ ~StillPending(k)}
    BY <1>10, <2>1, UnansweredDef DEF Answered, StillPending, Pending
  <2>3. QED BY <1>4, <1>9, <2>2, UnansweredDef
<1>15. QED BY <1>4, <1>8, <1>9, <1>10, <1>11, <1>12, <1>13, <1>14 DEF Mail

\* The loop goes on after the connection closed: the last message is replied to
\* once more.
LEMMA AgainKeepsMail ==
  ASSUME TypeOK, Mail, Starting, LoopFails
  PROVE  /\ Mail' /\ ~up /\ ~up' /\ Queue' = Queue /\ said' = said /\ ConfSent' = ConfSent
         /\ \A k \in DOMAIN said : Answered(k) => Answered(k)'
         /\ pc' \in {"loop", "exit"}
<1>1. /\ ~up /\ up' = up /\ Queue' = Queue /\ pc = "loop"
      /\ UNCHANGED <<said, launched, ios, readyId, msg, started>>
  BY DEF LoopFails, RecvFails, netVars, Queue
<1>2. Arrival /\ Protocol /\ Readiness /\ Replying
  BY DEF Mail
<1>3. /\ DOMAIN replies \subseteq DOMAIN replies'
      /\ \A i \in DOMAIN replies : replies'[i] = replies[i]
      /\ \A i \in DOMAIN replies' :
           i \in DOMAIN replies \/ (/\ msg.kind \in Kinds /\ replies'[i].to = msg.id
                                    /\ replies'[i].what = "ack")
      /\ pc' \in {"loop", "exit"}
  <2>1. CASE msg.kind \notin Kinds
    BY <1>1, <2>1 DEF LoopFails
  <2>2. CASE msg.kind \in Kinds
    <3>1. Reply(Ack(msg.id), "loop")
      BY <2>2 DEF LoopFails
    <3>2. [to |-> msg.id, what |-> "ack"] \in Answer
      BY <1>2, <2>2, Basics DEF Answer, Replying
    <3>3. /\ Ack(msg.id) \in Seq(Answer) /\ DOMAIN Ack(msg.id) = {1}
          /\ Ack(msg.id)[1] = [to |-> msg.id, what |-> "ack"]
      <4> DEFINE a == [to |-> msg.id, what |-> "ack"]
      <4> HIDE DEF a, Answer
      <4>1. <<a>> \in Seq(Answer) /\ DOMAIN <<a>> = {1} /\ <<a>>[1] = a
        BY <3>2 DEF a
      <4>2. QED BY <4>1 DEF a, Ack
    <3>4. QED BY <2>2, <3>1, <3>3, ReplyEffect
  <2>3. QED BY <2>1, <2>2
<1>4. /\ ConfSent' = ConfSent
      /\ \A k \in DOMAIN said : Answered(k) => Answered(k)'
  BY <1>3 DEF ConfSent, Answered
<1>5. Arrival' /\ Protocol'
  BY <1>1, <1>2, <1>4 DEF Arrival, Protocol
<1>6. Readiness'
  BY <1>1, <1>2, <1>4 DEF Readiness, Pending
<1>7. Replying'
  <2>1. \A i \in DOMAIN replies' :
          /\ replies'[i].to \in DOMAIN said /\ ~Pending(replies'[i].to)
          /\ replies'[i].what = "conf" <=> said[replies'[i].to] = "ready"
    <3>1. msg.kind \in Kinds => /\ msg.id \in DOMAIN said /\ ~Pending(msg.id)
                                /\ said[msg.id] # "ready"
      BY <1>1, <1>2 DEF Replying, Starting, Late
    <3>2. QED BY <1>2, <1>3, <3>1 DEF Replying
  <2>2. QED BY <1>1, <1>2, <2>1 DEF Replying, Pending
<1>8. QED BY <1>1, <1>3, <1>4, <1>5, <1>6, <1>7 DEF Mail

-----------------------------------------------------------------------------
(* The steps of the daemons, the runner and the network. *)

\* The answers of the daemons on the connections the runner does not use.
LEMMA AnswerStep ==
  ASSUME Inv, NEW c \in {"control", "process"}, AnswerCall(c)
  PROVE  Inv'
<1>0. /\ TypeOK /\ Mail /\ Places /\ AnsweredAtMostOnce /\ c \in Conn /\ c # "session"
      /\ asked \in [Conn -> BOOLEAN]
  BY DEF Inv, TypeOK, Conn
<1>1. PICK kind \in {"empty", "value"} : ToClient(c, [kind |-> kind, id |-> 0])
  BY DEF AnswerCall
<1> DEFINE m == [kind |-> kind, id |-> 0]
<1>2. m \in Message
  BY DEF Message
<1> HIDE DEF m
<1>3. /\ inbox' \in [Conn -> Seq(Message)] /\ Len(inbox'[c]) = Len(inbox[c]) + 1
      /\ \A d \in Conn : d # c => inbox'[d] = inbox[d]
  BY <1>0, <1>1, <1>2, PushEffect DEF m
<1>4. /\ asked[c] /\ asked' \in [Conn -> BOOLEAN] /\ ~asked'[c]
      /\ \A d \in Conn : d # c => asked'[d] = asked[d]
      /\ UNCHANGED <<said, output, up, thread, ios, pc, readyId, msg, replies, started>>
  BY <1>0 DEF AnswerCall, mainVars
<1>5. /\ c = "control" => authorized' = (launched = "yes") /\ launched' = launched
      /\ c = "process" => authorized' = authorized /\ launched' \in {"yes", "failed"}
  BY <1>0 DEF AnswerCall
<1>6. TypeOK'
  BY <1>0, <1>3, <1>4, <1>5 DEF TypeOK
<1>7. Queue' = Queue /\ (c = "process" => launched = "no" /\ pc = "launch2")
  BY <1>0, <1>3, <1>4 DEF Queue, Conn, Places, Launching
<1>8. /\ Mail' /\ ConfSent' = ConfSent /\ Unanswered' = Unanswered /\ Lost' = Lost
      /\ AnsweredAtMostOnce'
  BY <1>0, <1>4, <1>5, <1>7, MailKept
<1>9. Launching'
  BY <1>0, <1>3, <1>4, <1>5, <1>7 DEF Places, Launching, Conn, Early
<1>10. Controlling'
  <2>1. CASE c = "control"
    <3>1. Len(inbox["control"]) = 0
      BY <1>0, <1>4, <2>1, EmptySeq DEF Places, Controlling
    <3>2. Len(inbox'["control"]) = 1
      BY <1>3, <2>1, <3>1
    <3>3. Prepared'
      <4>1. launched' = launched /\ authorized' = (launched = "yes")
        BY <1>5, <2>1
      <4>2. QED BY <4>1 DEF Prepared
    <3>4. QED BY <1>0, <1>4, <2>1, <3>2, <3>3 DEF Places, Controlling
  <2>2. CASE c = "process"
    <3>1. inbox'["control"] = inbox["control"] /\ asked'["control"] = asked["control"]
      BY <1>3, <1>4, <2>2 DEF Conn
    <3>2. pc = "launch2"
      BY <1>7, <2>2
    <3>3. QED BY <1>0, <1>4, <3>1, <3>2 DEF Places, Controlling, Late
  <2>3. QED BY <2>1, <2>2
<1>11. Answering'
  <2>1. asked'["session"] = asked["session"]
    BY <1>0, <1>4 DEF Conn
  <2>2. QED BY <1>0, <1>4, <1>7, <2>1 DEF Places, Answering
<1>12. Starting'
  <2>1. CASE c = "control"
    <3>1. ConfSent => launched = "yes"
      <4>1. ConfSent => \E k \in DOMAIN said : TRUE
        BY <1>0 DEF Mail, Readiness
      <4>2. ConfSent => said # <<>>
        BY <4>1
      <4>3. QED BY <1>0, <4>2 DEF Mail, Protocol
    <3>2. QED BY <1>0, <1>4, <1>5, <1>8, <2>1, <3>1 DEF Places, Starting
  <2>2. CASE c = "process"
    BY <1>0, <1>4, <1>5, <1>8, <2>2 DEF Places, Starting
  <2>3. QED BY <2>1, <2>2
<1>13. Keeping'
  BY <1>0, <1>4, <1>8 DEF Places, Keeping
<1>14. QED BY <1>6, <1>8, <1>9, <1>10, <1>11, <1>12, <1>13 DEF Inv, Places

\* The answers on the session connection.
LEMMA SessionAnswerStep == Inv /\ AnswerCall("session") => Inv'
<1> SUFFICES ASSUME Inv, AnswerCall("session") PROVE Inv'
  OBVIOUS
<1>0. /\ TypeOK /\ Mail /\ Places /\ AnsweredAtMostOnce /\ "session" \in Conn
      /\ asked \in [Conn -> BOOLEAN]
  BY DEF Inv, TypeOK, Conn
<1>1. PICK kind \in {"empty", "value"} : ToClient("session", [kind |-> kind, id |-> 0])
  BY DEF AnswerCall
<1> DEFINE m == [kind |-> kind, id |-> 0]
<1>2. m \in Message /\ m.id = 0 /\ m.kind \in {"empty", "value"} /\ ToClient("session", m)
  BY <1>1 DEF Message
<1> HIDE DEF m
<1>3. /\ inbox' \in [Conn -> Seq(Message)] /\ Len(Queue') = Len(Queue) + 1
      /\ \A d \in Conn : d # "session" => inbox'[d] = inbox[d]
  BY <1>0, <1>2, PushEffect DEF Queue
<1>4. /\ asked["session"] /\ asked' \in [Conn -> BOOLEAN] /\ ~asked'["session"] /\ up
      /\ \A d \in Conn : d # "session" => asked'[d] = asked[d]
      /\ UNCHANGED <<said, output, up, thread, launched, authorized, ios, pc,
                     readyId, msg, replies, started>>
  BY <1>0 DEF AnswerCall, mainVars
<1>5. TypeOK'
  BY <1>0, <1>3, <1>4 DEF TypeOK
<1>6. /\ Mail' /\ ConfSent' = ConfSent /\ Unanswered' = Unanswered /\ AnsweredAtMostOnce'
  <2>1. UNCHANGED <<replies, readyId, msg>> /\ said' = said /\ launched' = launched
    BY <1>4
  <2>2. /\ Mail' /\ Unanswered' = Unanswered /\ ConfSent' = ConfSent
        /\ (up' => up) => (AnsweredAtMostOnce => AnsweredAtMostOnce')
    BY <1>0, <1>2, <2>1, PushKeepsMail
  <2>3. QED BY <1>0, <1>4, <2>2
<1>7. Launching' /\ Controlling'
  <2>1. /\ asked'["process"] = asked["process"] /\ asked'["control"] = asked["control"]
        /\ inbox'["process"] = inbox["process"] /\ inbox'["control"] = inbox["control"]
    BY <1>3, <1>4 DEF Conn
  <2>2. QED BY <1>0, <1>4, <2>1 DEF Places, Launching, Controlling, Prepared
<1>8. Answering'
  <2>1. pc \notin (SettingUp \cup InWait) \ {"session2"} /\ pc # "crashed"
    BY <1>0, <1>4 DEF Places, Answering
  <2>2. pc = "session2" => Len(Queue) = 0
    BY <1>0, <1>4, EmptySeq DEF Places, Answering
  <2>3. QED BY <1>3, <1>4, <2>1, <2>2 DEF Answering
<1>9. Starting' /\ Keeping'
  BY <1>0, <1>4, <1>6 DEF Places, Starting, Keeping, Lost
<1>10. QED BY <1>5, <1>6, <1>7, <1>8, <1>9 DEF Inv, Places

\* The runner says one thing more; that waits to be received.
LEMMA RunnerStep == Inv /\ Runner => Inv'
<1> SUFFICES ASSUME Inv, Runner PROVE Inv'
  OBVIOUS
<1>0. /\ TypeOK /\ Mail /\ Places /\ AnsweredAtMostOnce /\ "session" \in Conn
      /\ Len(said) \in Nat
  BY Basics DEF Inv, Conn
<1>1. PICK kind \in {"caps", "request", "ready", "logConf"} \cup Verdicts \cup Chatter :
        /\ IF kind \in Chatter THEN Cardinality(Chats) < MaxChatter ELSE ~Said(kind)
        /\ kind = "logConf" => Said("ready")
        /\ kind \in Verdicts =>
             /\ \A v \in Verdicts : ~Said(v)
             /\ \E k \in DOMAIN said : said[k] = "ready" /\ GivenConf(k)
        /\ said' = Append(said, kind)
        /\ ToClient("session", [kind |-> kind, id |-> Len(said) + 1])
  BY DEF Runner
<1> DEFINE m == [kind |-> kind, id |-> Len(said) + 1]
<1>2. kind \in Kinds
  BY ConstantsAssumption DEF Kinds, Verdicts
<1>3. m \in Message /\ m.id = Len(said) + 1 /\ m.kind = kind
  BY <1>0, <1>2 DEF Message
<1>4. kind \in Verdicts => ConfSent
  BY <1>1 DEF GivenConf, ConfSent
<1>5. /\ launched = "yes" /\ up
      /\ UNCHANGED <<asked, launched, authorized, output, up, thread, ios, pc, readyId,
                     msg, replies, started>>
  BY DEF Runner, mainVars
<1>6. /\ kind \in Chatter \/ ~Said(kind)
      /\ kind = "logConf" => Said("ready")
      /\ said' = Append(said, kind) /\ ToClient("session", m)
  BY <1>1
<1> HIDE DEF m
<1>7. /\ Mail' /\ ConfSent' = ConfSent /\ Unanswered' = Unanswered /\ AnsweredAtMostOnce'
      /\ \A k \in DOMAIN said : k \in DOMAIN said' /\ said'[k] = said[k]
  <2>1. /\ UNCHANGED <<replies, readyId, msg>> /\ said' = Append(said, m.kind)
        /\ m.kind \in Kinds /\ m.id = Len(said) + 1 /\ launched = "yes" /\ launched' = "yes"
        /\ m.kind \in Chatter \/ ~Said(m.kind)
        /\ m.kind = "logConf" => Said("ready")
        /\ m.kind \in Verdicts => ConfSent
    BY <1>2, <1>3, <1>4, <1>5, <1>6
  <2>2. /\ Mail' /\ Unanswered' = Unanswered /\ ConfSent' = ConfSent
        /\ (up' => up) => (AnsweredAtMostOnce => AnsweredAtMostOnce')
        /\ \A k \in DOMAIN said : k \in DOMAIN said' /\ said'[k] = said[k]
    BY <1>0, <1>3, <1>6, <2>1, PushKeepsMail
  <2>3. QED BY <1>0, <1>5, <2>2
<1>8. /\ inbox' \in [Conn -> Seq(Message)]
      /\ \A d \in Conn : d # "session" => inbox'[d] = inbox[d]
  BY <1>0, <1>3, <1>6, PushEffect
<1>9. said' \in Seq(Kinds) /\ Len(said') = Len(said) + 1
  BY <1>0, <1>2, <1>6, AppendProperties DEF TypeOK
<1>10. replies' \in Seq([to: 0 .. Len(said'), what: {"ack", "conf"}])
  <2> DEFINE T == [to: 0 .. Len(said), what: {"ack", "conf"}]
             U == [to: 0 .. Len(said'), what: {"ack", "conf"}]
  <2>1. replies \in Seq(T) /\ T \subseteq U
    BY <1>0, <1>9 DEF TypeOK
  <2> HIDE DEF T, U
  <2>2. replies \in Seq(U)
    BY <2>1, SeqMonotonic
  <2>3. QED BY <1>5, <2>2 DEF U
<1>11. TypeOK'
  BY <1>0, <1>5, <1>8, <1>9, <1>10 DEF TypeOK
<1>12. Launching' /\ Controlling'
  <2>1. inbox'["process"] = inbox["process"] /\ inbox'["control"] = inbox["control"]
    BY <1>8 DEF Conn
  <2>2. QED BY <1>0, <1>5, <2>1 DEF Places, Launching, Controlling, Prepared
<1>13. Answering'
  <2>1. pc # "session2"
    BY <1>0, <1>5 DEF Places, Launching, Early
  <2>2. \A i \in DOMAIN Queue' : \/ i \in DOMAIN Queue /\ Queue'[i] = Queue[i]
                                 \/ Queue'[i].kind \in Kinds
    <3>1. /\ DOMAIN Queue' = 1 .. Len(Queue) + 1 /\ DOMAIN Queue = 1 .. Len(Queue)
          /\ Len(Queue) \in Nat
          /\ \A i \in DOMAIN Queue : Queue'[i] = Queue[i]
          /\ Queue'[Len(Queue) + 1] = m
      BY <1>0, <1>3, <1>6, PushEffect, Basics DEF Queue
    <3>2. \A i \in DOMAIN Queue' : i \in DOMAIN Queue \/ i = Len(Queue) + 1
      BY <3>1
    <3>3. QED BY <1>2, <1>3, <3>1, <3>2
  <2>3. QED BY <1>0, <1>5, <2>1, <2>2 DEF Places, Answering
<1>14. Starting'
  BY <1>0, <1>5, <1>7 DEF Places, Starting
<1>15. Keeping'
  <2>1. Unanswered \subseteq DOMAIN said
    BY DEF Unanswered
  <2>2. Lost' = Lost
    BY <1>5, <1>7, <2>1 DEF Lost
  <2>3. QED BY <1>0, <1>5, <1>7, <2>2 DEF Places, Keeping
<1>16. QED BY <1>7, <1>11, <1>12, <1>13, <1>14, <1>15 DEF Inv, Places

\* A line of output, and the end of the session connection.
LEMMA NetworkStep == Inv /\ (ProcessWrites \/ SessionCloses) => Inv'
<1> SUFFICES ASSUME Inv, ProcessWrites \/ SessionCloses PROVE Inv'
  OBVIOUS
<1>0. TypeOK /\ Mail /\ Places /\ AnsweredAtMostOnce
  BY DEF Inv
<1>1. /\ inbox' \in [Conn -> Seq(Message)] /\ output' \in 0 .. MaxOutput /\ up' \in BOOLEAN
      /\ \A d \in Conn : d # "process" => inbox'[d] = inbox[d]
      /\ inbox'["process"] = inbox["process"] \/ launched = "yes"
      /\ up' => up
      /\ UNCHANGED <<asked, said, launched, authorized, thread, ios, pc, readyId, msg,
                     replies, started>>
  <2>1. CASE ProcessWrites
    <3> DEFINE m == [kind |-> "output", id |-> 0]
    <3>1. m \in Message /\ "process" \in Conn /\ ToClient("process", m)
      BY <2>1 DEF Message, Conn, ProcessWrites
    <3> HIDE DEF m
    <3>2. /\ inbox' \in [Conn -> Seq(Message)]
          /\ \A d \in Conn : d # "process" => inbox'[d] = inbox[d]
      BY <1>0, <3>1, PushEffect
    <3>3. output' \in 0 .. MaxOutput /\ up' = up
      BY <1>0, <2>1, ConstantsAssumption DEF ProcessWrites, TypeOK
    <3>4. QED BY <1>0, <2>1, <3>2, <3>3 DEF ProcessWrites, TypeOK, mainVars
  <2>2. CASE SessionCloses
    BY <1>0, <2>2 DEF SessionCloses, TypeOK, mainVars
  <2>3. QED BY <2>1, <2>2
<1>2. Queue' = Queue /\ inbox'["control"] = inbox["control"]
  BY <1>1 DEF Queue, Conn
<1>3. /\ Mail' /\ ConfSent' = ConfSent /\ Unanswered' = Unanswered /\ Lost' = Lost
      /\ AnsweredAtMostOnce'
  BY <1>0, <1>1, <1>2, MailKept
<1>4. TypeOK'
  BY <1>0, <1>1 DEF TypeOK
<1>5. Launching' /\ Controlling'
  BY <1>0, <1>1, <1>2 DEF Places, Launching, Controlling, Prepared
<1>6. Answering' /\ Starting' /\ Keeping'
  BY <1>0, <1>1, <1>2, <1>3 DEF Places, Answering, Starting, Keeping
<1>7. QED BY <1>3, <1>4, <1>5, <1>6 DEF Inv, Places

-----------------------------------------------------------------------------
(* The calls of the main thread before and while it waits for the bundle. *)

\* A call is sent on the control connection, where nothing is left to receive.
LEMMA ControlSends ==
  ASSUME Inv, CallSend("control"), UNCHANGED <<ios, readyId, msg, replies, started, thread>>,
         \/ pc = "control" /\ pc' = "control2"
         \/ pc = "pid" /\ pc' = "pid2"
         \/ pc = "authorize" /\ pc' = "authorize2"
  PROVE  Inv'
<1>0. TypeOK /\ Mail /\ Places /\ AnsweredAtMostOnce /\ asked \in [Conn -> BOOLEAN]
  BY DEF Inv, TypeOK
<1>1. /\ asked' = [asked EXCEPT !["control"] = TRUE]
      /\ UNCHANGED <<inbox, said, launched, authorized, output, up>>
  BY DEF CallSend
<1>2. /\ asked' \in [Conn -> BOOLEAN] /\ asked'["process"] = asked["process"]
      /\ asked'["session"] = asked["session"] /\ Queue' = Queue
  BY <1>0, <1>1 DEF Conn, Queue
<1>3. /\ Mail' /\ ConfSent' = ConfSent /\ Unanswered' = Unanswered /\ Lost' = Lost
      /\ AnsweredAtMostOnce'
  BY <1>0, <1>1, <1>2, MailKept
<1>4. TypeOK'
  BY <1>0, <1>1, <1>2 DEF TypeOK
<1>5. Launching'
  BY <1>0, <1>1, <1>2 DEF Places, Launching, Early
<1>6. Controlling'
  BY <1>0, <1>1, <1>2 DEF Places, Controlling, Prepared, Late
<1>7. Answering'
  BY <1>0, <1>1, <1>2 DEF Places, Answering, SettingUp, InWait, Early
<1>8. Starting'
  BY <1>0, <1>1, <1>3 DEF Places, Starting, Late
<1>9. Keeping'
  BY <1>0, <1>3 DEF Places, Keeping, SettingUp, InWait, Early, Late
<1>10. QED BY <1>3, <1>4, <1>5, <1>6, <1>7, <1>8, <1>9 DEF Inv, Places

\* The answer on the control connection is received.
LEMMA ControlReceives ==
  ASSUME Inv, Recv("control"), UNCHANGED <<ios, readyId, msg, replies, started, thread>>,
         \/ pc = "control2" /\ pc' = "session"
         \/ pc = "pid2" /\ pc' = "wait"
         \/ pc = "authorize2" /\ pc' = "wait"
  PROVE  Inv'
<1>0. TypeOK /\ Mail /\ Places /\ AnsweredAtMostOnce /\ "control" \in Conn
  BY DEF Inv, Conn
<1>1. /\ inbox' \in [Conn -> Seq(Message)] /\ Len(inbox["control"]) >= 1
      /\ Len(inbox'["control"]) = Len(inbox["control"]) - 1
      /\ inbox'["process"] = inbox["process"] /\ Queue' = Queue
      /\ UNCHANGED <<asked, said, launched, authorized, output, up>>
  BY <1>0, PopEffect DEF Conn, Queue
<1>2. /\ ~asked["control"] /\ inbox["control"] # <<>> /\ Prepared
      /\ Len(inbox["control"]) \in Nat
  BY <1>0, <1>1, Basics DEF Recv, Places, Controlling
<1>3. Len(inbox'["control"]) = 0 /\ inbox'["control"] = <<>>
  <2> DEFINE n == Len(inbox["control"])
  <2>0. n <= 1
    BY <1>0 DEF Places, Controlling
  <2>1. Len(inbox'["control"]) = 0
    <3>1. n \in Nat /\ n >= 1 /\ Len(inbox'["control"]) = n - 1
      BY <1>1, <1>2
    <3> HIDE DEF n
    <3>2. QED BY <2>0, <3>1
  <2>2. inbox'["control"] \in Seq(Message)
    BY <1>1 DEF Conn
  <2>3. QED BY <2>1, <2>2, EmptySeq
<1>4. /\ Mail' /\ ConfSent' = ConfSent /\ Unanswered' = Unanswered /\ Lost' = Lost
      /\ AnsweredAtMostOnce'
  BY <1>0, <1>1, MailKept
<1>5. TypeOK'
  BY <1>0, <1>1 DEF TypeOK
<1>6. Launching'
  <2>1. pc' = "session" => pc \in Early
    BY DEF Early
  <2>2. pc' \in Early => pc' = "session"
    BY DEF Early
  <2>3. pc # "launch2"
    OBVIOUS
  <2>4. QED BY <1>0, <1>1, <2>1, <2>2, <2>3 DEF Places, Launching
<1>7. Controlling'
  BY <1>0, <1>1, <1>2, <1>3 DEF Places, Controlling, Prepared, Late
<1>8. Answering'
  BY <1>0, <1>1 DEF Places, Answering, SettingUp, InWait, Early
<1>9. Starting'
  BY <1>0, <1>1, <1>4 DEF Places, Starting, Late
<1>10. Keeping'
  BY <1>0, <1>4 DEF Places, Keeping, SettingUp, InWait, Early, Late
<1>11. QED BY <1>4, <1>5, <1>6, <1>7, <1>8, <1>9, <1>10 DEF Inv, Places

\* launchTestIos11 has no call here.
LEMMA ControlSkipped ==
  ASSUME Inv, ios = 11, pc = "control", pc' = "session", UNCHANGED netVars, KeepMain
  PROVE  Inv'
<1>0. TypeOK /\ Mail /\ Places /\ AnsweredAtMostOnce
  BY DEF Inv
<1>1. /\ UNCHANGED <<asked, inbox, said, launched, authorized, output, up>>
      /\ UNCHANGED <<ios, readyId, msg, replies, started, thread>> /\ Queue' = Queue
  BY DEF netVars, KeepMain, Queue
<1>2. /\ Mail' /\ ConfSent' = ConfSent /\ Unanswered' = Unanswered /\ Lost' = Lost
      /\ AnsweredAtMostOnce'
  BY <1>0, <1>1, MailKept
<1>3. TypeOK'
  BY <1>0, <1>1 DEF TypeOK
<1>4. Launching' /\ Controlling'
  BY <1>0, <1>1 DEF Places, Launching, Controlling, Prepared, Early, Late
<1>5. Answering' /\ Starting' /\ Keeping'
  BY <1>0, <1>1, <1>2
     DEF Places, Answering, Starting, Keeping, SettingUp, InWait, Early, Late
<1>6. QED BY <1>2, <1>3, <1>4, <1>5 DEF Inv, Places

\* The two calls that set the session up, before the runner exists.
LEMMA SessionSends ==
  ASSUME Inv, CallSend("session"), pc = "session", pc' = "session2", KeepMain
  PROVE  Inv'
<1>0. /\ TypeOK /\ Mail /\ Places /\ AnsweredAtMostOnce /\ asked \in [Conn -> BOOLEAN]
      /\ "session" \in Conn
  BY DEF Inv, TypeOK, Conn
<1>1. /\ asked' = IF ~up THEN asked ELSE [asked EXCEPT !["session"] = TRUE]
      /\ UNCHANGED <<inbox, said, launched, authorized, output, up>>
      /\ UNCHANGED <<ios, readyId, msg, replies, started, thread>>
  BY DEF CallSend, KeepMain
<1>2. /\ asked' \in [Conn -> BOOLEAN] /\ asked'["process"] = asked["process"]
      /\ asked'["control"] = asked["control"] /\ Queue' = Queue
  BY <1>0, <1>1 DEF Conn, Queue
<1>3. /\ Mail' /\ ConfSent' = ConfSent /\ Unanswered' = Unanswered /\ Lost' = Lost
      /\ AnsweredAtMostOnce'
  BY <1>0, <1>1, <1>2, MailKept
<1>4. TypeOK'
  BY <1>0, <1>1, <1>2 DEF TypeOK
<1>5. Len(Queue) = 0 /\ Queue = <<>>
  <2>1. said = <<>>
    BY <1>0 DEF Mail, Protocol, Places, Launching, Early
  <2>2. \A i \in DOMAIN Queue : Queue[i].kind \in Kinds
    BY <1>0 DEF Places, Answering, SettingUp, Early
  <2>3. \A i \in DOMAIN Queue : FALSE
    <3>1. \A i \in DOMAIN Queue : \/ Queue[i].kind \in {"empty", "value"}
                                  \/ Queue[i].id \in DOMAIN said
      BY <1>0 DEF Mail, Arrival
    <3>2. DOMAIN said = {}
      BY <2>1
    <3>3. QED BY <2>2, <3>1, <3>2 DEF Kinds
  <2>4. Len(Queue) \in Nat /\ DOMAIN Queue = 1 .. Len(Queue) /\ (Queue # <<>> <=> Len(Queue) >= 1)
    BY <1>0, Basics DEF Queue
  <2>5. QED BY <2>3, <2>4
<1>6. Launching'
  BY <1>0, <1>1, <1>2 DEF Places, Launching, Early
<1>7. Controlling'
  BY <1>0, <1>1, <1>2 DEF Places, Controlling, Prepared, Late
<1>8. Answering'
  BY <1>2, <1>5 DEF Answering
<1>9. Starting'
  BY <1>0, <1>1, <1>3 DEF Places, Starting, Late
<1>10. Keeping'
  BY <1>0, <1>1, <1>3 DEF Places, Keeping, SettingUp, InWait, Early, Late
<1>11. QED BY <1>3, <1>4, <1>6, <1>7, <1>8, <1>9, <1>10 DEF Inv, Places

\* Their answer is received, or the connection has closed.
LEMMA SessionReceives ==
  ASSUME Inv, Recv("session") \/ RecvFails("session"), pc = "session2", pc' = "launch",
         KeepMain
  PROVE  Inv'
<1>0. /\ TypeOK /\ Mail /\ Places /\ AnsweredAtMostOnce /\ "session" \in Conn
      /\ UNCHANGED <<ios, readyId, msg, replies, started, thread>>
      /\ UNCHANGED <<asked, said, launched, authorized, output, up>>
  BY DEF Inv, Conn, KeepMain, Recv, RecvFails, netVars
<1>1. /\ said = <<>> /\ DOMAIN said = {} /\ said' = said
  BY <1>0 DEF Mail, Protocol, Places, Launching, Early
<1>2. /\ inbox' \in [Conn -> Seq(Message)] /\ DOMAIN Queue' = {}
      /\ inbox'["control"] = inbox["control"] /\ inbox'["process"] = inbox["process"]
      /\ ~(asked["session"] /\ up)
  <2>1. CASE Recv("session")
    <3>1. /\ inbox' \in [Conn -> Seq(Message)] /\ Len(Queue) >= 1 /\ Len(Queue) \in Nat
          /\ DOMAIN Queue' = 1 .. Len(Queue) - 1 /\ Queue # <<>>
          /\ inbox'["control"] = inbox["control"] /\ inbox'["process"] = inbox["process"]
      BY <1>0, <2>1, PopEffect, Basics DEF Queue, Conn
    <3>2. Len(Queue) <= 1 /\ ~(asked["session"] /\ up)
      BY <1>0, <3>1 DEF Places, Answering
    <3>3. QED BY <3>1, <3>2
  <2>2. CASE RecvFails("session")
    BY <1>0, <2>2 DEF RecvFails, netVars, Queue, TypeOK
  <2>3. QED BY <2>1, <2>2
<1>3. Mail'
  <2>1. CASE Recv("session")
    <3>1. Queue[1].kind # "ready"
      BY <1>0, <1>1, <2>1, TakeEffect DEF Mail, Kinds
    <3>2. QED BY <1>0, <2>1, <3>1, TakeKeepsMail
  <2>2. CASE RecvFails("session")
    <3>1. Queue' = Queue
      BY <2>2 DEF RecvFails, netVars, Queue
    <3>2. QED BY <1>0, <3>1, MailKept
  <2>3. QED BY <2>1, <2>2
<1>4. Unanswered' = {} /\ AnsweredAtMostOnce' /\ ConfSent' = ConfSent
  BY <1>0, <1>1 DEF Unanswered, AnsweredAtMostOnce, ConfSent
<1>5. TypeOK'
  BY <1>0, <1>2 DEF TypeOK
<1>6. Launching'
  BY <1>0, <1>2 DEF Places, Launching, Early
<1>7. Controlling'
  BY <1>0, <1>2 DEF Places, Controlling, Prepared, Late
<1>8. Answering'
  BY <1>0, <1>2 DEF Answering
<1>9. Starting'
  BY <1>0, <1>4 DEF Places, Starting, Late
<1>10. Keeping'
  BY <1>0, <1>4 DEF Places, Keeping, SettingUp, InWait, Early, Late
<1>11. QED BY <1>3, <1>4, <1>5, <1>6, <1>7, <1>8, <1>9, <1>10 DEF Inv, Places

\* The process is launched.
LEMMA LaunchStep == Inv /\ (LaunchTestRunner \/ Launched) => Inv'
<1> SUFFICES ASSUME Inv, LaunchTestRunner \/ Launched PROVE Inv'
  OBVIOUS
<1>0. /\ TypeOK /\ Mail /\ Places /\ AnsweredAtMostOnce /\ asked \in [Conn -> BOOLEAN]
      /\ UNCHANGED <<said, launched, authorized, output, up>>
      /\ UNCHANGED <<ios, readyId, msg, replies, started, thread>>
  BY DEF Inv, TypeOK, LaunchTestRunner, Launched, CallSend, Recv, KeepMain
<1>1. CASE LaunchTestRunner
  <2>1. /\ pc = "launch" /\ pc' = "launch2" /\ inbox' = inbox
        /\ asked' = [asked EXCEPT !["process"] = TRUE]
    BY <1>1 DEF LaunchTestRunner, CallSend
  <2>2. /\ asked' \in [Conn -> BOOLEAN] /\ asked'["control"] = asked["control"]
        /\ asked'["session"] = asked["session"] /\ Queue' = Queue
    BY <1>0, <2>1 DEF Conn, Queue
  <2>3. /\ Mail' /\ ConfSent' = ConfSent /\ Unanswered' = Unanswered /\ Lost' = Lost
        /\ AnsweredAtMostOnce'
    BY <1>0, <2>2, MailKept
  <2>4. TypeOK'
    BY <1>0, <2>1, <2>2 DEF TypeOK
  <2>5. Launching'
    BY <1>0, <2>1 DEF Places, Launching, Early
  <2>6. Controlling'
    BY <1>0, <2>1, <2>2 DEF Places, Controlling, Prepared, Late
  <2>7. Answering' /\ Starting' /\ Keeping'
    BY <1>0, <2>1, <2>2, <2>3
       DEF Places, Answering, Starting, Keeping, SettingUp, InWait, Early, Late
  <2>8. QED BY <2>3, <2>4, <2>5, <2>6, <2>7 DEF Inv, Places
<1>2. CASE Launched
  <2>1. /\ pc = "launch2" /\ Recv("process")
        /\ pc' = "exit" \/ (ios = 12 /\ pc' = "wait") \/ (ios # 12 /\ pc' = "pid")
    BY <1>2 DEF Launched
  <2>2. /\ inbox' \in [Conn -> Seq(Message)] /\ inbox["process"] # <<>>
        /\ inbox'["control"] = inbox["control"] /\ Queue' = Queue /\ asked' = asked
    <3>1. "process" \in Conn
      BY DEF Conn
    <3>2. QED BY <1>0, <2>1, <3>1, PopEffect, Basics DEF Conn, Queue
  <2>3. /\ Mail' /\ ConfSent' = ConfSent /\ Unanswered' = Unanswered /\ Lost' = Lost
        /\ AnsweredAtMostOnce'
    BY <1>0, <2>2, MailKept
  <2>4. ios \in {11, 12}
    BY <1>0, ConstantsAssumption DEF TypeOK
  <2>5. TypeOK'
    BY <1>0, <2>1, <2>2 DEF TypeOK
  <2>6. Launching'
    BY <1>0, <2>1, <2>2 DEF Places, Launching, Early
  <2>7. readyId = 0
    BY <1>0, <2>1 DEF Places, Keeping, SettingUp
  <2>8. Controlling'
    BY <1>0, <2>1, <2>2, <2>4, <2>7 DEF Places, Controlling, Prepared, Late
  <2>9. Answering' /\ Starting'
    BY <1>0, <2>1, <2>2, <2>3 DEF Places, Answering, Starting, SettingUp, InWait, Early, Late
  <2>10. Keeping'
    BY <1>0, <2>1, <2>3 DEF Places, Keeping, SettingUp, InWait, Early, Late
  <2>11. QED BY <2>3, <2>5, <2>6, <2>8, <2>9, <2>10 DEF Inv, Places
<1>3. QED BY <1>1, <1>2

\* Every call before the bundle is ready.
LEMMA CallsStep == Inv /\ (SetUp \/ Authorize) => Inv'
<1> SUFFICES ASSUME Inv, SetUp \/ Authorize PROVE Inv'
  OBVIOUS
<1>1. CASE InitControlSession
  BY <1>1, ControlSends, ControlReceives, ControlSkipped
     DEF InitControlSession, Call, KeepMain, RecvFails
<1>2. CASE InitSession
  BY <1>2, SessionSends, SessionReceives DEF InitSession, Call
<1>3. CASE InitiateControlSession
  BY <1>3, ControlSends, ControlReceives DEF InitiateControlSession, Call, KeepMain, RecvFails
<1>4. CASE Authorize
  BY <1>4, ControlSends, ControlReceives DEF Authorize, Call, KeepMain, RecvFails
<1>5. QED BY <1>1, <1>2, <1>3, <1>4, LaunchStep DEF SetUp

-----------------------------------------------------------------------------
(* What is received on the session connection, and replied to. *)

\* The ready message is received once, and before the configuration is sent.
LEMMA ReadyOnce ==
  ASSUME TypeOK, Mail
  PROVE  /\ \A k \in DOMAIN said : said[k] = "ready" /\ Pending(k) => readyId = 0 /\ ~ConfSent
         /\ ConfSent => readyId # 0
         /\ readyId # 0 /\ Answered(readyId) => ConfSent
<1>0. Protocol /\ Readiness /\ Replying /\ 0 \notin DOMAIN said /\ "ready" \notin Chatter
  BY Basics, ConstantsAssumption DEF Mail
<1>1. ASSUME NEW i \in DOMAIN replies, replies[i].what = "conf"
      PROVE  /\ readyId = replies[i].to /\ readyId # 0
             /\ said[readyId] = "ready" /\ ~Pending(readyId)
  BY <1>0, <1>1 DEF Readiness, Replying
<1>2. ASSUME NEW k \in DOMAIN said, said[k] = "ready", Pending(k)
      PROVE  readyId = 0
  BY <1>0, <1>2 DEF Readiness, Protocol
<1>3. readyId # 0 /\ Answered(readyId) => ConfSent
  BY <1>0 DEF Readiness, Replying, Answered, ConfSent
<1>4. QED BY <1>1, <1>2, <1>3 DEF ConfSent

\* More is replied, to messages that were not replied to.
LEMMA OnceMore ==
  ASSUME TypeOK, AnsweredAtMostOnce, NEW rs \in Seq(Answer), replies' = replies \o rs,
         up' = up,
         \A j \in DOMAIN rs : ~Answered(rs[j].to),
         \A i, j \in DOMAIN rs : i < j => rs[i].to # rs[j].to
  PROVE  AnsweredAtMostOnce'
<1> DEFINE n == Len(replies)
<1>1. /\ n \in Nat /\ Len(rs) \in Nat
      /\ DOMAIN replies = 1 .. n /\ DOMAIN rs = 1 .. Len(rs)
      /\ DOMAIN replies' = 1 .. n + Len(rs)
      /\ \A i \in 1 .. n + Len(rs) :
           replies'[i] = IF i <= n THEN replies[i] ELSE rs[i - n]
  <2>1. replies \in Seq(Answer)
    BY DEF TypeOK, Answer
  <2> HIDE DEF Answer
  <2>2. QED BY <2>1, ConcatProperties, LenProperties
<1> HIDE DEF n
<1>2. SUFFICES ASSUME up, NEW i \in 1 .. n + Len(rs), NEW j \in 1 .. n + Len(rs), i < j
               PROVE  replies'[i].to # replies'[j].to
  BY <1>1, SMTT(30) DEF AnsweredAtMostOnce
<1>3. CASE j <= n
  <2>1. i \in DOMAIN replies /\ j \in DOMAIN replies /\ i <= n
    BY <1>1, <1>2, <1>3
  <2>2. QED BY <1>1, <1>2, <1>3, <2>1 DEF AnsweredAtMostOnce
<1>4. CASE i <= n /\ ~(j <= n)
  <2>1. i \in DOMAIN replies /\ j - n \in DOMAIN rs
    BY <1>1, <1>2, <1>4
  <2>2. QED BY <1>1, <1>4, <2>1 DEF Answered
<1>5. CASE ~(i <= n)
  <2>1. i - n \in DOMAIN rs /\ j - n \in DOMAIN rs /\ i - n < j - n /\ ~(j <= n)
    BY <1>1, <1>2, <1>5
  <2>2. QED BY <1>1, <1>5, <2>1
<1>6. QED BY <1>3, <1>4, <1>5

\* What goes out.
LEMMA Replies ==
  ASSUME TypeOK
  PROVE  /\ \A k \in DOMAIN said :
              /\ Ack(k) \in Seq(Answer) /\ DOMAIN Ack(k) = {1}
              /\ Ack(k)[1] = [to |-> k, what |-> "ack"]
              /\ Conf(k) \in Seq(Answer) /\ DOMAIN Conf(k) = {1}
              /\ Conf(k)[1] = [to |-> k, what |-> "conf"]
         /\ \A j, k \in DOMAIN said :
              /\ Conf(j) \o Ack(k) \in Seq(Answer) /\ DOMAIN (Conf(j) \o Ack(k)) = {1, 2}
              /\ (Conf(j) \o Ack(k))[1] = [to |-> j, what |-> "conf"]
              /\ (Conf(j) \o Ack(k))[2] = [to |-> k, what |-> "ack"]
<1>1. ASSUME NEW k \in DOMAIN said
      PROVE  [to |-> k, what |-> "ack"] \in Answer /\ [to |-> k, what |-> "conf"] \in Answer
  BY Basics DEF Answer
<1>2. ASSUME NEW a \in Answer
      PROVE  <<a>> \in Seq(Answer) /\ DOMAIN <<a>> = {1} /\ <<a>>[1] = a
  <2> HIDE DEF Answer
  <2>1. QED OBVIOUS
<1>3. ASSUME NEW a \in Answer, NEW b \in Answer
      PROVE  /\ <<a>> \o <<b>> \in Seq(Answer) /\ DOMAIN (<<a>> \o <<b>>) = {1, 2}
             /\ (<<a>> \o <<b>>)[1] = a /\ (<<a>> \o <<b>>)[2] = b
  <2> HIDE DEF Answer
  <2>1. <<a>> \in Seq(Answer) /\ <<b>> \in Seq(Answer) /\ Len(<<a>>) = 1 /\ Len(<<b>>) = 1
    OBVIOUS
  <2>2. /\ <<a>> \o <<b>> \in Seq(Answer) /\ Len(<<a>> \o <<b>>) = 2
        /\ \A i \in 1 .. 2 : (<<a>> \o <<b>>)[i] = IF i <= 1 THEN <<a>>[i] ELSE <<b>>[i - 1]
    BY <2>1, ConcatProperties
  <2>3. DOMAIN (<<a>> \o <<b>>) = 1 .. 2
    BY <2>2, LenProperties
  <2>4. QED BY <2>2, <2>3
<1>4. QED BY <1>1, <1>2, <1>3, ZenonT(40) DEF Ack, Conf

\* A message is received and one acknowledgement is sent.
LEMMA AckEffect ==
  ASSUME TypeOK, Mail, AnsweredAtMostOnce, Recv("session"), NEW next,
         Queue[1].kind \in Kinds, Queue[1].kind # "ready",
         Reply(Ack(Queue[1].id), next), msg' = Queue[1], readyId' = readyId
  PROVE  /\ Mail' /\ AnsweredAtMostOnce' /\ ConfSent' = ConfSent
         /\ replies' \in Seq(Answer)
         /\ pc' = "exit" \/ (pc' = next /\ Unanswered' = Unanswered)
<1> DEFINE m == Queue[1]
           rs == Ack(m.id)
<1>1. /\ m.id \in DOMAIN said /\ said[m.id] = m.kind /\ said' = said /\ Pending(m.id)
      /\ \A k \in DOMAIN said : StillPending(k) <=> Pending(k) /\ k # m.id
  BY TakeEffect DEF Mail
<1>2. /\ rs \in Seq(Answer) /\ DOMAIN rs = {1} /\ rs[1] = [to |-> m.id, what |-> "ack"]
  BY <1>1, Replies
<1> HIDE DEF rs, m
<1>3. /\ replies' \in Seq(Answer) /\ DOMAIN replies \subseteq DOMAIN replies'
      /\ \A i \in DOMAIN replies : replies'[i] = replies[i]
      /\ \A i \in DOMAIN replies' :
           i \in DOMAIN replies \/ \E j \in DOMAIN rs : replies'[i] = rs[j]
      /\ pc' = next \/ (pc' = "exit" /\ ~up)
      /\ pc' # "exit" \/ up =>
           /\ replies' = replies \o rs
           /\ \A j \in DOMAIN rs : \E i \in DOMAIN replies' : replies'[i] = rs[j]
  BY <1>2, ReplyEffect DEF rs, m
<1>4. \A i \in DOMAIN replies' :
        i \notin DOMAIN replies => replies'[i].to = m.id /\ replies'[i].what = "ack"
  BY <1>2, <1>3
<1>5. Mail'
  BY <1>1, <1>3, <1>4, TakeKeepsMail DEF m
<1>6. ConfSent' = ConfSent
  BY <1>3, <1>4 DEF ConfSent
<1>7. AnsweredAtMostOnce'
  <2>1. up' = up /\ ~Answered(m.id)
    BY <1>1 DEF Recv, Mail, Replying, Answered
  <2>2. CASE up
    <3>1. replies' = replies \o rs
      BY <1>3, <2>2
    <3>2. /\ \A j \in DOMAIN rs : ~Answered(rs[j].to)
          /\ \A i, j \in DOMAIN rs : i < j => rs[i].to # rs[j].to
      BY <1>2, <2>1
    <3>3. QED BY <1>2, <2>1, <3>1, <3>2, OnceMore
  <2>3. CASE ~up
    BY <2>1, <2>3 DEF AnsweredAtMostOnce
  <2>4. QED BY <2>2, <2>3
<1>8. ASSUME pc' # "exit" PROVE Unanswered' = Unanswered
  <2>1. \A k : (\E i \in DOMAIN replies' : replies'[i].to = k) <=> Answered(k) \/ k = m.id
    <3>1. \E i \in DOMAIN replies' : replies'[i].to = m.id
      BY <1>2, <1>3, <1>8
    <3>2. QED BY <1>3, <1>4, <3>1 DEF Answered
  <2>2. Unanswered' = {k \in DOMAIN said :
                         ~(Answered(k) \/ k = m.id) /\ ~StillPending(k)}
    <3>1. Unanswered' = {k \in DOMAIN said' :
                           ~(\E i \in DOMAIN replies' : replies'[i].to = k) /\ ~StillPending(k)}
      BY UnansweredDef DEF Answered, Pending, StillPending
    <3>2. QED BY <1>1, <2>1, <3>1
  <2>3. QED BY <1>1, <2>2, UnansweredDef
<1>9. QED BY <1>3, <1>5, <1>6, <1>7, <1>8

\* A message is received and nothing is sent.
LEMMA DropEffect ==
  ASSUME TypeOK, Mail, AnsweredAtMostOnce, Recv("session"), replies' = replies,
         msg' = msg \/ msg' = Queue[1],
         readyId' = IF Queue[1].kind = "ready" THEN Queue[1].id ELSE readyId
  PROVE  /\ Mail' /\ AnsweredAtMostOnce' /\ ConfSent' = ConfSent
         /\ \A k \in Unanswered' : k \in Unanswered \/ k = Queue[1].id
         /\ Unanswered' \subseteq DOMAIN said
<1>1. /\ said' = said /\ up' = up
      /\ \A k \in DOMAIN said : StillPending(k) <=> Pending(k) /\ k # Queue[1].id
  BY TakeEffect DEF Mail, Recv
<1>2. Mail'
  BY TakeKeepsMail
<1>3. AnsweredAtMostOnce' /\ ConfSent' = ConfSent
  BY <1>1 DEF AnsweredAtMostOnce, ConfSent
<1>4. Unanswered' = {k \in DOMAIN said : ~Answered(k) /\ ~StillPending(k)}
  BY <1>1, UnansweredDef DEF Answered, Pending, StillPending
<1>5. QED BY <1>1, <1>2, <1>3, <1>4, UnansweredDef

\* Receiving on the session connection leaves the others alone.
LEMMA TakePlaces ==
  ASSUME Inv, Recv("session"), UNCHANGED <<ios, started, thread>>,
         pc \in {"wait", "start2", "loop"},
         pc' \in {"wait", "authorize", "start", "watch", "loop", "exit"},
         pc' \in InWait => pc = "wait",
         pc' = "authorize" => ios = 12 /\ readyId' # 0,
         pc' \in Late \/ (pc' = "wait" /\ (ios = 11 \/ readyId' # 0)) => Prepared
  PROVE  Launching' /\ Controlling' /\ Answering'
<1>0. TypeOK /\ Mail /\ Places /\ "session" \in Conn
  BY DEF Inv, Conn
<1>1. /\ inbox'["control"] = inbox["control"] /\ inbox'["process"] = inbox["process"]
      /\ UNCHANGED <<asked, launched, authorized, up>>
  BY <1>0, PopEffect DEF Conn
<1>2. \A i \in DOMAIN Queue' : i + 1 \in DOMAIN Queue /\ Queue'[i] = Queue[i + 1]
  BY <1>0, TakeEffect DEF Mail
<1>3. Launching'
  BY <1>0, <1>1 DEF Places, Launching, Early
<1>4. Controlling'
  BY <1>0, <1>1 DEF Places, Controlling, Prepared, Late
<1>5. Answering'
  BY <1>0, <1>1, <1>2 DEF Places, Answering, SettingUp, InWait, Early
<1>6. QED BY <1>3, <1>4, <1>5

\* The types after a receive.
LEMMA TakeTypes ==
  ASSUME TypeOK, Mail, Recv("session"), UNCHANGED <<ios, thread>>, started' \in BOOLEAN,
         pc' \in {"wait", "authorize", "start", "watch", "loop", "exit"},
         msg' = msg \/ msg' = Queue[1],
         readyId' = IF Queue[1].kind = "ready" THEN Queue[1].id ELSE readyId,
         replies' \in Seq(Answer)
  PROVE  TypeOK'
<1>1. /\ inbox' \in [Conn -> Seq(Message)] /\ Queue[1] \in Message
      /\ UNCHANGED <<asked, said, launched, authorized, output, up>>
  BY PopEffect DEF Conn, Queue
<1>2. readyId' \in 0 .. Len(said')
  <2>1. Queue[1].kind = "ready" => Queue[1].id \in DOMAIN said
    BY TakeEffect DEF Mail, Kinds
  <2>2. QED BY <1>1, <2>1, Basics DEF TypeOK
<1>3. msg' \in Message
  BY <1>1 DEF TypeOK
<1>4. QED BY <1>1, <1>2, <1>3 DEF TypeOK, Answer

-----------------------------------------------------------------------------
(* The two loops. *)

\* While the program waits, no call is in progress on the session connection:
\* what it receives is the runner's.
LEMMA WaitFacts ==
  ASSUME Inv, NEW kinds, Waits(kinds)
  PROVE  /\ TypeOK /\ Mail /\ Places /\ AnsweredAtMostOnce
         /\ pc = "wait" /\ Recv("session") /\ msg' = Queue[1]
         /\ UNCHANGED <<ios, started, thread, said, launched, authorized, up>>
         /\ Queue[1].kind \in Kinds /\ Queue[1].kind \in kinds
         /\ Queue[1].id \in DOMAIN said /\ said[Queue[1].id] = Queue[1].kind
         /\ Pending(Queue[1].id) /\ Queue[1].id # 0
         /\ \A k \in Unanswered : k = readyId /\ ~ConfSent
         /\ ios \in {11, 12}
         /\ ios = 11 \/ readyId # 0 => Prepared
<1>1. /\ TypeOK /\ Mail /\ Places /\ AnsweredAtMostOnce
      /\ pc = "wait" /\ Recv("session") /\ msg' = Queue[1] /\ Queue[1].kind \in kinds
      /\ UNCHANGED <<ios, started, thread, said, launched, authorized, up>>
  BY DEF Inv, Waits, Recv, Queue
<1>2. Queue[1].kind \in Kinds
  BY <1>1, TakeEffect DEF Mail, Places, Answering, InWait
<1>3. /\ Queue[1].id \in DOMAIN said /\ said[Queue[1].id] = Queue[1].kind
      /\ Pending(Queue[1].id) /\ Queue[1].id # 0
  BY <1>1, <1>2, TakeEffect DEF Mail
<1>4. \A k \in Unanswered : k = readyId /\ ~ConfSent
  BY <1>1 DEF Places, Keeping, InWait
<1>5. ios \in {11, 12} /\ (ios = 11 \/ readyId # 0 => Prepared)
  BY <1>1, ConstantsAssumption DEF TypeOK, Places, Controlling
<1>6. QED BY <1>1, <1>2, <1>3, <1>4, <1>5

\* The ready message is remembered and not yet answered.
LEMMA WaitReadyStep == Inv /\ WaitReady => Inv'
<1> SUFFICES ASSUME Inv, WaitReady PROVE Inv'
  OBVIOUS
<1> DEFINE m == Queue[1]
<1>0. Waits({"ready"})
  BY DEF WaitReady
<1>1. /\ TypeOK /\ Mail /\ Places /\ AnsweredAtMostOnce
      /\ pc = "wait" /\ Recv("session") /\ msg' = m /\ ios \in {11, 12}
      /\ UNCHANGED <<ios, started, thread, said, launched, authorized, up>>
      /\ m.kind = "ready" /\ m.id \in DOMAIN said /\ m.id # 0
      /\ said[m.id] = m.kind /\ Pending(m.id)
      /\ \A k \in Unanswered : k = readyId /\ ~ConfSent
      /\ ios = 11 \/ readyId # 0 => Prepared
  BY <1>0, WaitFacts
<1>2. /\ readyId' = m.id /\ replies' = replies
      /\ pc' = IF ios = 12 THEN "authorize" ELSE "wait"
  BY <1>1 DEF WaitReady
<1>3. readyId = 0 /\ ~ConfSent
  BY <1>1, ReadyOnce
<1>4. /\ Mail' /\ AnsweredAtMostOnce' /\ ConfSent' = ConfSent
      /\ \A k \in Unanswered' : k \in Unanswered \/ k = m.id
      /\ Unanswered' \subseteq DOMAIN said
  BY <1>1, <1>2, DropEffect
<1>5. TypeOK'
  BY <1>1, <1>2, TakeTypes DEF TypeOK, Answer
<1>6. Launching' /\ Controlling' /\ Answering'
  BY <1>1, <1>2, TakePlaces DEF Late, InWait
<1>7. Starting'
  BY <1>1, <1>2, <1>4 DEF Places, Starting, Late
<1>8. Keeping'
  <2>1. 0 \notin DOMAIN said
    BY <1>1, Basics
  <2>2. \A k \in Unanswered' : k = m.id
    BY <1>1, <1>3, <1>4, <2>1
  <2>3. QED BY <1>2, <1>3, <1>4, <2>2 DEF Keeping, SettingUp, InWait, Early, Late
<1>9. QED BY <1>4, <1>5, <1>6, <1>7, <1>8 DEF Inv, Places

\* The request for the log's configuration is acknowledged at once.
LEMMA WaitLogConfStep == Inv /\ WaitLogConf => Inv'
<1> SUFFICES ASSUME Inv, WaitLogConf PROVE Inv'
  OBVIOUS
<1> DEFINE m == Queue[1]
           rs == IF ios = 12 THEN Conf(readyId) \o Ack(m.id) ELSE Conf(readyId)
           next == IF ios = 12 THEN "wait" ELSE "watch"
<1>0. Waits({"logConf"})
  BY DEF WaitLogConf
<1>1. /\ TypeOK /\ Mail /\ Places /\ AnsweredAtMostOnce
      /\ pc = "wait" /\ Recv("session") /\ msg' = m /\ ios \in {11, 12}
      /\ UNCHANGED <<ios, started, thread, said, launched, authorized, up>>
      /\ m.kind = "logConf" /\ m.id \in DOMAIN said /\ m.id # 0
      /\ said[m.id] = m.kind /\ Pending(m.id)
      /\ \A k \in Unanswered : k = readyId /\ ~ConfSent
      /\ ios = 11 \/ readyId # 0 => Prepared
  BY <1>0, WaitFacts
<1>2. readyId' = readyId /\ Reply(rs, next)
  <2>1. /\ readyId' = readyId
        /\ IF ios = 12 THEN Reply(Conf(readyId) \o Ack(msg'.id), "wait")
                       ELSE Reply(Conf(readyId), "watch")
    BY DEF WaitLogConf
  <2>2. QED BY <1>1, <2>1
<1>3. Protocol /\ Readiness /\ Replying
  BY <1>1 DEF Mail
<1>4. \A k \in DOMAIN said : /\ StillPending(k) <=> Pending(k) /\ k # m.id
                             /\ StillPending(k) => m.id < k
  BY <1>1, TakeEffect DEF Mail
<1> HIDE DEF m, rs, next
<1>5. readyId \in DOMAIN said /\ said[readyId] = "ready" /\ readyId # m.id /\ readyId # 0
  <2>1. PICK j \in DOMAIN said : j < m.id /\ said[j] = "ready"
    BY <1>1, <1>3 DEF Protocol
  <2>2. ~Pending(j)
    <3>1. j \in Nat /\ m.id \in Nat
      BY <1>1, Basics
    <3>2. QED BY <1>4, <2>1, <3>1
  <2>3. readyId = j
    BY <1>3, <2>1, <2>2 DEF Readiness
  <2>4. 0 \notin DOMAIN said
    BY <1>1, Basics
  <2>5. QED BY <1>1, <2>1, <2>3, <2>4
<1>6. ~ConfSent
  <2>1. "logConf" \notin Chatter
    BY ConstantsAssumption
  <2>2. \A k \in DOMAIN said : said[k] = "logConf" => k = m.id
    BY <1>1, <1>3, <2>1 DEF Protocol
  <2>3. QED BY <1>1, <1>3, <2>2 DEF Readiness
<1>7. ~Answered(readyId) /\ ~Answered(m.id)
  <2>1. ~Answered(readyId)
    BY <1>1, <1>5, <1>6, ReadyOnce
  <2>2. ~Answered(m.id)
    BY <1>1, <1>3 DEF Replying, Answered
  <2>3. QED BY <2>1, <2>2
<1>8. /\ rs \in Seq(Answer) /\ 1 \in DOMAIN rs
      /\ rs[1] = [to |-> readyId, what |-> "conf"]
      /\ ios = 12 => /\ DOMAIN rs = {1, 2}
                     /\ rs[2] = [to |-> m.id, what |-> "ack"]
      /\ ios = 11 => DOMAIN rs = {1}
  <2>1. CASE ios = 12
    <3>1. rs = Conf(readyId) \o Ack(m.id)
      BY <2>1 DEF rs
    <3>2. /\ Conf(readyId) \o Ack(m.id) \in Seq(Answer)
          /\ DOMAIN (Conf(readyId) \o Ack(m.id)) = {1, 2}
          /\ (Conf(readyId) \o Ack(m.id))[1] = [to |-> readyId, what |-> "conf"]
          /\ (Conf(readyId) \o Ack(m.id))[2] = [to |-> m.id, what |-> "ack"]
      BY <1>1, <1>5, Replies
    <3>3. QED BY <2>1, <3>1, <3>2
  <2>2. CASE ios = 11
    <3>1. rs = Conf(readyId)
      BY <2>2 DEF rs
    <3>2. /\ Conf(readyId) \in Seq(Answer) /\ DOMAIN Conf(readyId) = {1}
          /\ Conf(readyId)[1] = [to |-> readyId, what |-> "conf"]
      BY <1>1, <1>5, Replies
    <3>3. QED BY <2>2, <3>1, <3>2
  <2>3. QED BY <1>1, <2>1, <2>2
<1>9. /\ replies' \in Seq(Answer) /\ DOMAIN replies \subseteq DOMAIN replies'
      /\ \A i \in DOMAIN replies : replies'[i] = replies[i]
      /\ \A i \in DOMAIN replies' :
           i \in DOMAIN replies \/ \E j \in DOMAIN rs : replies'[i] = rs[j]
      /\ pc' = next \/ (pc' = "exit" /\ ~up)
      /\ pc' # "exit" \/ up =>
           /\ replies' = replies \o rs /\ pc' = next
           /\ \A j \in DOMAIN rs : \E i \in DOMAIN replies' : replies'[i] = rs[j]
  BY <1>1, <1>2, <1>8, ReplyEffect
<1>10. \A j \in DOMAIN rs : \/ rs[j].to = readyId /\ rs[j].what = "conf"
                            \/ rs[j].to = m.id /\ rs[j].what = "ack"
  BY <1>1, <1>8
<1>11. Mail'
  <2>1. \A i \in DOMAIN replies' : i \notin DOMAIN replies =>
          /\ replies'[i].to \in DOMAIN said
          /\ replies'[i].to = m.id \/ replies'[i].to = readyId
          /\ replies'[i].what = "conf" <=> said[replies'[i].to] = "ready"
          /\ replies'[i].what = "conf" => m.kind = "logConf"
    BY <1>1, <1>5, <1>9, <1>10
  <2>2. QED BY <1>1, <1>2, <1>9, <2>1, TakeKeepsMail DEF m
<1>12. AnsweredAtMostOnce'
  <2>1. CASE up
    <3>1. \A j \in DOMAIN rs : ~Answered(rs[j].to)
      BY <1>7, <1>10
    <3>2. \A i, j \in DOMAIN rs : i < j => rs[i].to # rs[j].to
      BY <1>1, <1>5, <1>8
    <3>3. QED BY <1>1, <1>8, <1>9, <2>1, <3>1, <3>2, OnceMore
  <2>2. CASE ~up
    BY <1>1, <2>2 DEF AnsweredAtMostOnce
  <2>3. QED BY <2>1, <2>2
<1>13. ASSUME pc' # "exit"
       PROVE  /\ ConfSent' /\ pc' = next
              /\ \A k \in Unanswered' : k = m.id /\ ios = 11
  <2>1. pc' = next /\ \A j \in DOMAIN rs : \E i \in DOMAIN replies' : replies'[i] = rs[j]
    BY <1>9, <1>13
  <2>2. ConfSent' /\ \E i \in DOMAIN replies' : replies'[i].to = readyId
    BY <1>8, <2>1 DEF ConfSent
  <2>3. ios = 12 => \E i \in DOMAIN replies' : replies'[i].to = m.id
    BY <1>8, <2>1
  <2>4. \A k \in Unanswered' : /\ k \in DOMAIN said /\ ~Answered(k) /\ ~StillPending(k)
                               /\ ~\E i \in DOMAIN replies' : replies'[i].to = k
    <3>1. Unanswered' = {k \in DOMAIN said' :
                           ~(\E i \in DOMAIN replies' : replies'[i].to = k) /\ ~StillPending(k)}
      BY UnansweredDef DEF Answered, Pending, StillPending
    <3>2. QED BY <1>1, <1>9, <3>1 DEF Answered
  <2>5. \A k \in Unanswered' : k = m.id \/ k \in Unanswered
    BY <1>4, <2>4, UnansweredDef
  <2>6. QED BY <1>1, <2>1, <2>2, <2>3, <2>4, <2>5
<1>14. TypeOK'
  BY <1>1, <1>2, <1>9, TakeTypes DEF TypeOK, m, next
<1>15. Launching' /\ Controlling' /\ Answering'
  <2>1. pc' \in {"wait", "watch", "exit"} /\ Prepared
    BY <1>1, <1>5, <1>9 DEF next
  <2>2. QED BY <1>1, <1>2, <2>1, TakePlaces DEF Late, InWait
<1>16. Starting'
  <2>1. ~started
    BY <1>1, <1>6 DEF Places, Starting
  <2>2. pc' \in Late => ConfSent' /\ msg'.kind # "ready"
    BY <1>1, <1>13 DEF Late, m
  <2>3. QED BY <1>1, <2>1, <2>2 DEF Starting
<1>17. Keeping'
  <2>1. CASE pc' = "exit"
    BY <2>1 DEF Keeping, SettingUp, InWait, Early, Late
  <2>2. CASE pc' # "exit" /\ ios = 12
    <3>1. pc' = "wait" /\ Unanswered' = {}
      BY <1>13, <2>2 DEF next
    <3>2. QED BY <3>1 DEF Keeping, SettingUp, InWait, Early, Late
  <2>3. CASE pc' # "exit" /\ ios = 11
    <3>1. pc' = "watch" /\ \A k \in Unanswered' : k = m.id
      BY <1>13, <2>3 DEF next
    <3>2. Lost' = {}
      BY <1>1, <2>3, <3>1 DEF Lost
    <3>3. QED BY <3>1, <3>2 DEF Keeping, SettingUp, InWait, Early, Late
  <2>4. QED BY <1>1, <2>1, <2>2, <2>3
<1>18. QED BY <1>11, <1>12, <1>14, <1>15, <1>16, <1>17 DEF Inv, Places

\* Everything else is acknowledged, the verdicts too.
LEMMA WaitAckStep == Inv /\ (WaitLogReady \/ WaitOther) => Inv'
<1> SUFFICES ASSUME Inv, WaitLogReady \/ WaitOther PROVE Inv'
  OBVIOUS
<1> DEFINE m == Queue[1]
<1>0. /\ WaitLogReady => Waits(Verdicts)
      /\ WaitOther => Waits({"caps", "request", "log", "other", "empty", "value"})
  BY DEF WaitLogReady, WaitOther
<1>1. /\ TypeOK /\ Mail /\ Places /\ AnsweredAtMostOnce
      /\ pc = "wait" /\ Recv("session") /\ msg' = m /\ ios \in {11, 12}
      /\ UNCHANGED <<ios, started, thread, said, launched, authorized, up>>
      /\ m.kind \in Kinds /\ m.id \in DOMAIN said /\ said[m.id] = m.kind
      /\ \A k \in Unanswered : k = readyId /\ ~ConfSent
      /\ ios = 11 \/ readyId # 0 => Prepared
  BY <1>0, WaitFacts
<1>2. m.kind # "ready" /\ (WaitLogReady => m.kind \in Verdicts)
  BY <1>0, WaitFacts DEF Verdicts
<1>3. /\ readyId' = readyId
      /\ \/ WaitLogReady /\ ios = 12 /\ Reply(Ack(m.id), "start")
         \/ Reply(Ack(m.id), "wait")
  <2>1. CASE WaitLogReady
    BY <1>1, <2>1 DEF WaitLogReady
  <2>2. CASE WaitOther
    <3>1. /\ readyId' = readyId
          /\ CASE msg'.kind \in Kinds -> Reply(Ack(msg'.id), "wait")
               [] msg'.kind = "empty" /\ ios = 12 -> pc' = "crashed" /\ UNCHANGED replies
               [] OTHER -> UNCHANGED <<pc, replies>>
      BY <2>2 DEF WaitOther
    <3>2. msg'.kind \in Kinds /\ msg'.kind # "empty"
      BY <1>1 DEF Kinds
    <3>3. QED BY <1>1, <3>1, <3>2
  <2>3. QED BY <2>1, <2>2
<1>4. PICK where \in {"start", "wait"} :
         /\ Reply(Ack(m.id), where)
         /\ where = "start" => WaitLogReady /\ ios = 12
  BY <1>3
<1>5. /\ Mail' /\ AnsweredAtMostOnce' /\ ConfSent' = ConfSent
      /\ replies' \in Seq(Answer)
      /\ pc' = "exit" \/ (pc' = where /\ Unanswered' = Unanswered)
  BY <1>1, <1>2, <1>3, <1>4, AckEffect
<1>6. where = "start" => ConfSent /\ readyId # 0 /\ ios = 12
  <2>1. where = "start" => ConfSent
    BY <1>1, <1>2, <1>4 DEF Mail, Protocol
  <2>2. QED BY <1>1, <1>4, <2>1, ReadyOnce
<1>7. TypeOK'
  BY <1>1, <1>2, <1>3, <1>5, TakeTypes DEF TypeOK
<1>8. Launching' /\ Controlling' /\ Answering'
  BY <1>1, <1>3, <1>5, <1>6, TakePlaces DEF Late, InWait
<1>9. Starting'
  BY <1>1, <1>2, <1>5, <1>6 DEF Places, Starting, Late
<1>10. Keeping'
  <2>1. CASE pc' = "exit"
    BY <2>1 DEF Keeping, SettingUp, InWait, Early, Late
  <2>2. CASE pc' = "wait" /\ Unanswered' = Unanswered
    BY <1>1, <1>3, <1>5, <2>2 DEF Keeping, SettingUp, InWait, Early, Late
  <2>3. CASE pc' = "start" /\ Unanswered' = Unanswered
    <3>1. Unanswered = {}
      BY <1>1, <1>5, <1>6, <2>3
    <3>2. Lost' = {}
      BY <2>3, <3>1 DEF Lost
    <3>3. QED BY <2>3, <3>2 DEF Keeping, SettingUp, InWait, Early, Late
  <2>4. QED BY <1>5, <2>1, <2>2, <2>3
<1>11. QED BY <1>5, <1>7, <1>8, <1>9, <1>10 DEF Inv, Places

\* The connection has closed while the program waits.
LEMMA WaitFailsStep == Inv /\ WaitFails => Inv'
<1> SUFFICES ASSUME Inv, WaitFails PROVE Inv'
  OBVIOUS
<1>1. /\ TypeOK /\ Mail /\ Places /\ AnsweredAtMostOnce
      /\ UNCHANGED <<asked, inbox, said, launched, authorized, output, up>>
      /\ UNCHANGED <<ios, readyId, msg, replies, started, thread>>
      /\ pc = "wait" /\ pc' = "exit" /\ Queue' = Queue
  BY DEF Inv, WaitFails, RecvFails, netVars, KeepMain, Queue
<1>2. /\ Mail' /\ ConfSent' = ConfSent /\ Unanswered' = Unanswered /\ Lost' = Lost
      /\ AnsweredAtMostOnce'
  BY <1>1, MailKept
<1>3. TypeOK'
  BY <1>1 DEF TypeOK
<1>4. Launching' /\ Controlling' /\ Answering'
  BY <1>1 DEF Places, Launching, Controlling, Answering, Prepared, SettingUp, InWait,
              Early, Late
<1>5. Starting' /\ Keeping'
  BY <1>1, <1>2 DEF Places, Starting, Keeping, SettingUp, InWait, Early, Late
<1>6. QED BY <1>2, <1>3, <1>4, <1>5 DEF Inv, Places

\* The start call is sent; the thread is created.
LEMMA StartSendStep == Inv /\ (StartSend \/ Watch) => Inv'
<1> SUFFICES ASSUME Inv, StartSend \/ Watch PROVE Inv'
  OBVIOUS
<1>1. /\ TypeOK /\ Mail /\ Places /\ AnsweredAtMostOnce /\ asked \in [Conn -> BOOLEAN]
      /\ UNCHANGED <<inbox, said, launched, authorized, output, up>>
      /\ UNCHANGED <<ios, readyId, msg, replies>> /\ Queue' = Queue
      /\ pc \in {"start", "watch"} /\ pc' \in {"start", "start2", "loop"}
      /\ pc' \in {"start", "start2"} => pc = "start" \/ ios # 12
      /\ started' \in BOOLEAN /\ thread' \in {"none", "new", "watching"}
  BY DEF Inv, TypeOK, StartSend, Watch, CallSend, netVars, Queue
<1>2. /\ asked' \in [Conn -> BOOLEAN] /\ asked'["process"] = asked["process"]
      /\ asked'["control"] = asked["control"]
  BY <1>1 DEF StartSend, Watch, CallSend, netVars, Conn
<1>3. /\ Mail' /\ ConfSent' = ConfSent /\ Unanswered' = Unanswered /\ Lost' = Lost
      /\ AnsweredAtMostOnce'
  BY <1>1, MailKept
<1>4. ConfSent /\ Prepared /\ readyId # 0 /\ ios \in {11, 12}
  BY <1>1, ReadyOnce, ConstantsAssumption
     DEF Places, Starting, Controlling, Late, TypeOK
<1>5. authorized
  <2>1. said # <<>>
    <3>1. \E k \in DOMAIN said : TRUE
      BY <1>1, <1>4 DEF Mail, Readiness
    <3>2. QED BY <3>1
  <2>2. QED BY <1>1, <1>4, <2>1 DEF Mail, Protocol, Prepared
<1>6. TypeOK'
  BY <1>1, <1>2 DEF TypeOK
<1>7. Launching'
  BY <1>1, <1>2 DEF Places, Launching, Early
<1>8. Controlling'
  BY <1>1, <1>2, <1>4 DEF Places, Controlling, Prepared, Late
<1>9. Answering'
  BY <1>1 DEF Answering, SettingUp, InWait, Early
<1>10. Starting'
  BY <1>1, <1>3, <1>4, <1>5 DEF Places, Starting, Late
<1>11. Keeping'
  BY <1>1, <1>3, <1>4 DEF Places, Keeping, SettingUp, InWait, Early, Late
<1>12. QED BY <1>3, <1>6, <1>7, <1>8, <1>9, <1>10, <1>11 DEF Inv, Places

\* The start call takes what comes next for its answer.
LEMMA StartRecvStep == Inv /\ StartRecv => Inv'
<1> SUFFICES ASSUME Inv, StartRecv PROVE Inv'
  OBVIOUS
<1>1. /\ TypeOK /\ Mail /\ Places /\ AnsweredAtMostOnce
      /\ UNCHANGED <<asked, said, launched, authorized, output, up>>
      /\ UNCHANGED <<ios, readyId, msg, replies, started, thread>>
      /\ pc = "start2" /\ ((ios = 12 /\ pc' = "watch") \/ (ios # 12 /\ pc' = "loop"))
      /\ Recv("session") \/ RecvFails("session")
  BY DEF Inv, StartRecv, Recv, RecvFails, netVars
<1>2. /\ pc = "start2" /\ pc' \in {"watch", "loop"} /\ (pc' = "watch" => ios # 11)
  BY <1>1 DEF StartRecv
<1>3. Lost = {} /\ ConfSent /\ Prepared /\ ios \in {11, 12} /\ started \in BOOLEAN
  BY <1>1, <1>2, ConstantsAssumption
     DEF Places, Keeping, Starting, Controlling, Late, TypeOK
<1>4. CASE Recv("session")
  <2>1. Queue[1].kind # "ready"
    <3>1. Queue[1].kind = "ready" =>
            /\ Queue[1].id \in DOMAIN said /\ said[Queue[1].id] = "ready"
            /\ Pending(Queue[1].id)
      BY <1>1, <1>4, TakeEffect DEF Mail, Kinds
    <3>2. QED BY <1>1, <1>3, <3>1, ReadyOnce
  <2>2. /\ Mail' /\ AnsweredAtMostOnce' /\ ConfSent' = ConfSent
        /\ \A k \in Unanswered' : k \in Unanswered \/ k = Queue[1].id
    BY <1>1, <1>4, <2>1, DropEffect
  <2>3. TypeOK'
    BY <1>1, <1>2, <1>3, <1>4, <2>1, TakeTypes DEF TypeOK, Answer
  <2>4. Launching' /\ Controlling' /\ Answering'
    BY <1>1, <1>2, <1>3, <1>4, TakePlaces DEF InWait
  <2>5. Starting'
    BY <1>1, <1>2, <1>3, <2>2 DEF Places, Starting, Late
  <2>6. Keeping'
    <3>1. \A k \in Lost' : k = Queue[1].id
      BY <1>1, <1>3, <2>2 DEF Lost
    <3>2. QED BY <1>1, <1>2, <3>1 DEF Keeping, SettingUp, InWait, Early, Late
  <2>7. QED BY <2>2, <2>3, <2>4, <2>5, <2>6 DEF Inv, Places
<1>5. CASE RecvFails("session")
  <2>1. inbox' = inbox /\ Queue' = Queue
    BY <1>5 DEF RecvFails, netVars, Queue
  <2>2. /\ Mail' /\ ConfSent' = ConfSent /\ Unanswered' = Unanswered /\ Lost' = Lost
        /\ AnsweredAtMostOnce'
    BY <1>1, <2>1, MailKept
  <2>3. TypeOK'
    BY <1>1, <1>2, <2>1 DEF TypeOK
  <2>4. Launching' /\ Controlling' /\ Answering'
    BY <1>1, <1>2, <1>3, <2>1
       DEF Places, Launching, Controlling, Answering, Prepared, SettingUp, InWait, Early, Late
  <2>5. Starting' /\ Keeping'
    BY <1>1, <1>2, <1>3, <2>2 DEF Places, Starting, Keeping, SettingUp, InWait, Early, Late
  <2>6. QED BY <2>2, <2>3, <2>4, <2>5 DEF Inv, Places
<1>6. QED BY <1>1, <1>4, <1>5

\* In the loop everything that has a kind is acknowledged.
LEMMA LoopStep == Inv /\ LoopTake => Inv'
<1> SUFFICES ASSUME Inv, LoopTake PROVE Inv'
  OBVIOUS
<1> DEFINE m == Queue[1]
<1>1. /\ TypeOK /\ Mail /\ Places /\ AnsweredAtMostOnce
      /\ UNCHANGED <<asked, said, launched, authorized, output, up>>
      /\ UNCHANGED <<ios, readyId, started, thread>>
      /\ pc = "loop" /\ Recv("session") /\ msg' = m
      /\ CASE msg'.kind = "logError" -> pc' = "exit" /\ UNCHANGED replies
           [] msg'.kind \in Kinds \ {"logError"} -> Reply(Ack(msg'.id), "loop")
           [] msg'.kind \notin Kinds -> UNCHANGED <<pc, replies>>
  BY DEF Inv, LoopTake, Recv, Queue
<1>2. /\ ConfSent /\ Prepared /\ started \in BOOLEAN /\ readyId # 0
      /\ \A j, k \in Lost : j = k
  BY <1>1, ReadyOnce DEF Places, Starting, Controlling, Keeping, Late, TypeOK
<1>3. m.kind # "ready"
  <2>1. m.kind = "ready" => m.id \in DOMAIN said /\ said[m.id] = "ready" /\ Pending(m.id)
    BY <1>1, TakeEffect DEF Mail, Kinds
  <2>2. QED BY <1>1, <1>2, <2>1, ReadyOnce
<1>4. \/ /\ pc' = "exit" \/ (pc' = "loop" /\ m.kind \notin Kinds)
         /\ replies' = replies
      \/ m.kind \in Kinds /\ Reply(Ack(m.id), "loop")
  <2>1. CASE m.kind = "logError"
    BY <1>1, <2>1
  <2>2. CASE m.kind \in Kinds \ {"logError"}
    BY <1>1, <2>2
  <2>3. CASE m.kind \notin Kinds
    BY <1>1, <2>3 DEF Kinds
  <2>4. QED BY <2>1, <2>2, <2>3
<1>5. /\ Mail' /\ AnsweredAtMostOnce' /\ ConfSent' = ConfSent /\ replies' \in Seq(Answer)
      /\ pc' = "exit" \/ (pc' = "loop" /\ \A k \in Unanswered' : k \in Unanswered)
  <2>1. CASE /\ pc' = "exit" \/ (pc' = "loop" /\ m.kind \notin Kinds)
             /\ replies' = replies
    <3>1. /\ Mail' /\ AnsweredAtMostOnce' /\ ConfSent' = ConfSent
          /\ \A k \in Unanswered' : k \in Unanswered \/ k = m.id
          /\ Unanswered' \subseteq DOMAIN said
      BY <1>1, <1>3, <2>1, DropEffect
    <3>2. replies' \in Seq(Answer)
      BY <1>1, <2>1 DEF TypeOK, Answer
    <3>3. m.kind \notin Kinds => m.id \notin DOMAIN said
      BY <1>1, TakeEffect, Basics DEF Mail
    <3>4. QED BY <2>1, <3>1, <3>2, <3>3
  <2>2. CASE m.kind \in Kinds /\ Reply(Ack(m.id), "loop")
    BY <1>1, <1>3, <2>2, AckEffect
  <2>3. QED BY <1>4, <2>1, <2>2
<1>6. pc' \in {"loop", "exit"}
  BY <1>5
<1>7. TypeOK'
  BY <1>1, <1>2, <1>3, <1>5, <1>6, TakeTypes
<1>8. Launching' /\ Controlling' /\ Answering'
  BY <1>1, <1>2, <1>6, TakePlaces DEF InWait
<1>9. Starting'
  BY <1>1, <1>2, <1>3, <1>5 DEF Places, Starting, Late
<1>10. Keeping'
  <2>1. CASE pc' = "exit"
    BY <2>1 DEF Keeping, SettingUp, InWait, Early, Late
  <2>2. CASE pc' = "loop" /\ \A k \in Unanswered' : k \in Unanswered
    <3>1. \A k \in Lost' : k \in Lost
      BY <1>1, <2>2 DEF Lost
    <3>2. QED BY <1>2, <2>2, <3>1 DEF Keeping, SettingUp, InWait, Early, Late
  <2>3. QED BY <1>5, <2>1, <2>2
<1>11. QED BY <1>5, <1>7, <1>8, <1>9, <1>10 DEF Inv, Places

\* And it goes on after the connection closed.
LEMMA LoopFailsStep == Inv /\ LoopFails => Inv'
<1> SUFFICES ASSUME Inv, LoopFails PROVE Inv'
  OBVIOUS
<1>1. /\ TypeOK /\ Mail /\ Places /\ pc = "loop" /\ Starting
      /\ UNCHANGED <<asked, inbox, said, launched, authorized, output, up>>
      /\ UNCHANGED <<ios, readyId, msg, started, thread>>
  BY DEF Inv, Places, LoopFails, RecvFails, netVars
<1>2. /\ Mail' /\ ~up /\ ~up' /\ Queue' = Queue /\ ConfSent' = ConfSent
      /\ \A k \in DOMAIN said : Answered(k) => Answered(k)'
      /\ pc' \in {"loop", "exit"}
  BY <1>1, AgainKeepsMail
<1>3. replies' \in Seq(Answer)
  <2>1. CASE msg.kind \notin Kinds
    BY <1>1, <2>1 DEF LoopFails, TypeOK, Answer
  <2>2. CASE msg.kind \in Kinds
    <3>1. Reply(Ack(msg.id), "loop") /\ msg.id \in DOMAIN said
      BY <1>1, <2>2 DEF LoopFails, Mail, Replying
    <3>2. Ack(msg.id) \in Seq(Answer)
      BY <1>1, <3>1, Replies
    <3>3. QED BY <1>1, <3>1, <3>2, ReplyEffect
  <2>3. QED BY <2>1, <2>2
<1>4. TypeOK'
  BY <1>1, <1>2, <1>3 DEF TypeOK, Answer
<1>5. Launching' /\ Controlling' /\ Answering'
  BY <1>1, <1>2 DEF Places, Launching, Controlling, Answering, Prepared, SettingUp, InWait,
                    Early, Late
<1>6. Starting'
  BY <1>1, <1>2 DEF Places, Starting, Late
<1>7. Keeping'
  <2>1. \A k \in Unanswered' : k \in Unanswered
    BY <1>1, <1>2 DEF Unanswered
  <2>2. \A k \in Lost' : k \in Lost
    BY <1>1, <2>1 DEF Lost
  <2>3. QED BY <1>1, <1>2, <2>2 DEF Places, Keeping, SettingUp, InWait, Early, Late
<1>8. AnsweredAtMostOnce'
  BY <1>2 DEF AnsweredAtMostOnce
<1>9. QED BY <1>2, <1>4, <1>5, <1>6, <1>7, <1>8 DEF Inv, Places

\* watchWda, and steps that change nothing.
LEMMA ThreadStep == Inv /\ (WatchWda \/ UNCHANGED vars) => Inv'
<1> SUFFICES ASSUME Inv, WatchWda \/ UNCHANGED vars PROVE Inv'
  OBVIOUS
<1>0. TypeOK /\ Mail /\ Places /\ AnsweredAtMostOnce
  BY DEF Inv
<1>1. /\ inbox' \in [Conn -> Seq(Message)] /\ thread' \in {"none", "new", "watching"}
      /\ \A d \in Conn : d # "process" => inbox'[d] = inbox[d]
      /\ inbox'["process"] = inbox["process"] \/ launched # "no"
      /\ UNCHANGED <<asked, said, launched, authorized, output, up, ios, pc, readyId, msg,
                     replies, started>>
  <2>1. CASE PrintOutput
    <3>1. Recv("process") /\ "process" \in Conn
      BY <2>1 DEF PrintOutput, Conn
    <3>2. inbox["process"] # <<>>
      BY <3>1 DEF Recv
    <3>3. launched # "no"
      BY <1>0, <3>2 DEF Places, Launching
    <3>4. /\ inbox' \in [Conn -> Seq(Message)]
          /\ \A d \in Conn : d # "process" => inbox'[d] = inbox[d]
          /\ UNCHANGED <<asked, said, launched, authorized, output, up>>
      BY <1>0, <3>1, PopEffect
    <3>5. QED BY <1>0, <2>1, <3>3, <3>4 DEF PrintOutput, mainVars, TypeOK
  <2>2. CASE Observe \/ UNCHANGED vars
    BY <1>0, <2>2 DEF Observe, vars, mainVars, netVars, TypeOK
  <2>3. QED BY <2>1, <2>2 DEF WatchWda
<1>2. Queue' = Queue /\ inbox'["control"] = inbox["control"]
  BY <1>1 DEF Queue, Conn
<1>3. /\ Mail' /\ ConfSent' = ConfSent /\ Unanswered' = Unanswered /\ Lost' = Lost
      /\ AnsweredAtMostOnce'
  BY <1>0, <1>1, <1>2, MailKept
<1>4. TypeOK'
  BY <1>0, <1>1 DEF TypeOK
<1>5. Launching' /\ Controlling'
  BY <1>0, <1>1, <1>2 DEF Places, Launching, Controlling, Prepared
<1>6. Answering' /\ Starting' /\ Keeping'
  BY <1>0, <1>1, <1>2, <1>3 DEF Places, Answering, Starting, Keeping
<1>7. QED BY <1>3, <1>4, <1>5, <1>6 DEF Inv, Places

\* Every step of the specification.
LEMMA InvStep == Inv /\ [Next]_vars => Inv'
<1> SUFFICES ASSUME Inv, [Next]_vars PROVE Inv'
  OBVIOUS
<1>1. CASE Daemons
  BY <1>1, AnswerStep, SessionAnswerStep DEF Daemons, Conn
<1>2. CASE Runner \/ ProcessWrites \/ SessionCloses
  BY <1>2, RunnerStep, NetworkStep
<1>3. CASE Main
  BY <1>3, CallsStep, WaitReadyStep, WaitLogConfStep, WaitAckStep, WaitFailsStep,
     StartSendStep, StartRecvStep, LoopStep, LoopFailsStep DEF Main, Waiting
<1>4. CASE WatchWda \/ UNCHANGED vars
  BY <1>4, ThreadStep
<1>5. QED BY <1>1, <1>2, <1>3, <1>4 DEF Next

\* Three open connections on which nobody has said anything.
LEMMA InvInit == Init => Inv
<1> SUFFICES ASSUME Init PROVE Inv
  OBVIOUS
<1>1. /\ ios \in Versions /\ pc = "control" /\ readyId = 0 /\ msg = Null
      /\ asked = [c \in Conn |-> FALSE] /\ inbox = [c \in Conn |-> <<>>]
      /\ said = <<>> /\ launched = "no" /\ authorized = FALSE
      /\ replies = <<>> /\ started = FALSE /\ thread = "none" /\ output = 0 /\ up = TRUE
  BY DEF Init
<1>2. /\ DOMAIN said = {} /\ Len(said) = 0 /\ DOMAIN replies = {} /\ Queue = <<>>
      /\ DOMAIN Queue = {} /\ inbox["control"] = <<>> /\ inbox["process"] = <<>>
      /\ Len(inbox["control"]) = 0 /\ ~asked["control"] /\ ~asked["session"]
      /\ ~asked["process"]
  BY <1>1 DEF Queue, Conn
<1>3. TypeOK
  <2>1. msg \in Message /\ MaxOutput \in Nat
    BY <1>1, ConstantsAssumption DEF Null, Message
  <2>2. inbox \in [Conn -> Seq(Message)]
    <3>1. <<>> \in Seq(Message)
      BY EmptySeq
    <3> DEFINE S == Seq(Message)
    <3> HIDE DEF S
    <3>2. <<>> \in S => [c \in Conn |-> <<>>] \in [Conn -> S]
      OBVIOUS
    <3>3. QED BY <1>1, <3>1, <3>2 DEF S
  <2>3. asked \in [Conn -> BOOLEAN]
    BY <1>1
  <2>4. said \in Seq(Kinds)
    BY <1>1, EmptySeq
  <2>5. replies \in Seq([to: 0 .. Len(said), what: {"ack", "conf"}])
    <3> DEFINE S == [to: 0 .. Len(said), what: {"ack", "conf"}]
    <3> HIDE DEF S
    <3>1. replies \in Seq(S)
      BY <1>1, EmptySeq
    <3>2. QED BY <3>1 DEF S
  <2>6. readyId \in 0 .. Len(said) /\ output \in 0 .. MaxOutput
    BY <1>1, <1>2, <2>1
  <2>7. QED BY <1>1, <2>1, <2>2, <2>3, <2>4, <2>5, <2>6 DEF TypeOK
<1>4. ~ConfSent /\ Unanswered = {} /\ msg.kind \notin Kinds
  BY <1>1, <1>2 DEF ConfSent, Unanswered, Null, Kinds
<1>5. Mail
  BY <1>1, <1>2, <1>4 DEF Mail, Arrival, Protocol, Readiness, Replying
<1>6. Places
  BY <1>1, <1>2, <1>4 DEF Places, Launching, Controlling, Answering, Starting, Keeping,
                          SettingUp, InWait, Early, Late
<1>7. AnsweredAtMostOnce
  BY <1>2 DEF AnsweredAtMostOnce
<1>8. QED BY <1>3, <1>5, <1>6, <1>7 DEF Inv

\* The invariant holds in every state the program reaches.
LEMMA InvAlways == Spec => []Inv
BY InvInit, InvStep, PTL DEF Spec

-----------------------------------------------------------------------------
(* What follows. *)

\* Every variable has the type of what it stands for.
THEOREM TypeCorrect == Spec => []TypeOK
<1>1. Inv => TypeOK
  BY DEF Inv
<1>2. QED BY <1>1, InvAlways, PTL

\* The configuration goes out as the answer to the runner's ready message and
\* nothing else does; the plan is started only after that, and after the daemon
\* was told which process belongs to the session.
THEOREM ConfAlwaysAnswersReady == Spec => []ConfAnswersReady
<1>1. Inv => ConfAnswersReady
  <2> SUFFICES ASSUME Inv PROVE ConfAnswersReady
    OBVIOUS
  <2>1. started => authorized /\ ConfSent
    BY DEF Inv, Places, Starting
  <2>2. 0 \notin DOMAIN said
    BY Basics DEF Inv
  <2>3. QED BY <2>1, <2>2 DEF Inv, Mail, Replying, ConfAnswersReady
<1>2. QED BY <1>1, InvAlways, PTL

\* While the program waits for the test bundle it finds no answer to an earlier
\* call on the session connection, and does not end by a null pointer.
THEOREM NoAnswerIsLeft == Spec => []NoAnswerLeftBehind
<1>1. Inv => NoAnswerLeftBehind
  BY DEF Inv, Places, Answering, InWait, NoAnswerLeftBehind, Queue
<1>2. QED BY <1>1, InvAlways, PTL

\* No message of the runner is answered twice while the connection is up, and
\* of all that was received at most one stays unanswered.
THEOREM AlwaysAnsweredOnce == Spec => []AnsweredOnce
<1>1. Inv => AnsweredOnce
  <2> SUFFICES ASSUME Inv PROVE AtMostOneLost
    BY DEF Inv, AnsweredOnce
  <2>1. pc = "wait" => \A k \in Unanswered : k = readyId /\ ~ConfSent
    BY DEF Inv, Places, Keeping, InWait
  <2>2. ASSUME pc = "loop" PROVE Cardinality(Lost) <= 1
    <3>1. \A j, k \in Lost : j = k
      BY <2>2 DEF Inv, Places, Keeping, Late
    <3>2. CASE Lost = {}
      <4>1. Cardinality(Lost) = 0
        BY <3>2, FS_EmptySet
      <4>2. QED BY <4>1
    <3>3. CASE Lost # {}
      <4>1. PICK k \in Lost : TRUE
        BY <3>3
      <4>2. Lost = {k}
        BY <3>1, <4>1
      <4>3. Cardinality(Lost) = 1
        BY <4>2, FS_Singleton
      <4>4. QED BY <4>3
    <3>4. QED BY <3>2, <3>3
  <2>3. QED BY <2>1, <2>2 DEF AtMostOneLost, Lost
<1>2. QED BY <1>1, InvAlways, PTL
=============================================================================
