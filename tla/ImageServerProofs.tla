------------------------- MODULE ImageServerProofs -------------------------
(***************************************************************************)
(* What the image server keeps, for any clients and requests, any timeout  *)
(* and any number of descriptors: the list of streams, the answers, and    *)
(* who is timed out.                                                        *)
(*                                                                         *)
(* The invariant has five parts.  Typed gives every variable its type.      *)
(* Listed: the streams still to look at are the last of the list, so that   *)
(* the one that is unlinked is the one the loop has reached.  Served: what  *)
(* a stream has received, queued and sent fits its state; a stream is in    *)
(* the state in which the status is to be sent only while the handler runs  *)
(* for it, and then nothing is queued or sent yet.  Reported: the streams   *)
(* that select reported and the loop has not reached are still ready.       *)
(* Timed: the clock of a stream is behind the true one unless it is late.   *)
(***************************************************************************)
EXTENDS ImageServer, SequenceTheorems, TLAPS

Streams == [state : 0..6, recvLen : Nat, expected : Nat, sendBuf : Seq(Parts)]
Pc == {"select", "streams", "handler", "accept", "crashed"}
Reasons == {"", "timeout", "done", "peer", "invalid"}

Typed ==
    /\ pc \in Pc
    /\ streams \in Seq(Clients) /\ todo \in Seq(Clients) /\ waiting \in Seq(Clients)
    /\ fds \in [ready : SUBSET Clients, listener : BOOLEAN]
    /\ conn \in [Clients -> {"none", "waiting", "open", "closed"}]
    /\ here \in [Clients -> BOOLEAN] /\ arrived \in [Clients -> Nat]
    /\ st \in [Clients -> Streams]
    /\ got \in [Clients -> Seq(Parts)]
    /\ age \in [Clients -> 0..Timeout + 1] /\ behind \in 0..Timeout + 1
    /\ idle \in [Clients -> 0..Timeout + 1]
    /\ late \in [Clients -> BOOLEAN]
    /\ closedBy \in [Clients -> Reasons]

\* The list of streams, the connections that wait, and the place of the loop.
Once(q) == \A i, j \in DOMAIN q : q[i] = q[j] => i = j
TodoIsRest ==
    /\ Len(todo) <= Len(streams)
    /\ \A i \in 1..Len(todo) : todo[i] = streams[Len(streams) - Len(todo) + i]
Listed ==
    /\ Once(streams) /\ Len(streams) <= MaxStreams
    /\ Once(waiting)
    /\ \A c \in Clients : conn[c] = "open" <=> \E i \in DOMAIN streams : streams[i] = c
    /\ \A c \in Clients : conn[c] = "waiting" <=> \E i \in DOMAIN waiting : waiting[i] = c
    /\ TodoIsRest
    /\ pc \in {"select", "accept"} => todo = <<>>
    /\ pc \in {"handler", "crashed"} => todo # <<>>

\* What a stream has received, queued and sent.
Answers == {Answer(<<>>), Answer(Picture)}
Empty(c) == got[c] = <<>> /\ st[c].sendBuf = <<>>
Handled(c) == pc \in {"handler", "crashed"} /\ c = todo[1]
Reading(c) == /\ st[c].state \in {ReceivingHeader, ReceivingRequest} /\ ~Handled(c)
              /\ Empty(c) /\ st[c].recvLen < RequestLen(c)
Asking(c) == st[c].state = SendingStatus /\ Handled(c) /\ Empty(c) /\ age[c] = 0
Answering(c) == st[c].state = SendingData /\ ~Handled(c) /\ got[c] \o st[c].sendBuf \in Answers
ServedAt(c) ==
    /\ st[c].recvLen <= arrived[c] /\ arrived[c] <= RequestLen(c)
    /\ conn[c] \in {"none", "waiting"} => st[c] = NewStream /\ Empty(c) /\ age[c] = 0
    /\ conn[c] = "open" => Reading(c) \/ Asking(c) \/ Answering(c)
    /\ conn[c] = "closed" => IsPrefix(got[c], Answer(Picture)) /\ st[c].sendBuf = <<>>
    /\ conn[c] # "closed" => closedBy[c] = ""
    /\ closedBy[c] = "done" => got[c] \in Answers
Served == \A c \in Clients : ServedAt(c)

\* What select reported of the streams that the loop has still to reach.
ReportedAt(c) == (ReadyToRead(c) \/ ReadyToWrite(c)) \/ c \notin fds.ready
Reported == \A i \in 1..Len(todo) : (pc \in {"handler", "crashed"} => i # 1) => ReportedAt(todo[i])

\* The server's clock and the true one.
TimedAt(c) == conn[c] = "open" /\ ~late[c] => CapAge(age[c] + behind) <= idle[c]
Timed == \A c \in Clients : TimedAt(c)

Inv == Typed /\ Listed /\ Served /\ Reported /\ Timed

-----------------------------------------------------------------------------
(* Numbers, sequences and functions.                                        *)

\* The smaller of two numbers.
LEMMA MinOfTwo ==
  ASSUME NEW m \in Nat, NEW n \in Nat
  PROVE  Min({m, n}) = IF m <= n THEN m ELSE n
<1>1. \E x \in {m, n} : \A y \in {m, n} : x =< y
  <2>1. CASE m <= n
    BY <2>1
  <2>2. CASE ~(m <= n)
    BY <2>2
  <2>3. QED BY <2>1, <2>2
<1>2. Min({m, n}) \in {m, n} /\ \A y \in {m, n} : Min({m, n}) =< y
  BY <1>1 DEF Min
<1>3. QED BY <1>2

\* The smaller of two integers is no greater than either.
LEMMA LeastOfTwo ==
  ASSUME NEW m \in Int, NEW n \in Int
  PROVE  Min({m, n}) \in Int /\ Min({m, n}) <= m /\ Min({m, n}) <= n
<1>1. \E x \in {m, n} : \A y \in {m, n} : x =< y
  <2>1. CASE m <= n
    BY <2>1
  <2>2. CASE ~(m <= n)
    BY <2>2
  <2>3. QED BY <2>1, <2>2
<1>2. Min({m, n}) \in {m, n} /\ \A y \in {m, n} : Min({m, n}) =< y
  BY <1>1 DEF Min
<1>3. QED BY <1>2

\* A time is counted up to one more than the timeout.
LEMMA CapAgeIs ==
  ASSUME NEW n \in Nat
  PROVE  /\ CapAge(n) = IF n <= Timeout + 1 THEN n ELSE Timeout + 1
         /\ CapAge(n) \in 0..Timeout + 1
<1>1. Timeout + 1 \in Nat
  BY ImageServerAssumption
<1>2. CapAge(n) = IF n <= Timeout + 1 THEN n ELSE Timeout + 1
  BY <1>1, MinOfTwo DEF CapAge
<1>3. QED BY <1>1, <1>2

\* Changing what is kept for one client changes nothing else.
LEMMA OneClient ==
  ASSUME NEW T, NEW f \in [Clients -> T], NEW c \in Clients, NEW e \in T
  PROVE  /\ [f EXCEPT ![c] = e] \in [Clients -> T]
         /\ [f EXCEPT ![c] = e][c] = e
         /\ \A x \in Clients : x # c => [f EXCEPT ![c] = e][x] = f[x]
OBVIOUS

\* The first k of a sequence, and the rest of it.
LEMMA Parted ==
  ASSUME NEW T, NEW q \in Seq(T), NEW k \in 0..Len(q)
  PROVE  LET a == SubSeq(q, 1, k)
             b == SubSeq(q, k + 1, Len(q))
         IN /\ a \in Seq(T) /\ Len(a) = k /\ \A i \in 1..k : a[i] = q[i]
            /\ b \in Seq(T) /\ Len(b) = Len(q) - k
            /\ \A i \in 1..Len(q) - k : b[i] = q[k + i]
<1> DEFINE n == Len(q)
           a == SubSeq(q, 1, k)
           b == SubSeq(q, k + 1, n)
<1>1. n \in Nat /\ k \in Nat /\ k + 1 \in Int /\ n \in Int /\ k <= n
  BY LenProperties
<1>2. \A i \in 1..n : q[i] \in T
  BY ElementOfSeq
<1> HIDE DEF n
<1>3. (\A i \in 1..k : q[i] \in T) /\ (\A i \in k + 1..n : q[i] \in T)
  BY <1>1, <1>2
<1>4. a \in Seq(T) /\ Len(a) = k /\ \A i \in 1..k : a[i] = q[i]
  <2>1. /\ a \in Seq(T) /\ Len(a) = IF 1 <= k THEN k - 1 + 1 ELSE 0
        /\ \A i \in 1..k - 1 + 1 : a[i] = q[1 + i - 1]
    BY <1>1, <1>3, SubSeqProperties
  <2> HIDE DEF a
  <2>2. QED BY <1>1, <2>1
<1>5. b \in Seq(T) /\ Len(b) = n - k /\ \A i \in 1..n - k : b[i] = q[k + i]
  <2>1. /\ b \in Seq(T) /\ Len(b) = IF k + 1 <= n THEN n - (k + 1) + 1 ELSE 0
        /\ \A i \in 1..n - (k + 1) + 1 : b[i] = q[k + 1 + i - 1]
    BY <1>1, <1>3, SubSeqProperties
  <2> HIDE DEF b
  <2>2. QED BY <1>1, <2>1
<1>6. QED BY <1>4, <1>5 DEF n

\* The rest of a sequence behind its first element.
LEMMA Rest ==
  ASSUME NEW T, NEW q \in Seq(T), q # <<>>
  PROVE  /\ q[1] \in T /\ Len(q) \in Nat /\ Len(q) >= 1
         /\ Tail(q) \in Seq(T) /\ Len(Tail(q)) = Len(q) - 1
         /\ \A i \in 1..Len(q) - 1 : Tail(q)[i] = q[i + 1]
<1>1. Len(q) \in Nat /\ Len(q) # 0
  BY LenProperties, EmptySeq
<1>2. q[1] \in T
  BY <1>1, ElementOfSeq
<1>3. /\ Tail(q) \in Seq(T) /\ Len(Tail(q)) = Len(q) - 1
      /\ \A i \in 1..Len(Tail(q)) : Tail(q)[i] = q[i + 1]
  BY HeadTailProperties
<1>4. QED BY <1>1, <1>2, <1>3

\* One element taken out of a sequence.
LEMMA TakenOut ==
  ASSUME NEW T, NEW q \in Seq(T), NEW k \in 1..Len(q)
  PROVE  LET r == RemoveAt(q, k)
         IN /\ r \in Seq(T) /\ Len(r) = Len(q) - 1
            /\ \A i \in 1..Len(q) - 1 : r[i] = IF i < k THEN q[i] ELSE q[i + 1]
<1> DEFINE n == Len(q)
           a == SubSeq(q, 1, k - 1)
           b == SubSeq(q, k + 1, n)
           r == a \o b
<1>1. n \in Nat /\ k \in 1..n /\ k - 1 \in 0..n /\ k \in 0..n
  BY LenProperties
<1>2. a \in Seq(T) /\ Len(a) = k - 1 /\ \A i \in 1..k - 1 : a[i] = q[i]
  BY <1>1, Parted
<1>3. b \in Seq(T) /\ Len(b) = n - k /\ \A i \in 1..n - k : b[i] = q[k + i]
  BY <1>1, Parted
<1> HIDE DEF a, b, n
<1>4. /\ r \in Seq(T) /\ Len(r) = n - 1
      /\ \A i \in 1..n - 1 : r[i] = IF i <= k - 1 THEN a[i] ELSE b[i - (k - 1)]
  <2> DEFINE p == k - 1
             m == n - k
  <2>1. p \in Nat /\ m \in Nat /\ p + m = n - 1
    BY <1>1
  <2>2. a \in Seq(T) /\ b \in Seq(T) /\ Len(a) = p /\ Len(b) = m
    BY <1>2, <1>3
  <2> HIDE DEF p, m
  <2>3. /\ r \in Seq(T) /\ Len(r) = p + m
        /\ \A i \in 1..p + m : r[i] = IF i <= p THEN a[i] ELSE b[i - p]
    BY <2>1, <2>2, ConcatProperties
  <2> HIDE DEF r
  <2>4. /\ r \in Seq(T) /\ Len(r) = n - 1
        /\ \A i \in 1..n - 1 : r[i] = IF i <= p THEN a[i] ELSE b[i - p]
    BY <2>1, <2>3
  <2>5. QED BY <2>4 DEF p
<1> HIDE DEF r
<1>5. \A i \in 1..n - 1 : r[i] = IF i < k THEN q[i] ELSE q[i + 1]
  <2> TAKE i \in 1..n - 1
  <2>1. r[i] = IF i <= k - 1 THEN a[i] ELSE b[i - (k - 1)]
    BY <1>4
  <2>2. CASE i < k
    <3>1. i \in 1..k - 1 /\ i <= k - 1
      BY <1>1, <2>2
    <3>2. QED BY <1>2, <2>1, <2>2, <3>1
  <2>3. CASE ~(i < k)
    <3>1. i - (k - 1) \in 1..n - k /\ ~(i <= k - 1) /\ k + (i - (k - 1)) = i + 1
      BY <1>1, <2>3
    <3>2. b[i - (k - 1)] = q[k + (i - (k - 1))]
      BY <1>3, <3>1
    <3>3. QED BY <2>1, <2>3, <3>1, <3>2
  <2>4. QED BY <2>2, <2>3
<1>6. Len(r) = n - 1
  BY <1>1, <1>4
<1>7. RemoveAt(q, k) = r
  BY DEF RemoveAt, r, a, b, n
<1>8. QED BY <1>4, <1>5, <1>6, <1>7 DEF n
-----------------------------------------------------------------------------
(* Answers.                                                                 *)

\* What was sent followed by what is queued stays the same when the first of
\* what is queued is sent.
LEMMA SentAndQueued ==
  ASSUME NEW T, NEW g \in Seq(T), NEW q \in Seq(T), NEW k \in 0..Len(q)
  PROVE  (g \o SubSeq(q, 1, k)) \o SubSeq(q, k + 1, Len(q)) = g \o q
<1> DEFINE a == SubSeq(q, 1, k)
           b == SubSeq(q, k + 1, Len(q))
           n == Len(q)
           m == Len(g)
           ga == g \o a
           gq == g \o q
           l == ga \o b
           r == n - k
           u == m + k
<1>1. n \in Nat /\ m \in Nat /\ k \in Nat /\ k <= n /\ r \in Nat /\ u \in Nat
  BY LenProperties
<1>2. /\ a \in Seq(T) /\ Len(a) = k /\ \A i \in 1..k : a[i] = q[i]
      /\ b \in Seq(T) /\ Len(b) = r /\ \A i \in 1..r : b[i] = q[k + i]
  BY Parted
<1> HIDE DEF a, b
<1>3. /\ ga \in Seq(T) /\ Len(ga) = u
      /\ \A i \in 1..u : ga[i] = IF i <= m THEN g[i] ELSE a[i - m]
  <2> HIDE DEF n, r
  <2>1. /\ ga \in Seq(T) /\ Len(ga) = m + k
        /\ \A i \in 1..m + k : ga[i] = IF i <= m THEN g[i] ELSE a[i - m]
    BY <1>1, <1>2, ConcatProperties
  <2> HIDE DEF ga, m
  <2>2. QED BY <2>1
<1>4. /\ gq \in Seq(T) /\ Len(gq) = m + n
      /\ \A i \in 1..m + n : gq[i] = IF i <= m THEN g[i] ELSE q[i - m]
  BY <1>1, ConcatProperties
<1> HIDE DEF ga, gq, u, r
<1>5. /\ l \in Seq(T) /\ Len(l) = u + r
      /\ \A i \in 1..u + r : l[i] = IF i <= u THEN ga[i] ELSE b[i - u]
  BY <1>1, <1>2, <1>3, ConcatProperties, ZenonT(40)
<1> HIDE DEF l, n, m
<1>6. u = m + k /\ r = n - k /\ u + r = m + n
  BY <1>1 DEF u, r
<1>7. \A i \in 1..m + n : l[i] = gq[i]
  <2> TAKE i \in 1..m + n
  <2>1. l[i] = IF i <= u THEN ga[i] ELSE b[i - u]
    BY <1>5, <1>6
  <2>2. gq[i] = IF i <= m THEN g[i] ELSE q[i - m]
    BY <1>4
  <2>3. CASE i <= m
    <3>1. i \in 1..u /\ i <= u
      BY <1>1, <1>6, <2>3
    <3>2. QED BY <1>3, <2>1, <2>2, <2>3, <3>1
  <2>4. CASE ~(i <= m) /\ i <= u
    <3>1. i \in 1..u /\ i - m \in 1..k
      BY <1>1, <1>6, <2>4
    <3>2. ga[i] = a[i - m] /\ a[i - m] = q[i - m]
      BY <1>2, <1>3, <2>4, <3>1
    <3>3. QED BY <2>1, <2>2, <2>4, <3>2
  <2>5. CASE ~(i <= u)
    <3>1. i - u \in 1..r /\ k + (i - u) = i - m /\ ~(i <= m)
      BY <1>1, <1>6, <2>5
    <3>2. b[i - u] = q[k + (i - u)]
      BY <1>2, <3>1
    <3>3. QED BY <2>1, <2>2, <2>5, <3>1, <3>2
  <2>6. QED BY <2>3, <2>4, <2>5
<1>8. l = gq
  BY <1>4, <1>5, <1>6, <1>7, SeqEqual
<1>9. QED BY <1>8 DEF l, gq, ga, a, b

\* The two answers, part by part.
LEMMA AnswerIs ==
  /\ Answer(<<>>) = <<"status", "type", "blank">>
  /\ Answer(<<>>) \in Seq(Parts) /\ Len(Answer(<<>>)) = 3
  /\ Answer(Picture) \in Seq(Parts) /\ Len(Answer(Picture)) = 4
  /\ \A i \in 1..3 : Answer(<<>>)[i] = Answer(Picture)[i]
<1> DEFINE H == <<"status", "type", "blank">>
           D == <<"data">>
           A == H \o D
<1>1. H \in Seq(Parts) /\ Len(H) = 3 /\ D \in Seq(Parts) /\ Len(D) = 1
  BY DEF Parts
<1>2. Answer(<<>>) = H \o <<>> /\ Answer(Picture) = A
  BY DEF Answer, Picture
<1> HIDE DEF H, D
<1>3. H \o <<>> = H
  BY <1>1, ConcatEmptySeq
<1>4. /\ A \in Seq(Parts) /\ Len(A) = Len(H) + Len(D)
      /\ \A i \in 1..Len(H) + Len(D) : A[i] = IF i <= Len(H) THEN H[i] ELSE D[i - Len(H)]
  BY <1>1, ConcatProperties
<1> HIDE DEF A
<1>5. Len(A) = 4 /\ \A i \in 1..3 : A[i] = H[i]
  BY <1>1, <1>4
<1>6. Answer(<<>>) = H
  BY <1>2, <1>3
<1>7. QED BY <1>1, <1>2, <1>4, <1>5, <1>6 DEF H

\* Whatever is the beginning of an answer is one of the answer with a picture.
LEMMA PartOfAnswer ==
  ASSUME NEW a \in Seq(Parts), NEW b \in Seq(Parts), a \o b \in Answers
  PROVE  IsPrefix(a, Answer(Picture))
<1> DEFINE P == Answer(Picture)
           l == a \o b
           n == Len(a)
           sub == SubSeq(P, 1, n)
           sub2 == SubSeq(a, 1, n)
<1>1. n \in Nat /\ Len(b) \in Nat
  BY LenProperties
<1>2. Len(l) = n + Len(b) /\ \A i \in 1..n + Len(b) : i <= n => l[i] = a[i]
  BY ConcatProperties
<1>3. l = Answer(<<>>) \/ l = P
  BY DEF Answers
<1> HIDE DEF l, n, P
<1>4. Len(l) <= 4 /\ \A i \in 1..Len(l) : l[i] = P[i]
  <2>1. CASE l = P
    BY <2>1, AnswerIs DEF P
  <2>2. CASE l = Answer(<<>>)
    <3>1. Len(l) = 3
      BY <2>2, AnswerIs
    <3>2. \A i \in 1..3 : l[i] = P[i]
      BY <2>2, AnswerIs DEF P
    <3>3. QED BY <3>1, <3>2
  <2>3. QED BY <1>3, <2>1, <2>2
<1>5. n <= 4 /\ \A i \in 1..n : P[i] = a[i]
  <2>1. Len(l) \in Nat /\ n <= Len(l)
    BY <1>1, <1>2
  <2>2. \A i \in 1..n : l[i] = a[i] /\ i \in 1..Len(l)
    BY <1>1, <1>2
  <2>3. QED BY <1>1, <1>4, <2>1, <2>2
<1>6. P \in Seq(Parts) /\ Len(P) = 4
  BY AnswerIs DEF P
<1>7. sub \in Seq(Parts) /\ Len(sub) = n /\ \A i \in 1..n : sub[i] = P[i]
  <2>1. n \in 0..Len(P)
    BY <1>1, <1>5, <1>6
  <2>2. QED BY <1>6, <2>1, Parted
<1>8. sub2 \in Seq(Parts) /\ Len(sub2) = n /\ \A i \in 1..n : sub2[i] = a[i]
  <2>1. n \in 0..Len(a)
    BY <1>1 DEF n
  <2>2. QED BY <2>1, Parted
<1> HIDE DEF sub, sub2
<1>9. sub = sub2
  BY <1>5, <1>7, <1>8, SeqEqual
<1>10. SubSeq(P, 1, n) = SubSeq(a, 1, n) /\ n <= Len(P)
  BY <1>5, <1>6, <1>9 DEF sub, sub2
<1>11. QED BY <1>10 DEF IsPrefix, n, P

\* When a sequence is another with one element appended.
LEMMA AppendedIs ==
  ASSUME NEW T, NEW p \in Seq(T), NEW e \in T, NEW q \in Seq(T),
         Len(q) = Len(p) + 1, \A i \in 1..Len(p) : q[i] = p[i], q[Len(p) + 1] = e
  PROVE  Append(p, e) = q
<1> DEFINE a == Append(p, e)
<1>1. /\ a \in Seq(T) /\ Len(a) = Len(p) + 1 /\ a[Len(p) + 1] = e
      /\ \A i \in 1..Len(p) : a[i] = p[i]
  BY AppendProperties
<1>2. Len(p) \in Nat
  BY LenProperties
<1> HIDE DEF a
<1>3. \A i \in 1..Len(a) : a[i] = q[i]
  BY <1>1, <1>2
<1>4. QED BY <1>1, <1>3, SeqEqual DEF a

\* What event_handler makes of a stream whose request is complete: a whole
\* answer, queued.
LEMMA HandleIs ==
  ASSUME NEW s \in Streams, s.state = SendingStatus, s.sendBuf = <<>>,
         NEW data \in {Picture, <<>>}
  PROVE  LET t == Handle(s, data)
         IN /\ t \in Streams /\ t.state = SendingData /\ t.recvLen = s.recvLen
            /\ t.sendBuf = Answer(data)
<1> USE DEF ReceivingHeader, ReceivingRequest, SendingStatus, SendingHeader, SendingData, Closing
<1> DEFINE b1 == Append(<<>>, "status")
           b2 == Append(b1, "type")
           b3 == Append(b2, "blank")
           Left(n, b) == [state |-> n, recvLen |-> s.recvLen, expected |-> s.expected,
                          sendBuf |-> b]
<1>1. s = Left(2, <<>>)
  BY DEF Streams
<1>2. SendStatus(s) = Left(3, b1)
  BY <1>1 DEF SendStatus, Queue
<1>3. b3 = <<"status", "type", "blank">>
  <2>1. b1 = <<"status">>
    OBVIOUS
  <2>2. Append(<<"status">>, "type") = <<"status", "type">>
    <3> DEFINE p == <<"status">>
               q == <<"status", "type">>
               a == Append(p, "type")
    <3>1. /\ p \in Seq(Parts) /\ q \in Seq(Parts) /\ "type" \in Parts /\ Len(p) = 1 /\ Len(q) = 2
          /\ q[1] = p[1] /\ q[2] = "type"
      BY DEF Parts
    <3> HIDE DEF p, q
    <3>2. (\A i \in 1..Len(p) : q[i] = p[i]) /\ q[Len(p) + 1] = "type" /\ Len(q) = Len(p) + 1
      BY <3>1
    <3>3. a = q
      BY <3>1, <3>2, AppendedIs
    <3>4. QED BY <3>3 DEF a, p, q
  <2>3. Append(<<"status", "type">>, "blank") = <<"status", "type", "blank">>
    <3> DEFINE p == <<"status", "type">>
               q == <<"status", "type", "blank">>
               a == Append(p, "blank")
    <3>1. /\ p \in Seq(Parts) /\ q \in Seq(Parts) /\ "blank" \in Parts /\ Len(p) = 2 /\ Len(q) = 3
          /\ q[1] = p[1] /\ q[2] = p[2] /\ q[3] = "blank"
      BY DEF Parts
    <3> HIDE DEF p, q
    <3>2. a \in Seq(Parts) /\ Len(a) = 3 /\ (\A i \in 1..2 : a[i] = p[i]) /\ a[3] = "blank"
      BY <3>1, AppendProperties, SMTT(30)
    <3> HIDE DEF a
    <3>3. a = q
      BY <3>1, <3>2, SeqEqual
    <3>4. QED BY <3>3 DEF a, p, q
  <2>4. QED BY <2>1, <2>2, <2>3
<1> HIDE DEF b1, b2, b3
<1>4. SendHeader(Left(3, b1)) = Left(3, b2)
  <2>1. Left(3, b1).state = 3
    OBVIOUS
  <2>2. SendHeader(Left(3, b1)) = Queue(Left(3, b1), "type")
    BY <2>1 DEF SendHeader
  <2>3. QED BY <2>2 DEF Queue, b2
<1>5. FinalizeHeader(Left(3, b2)) = Left(4, b3)
  <2>1. Left(3, b2).state = 3
    OBVIOUS
  <2>2. FinalizeHeader(Left(3, b2)) = [Queue(Left(3, b2), "blank") EXCEPT !.state = 4]
    BY <2>1 DEF FinalizeHeader
  <2>3. QED BY <2>2 DEF Queue, b3
<1>6. Write(Left(3, b2), data) = Left(4, b3 \o data)
  <2>1. Left(3, b2).state = 3 /\ Left(4, b3).state = 4
    OBVIOUS
  <2>2. Left(3, b2).state < SendingData /\ Left(4, b3).state = SendingData
    BY <2>1
  <2>3. Write(Left(3, b2), data) = [Left(4, b3) EXCEPT !.sendBuf = @ \o data]
    BY <1>5, <2>2, Zenon DEF Write
  <2>4. QED BY <2>3
<1>7. Handle(s, data) = Left(4, Answer(data))
  BY <1>2, <1>3, <1>4, <1>6 DEF Handle, Answer
<1>8. Answer(data) \in Seq(Parts)
  BY AnswerIs
<1> DEFINE t == Left(4, Answer(data))
<1>9. t \in Streams /\ t.state = 4 /\ t.recvLen = s.recvLen /\ t.sendBuf = Answer(data)
  <2>1. s.recvLen \in Nat /\ s.expected \in Nat
    BY DEF Streams
  <2>2. QED BY <1>8, <2>1 DEF Streams
<1>10. QED BY <1>7, <1>9

-----------------------------------------------------------------------------
(* The end of the loop's body.                                              *)

\* What the end of the body does for a stream left as s: it is kept so, or
\* closed and unlinked, for the reason given or because its time is up.
LEMMA FinishEffect ==
  ASSUME Typed, todo # <<>>, NEW c, c = todo[1], NEW s \in Streams, NEW active \in BOOLEAN,
         NEW why \in Reasons, Finish(c, s, active, why)
  PROVE  /\ c \in Clients /\ todo' = Tail(todo) /\ pc' = "streams"
         /\ st' \in [Clients -> Streams] /\ closedBy' \in [Clients -> Reasons]
         /\ conn' \in [Clients -> {"none", "waiting", "open", "closed"}]
         /\ age' \in [Clients -> 0..Timeout + 1] /\ idle' \in [Clients -> 0..Timeout + 1]
         /\ late' \in [Clients -> BOOLEAN]
         /\ \A x \in Clients : x # c =>
              /\ st'[x] = st[x] /\ closedBy'[x] = closedBy[x] /\ conn'[x] = conn[x]
              /\ age'[x] = age[x] /\ idle'[x] = idle[x] /\ late'[x] = late[x]
         /\ \/ /\ s.state # Closing /\ streams' = streams /\ st'[c] = s
               /\ conn'[c] = conn[c] /\ closedBy'[c] = closedBy[c]
               /\ active => age'[c] = 0 /\ idle'[c] = 0 /\ late'[c] = (behind > 0)
               /\ ~active => age'[c] = age[c] /\ idle'[c] = idle[c] /\ late'[c] = late[c]
            \/ /\ streams' = Unlink /\ conn'[c] = "closed"
               /\ st'[c].sendBuf = <<>> /\ st'[c].recvLen = 0
               /\ \/ s.state = Closing /\ closedBy'[c] = why
                  \/ /\ s.state # Closing /\ closedBy'[c] = "timeout"
                     /\ ~active /\ age[c] > Timeout
<1> DEFINE a == NewAge(c, active)
           expired == s.state # Closing /\ TooOld(a)
           closes == s.state = Closing \/ expired
           e1 == IF closes THEN [NewStream EXCEPT !.state = Closing] ELSE s
           e2 == IF expired THEN "timeout" ELSE IF closes THEN why ELSE closedBy[c]
           e3 == IF closes THEN "closed" ELSE conn[c]
           e4 == IF closes THEN 0 ELSE a
           e5 == IF closes \/ active THEN 0 ELSE idle[c]
           e6 == ~closes /\ IF active THEN behind > 0 ELSE late[c]
<1>1. /\ st' = [st EXCEPT ![c] = e1] /\ closedBy' = [closedBy EXCEPT ![c] = e2]
      /\ conn' = [conn EXCEPT ![c] = e3] /\ age' = [age EXCEPT ![c] = e4]
      /\ idle' = [idle EXCEPT ![c] = e5] /\ late' = [late EXCEPT ![c] = e6]
      /\ streams' = IF closes THEN Unlink ELSE streams
      /\ todo' = Tail(todo) /\ pc' = "streams"
  BY Zenon DEF Finish
<1>2. c \in Clients
  BY Rest DEF Typed
<1>3. /\ Timeout \in Nat /\ age[c] \in 0..Timeout + 1 /\ idle[c] \in 0..Timeout + 1
      /\ conn[c] \in {"none", "waiting", "open", "closed"} /\ closedBy[c] \in Reasons
      /\ late[c] \in BOOLEAN
  BY <1>2, ImageServerAssumption DEF Typed
<1>4. e1 \in Streams
  <2>1. [NewStream EXCEPT !.state = Closing]
          = [state |-> 6, recvLen |-> 0, expected |-> 0, sendBuf |-> <<>>]
    BY DEF NewStream, Closing
  <2>2. <<>> \in Seq(Parts)
    BY EmptySeq
  <2>3. [state |-> 6, recvLen |-> 0, expected |-> 0, sendBuf |-> <<>>] \in Streams
    BY <2>2 DEF Streams
  <2>4. QED BY <2>1, <2>3
<1>5. a \in 0..Timeout + 1
  BY <1>3 DEF NewAge
<1>6. e2 \in Reasons /\ e3 \in {"none", "waiting", "open", "closed"} /\ e6 \in BOOLEAN
  BY <1>3 DEF Reasons
<1>7. e4 \in 0..Timeout + 1 /\ e5 \in 0..Timeout + 1
  BY <1>3, <1>5
<1>8. closes =>
        /\ streams' = Unlink /\ e3 = "closed" /\ e1.sendBuf = <<>> /\ e1.recvLen = 0
        /\ \/ s.state = Closing /\ e2 = why
           \/ s.state # Closing /\ e2 = "timeout" /\ ~active /\ age[c] > Timeout
  BY <1>1, <1>3 DEF NewStream, NewAge, TooOld
<1>9. ~closes =>
        /\ s.state # Closing /\ streams' = streams /\ e1 = s
        /\ e2 = closedBy[c] /\ e3 = conn[c]
        /\ active => e4 = 0 /\ e5 = 0 /\ e6 = (behind > 0)
        /\ ~active => e4 = age[c] /\ e5 = idle[c] /\ e6 = late[c]
  BY <1>1, <1>3 DEF NewAge
<1> HIDE DEF closes, e1, e2, e3, e4, e5, e6
<1>10. /\ st' \in [Clients -> Streams] /\ st'[c] = e1
       /\ \A x \in Clients : x # c => st'[x] = st[x]
  BY <1>1, <1>2, <1>4, OneClient, SMTT(30) DEF Typed
<1>11. /\ closedBy' \in [Clients -> Reasons] /\ closedBy'[c] = e2
       /\ \A x \in Clients : x # c => closedBy'[x] = closedBy[x]
  BY <1>1, <1>2, <1>6, OneClient, SMTT(30) DEF Typed
<1>12. /\ conn' \in [Clients -> {"none", "waiting", "open", "closed"}] /\ conn'[c] = e3
       /\ \A x \in Clients : x # c => conn'[x] = conn[x]
  BY <1>1, <1>2, <1>6, OneClient DEF Typed
<1>13. /\ age' \in [Clients -> 0..Timeout + 1] /\ age'[c] = e4
       /\ \A x \in Clients : x # c => age'[x] = age[x]
  BY <1>1, <1>2, <1>7, OneClient, SMTT(30) DEF Typed
<1>14. /\ idle' \in [Clients -> 0..Timeout + 1] /\ idle'[c] = e5
       /\ \A x \in Clients : x # c => idle'[x] = idle[x]
  BY <1>1, <1>2, <1>7, OneClient, SMTT(30) DEF Typed
<1>15. /\ late' \in [Clients -> BOOLEAN] /\ late'[c] = e6
       /\ \A x \in Clients : x # c => late'[x] = late[x]
  BY <1>1, <1>2, <1>6, OneClient, SMTT(30) DEF Typed
<1>16. \/ /\ s.state # Closing /\ streams' = streams /\ st'[c] = s
          /\ conn'[c] = conn[c] /\ closedBy'[c] = closedBy[c]
          /\ active => age'[c] = 0 /\ idle'[c] = 0 /\ late'[c] = (behind > 0)
          /\ ~active => age'[c] = age[c] /\ idle'[c] = idle[c] /\ late'[c] = late[c]
       \/ /\ streams' = Unlink /\ conn'[c] = "closed"
          /\ st'[c].sendBuf = <<>> /\ st'[c].recvLen = 0
          /\ \/ s.state = Closing /\ closedBy'[c] = why
             \/ s.state # Closing /\ closedBy'[c] = "timeout" /\ ~active /\ age[c] > Timeout
  BY <1>8, <1>9, <1>10, <1>11, <1>12, <1>13, <1>14, <1>15
<1>17. QED BY <1>1, <1>2, <1>10, <1>11, <1>12, <1>13, <1>14, <1>15, <1>16

\* The loop goes on behind the stream it has reached, and the list stays a list
\* of the open connections, whether the stream is kept or unlinked.
LEMMA LoopGoesOn ==
  ASSUME Typed, Listed, todo # <<>>, NEW c, c = todo[1],
         todo' = Tail(todo), pc' = "streams", waiting' = waiting,
         \A x \in Clients : x # c => conn'[x] = conn[x],
         \/ streams' = streams /\ conn'[c] = conn[c]
         \/ streams' = Unlink /\ conn'[c] = "closed"
  PROVE  /\ c \in Clients /\ conn[c] = "open"
         /\ streams' \in Seq(Clients) /\ todo' \in Seq(Clients)
         /\ Listed'
         /\ \A i \in 1..Len(todo') :
              todo'[i] = todo[i + 1] /\ todo'[i] # c /\ i + 1 \in 1..Len(todo)
<1> DEFINE n == Len(streams)
           m == Len(todo)
           k == n - m + 1
<1>1. /\ c \in Clients /\ m \in Nat /\ m >= 1
      /\ todo' \in Seq(Clients) /\ Len(todo') = m - 1
      /\ \A i \in 1..m - 1 : todo'[i] = todo[i + 1]
  BY Rest DEF Typed
<1>2. /\ streams \in Seq(Clients) /\ n \in Nat /\ DOMAIN streams = 1..n
      /\ waiting \in Seq(Clients) /\ DOMAIN waiting = 1..Len(waiting)
  BY LenProperties DEF Typed
<1>3. /\ m <= n /\ k \in 1..n
      /\ \A i \in 1..m : todo[i] = streams[n - m + i]
  BY <1>1, <1>2 DEF Listed, TodoIsRest
<1>4. streams[k] = c
  BY <1>1, <1>3
<1>5. conn[c] = "open"
  BY <1>1, <1>2, <1>3, <1>4 DEF Listed
<1>6. \A i \in 1..m - 1 : todo'[i] # c /\ i + 1 \in 1..m
  <2> TAKE i \in 1..m - 1
  <2>1. i + 1 \in 1..m /\ n - m + (i + 1) \in 1..n /\ n - m + (i + 1) # k
    BY <1>1, <1>2, <1>3
  <2>2. todo'[i] = streams[n - m + (i + 1)]
    BY <1>1, <1>3, <2>1
  <2>3. streams[n - m + (i + 1)] # streams[k]
    BY <1>2, <1>3, <2>1 DEF Listed, Once
  <2>4. QED BY <1>4, <2>1, <2>2, <2>3
<1>7. CASE streams' = streams /\ conn'[c] = conn[c]
  <2>1. \A x \in Clients : conn'[x] = conn[x]
    BY <1>7
  <2>2. TodoIsRest'
    <3>1. Len(todo') <= Len(streams')
      BY <1>1, <1>2, <1>3, <1>7
    <3>2. \A i \in 1..Len(todo') : todo'[i] = streams'[Len(streams') - Len(todo') + i]
      <4> TAKE i \in 1..Len(todo')
      <4>1. i \in 1..m - 1 /\ i + 1 \in 1..m /\ n - (m - 1) + i = n - m + (i + 1)
        BY <1>1, <1>2
      <4>2. QED BY <1>1, <1>3, <1>7, <4>1
    <3>3. QED BY <3>1, <3>2 DEF TodoIsRest
  <2>3. Listed'
    BY <1>7, <2>1, <2>2 DEF Listed, Once
  <2>4. QED BY <1>1, <1>2, <1>5, <1>6, <1>7, <2>3
<1>8. CASE streams' = Unlink /\ conn'[c] = "closed"
  <2> DEFINE r == streams'
  <2>1. /\ r \in Seq(Clients) /\ Len(r) = n - 1
        /\ \A i \in 1..n - 1 : r[i] = IF i < k THEN streams[i] ELSE streams[i + 1]
    <3>1. r = RemoveAt(streams, k)
      BY <1>8 DEF Unlink
    <3>2. QED BY <1>2, <1>3, <3>1, TakenOut
  <2>2. DOMAIN r = 1..n - 1
    BY <2>1, LenProperties
  <2> HIDE DEF r
  <2>3. \A i \in 1..n - 1 :
          \/ i < k /\ i \in 1..n /\ r[i] = streams[i]
          \/ ~(i < k) /\ i + 1 \in 1..n /\ r[i] = streams[i + 1]
    BY <1>2, <2>1
  <2>4. Once(r)
    <3> SUFFICES ASSUME NEW i \in 1..n - 1, NEW j \in 1..n - 1, r[i] = r[j]
                 PROVE  i = j
      BY <2>2 DEF Once
    <3>1. \A x, y \in 1..n : streams[x] = streams[y] => x = y
      BY <1>2 DEF Listed, Once
    <3>2. CASE i < k /\ j < k
      BY <2>3, <3>1, <3>2
    <3>3. CASE ~(i < k) /\ ~(j < k)
      <4>1. i + 1 = j + 1
        BY <2>3, <3>1, <3>3
      <4>2. QED BY <4>1
    <3>4. CASE i < k /\ ~(j < k)
      <4>1. i = j + 1
        BY <2>3, <3>1, <3>4
      <4>2. QED BY <1>2, <1>3, <3>4, <4>1
    <3>5. CASE ~(i < k) /\ j < k
      <4>1. i + 1 = j
        BY <2>3, <3>1, <3>5
      <4>2. QED BY <1>2, <1>3, <3>5, <4>1
    <3>6. QED BY <3>2, <3>3, <3>4, <3>5
  <2>5. \A x \in Clients : conn'[x] = "open" <=> \E i \in DOMAIN r : r[i] = x
    <3> TAKE x \in Clients
    <3>1. CASE x = c
      <4>1. \A i \in 1..n - 1 : r[i] # c
        <5> TAKE i \in 1..n - 1
        <5>1. \A y \in 1..n : streams[y] = c => y = k
          <6>1. k \in DOMAIN streams /\ \A y \in 1..n : y \in DOMAIN streams
            BY <1>2, <1>3
          <6> HIDE DEF k, n
          <6>2. QED BY <1>4, <6>1 DEF Listed, Once
        <5>2. \/ i < k /\ i \in 1..n /\ r[i] = streams[i]
              \/ ~(i < k) /\ i + 1 \in 1..n /\ r[i] = streams[i + 1]
          BY <2>3
        <5>3. i # k \/ ~(i < k)
          OBVIOUS
        <5>4. i + 1 # k \/ i < k
          BY <1>2, <1>3
        <5>5. ~(i < k) \/ i # k
          BY <1>2, <1>3
        <5>6. QED BY <5>1, <5>2, <5>3, <5>4, <5>5
      <4>2. QED BY <1>8, <2>2, <3>1, <4>1
    <3>2. CASE x # c
      <4>1. conn'[x] = conn[x]
        BY <3>2
      <4>2. conn[x] = "open" <=> \E i \in 1..n : streams[i] = x
        BY <1>2 DEF Listed
      <4>3. ASSUME NEW i \in 1..n, streams[i] = x PROVE \E j \in 1..n - 1 : r[j] = x
        <5>1. i # k
          BY <1>4, <3>2, <4>3
        <5>2. CASE i < k
          <6>1. i \in 1..n - 1
            BY <1>2, <1>3, <5>2
          <6>2. r[i] = x
            BY <2>1, <4>3, <5>2, <6>1
          <6>3. QED BY <6>1, <6>2
        <5>3. CASE ~(i < k)
          <6>1. i - 1 \in 1..n - 1 /\ ~(i - 1 < k) /\ i - 1 + 1 = i
            <7>1. i \in Nat /\ i <= n /\ n \in Nat /\ k \in Nat /\ 1 <= k
              BY <1>2, <1>3
            <7> HIDE DEF k, n
            <7>2. QED BY <5>1, <5>3, <7>1
          <6>2. r[i - 1] = streams[i - 1 + 1]
            BY <2>1, <6>1
          <6>3. QED BY <4>3, <6>1, <6>2
        <5>4. QED BY <5>2, <5>3
      <4>4. ASSUME NEW j \in 1..n - 1, r[j] = x PROVE \E i \in 1..n : streams[i] = x
        BY <2>3, <4>4
      <4>5. QED BY <2>2, <4>1, <4>2, <4>3, <4>4
    <3>3. QED BY <3>1, <3>2
  <2>6. \A x \in Clients : conn'[x] = "waiting" <=> \E i \in DOMAIN waiting : waiting[i] = x
    <3> TAKE x \in Clients
    <3>1. conn'[x] = "waiting" <=> conn[x] = "waiting"
      BY <1>5, <1>8
    <3>2. QED BY <3>1 DEF Listed
  <2>7. TodoIsRest'
    <3>1. Len(todo') <= Len(r)
      BY <1>1, <1>2, <1>3, <2>1
    <3>2. \A i \in 1..Len(todo') : todo'[i] = r[Len(r) - Len(todo') + i]
      <4> TAKE i \in 1..Len(todo')
      <4>1. /\ i \in 1..m - 1 /\ i + 1 \in 1..m
            /\ n - 1 - (m - 1) + i \in 1..n - 1 /\ ~(n - 1 - (m - 1) + i < k)
            /\ n - 1 - (m - 1) + i + 1 = n - m + (i + 1)
        BY <1>1, <1>2, <1>3
      <4>2. r[n - 1 - (m - 1) + i] = streams[n - 1 - (m - 1) + i + 1]
        BY <2>1, <4>1
      <4>3. todo'[i] = streams[n - m + (i + 1)]
        BY <1>1, <1>3, <4>1
      <4>4. QED BY <1>1, <2>1, <4>1, <4>2, <4>3
    <3>3. QED BY <3>1, <3>2 DEF TodoIsRest, r
  <2>8. Len(r) <= MaxStreams
    <3>1. MaxStreams \in Nat /\ n <= MaxStreams
      BY ImageServerAssumption DEF Listed
    <3>2. QED BY <1>2, <2>1, <3>1
  <2>9. Listed'
    BY <2>4, <2>5, <2>6, <2>7, <2>8 DEF Listed, Once, r
  <2>10. QED BY <1>1, <1>5, <1>6, <2>1, <2>9 DEF r
<1>9. QED BY <1>7, <1>8
\* The other streams are not concerned by the end of the body.
LEMMA OthersKept ==
  ASSUME Inv, todo # <<>>, NEW c \in Clients, c = todo[1], pc' = "streams", todo' \in Seq(Clients),
         UNCHANGED <<fds, clients, behind>>,
         \A x \in Clients : x # c =>
           /\ st'[x] = st[x] /\ closedBy'[x] = closedBy[x] /\ conn'[x] = conn[x]
           /\ age'[x] = age[x] /\ idle'[x] = idle[x] /\ late'[x] = late[x] /\ got'[x] = got[x],
         \A i \in 1..Len(todo') : todo'[i] = todo[i + 1] /\ todo'[i] # c /\ i + 1 \in 1..Len(todo),
         ServedAt(c)', TimedAt(c)'
  PROVE  Served' /\ Reported' /\ Timed'
<1>0. Typed /\ Listed /\ Served /\ Reported /\ Timed
  BY DEF Inv
<1>1. UNCHANGED <<fds, here, arrived, behind>>
  BY DEF clients
<1>2. \A x \in Clients : ~Handled(x)' /\ (x # c => ~Handled(x))
  BY DEF Handled
<1>3. Served'
  <2> SUFFICES ASSUME NEW x \in Clients PROVE ServedAt(x)'
    BY DEF Served
  <2>1. CASE x # c
    <3>1. /\ st'[x] = st[x] /\ closedBy'[x] = closedBy[x] /\ conn'[x] = conn[x]
          /\ age'[x] = age[x] /\ got'[x] = got[x] /\ arrived'[x] = arrived[x]
          /\ ~Handled(x)' /\ ~Handled(x)
      BY <1>1, <1>2, <2>1
    <3>2. ServedAt(x)
      BY <1>0 DEF Served
    <3> HIDE DEF Handled
    <3>3. QED BY <3>1, <3>2 DEF ServedAt, Empty, Reading, Asking, Answering
  <2>2. QED BY <2>1
<1>4. Reported'
  <2>1. ASSUME NEW x \in Clients, x # c, ReadyToRead(x) \/ ReadyToWrite(x)
        PROVE  (ReadyToRead(x) \/ ReadyToWrite(x))'
    <3>1. st'[x] = st[x] /\ got'[x] = got[x] /\ arrived'[x] = arrived[x] /\ here'[x] = here[x]
      BY <1>1, <2>1
    <3>2. QED BY <2>1, <3>1 DEF ReadyToRead, ReadyToWrite, Takes
  <2>2. \A x \in Clients : x # c /\ ReportedAt(x) => ReportedAt(x)'
    BY <1>1, <2>1 DEF ReportedAt
  <2>3. ASSUME NEW i \in 1..Len(todo') PROVE ReportedAt(todo'[i]) /\ todo'[i] # c
    <3>1. todo'[i] = todo[i + 1] /\ todo'[i] # c /\ i + 1 \in 1..Len(todo) /\ i \in Nat
      BY SMTT(30)
    <3>2. i + 1 # 1
      BY <3>1
    <3>3. QED BY <1>0, <3>1, <3>2 DEF Reported
  <2>4. \A i \in 1..Len(todo') : todo'[i] \in Clients
    BY ElementOfSeq
  <2>5. \A i \in 1..Len(todo') : ReportedAt(todo[i])'
    BY <2>2, <2>3, <2>4 DEF ReportedAt, ReadyToRead, ReadyToWrite, Takes
  <2>6. QED BY <2>5 DEF Reported
<1>5. Timed'
  <2> SUFFICES ASSUME NEW x \in Clients PROVE TimedAt(x)'
    BY DEF Timed
  <2>1. CASE x # c
    <3>1. TimedAt(x) /\ conn'[x] = conn[x] /\ late'[x] = late[x] /\ age'[x] = age[x]
          /\ idle'[x] = idle[x] /\ behind' = behind
      BY <1>0, <1>1, <2>1 DEF Timed
    <3>2. QED BY <3>1 DEF TimedAt, CapAge
  <2>2. QED BY <2>1
<1>6. QED BY <1>3, <1>4, <1>5
\* Nothing is the beginning of an answer.
LEMMA NothingIsPart == IsPrefix(<<>>, Answer(Picture))
<1>1. <<>> \o Answer(Picture) = Answer(Picture) /\ <<>> \in Seq(Parts)
  BY AnswerIs, ConcatEmptySeq, EmptySeq
<1>2. QED BY <1>1, AnswerIs, PartOfAnswer DEF Answers

\* The end of the body keeps the invariant for any stream that is left reading
\* with nothing sent, or answering.
LEMMA FinishStep ==
  ASSUME Inv, todo # <<>>, NEW c, c = todo[1], NEW s \in Streams, NEW active \in BOOLEAN,
         NEW why \in Reasons, Finish(c, s, active, why),
         UNCHANGED <<fds, waiting, clients, behind>>,
         got' \in [Clients -> Seq(Parts)], \A x \in Clients : x # c => got'[x] = got[x],
         s.recvLen <= arrived[c],
         IsPrefix(got'[c], Answer(Picture)),
         s.state = Closing /\ why = "done" => got'[c] \in Answers,
         \/ s.state = Closing
         \/ /\ s.state \in {ReceivingHeader, ReceivingRequest}
            /\ got'[c] = <<>> /\ s.sendBuf = <<>> /\ s.recvLen < RequestLen(c)
         \/ s.state = SendingData /\ got'[c] \o s.sendBuf \in Answers
  PROVE  Inv'
<1>0. Typed /\ Listed /\ Served /\ Reported /\ Timed
  BY DEF Inv
<1>1. /\ c \in Clients /\ todo' = Tail(todo) /\ pc' = "streams"
      /\ st' \in [Clients -> Streams] /\ closedBy' \in [Clients -> Reasons]
      /\ conn' \in [Clients -> {"none", "waiting", "open", "closed"}]
      /\ age' \in [Clients -> 0..Timeout + 1] /\ idle' \in [Clients -> 0..Timeout + 1]
      /\ late' \in [Clients -> BOOLEAN]
      /\ \A x \in Clients : x # c =>
           /\ st'[x] = st[x] /\ closedBy'[x] = closedBy[x] /\ conn'[x] = conn[x]
           /\ age'[x] = age[x] /\ idle'[x] = idle[x] /\ late'[x] = late[x]
  BY <1>0, FinishEffect
<1>2. \/ /\ s.state # Closing /\ streams' = streams /\ st'[c] = s
         /\ conn'[c] = conn[c] /\ closedBy'[c] = closedBy[c]
         /\ active => age'[c] = 0 /\ idle'[c] = 0 /\ late'[c] = (behind > 0)
         /\ ~active => age'[c] = age[c] /\ idle'[c] = idle[c] /\ late'[c] = late[c]
      \/ /\ streams' = Unlink /\ conn'[c] = "closed"
         /\ st'[c].sendBuf = <<>> /\ st'[c].recvLen = 0
         /\ \/ s.state = Closing /\ closedBy'[c] = why
            \/ s.state # Closing /\ closedBy'[c] = "timeout" /\ ~active /\ age[c] > Timeout
  BY <1>0, FinishEffect
<1>3. UNCHANGED <<fds, waiting, here, arrived, behind>>
  BY DEF clients
<1>4. /\ conn[c] = "open" /\ streams' \in Seq(Clients) /\ todo' \in Seq(Clients) /\ Listed'
      /\ \A i \in 1..Len(todo') : todo'[i] = todo[i + 1] /\ todo'[i] # c /\ i + 1 \in 1..Len(todo)
  BY <1>0, <1>1, <1>2, <1>3, LoopGoesOn, SMTT(30)
<1>5. Typed'
  BY <1>0, <1>1, <1>3, <1>4 DEF Typed, Pc
<1>6. /\ arrived[c] \in Nat /\ arrived[c] <= RequestLen(c) /\ closedBy[c] = ""
  BY <1>0, <1>1, <1>4 DEF Typed, Served, ServedAt
<1>12. behind \in 0..Timeout + 1 /\ Timeout \in Nat
  BY <1>0, ImageServerAssumption DEF Typed
<1>7. ~Handled(c)'
  BY <1>1 DEF Handled
<1>8. ServedAt(c)'
  <2>1. CASE /\ s.state # Closing /\ st'[c] = s
             /\ conn'[c] = conn[c] /\ closedBy'[c] = closedBy[c]
    <3>1. Reading(c)' \/ Answering(c)'
      <4>1. \/ /\ s.state \in {ReceivingHeader, ReceivingRequest}
               /\ got'[c] = <<>> /\ s.sendBuf = <<>> /\ s.recvLen < RequestLen(c)
            \/ s.state = SendingData /\ got'[c] \o s.sendBuf \in Answers
        BY <2>1
      <4>2. QED BY <1>7, <2>1, <4>1 DEF Reading, Answering, Empty
    <3> HIDE DEF Reading, Answering
    <3>2. QED BY <1>3, <1>4, <1>6, <2>1, <3>1 DEF ServedAt
  <2>2. CASE /\ conn'[c] = "closed" /\ st'[c].sendBuf = <<>> /\ st'[c].recvLen = 0
             /\ \/ s.state = Closing /\ closedBy'[c] = why
                \/ closedBy'[c] = "timeout"
    <3>1. st'[c].recvLen <= arrived'[c] /\ arrived'[c] <= RequestLen(c)
      <4>1. arrived'[c] = arrived[c] /\ arrived[c] \in Nat /\ st'[c].recvLen = 0
        BY <1>3, <1>6, <2>2
      <4>2. arrived'[c] <= RequestLen(c)
        BY <1>3, <1>6
      <4>3. st'[c].recvLen <= arrived'[c]
        BY <4>1
      <4>4. QED BY <4>2, <4>3
    <3>2. closedBy'[c] = "done" => got'[c] \in Answers
      BY <2>2
    <3> HIDE DEF Answers
    <3>3. QED BY <2>2, <3>1, <3>2 DEF ServedAt
  <2>3. QED BY <1>2, <2>1, <2>2
<1>9. TimedAt(c)'
  <2>1. CASE conn'[c] = "open" /\ active /\ age'[c] = 0 /\ idle'[c] = 0 /\ late'[c] = (behind > 0)
    <3>1. ~late'[c] => ~(behind > 0)
      BY <2>1, Zenon
    <3>2. ~(behind > 0) => behind' = 0
      BY <1>3, <1>12
    <3>3. 0 \in Nat /\ 0 <= Timeout + 1 /\ 0 + 0 = 0
      BY <1>12
    <3>4. CapAge(0) = 0
      BY <3>3, CapAgeIs
    <3>5. QED BY <2>1, <3>1, <3>2, <3>3, <3>4 DEF TimedAt, CapAge
  <2>2. CASE age'[c] = age[c] /\ idle'[c] = idle[c] /\ late'[c] = late[c]
    <3>1. TimedAt(c) /\ behind' = behind /\ conn[c] = "open"
      BY <1>0, <1>1, <1>3, <1>4 DEF Timed
    <3>2. QED BY <2>2, <3>1 DEF TimedAt, CapAge
  <2>3. CASE conn'[c] = "closed"
    BY <2>3 DEF TimedAt
  <2>4. QED BY <1>2, <1>4, <2>1, <2>2, <2>3
<1>10. Served' /\ Reported' /\ Timed'
  <2>1. \A x \in Clients : x # c =>
          /\ st'[x] = st[x] /\ closedBy'[x] = closedBy[x] /\ conn'[x] = conn[x]
          /\ age'[x] = age[x] /\ idle'[x] = idle[x] /\ late'[x] = late[x] /\ got'[x] = got[x]
    BY <1>1
  <2>2. QED BY <1>1, <1>4, <1>8, <1>9, <2>1, OthersKept
<1>11. QED BY <1>4, <1>5, <1>10 DEF Inv

-----------------------------------------------------------------------------
(* The steps.                                                               *)

\* What is known of the stream that the loop has reached.
LEMMA AtStream ==
  ASSUME Inv, pc \in {"streams", "handler"}, todo # <<>>
  PROVE  /\ Stream \in Clients /\ conn[Stream] = "open" /\ Stream = todo[1]
         /\ st[Stream] \in Streams /\ got[Stream] \in Seq(Parts)
         /\ arrived[Stream] \in Nat /\ here[Stream] \in BOOLEAN
         /\ st[Stream].recvLen <= arrived[Stream] /\ arrived[Stream] <= RequestLen(Stream)
         /\ pc = "streams" => Reading(Stream) \/ Answering(Stream)
         /\ pc = "handler" => Asking(Stream)
         /\ IsPrefix(got[Stream], Answer(Picture))
<1>0. Typed /\ Listed /\ Served
  BY DEF Inv
<1> DEFINE c == todo[1]
<1>1. c \in Clients /\ Len(todo) \in Nat /\ Len(todo) >= 1
  BY <1>0, Rest DEF Typed
<1>2. conn[c] = "open"
  <2>1. Len(streams) \in Nat /\ DOMAIN streams = 1..Len(streams)
    BY <1>0, LenProperties DEF Typed
  <2>2. c = streams[Len(streams) - Len(todo) + 1] /\ Len(todo) <= Len(streams)
    BY <1>0, <1>1 DEF Listed, TodoIsRest
  <2>3. Len(streams) - Len(todo) + 1 \in DOMAIN streams
    BY <1>1, <2>1, <2>2
  <2>4. QED BY <1>0, <1>1, <2>2, <2>3 DEF Listed
<1>3. /\ st[c] \in Streams /\ got[c] \in Seq(Parts) /\ arrived[c] \in Nat /\ here[c] \in BOOLEAN
  BY <1>0, <1>1 DEF Typed
<1>4. /\ st[c].recvLen <= arrived[c] /\ arrived[c] <= RequestLen(c)
      /\ Reading(c) \/ Asking(c) \/ Answering(c)
  BY <1>0, <1>1, <1>2 DEF Served, ServedAt
<1>5. /\ pc = "streams" => Reading(c) \/ Answering(c)
      /\ pc = "handler" => Asking(c)
  BY <1>4 DEF Reading, Asking, Answering, Handled
<1>6. IsPrefix(got[c], Answer(Picture))
  <2>1. CASE got[c] = <<>>
    BY <2>1, NothingIsPart
  <2>2. CASE Answering(c)
    <3>1. st[c].sendBuf \in Seq(Parts)
      BY <1>3 DEF Streams
    <3>2. QED BY <1>3, <2>2, <3>1, PartOfAnswer DEF Answering
  <2>3. QED BY <1>4, <2>1, <2>2 DEF Reading, Asking, Empty
<1>7. QED BY <1>1, <1>2, <1>3, <1>4, <1>5, <1>6 DEF Stream
\* Every request is of some length.
LEMMA RequestLenIs ==
  ASSUME NEW c \in Clients
  PROVE  /\ RequestLen(c) \in Nat /\ Request[c].head \in Nat
         /\ 0 < RequestLen(c) /\ Request[c].head <= RequestLen(c)
<1>1. /\ Request[c].head \in Nat \ {0} /\ Request[c].body \in Nat \cup {-1}
  BY ImageServerAssumption DEF RequestType, NoLength
<1>2. CASE HasLength(c)
  <2>1. Request[c].body \in Nat
    BY <1>1, <1>2 DEF HasLength, NoLength
  <2>2. QED BY <1>1, <1>2, <2>1 DEF RequestLen
<1>3. CASE ~HasLength(c)
  BY <1>1, <1>3 DEF RequestLen
<1>4. QED BY <1>2, <1>3

\* A client of which nothing changes is served as before.
LEMMA ServedStays ==
  ASSUME NEW x, ServedAt(x), Handled(x)' <=> Handled(x),
         st'[x] = st[x], got'[x] = got[x], conn'[x] = conn[x], closedBy'[x] = closedBy[x],
         age'[x] = age[x], arrived'[x] = arrived[x]
  PROVE  ServedAt(x)'
<1> HIDE DEF Handled
<1>1. QED BY DEF ServedAt, Empty, Reading, Asking, Answering

\* A stream that select did not report is looked at.
LEMMA QuietStreamStep == Inv /\ QuietStream => Inv'
<1> SUFFICES ASSUME Inv, QuietStream PROVE Inv'
  OBVIOUS
<1> DEFINE c == Stream
           s == st[c]
<1>1. /\ pc = "streams" /\ todo # <<>> /\ Finish(c, s, FALSE, "")
      /\ UNCHANGED <<fds, waiting, clients, behind>> /\ got' = got
  BY DEF QuietStream, Turn
<1>2. /\ c \in Clients /\ c = todo[1] /\ s \in Streams
      /\ s.recvLen <= arrived[c]
      /\ Reading(c) \/ Answering(c)
      /\ IsPrefix(got[c], Answer(Picture))
  BY <1>1, AtStream
<1>3. \/ /\ s.state \in {ReceivingHeader, ReceivingRequest}
         /\ got'[c] = <<>> /\ s.sendBuf = <<>> /\ s.recvLen < RequestLen(c)
      \/ s.state = SendingData /\ got'[c] \o s.sendBuf \in Answers
  BY <1>1, <1>2 DEF Reading, Answering, Empty
<1>4. got' \in [Clients -> Seq(Parts)] /\ "" \in Reasons /\ FALSE \in BOOLEAN
  BY <1>1 DEF Inv, Typed, Reasons
<1>5. IsPrefix(got'[c], Answer(Picture)) /\ "" # "done"
  BY <1>1, <1>2
<1> HIDE DEF c, s
<1>6. \A x \in Clients : x # c => got'[x] = got[x]
  BY <1>1
<1>7. QED BY <1>1, <1>2, <1>3, <1>4, <1>5, <1>6, FinishStep

\* What a read leaves of a stream: a request that is complete, one that is not
\* yet and whose client is there, or one that is to be closed.
LEMMA AfterRecvIs ==
  ASSUME Inv, NEW c \in Clients, Reading(c), st[c] \in Streams, arrived[c] \in Nat,
         here[c] \in BOOLEAN, arrived[c] <= RequestLen(c), st[c].recvLen <= arrived[c]
  PROVE  LET s == AfterRecv(c)
         IN /\ s \in Streams /\ s.sendBuf = <<>> /\ s.recvLen = arrived[c]
            /\ \/ s.state = SendingStatus
               \/ s.state = Closing
               \/ /\ s.state \in {ReceivingHeader, ReceivingRequest}
                  /\ s.recvLen < RequestLen(c) /\ here[c]
<1> USE DEF ReceivingHeader, ReceivingRequest, SendingStatus, SendingHeader, SendingData, Closing
<1>1. /\ RequestLen(c) \in Nat /\ Request[c].head \in Nat /\ Request[c].head <= RequestLen(c)
  BY RequestLenIs
<1> DEFINE Left(n, k) == [state |-> n, recvLen |-> arrived[c], expected |-> k, sendBuf |-> <<>>]
           t == Received(c)
           s == AfterRecv(c)
<1>2. /\ st[c].state \in {0, 1} /\ st[c].expected \in Nat /\ st[c].sendBuf = <<>>
  BY DEF Reading, Empty, Streams
<1>3. [st[c] EXCEPT !.recvLen = arrived[c]] = Left(st[c].state, st[c].expected)
  BY <1>2 DEF Streams
<1>4. Min({arrived[c], RequestLen(c)}) = arrived[c]
  BY <1>1, MinOfTwo
<1>5. \E n \in 0..2, k \in Nat :
        /\ t = Left(n, k)
        /\ n = 2 \/ (n \in {0, 1} /\ arrived[c] < RequestLen(c))
  <2>1. CASE arrived[c] < Request[c].head
    <3>1. t = Left(st[c].state, st[c].expected)
      BY <1>3, <1>4, <2>1 DEF Received
    <3>2. arrived[c] < RequestLen(c)
      BY <1>1, <2>1
    <3>3. QED BY <1>2, <3>1, <3>2
  <2>2. CASE ~(arrived[c] < Request[c].head)
    <3> DEFINE n == IF arrived[c] = RequestLen(c) THEN 2 ELSE 1
               k == IF HasLength(c) THEN RequestLen(c) ELSE 0
    <3>1. t = Left(n, k)
      BY <1>3, <1>4, <2>2 DEF Received
    <3>2. n \in 0..2 /\ k \in Nat /\ (n = 2 \/ (n \in {0, 1} /\ arrived[c] < RequestLen(c)))
      BY <1>1
    <3>3. QED BY <3>1, <3>2
  <2>3. QED BY <2>1, <2>2
<1>6. PICK n \in 0..2, k \in Nat :
        /\ t = Left(n, k)
        /\ n = 2 \/ (n \in {0, 1} /\ arrived[c] < RequestLen(c))
  BY <1>5
<1>7. t.state = n /\ [t EXCEPT !.state = 6] = Left(6, k)
  BY <1>6
<1>8. \/ s = Left(6, k)
      \/ s = Left(2, k) /\ n = 2
      \/ s = Left(n, k) /\ n \in {0, 1} /\ here[c] /\ arrived[c] < RequestLen(c)
  <2> HIDE DEF Left
  <2>1. s = IF n = 2 /\ ~Request[c].valid THEN [t EXCEPT !.state = 6]
            ELSE IF n # 2 /\ ~here[c] THEN [t EXCEPT !.state = 6] ELSE t
    BY <1>7 DEF AfterRecv
  <2>2. QED BY <1>6, <1>7, <2>1
<1>9. <<>> \in Seq(Parts)
  BY EmptySeq
<1>10. \A i \in 0..6 : /\ Left(i, k) \in Streams /\ Left(i, k).state = i
                       /\ Left(i, k).sendBuf = <<>> /\ Left(i, k).recvLen = arrived[c]
  BY <1>9 DEF Streams
<1> HIDE DEF Left, t, s
<1>11. /\ s \in Streams /\ s.sendBuf = <<>> /\ s.recvLen = arrived[c]
       /\ \/ s.state = 2
          \/ s.state = 6
          \/ s.state \in {0, 1} /\ arrived[c] < RequestLen(c) /\ here[c]
  BY <1>6, <1>8, <1>10
<1>12. QED BY <1>11 DEF s
\* The loop reads; when the request is complete the handler begins.
LEMMA ReadStreamStep == Inv /\ ReadStream => Inv'
<1> SUFFICES ASSUME Inv, ReadStream PROVE Inv'
  OBVIOUS
<1>0. Typed /\ Listed /\ Served /\ Reported /\ Timed
  BY DEF Inv
<1>1. /\ pc = "streams" /\ todo # <<>>
      /\ UNCHANGED <<fds, waiting, clients, behind>> /\ got' = got
  BY DEF ReadStream, Turn
<1>10. PICK c \in Clients : c = Stream
  BY <1>1, AtStream
<1>11. st[c].state < SendingStatus
  BY <1>10 DEF ReadStream, Turn
<1> DEFINE s == AfterRecv(c)
           some == arrived[c] > st[c].recvLen
           why == IF s.recvLen = RequestLen(c) THEN "invalid" ELSE "peer"
<1>2. /\ c \in Clients /\ c = todo[1] /\ st[c] \in Streams /\ conn[c] = "open"
      /\ arrived[c] \in Nat /\ here[c] \in BOOLEAN
      /\ st[c].recvLen <= arrived[c] /\ arrived[c] <= RequestLen(c)
      /\ Reading(c) \/ Answering(c)
  BY <1>1, <1>10, AtStream
<1>3. Reading(c)
  BY <1>2, <1>11 DEF Answering, SendingStatus, SendingData
<1>4. /\ s \in Streams /\ s.sendBuf = <<>> /\ s.recvLen = arrived[c]
      /\ \/ s.state = SendingStatus
         \/ s.state = Closing
         \/ /\ s.state \in {ReceivingHeader, ReceivingRequest}
            /\ s.recvLen < RequestLen(c) /\ here[c]
  BY <1>2, <1>3, AfterRecvIs
<1>5. got[c] = <<>> /\ IsPrefix(got'[c], Answer(Picture))
  BY <1>1, <1>3, NothingIsPart DEF Reading, Empty
<1>6. \/ /\ s.state = SendingStatus /\ pc' = "handler" /\ st' = [st EXCEPT ![c] = s]
         /\ age' = [age EXCEPT ![c] = 0] /\ idle' = [idle EXCEPT ![c] = 0]
         /\ late' = [late EXCEPT ![c] = behind > 0]
         /\ UNCHANGED <<streams, todo, conn, closedBy>>
      \/ s.state # SendingStatus /\ Finish(c, s, some, why)
  BY <1>10, Zenon DEF ReadStream
<1> HIDE DEF s
<1>7. CASE s.state # SendingStatus /\ Finish(c, s, some, why)
  <2>1. why \in Reasons /\ why # "done" /\ some \in BOOLEAN
    BY DEF Reasons
  <2>2. got' \in [Clients -> Seq(Parts)] /\ \A x \in Clients : x # c => got'[x] = got[x]
    BY <1>0, <1>1 DEF Typed
  <2>3. s.recvLen <= arrived[c]
    BY <1>2, <1>4
  <2> HIDE DEF some, why
  <2>4. QED BY <1>1, <1>2, <1>4, <1>5, <1>7, <2>1, <2>2, <2>3, FinishStep
<1>8. CASE /\ s.state = SendingStatus /\ pc' = "handler" /\ st' = [st EXCEPT ![c] = s]
           /\ age' = [age EXCEPT ![c] = 0] /\ idle' = [idle EXCEPT ![c] = 0]
           /\ late' = [late EXCEPT ![c] = behind > 0]
           /\ UNCHANGED <<streams, todo, conn, closedBy>>
  <2>0. 0 \in 0..Timeout + 1 /\ (behind > 0) \in BOOLEAN /\ behind \in 0..Timeout + 1
        /\ Timeout \in Nat
    BY <1>0, ImageServerAssumption DEF Typed
  <2>1. /\ st' \in [Clients -> Streams] /\ st'[c] = s
        /\ \A x \in Clients : x # c => st'[x] = st[x]
    BY <1>0, <1>2, <1>4, <1>8, OneClient DEF Typed
  <2>2. /\ age' \in [Clients -> 0..Timeout + 1] /\ age'[c] = 0
        /\ \A x \in Clients : x # c => age'[x] = age[x]
    BY <1>0, <1>2, <1>8, <2>0, OneClient DEF Typed
  <2>3. /\ idle' \in [Clients -> 0..Timeout + 1] /\ idle'[c] = 0
        /\ \A x \in Clients : x # c => idle'[x] = idle[x]
    BY <1>0, <1>2, <1>8, <2>0, OneClient DEF Typed
  <2>4. /\ late' \in [Clients -> BOOLEAN] /\ late'[c] = (behind > 0)
        /\ \A x \in Clients : x # c => late'[x] = late[x]
    BY <1>0, <1>2, <1>8, <2>0, OneClient DEF Typed
  <2>5. UNCHANGED <<streams, todo, conn, closedBy, fds, waiting, here, arrived, behind, got>>
    BY <1>1, <1>8 DEF clients
  <2>6. Typed'
    BY <1>0, <1>8, <2>1, <2>2, <2>3, <2>4, <2>5 DEF Typed, Pc
  <2>7. Listed'
    BY <1>0, <1>1, <1>8, <2>5 DEF Listed, TodoIsRest, Once
  <2>8. Served'
    <3> SUFFICES ASSUME NEW x \in Clients PROVE ServedAt(x)'
      BY DEF Served
    <3>1. CASE x # c
      <4>1. ~Handled(x) /\ ~Handled(x)'
        BY <1>1, <1>2, <2>5, <3>1 DEF Handled
      <4>2. ServedAt(x)
        BY <1>0 DEF Served
      <4>3. QED BY <2>1, <2>2, <2>5, <3>1, <4>1, <4>2, ServedStays
    <3>2. CASE x = c
      <4>1. Asking(c)'
        <5>1. Handled(c)'
          BY <1>2, <1>8, <2>5 DEF Handled
        <5>2. QED BY <1>4, <1>5, <1>8, <2>1, <2>2, <2>5, <5>1 DEF Asking, Empty
      <4>2. closedBy[c] = ""
        BY <1>0, <1>2 DEF Served, ServedAt
      <4>3. st'[c].recvLen <= arrived'[c] /\ arrived'[c] <= RequestLen(c)
        BY <1>2, <1>4, <2>1, <2>5
      <4> HIDE DEF Asking
      <4>4. QED BY <1>2, <2>5, <3>2, <4>1, <4>2, <4>3 DEF ServedAt
    <3>3. QED BY <3>1, <3>2
  <2>9. Reported'
    <3>1. ASSUME NEW i \in 1..Len(todo), i # 1 PROVE ReportedAt(todo[i]) /\ todo[i] # c
      <4>1. ReportedAt(todo[i])
        BY <1>0, <3>1 DEF Reported
      <4>2. /\ Len(todo) <= Len(streams) /\ Len(todo) \in Nat /\ Len(streams) \in Nat
            /\ DOMAIN streams = 1..Len(streams)
        BY <1>0, LenProperties DEF Listed, TodoIsRest, Typed
      <4>3. 1 \in 1..Len(todo)
        BY <4>2
      <4>4. /\ todo[i] = streams[Len(streams) - Len(todo) + i]
            /\ todo[1] = streams[Len(streams) - Len(todo) + 1]
        BY <1>0, <4>3 DEF Listed, TodoIsRest
      <4>5. /\ Len(streams) - Len(todo) + i \in DOMAIN streams
            /\ Len(streams) - Len(todo) + 1 \in DOMAIN streams
            /\ Len(streams) - Len(todo) + i # Len(streams) - Len(todo) + 1
        BY <3>1, <4>2, <4>3
      <4>6. todo[i] # todo[1]
        BY <1>0, <4>4, <4>5 DEF Listed, Once
      <4>7. QED BY <1>2, <4>1, <4>6
    <3>2. \A i \in 1..Len(todo) : todo[i] \in Clients
      BY <1>0, ElementOfSeq DEF Typed
    <3>3. \A x \in Clients : x # c /\ ReportedAt(x) =>
            ((ReadyToRead(x) \/ ReadyToWrite(x)) \/ x \notin fds.ready)'
      BY <2>1, <2>5 DEF ReportedAt, ReadyToRead, ReadyToWrite, Takes
    <3>4. \A i \in 1..Len(todo) : i # 1 => ReportedAt(todo[i])'
      BY <2>5, <3>1, <3>2, <3>3 DEF ReportedAt, ReadyToRead, ReadyToWrite, Takes
    <3>5. QED BY <1>8, <2>5, <3>4 DEF Reported
  <2>10. Timed'
    <3> SUFFICES ASSUME NEW x \in Clients PROVE TimedAt(x)'
      BY DEF Timed
    <3>1. CASE x # c
      <4>1. TimedAt(x) /\ conn'[x] = conn[x] /\ late'[x] = late[x] /\ age'[x] = age[x]
            /\ idle'[x] = idle[x] /\ behind' = behind
        BY <1>0, <2>2, <2>3, <2>4, <2>5, <3>1 DEF Timed
      <4>2. QED BY <4>1 DEF TimedAt, CapAge
    <3>2. CASE x = c
      <4>1. ~late'[c] => ~(behind > 0)
        BY <2>4, Zenon
      <4>2. ~(behind > 0) => behind' = 0
        BY <2>0, <2>5
      <4>3. 0 \in Nat /\ 0 <= Timeout + 1 /\ 0 + 0 = 0
        BY <2>0
      <4>4. CapAge(0) = 0
        BY <4>3, CapAgeIs
      <4>5. ~late'[c] => CapAge(age[c] + behind)' <= idle'[c]
        <5>1. ~late'[c] => age'[c] + behind' = 0
          BY <2>2, <4>1, <4>2, <4>3
        <5>2. QED BY <2>3, <4>4, <5>1 DEF CapAge
      <4>6. QED BY <3>2, <4>5 DEF TimedAt
    <3>3. QED BY <3>1, <3>2
  <2>11. QED BY <2>6, <2>7, <2>8, <2>9, <2>10 DEF Inv
<1>9. QED BY <1>6, <1>7, <1>8

\* The handler has got its picture, or an answer without one.
LEMMA ImageArrivesStep == Inv /\ ImageArrives => Inv'
<1> SUFFICES ASSUME Inv, ImageArrives PROVE Inv'
  OBVIOUS
<1> DEFINE c == Stream
<1>0. todo # <<>>
  BY DEF ImageArrives, Inv, Listed
<1>1. /\ c \in Clients /\ c = todo[1] /\ st[c] \in Streams /\ got[c] \in Seq(Parts)
      /\ st[c].recvLen <= arrived[c] /\ Asking(c)
  BY <1>0, AtStream DEF ImageArrives
<1>2. PICK data \in {Picture, <<>>} : Finish(c, Handle(st[c], data), FALSE, "")
  BY DEF ImageArrives
<1>3. UNCHANGED <<fds, waiting, clients, behind>> /\ got' = got
  BY DEF ImageArrives
<1> DEFINE s == Handle(st[c], data)
<1>4. /\ s \in Streams /\ s.state = SendingData /\ s.recvLen = st[c].recvLen
      /\ s.sendBuf = Answer(data)
  BY <1>1, HandleIs DEF Asking, Empty
<1>5. got'[c] = <<>> /\ got'[c] \o s.sendBuf \in Answers
  <2>1. got'[c] = <<>>
    BY <1>1, <1>3 DEF Asking, Empty
  <2>2. <<>> \o Answer(data) = Answer(data)
    BY AnswerIs, ConcatEmptySeq
  <2>3. Answer(data) \in Answers
    BY DEF Answers
  <2> HIDE DEF s, c
  <2>4. QED BY <1>4, <2>1, <2>2, <2>3
<1>6. got' \in [Clients -> Seq(Parts)] /\ "" \in Reasons /\ FALSE \in BOOLEAN /\ "" # "done"
  BY <1>3 DEF Inv, Typed, Reasons
<1>7. IsPrefix(got'[c], Answer(Picture))
  BY <1>5, NothingIsPart
<1> HIDE DEF s, c
<1>8. (\A x \in Clients : x # c => got'[x] = got[x]) /\ s.recvLen <= arrived[c]
  BY <1>1, <1>3, <1>4
<1>9. Finish(c, s, FALSE, "")
  BY <1>2 DEF s
<1>10. QED BY <1>0, <1>1, <1>3, <1>4, <1>5, <1>6, <1>7, <1>8, <1>9, FinishStep
\* The handler ends the program.
LEMMA ImageFailsStep == Inv /\ ImageFails => Inv'
<1> SUFFICES ASSUME Inv, ImageFails PROVE Inv'
  OBVIOUS
<1>0. Typed /\ Listed /\ Served /\ Reported /\ Timed
  BY DEF Inv
<1>1. /\ pc = "handler" /\ pc' = "crashed"
      /\ UNCHANGED <<streams, todo, fds, waiting, conn, here, arrived, st, got, age, behind,
                     idle, late, closedBy>>
  BY DEF ImageFails, clients, clock
<1>2. Typed'
  BY <1>0, <1>1 DEF Typed, Pc
<1>3. Listed'
  BY <1>0, <1>1 DEF Listed, TodoIsRest, Once
<1>4. Served'
  <2> SUFFICES ASSUME NEW x \in Clients PROVE ServedAt(x)'
    BY DEF Served
  <2>1. ServedAt(x) /\ (Handled(x)' <=> Handled(x))
    BY <1>0, <1>1 DEF Served, Handled
  <2>2. QED BY <1>1, <2>1, ServedStays
<1>5. Reported'
  BY <1>0, <1>1 DEF Reported, ReportedAt, ReadyToRead, ReadyToWrite, Takes
<1>6. Timed'
  BY <1>0, <1>1 DEF Timed, TimedAt, CapAge
<1>7. QED BY <1>2, <1>3, <1>4, <1>5, <1>6 DEF Inv

\* The loop writes: some parts of what is queued are sent, or the connection is
\* closed because everything was or because the client has left.
LEMMA WriteStreamStep == Inv /\ WriteStream => Inv'
<1> SUFFICES ASSUME Inv, WriteStream PROVE Inv'
  OBVIOUS
<1>0. Typed /\ Listed /\ Served /\ Reported /\ Timed
  BY DEF Inv
<1>1. /\ pc = "streams" /\ todo # <<>>
      /\ UNCHANGED <<fds, waiting, clients, behind>>
  BY DEF WriteStream, Turn
<1>2. PICK c \in Clients : c = Stream
  BY <1>1, AtStream
<1>3. ~(st[c].state < SendingStatus)
  BY <1>2 DEF WriteStream, Turn
<1>4. /\ c = todo[1] /\ st[c] \in Streams /\ got[c] \in Seq(Parts) /\ here[c] \in BOOLEAN
      /\ st[c].recvLen <= arrived[c] /\ arrived[c] \in Nat
      /\ Reading(c) \/ Answering(c)
      /\ IsPrefix(got[c], Answer(Picture))
  BY <1>1, <1>2, AtStream
<1>5. Answering(c)
  BY <1>3, <1>4 DEF Reading, ReceivingHeader, ReceivingRequest, SendingStatus
<1> DEFINE q == st[c].sendBuf
           most == Min({Takes(c), Len(q)})
<1>6. /\ st[c].state = SendingData /\ got[c] \o q \in Answers
      /\ q \in Seq(Parts) /\ Len(q) \in Nat
  BY <1>4, <1>5, LenProperties DEF Answering, Streams
<1>7. \/ /\ here[c] /\ most > 0
         /\ \E n \in 1..most : /\ got' = [got EXCEPT ![c] = @ \o SubSeq(q, 1, n)]
                               /\ Finish(c, AfterSend(c, n), TRUE, "")
      \/ /\ ~(here[c] /\ most > 0)
         /\ Finish(c, AfterSend(c, 0), FALSE, IF here[c] THEN "done" ELSE "peer")
         /\ got' = got
  BY <1>2, Zenon DEF WriteStream
<1>8. ASSUME NEW n \in 0..Len(q), NEW s, s = [st[c] EXCEPT !.sendBuf = SubSeq(@, n + 1, Len(@))]
      PROVE  /\ s \in Streams /\ s.state = SendingData /\ s.recvLen = st[c].recvLen
             /\ s.sendBuf = SubSeq(q, n + 1, Len(q))
             /\ (got[c] \o SubSeq(q, 1, n)) \o s.sendBuf \in Answers
             /\ SubSeq(q, 1, n) \in Seq(Parts)
  <2>1. /\ SubSeq(q, 1, n) \in Seq(Parts) /\ SubSeq(q, n + 1, Len(q)) \in Seq(Parts)
        /\ (got[c] \o SubSeq(q, 1, n)) \o SubSeq(q, n + 1, Len(q)) = got[c] \o q
    <3> HIDE DEF q
    <3>1. QED BY <1>4, <1>6, Parted, SentAndQueued
  <2>2. s.sendBuf = SubSeq(q, n + 1, Len(q))
    BY <1>4, <1>8 DEF Streams
  <2>3. s \in Streams /\ s.state = SendingData /\ s.recvLen = st[c].recvLen
    BY <1>4, <1>6, <1>8, <2>1 DEF Streams
  <2> HIDE DEF q
  <2>4. QED BY <1>6, <2>1, <2>2, <2>3
<1>9. CASE /\ here[c] /\ most > 0
           /\ \E n \in 1..most : /\ got' = [got EXCEPT ![c] = @ \o SubSeq(q, 1, n)]
                                 /\ Finish(c, AfterSend(c, n), TRUE, "")
  <2>1. PICK n \in 1..most : /\ got' = [got EXCEPT ![c] = @ \o SubSeq(q, 1, n)]
                             /\ Finish(c, AfterSend(c, n), TRUE, "")
    BY <1>9
  <2>2. q # <<>> /\ n \in 0..Len(q)
    <3>1. Takes(c) \in Int
      BY <1>4, ImageServerAssumption, LenProperties DEF Takes
    <3> DEFINE l == Len(q)
               t == Takes(c)
    <3>2. most <= l /\ most \in Int /\ l \in Nat /\ most > 0 /\ n \in 1..most
      <4>1. l \in Nat /\ most > 0 /\ n \in 1..most
        BY <1>6, <1>9
      <4>2. t \in Int /\ l \in Int
        BY <3>1, <4>1
      <4> HIDE DEF l, t
      <4>3. Min({t, l}) <= l /\ Min({t, l}) \in Int
        BY <4>2, LeastOfTwo
      <4>4. QED BY <4>1, <4>3 DEF l, t
    <3> HIDE DEF most, l
    <3>3. n \in 0..Len(q) /\ Len(q) # 0
      BY <3>2 DEF l
    <3>4. QED BY <3>3, EmptySeq
  <2> DEFINE s == AfterSend(c, n)
             g == got[c] \o SubSeq(q, 1, n)
  <2>3. s = [st[c] EXCEPT !.sendBuf = SubSeq(@, n + 1, Len(@))]
    BY <1>9, <2>2 DEF AfterSend
  <2>4. /\ s \in Streams /\ s.state = SendingData /\ s.recvLen = st[c].recvLen
        /\ s.sendBuf \in Seq(Parts)
        /\ g \o s.sendBuf \in Answers /\ g \in Seq(Parts)
    <3> HIDE DEF s, q
    <3>1. /\ s \in Streams /\ s.state = SendingData /\ s.recvLen = st[c].recvLen
          /\ g \o s.sendBuf \in Answers /\ SubSeq(q, 1, n) \in Seq(Parts)
      BY <1>8, <2>2, <2>3
    <3>2. g \in Seq(Parts)
      BY <1>4, <3>1, ConcatProperties
    <3>3. s.sendBuf \in Seq(Parts)
      BY <3>1 DEF Streams
    <3> HIDE DEF g
    <3>4. QED BY <3>1, <3>2, <3>3
  <2> HIDE DEF s, g
  <2>5. IsPrefix(g, Answer(Picture))
    BY <2>4, PartOfAnswer
  <2>6. got' = [got EXCEPT ![c] = g]
    BY <2>1 DEF g
  <2>7. /\ got' \in [Clients -> Seq(Parts)] /\ got'[c] = g
        /\ \A x \in Clients : x # c => got'[x] = got[x]
    BY <1>0, <2>4, <2>6, OneClient DEF Typed
  <2>8. /\ "" \in Reasons /\ TRUE \in BOOLEAN /\ s.recvLen <= arrived[c]
        /\ s.state # Closing /\ got'[c] \o s.sendBuf \in Answers
    <3>1. "" \in Reasons /\ TRUE \in BOOLEAN
      BY DEF Reasons
    <3>2. s.recvLen <= arrived[c]
      BY <1>4, <2>4
    <3>3. s.state # Closing
      BY <2>4 DEF SendingData, Closing
    <3>4. got'[c] \o s.sendBuf \in Answers
      BY <2>4, <2>7
    <3>5. QED BY <3>1, <3>2, <3>3, <3>4
  <2>9. Finish(c, s, TRUE, "") /\ IsPrefix(got'[c], Answer(Picture))
    BY <2>1, <2>5, <2>7 DEF s
  <2>10. QED BY <1>1, <1>4, <2>4, <2>7, <2>8, <2>9, FinishStep
<1>10. CASE /\ ~(here[c] /\ most > 0)
            /\ Finish(c, AfterSend(c, 0), FALSE, IF here[c] THEN "done" ELSE "peer")
            /\ got' = got
  <2> DEFINE s == AfterSend(c, 0)
             why == IF here[c] THEN "done" ELSE "peer"
  <2>1. got' \in [Clients -> Seq(Parts)] /\ (\A x \in Clients : x # c => got'[x] = got[x])
        /\ IsPrefix(got'[c], Answer(Picture)) /\ got'[c] = got[c]
    BY <1>0, <1>4, <1>10 DEF Typed
  <2>2. why \in Reasons /\ FALSE \in BOOLEAN
    BY DEF Reasons
  <2>3. CASE ~here[c] \/ q = <<>>
    <3>1. s = [st[c] EXCEPT !.state = Closing]
      BY <2>3 DEF AfterSend
    <3>2. s \in Streams /\ s.state = Closing /\ s.recvLen = st[c].recvLen
      BY <1>4, <3>1 DEF Streams, Closing
    <3>3. why = "done" => got'[c] \in Answers
      <4>1. why = "done" => q = <<>>
        BY <2>3
      <4>2. got[c] \o <<>> = got[c]
        BY <1>4, ConcatEmptySeq
      <4> HIDE DEF why, q
      <4>3. QED BY <1>6, <2>1, <4>1, <4>2
    <3>4. Finish(c, s, FALSE, why)
      BY <1>10
    <3> HIDE DEF s, why
    <3>5. s.recvLen <= arrived[c]
      BY <1>4, <3>2
    <3>6. QED BY <1>1, <1>4, <2>1, <2>2, <3>2, <3>3, <3>4, <3>5, FinishStep
  <2>4. CASE here[c] /\ q # <<>>
    <3>1. s = [st[c] EXCEPT !.sendBuf = SubSeq(@, 0 + 1, Len(@))]
      BY <2>4 DEF AfterSend
    <3>2. 0 \in 0..Len(q)
      BY <1>6
    <3>3. /\ s \in Streams /\ s.state = SendingData /\ s.recvLen = st[c].recvLen
          /\ (got[c] \o SubSeq(q, 1, 0)) \o s.sendBuf \in Answers
      <4> HIDE DEF s, q
      <4>1. QED BY <1>8, <3>1, <3>2
    <3>4. got[c] \o SubSeq(q, 1, 0) = got[c]
      <4>1. SubSeq(q, 1, 0) = <<>>
        BY SubSeqEmpty
      <4>2. got[c] \o <<>> = got[c]
        BY <1>4, ConcatEmptySeq
      <4> HIDE DEF q
      <4>3. QED BY <4>1, <4>2
    <3>5. got'[c] \o s.sendBuf \in Answers
      <4> HIDE DEF s, q
      <4>1. QED BY <2>1, <3>3, <3>4
    <3>6. Finish(c, s, FALSE, why)
      BY <1>10
    <3> HIDE DEF s, why
    <3>7. s.recvLen <= arrived[c]
      BY <1>4, <3>3
    <3>8. s.state # Closing
      BY <3>3 DEF SendingData, Closing
    <3>9. QED BY <1>1, <1>4, <2>1, <2>2, <3>3, <3>5, <3>6, <3>7, <3>8, FinishStep
  <2>5. QED BY <1>4, <2>3, <2>4
<1>11. QED BY <1>7, <1>9, <1>10
\* The loop has come to the end of the list.
LEMMA StreamsDoneStep == Inv /\ StreamsDone => Inv'
<1> SUFFICES ASSUME Inv, StreamsDone PROVE Inv'
  OBVIOUS
<1>0. Typed /\ Listed /\ Served /\ Reported /\ Timed
  BY DEF Inv
<1>1. /\ pc = "streams" /\ todo = <<>> /\ pc' \in {"accept", "select"} /\ fds' = NothingReady
      /\ UNCHANGED <<streams, todo, waiting, conn, here, arrived, st, got, age, behind,
                     idle, late, closedBy>>
  BY DEF StreamsDone, clients, clock
<1>2. fds' \in [ready : SUBSET Clients, listener : BOOLEAN]
  BY <1>1 DEF NothingReady
<1>3. Typed'
  BY <1>0, <1>1, <1>2 DEF Typed, Pc
<1>4. Listed'
  BY <1>0, <1>1 DEF Listed, TodoIsRest, Once
<1>5. Served'
  <2> SUFFICES ASSUME NEW x \in Clients PROVE ServedAt(x)'
    BY DEF Served
  <2>1. ServedAt(x) /\ (Handled(x)' <=> Handled(x))
    BY <1>0, <1>1 DEF Served, Handled
  <2>2. QED BY <1>1, <2>1, ServedStays
<1>6. Reported'
  <2>1. Len(todo') = 0
    BY <1>1, EmptySeq
  <2>2. QED BY <2>1 DEF Reported
<1>7. Timed'
  BY <1>0, <1>1 DEF Timed, TimedAt, CapAge
<1>8. QED BY <1>3, <1>4, <1>5, <1>6, <1>7 DEF Inv

\* select returns: what it reports is ready, and the clock is set.
LEMMA SelectStep == Inv /\ Select => Inv'
<1> SUFFICES ASSUME Inv, Select PROVE Inv'
  OBVIOUS
<1>0. Typed /\ Listed /\ Served /\ Reported /\ Timed
  BY DEF Inv
<1> DEFINE ready == {c \in ToSet(streams) : ReadyToRead(c) \/ ReadyToWrite(c)}
<1>1. /\ pc = "select" /\ pc' = "streams" /\ todo' = streams /\ behind' = 0
      /\ fds' = [ready |-> ready, listener |-> waiting # <<>>]
      /\ age' = [c \in Clients |-> IF conn[c] = "open" THEN CapAge(age[c] + behind) ELSE 0]
      /\ UNCHANGED <<streams, waiting, conn, here, arrived, st, got, idle, late, closedBy>>
  BY DEF Select, clients
<1>2. /\ Timeout \in Nat /\ behind \in 0..Timeout + 1 /\ streams \in Seq(Clients)
      /\ Len(streams) \in Nat /\ DOMAIN streams = 1..Len(streams)
  BY <1>0, ImageServerAssumption, LenProperties DEF Typed
<1>3. ASSUME NEW c \in Clients
      PROVE  /\ CapAge(age[c] + behind) \in 0..Timeout + 1
             /\ age'[c] = IF conn[c] = "open" THEN CapAge(age[c] + behind) ELSE 0
             /\ age'[c] \in 0..Timeout + 1
  <2>1. age[c] + behind \in Nat
    BY <1>0, <1>2 DEF Typed
  <2>2. CapAge(age[c] + behind) \in 0..Timeout + 1
    BY <2>1, CapAgeIs
  <2>3. QED BY <1>1, <1>2, <2>2
<1>4. ready \in SUBSET Clients
  <2>1. \A i \in 1..Len(streams) : streams[i] \in Clients
    BY <1>2, ElementOfSeq
  <2>2. QED BY <1>2, <2>1 DEF ToSet
<1>5. Typed'
  <2>1. age' \in [Clients -> 0..Timeout + 1]
    BY <1>1, <1>3
  <2>2. behind' \in 0..Timeout + 1
    BY <1>1, <1>2
  <2>3. fds' \in [ready : SUBSET Clients, listener : BOOLEAN]
    <3> HIDE DEF ready
    <3>1. QED BY <1>1, <1>4
  <2>4. QED BY <1>0, <1>1, <2>1, <2>2, <2>3 DEF Typed, Pc
<1>6. Listed'
  <2>1. TodoIsRest'
    <3>1. \A i \in 1..Len(streams) : Len(streams) - Len(streams) + i = i
      BY <1>2
    <3>2. QED BY <1>1, <1>2, <3>1 DEF TodoIsRest
  <2>2. QED BY <1>0, <1>1, <2>1 DEF Listed, Once
<1>7. Served'
  <2> SUFFICES ASSUME NEW x \in Clients PROVE ServedAt(x)'
    BY DEF Served
  <2>1. ServedAt(x) /\ ~Handled(x)' /\ ~Handled(x)
    BY <1>0, <1>1 DEF Served, Handled
  <2>2. conn[x] # "open" => age'[x] = 0
    BY <1>3
  <2> HIDE DEF Handled
  <2>3. QED BY <1>1, <2>1, <2>2 DEF ServedAt, Empty, Reading, Asking, Answering
<1>8. Reported'
  <2>1. \A x \in Clients : x \in ready => ReadyToRead(x) \/ ReadyToWrite(x)
    OBVIOUS
  <2>2. fds'.ready = ready
    BY <1>1
  <2> HIDE DEF ready
  <2>3. \A x \in Clients : x \in fds'.ready => (ReadyToRead(x) \/ ReadyToWrite(x))'
    BY <1>1, <2>1, <2>2 DEF ReadyToRead, ReadyToWrite, Takes
  <2>4. \A i \in 1..Len(streams) : streams[i] \in Clients
    BY <1>2, ElementOfSeq
  <2>5. \A i \in 1..Len(todo') : ReportedAt(todo[i])'
    BY <1>1, <2>3, <2>4 DEF ReportedAt, ReadyToRead, ReadyToWrite, Takes
  <2>6. QED BY <2>5 DEF Reported
<1>9. Timed'
  <2> SUFFICES ASSUME NEW x \in Clients, conn'[x] = "open", ~late'[x]
               PROVE  CapAge(age[x] + behind)' <= idle'[x]
    BY DEF Timed, TimedAt
  <2> DEFINE n == CapAge(age[x] + behind)
  <2>1. n <= idle[x] /\ n \in 0..Timeout + 1 /\ age'[x] = n /\ idle'[x] = idle[x]
    BY <1>0, <1>1, <1>3 DEF Timed, TimedAt
  <2> HIDE DEF n
  <2>2. n \in Nat /\ n <= Timeout + 1 /\ age'[x] + behind' = n
    BY <1>1, <1>2, <2>1
  <2>3. CapAge(n) = n
    BY <2>2, CapAgeIs
  <2>4. QED BY <2>1, <2>2, <2>3 DEF CapAge
<1>10. QED BY <1>5, <1>6, <1>7, <1>8, <1>9 DEF Inv

\* Time passes, for the server's clock and for everybody who is connected.
LEMMA TickStep == Inv /\ Tick => Inv'
<1> SUFFICES ASSUME Inv, Tick PROVE Inv'
  OBVIOUS
<1>0. Typed /\ Listed /\ Served /\ Reported /\ Timed
  BY DEF Inv
<1>1. /\ behind' = CapAge(behind + 1)
      /\ idle' = [c \in Clients |-> IF conn[c] = "open" THEN CapAge(idle[c] + 1) ELSE idle[c]]
      /\ UNCHANGED <<pc, streams, todo, fds, waiting, conn, here, arrived, st, got, age, late,
                     closedBy>>
  BY DEF Tick, clients
<1>2. Timeout \in Nat /\ behind \in Nat /\ behind + 1 \in Nat
  BY <1>0, ImageServerAssumption DEF Typed
<1>3. /\ behind' = (IF behind + 1 <= Timeout + 1 THEN behind + 1 ELSE Timeout + 1)
      /\ behind' \in 0..Timeout + 1
  BY <1>1, <1>2, CapAgeIs
<1>4. ASSUME NEW c \in Clients
      PROVE  /\ age[c] \in Nat /\ idle[c] \in Nat /\ idle[c] <= Timeout + 1
             /\ conn[c] = "open" => idle'[c] = IF idle[c] + 1 <= Timeout + 1 THEN idle[c] + 1
                                                 ELSE Timeout + 1
             /\ idle'[c] \in 0..Timeout + 1
  <2>1. age[c] \in Nat /\ idle[c] \in Nat /\ idle[c] <= Timeout + 1 /\ idle[c] + 1 \in Nat
    BY <1>0, <1>2 DEF Typed
  <2>2. /\ CapAge(idle[c] + 1) = IF idle[c] + 1 <= Timeout + 1 THEN idle[c] + 1 ELSE Timeout + 1
        /\ CapAge(idle[c] + 1) \in 0..Timeout + 1
    BY <2>1, CapAgeIs
  <2>3. idle'[c] = IF conn[c] = "open" THEN CapAge(idle[c] + 1) ELSE idle[c]
    BY <1>1
  <2>4. QED BY <1>2, <2>1, <2>2, <2>3
<1>5. Typed'
  <2>1. idle' \in [Clients -> 0..Timeout + 1]
    BY <1>1, <1>4
  <2>2. QED BY <1>0, <1>1, <1>3, <2>1 DEF Typed
<1>6. Listed'
  BY <1>0, <1>1 DEF Listed, TodoIsRest, Once
<1>7. Served'
  <2> SUFFICES ASSUME NEW x \in Clients PROVE ServedAt(x)'
    BY DEF Served
  <2>1. ServedAt(x) /\ (Handled(x)' <=> Handled(x))
    BY <1>0, <1>1 DEF Served, Handled
  <2>2. QED BY <1>1, <2>1, ServedStays
<1>8. Reported'
  BY <1>0, <1>1 DEF Reported, ReportedAt, ReadyToRead, ReadyToWrite, Takes
<1>9. Timed'
  <2> SUFFICES ASSUME NEW x \in Clients, conn'[x] = "open", ~late'[x]
               PROVE  CapAge(age[x] + behind)' <= idle'[x]
    BY DEF Timed, TimedAt
  <2> DEFINE a == age[x]
             i == idle[x]
             b == behind
             b1 == behind'
             i1 == idle'[x]
  <2>1. /\ a \in Nat /\ i \in Nat /\ b \in Nat /\ Timeout \in Nat
        /\ b1 = (IF b + 1 <= Timeout + 1 THEN b + 1 ELSE Timeout + 1)
        /\ i1 = (IF i + 1 <= Timeout + 1 THEN i + 1 ELSE Timeout + 1)
        /\ CapAge(a + b) <= i
    BY <1>0, <1>1, <1>2, <1>3, <1>4 DEF Timed, TimedAt
  <2>2. CapAge(a + b1) = CapAge(age[x] + behind)'
    BY <1>1 DEF CapAge
  <2> HIDE DEF a, b, i, b1, i1
  <2>3. a + b \in Nat /\ b1 \in Nat /\ a + b1 \in Nat
    BY <2>1
  <2>4. /\ CapAge(a + b) = (IF a + b <= Timeout + 1 THEN a + b ELSE Timeout + 1)
        /\ CapAge(a + b1) = (IF a + b1 <= Timeout + 1 THEN a + b1 ELSE Timeout + 1)
    BY <2>3, CapAgeIs
  <2>5. CapAge(a + b1) <= i1
    BY <2>1, <2>3, <2>4
  <2>6. QED BY <2>2, <2>5 DEF i1
<1>10. QED BY <1>5, <1>6, <1>7, <1>8, <1>9 DEF Inv
\* A client connects: it waits behind the others.
LEMMA ClientConnectsStep == ASSUME Inv, NEW c \in Clients, ClientConnects(c) PROVE Inv'
<1>0. Typed /\ Listed /\ Served /\ Reported /\ Timed
  BY DEF Inv
<1>1. /\ conn[c] = "none" /\ pc # "crashed"
      /\ conn' = [conn EXCEPT ![c] = "waiting"]
      /\ waiting' = Append(waiting, c)
      /\ UNCHANGED <<pc, streams, todo, fds, here, arrived, st, got, age, behind, idle, late,
                     closedBy>>
  BY DEF ClientConnects, clients, clock
<1>2. /\ conn' \in [Clients -> {"none", "waiting", "open", "closed"}] /\ conn'[c] = "waiting"
      /\ \A x \in Clients : x # c => conn'[x] = conn[x]
  BY <1>0, <1>1, OneClient DEF Typed
<1> DEFINE w == waiting'
           n == Len(waiting)
<1>3. waiting \in Seq(Clients) /\ n \in Nat /\ DOMAIN waiting = 1..n
  BY <1>0, LenProperties DEF Typed
<1>4. /\ w \in Seq(Clients) /\ Len(w) = n + 1 /\ w[n + 1] = c
      /\ \A i \in 1..n : w[i] = waiting[i]
  BY <1>1, <1>3, AppendProperties
<1>5. DOMAIN w = 1..n + 1
  BY <1>4, LenProperties
<1> HIDE DEF w, n
<1>6. \A i \in 1..n : waiting[i] # c
  BY <1>0, <1>1, <1>3 DEF Listed
<1>7. Typed'
  BY <1>0, <1>1, <1>2, <1>4 DEF Typed, w
<1>8. Listed'
  <2>1. Once(w)
    <3> SUFFICES ASSUME NEW i \in 1..n + 1, NEW j \in 1..n + 1, w[i] = w[j] PROVE i = j
      BY <1>5 DEF Once
    <3>1. CASE i \in 1..n /\ j \in 1..n
      BY <1>0, <1>3, <1>4, <3>1 DEF Listed, Once
    <3>2. CASE i = n + 1 /\ j = n + 1
      BY <3>2
    <3>3. CASE i = n + 1 /\ j \in 1..n
      BY <1>4, <1>6, <3>3
    <3>4. CASE i \in 1..n /\ j = n + 1
      BY <1>4, <1>6, <3>4
    <3>5. QED BY <1>3, <3>1, <3>2, <3>3, <3>4
  <2>2. \A x \in Clients : conn'[x] = "waiting" <=> \E i \in DOMAIN w : w[i] = x
    <3> TAKE x \in Clients
    <3>1. CASE x = c
      <4>1. n + 1 \in DOMAIN w
        BY <1>3, <1>5
      <4>2. QED BY <1>2, <1>4, <3>1, <4>1
    <3>2. CASE x # c
      <4>1. conn'[x] = "waiting" <=> \E i \in 1..n : waiting[i] = x
        BY <1>0, <1>2, <1>3, <3>2 DEF Listed
      <4>2. ASSUME NEW i \in 1..n, waiting[i] = x PROVE \E j \in DOMAIN w : w[j] = x
        BY <1>3, <1>4, <1>5, <4>2
      <4>3. ASSUME NEW j \in DOMAIN w, w[j] = x PROVE \E i \in 1..n : waiting[i] = x
        <5>1. j \in 1..n
          BY <1>3, <1>4, <1>5, <3>2, <4>3
        <5>2. QED BY <1>4, <4>3, <5>1
      <4>4. QED BY <4>1, <4>2, <4>3
    <3>3. QED BY <3>1, <3>2
  <2>3. \A x \in Clients : conn'[x] = "open" <=> \E i \in DOMAIN streams : streams[i] = x
    BY <1>0, <1>1, <1>2 DEF Listed
  <2>4. TodoIsRest'
    BY <1>0, <1>1 DEF Listed, TodoIsRest
  <2>5. Once(waiting)'
    BY <2>1 DEF Once, w
  <2>6. /\ Once(streams)' /\ Len(streams') <= MaxStreams
        /\ pc' \in {"select", "accept"} => todo' = <<>>
        /\ pc' \in {"handler", "crashed"} => todo' # <<>>
    BY <1>0, <1>1 DEF Listed, Once
  <2>7. \A x \in Clients :
          conn'[x] = "waiting" <=> \E i \in DOMAIN waiting' : waiting'[i] = x
    BY <2>2 DEF w
  <2>8. \A x \in Clients :
          conn'[x] = "open" <=> \E i \in DOMAIN streams' : streams'[i] = x
    BY <1>1, <2>3
  <2> HIDE DEF Once, TodoIsRest
  <2>9. QED BY <2>4, <2>5, <2>6, <2>7, <2>8 DEF Listed
<1>9. Served'
  <2> SUFFICES ASSUME NEW x \in Clients PROVE ServedAt(x)'
    BY DEF Served
  <2>1. ServedAt(x) /\ (Handled(x)' <=> Handled(x))
    BY <1>0, <1>1 DEF Served, Handled
  <2>2. CASE x # c
    BY <1>1, <1>2, <2>1, <2>2, ServedStays
  <2>3. CASE x = c
    BY <1>1, <1>2, <2>1, <2>3 DEF ServedAt, Empty
  <2>4. QED BY <2>2, <2>3
<1>10. Reported'
  BY <1>0, <1>1 DEF Reported, ReportedAt, ReadyToRead, ReadyToWrite, Takes
<1>11. Timed'
  BY <1>0, <1>1, <1>2 DEF Timed, TimedAt, CapAge
<1>12. QED BY <1>7, <1>8, <1>9, <1>10, <1>11 DEF Inv

\* More of a request arrives.
LEMMA ClientSendsStep == ASSUME Inv, NEW c \in Clients, ClientSends(c) PROVE Inv'
<1>0. Typed /\ Listed /\ Served /\ Reported /\ Timed
  BY DEF Inv
<1>1. /\ arrived[c] < RequestLen(c) /\ arrived' = [arrived EXCEPT ![c] = arrived[c] + 1]
      /\ UNCHANGED <<pc, streams, todo, fds, waiting, conn, here, st, got, age, behind, idle,
                     late, closedBy>>
  BY DEF ClientSends, clock
<1>2. RequestLen(c) \in Nat /\ arrived[c] \in Nat /\ arrived[c] + 1 \in Nat
  BY <1>0, RequestLenIs DEF Typed
<1>3. /\ arrived' \in [Clients -> Nat] /\ arrived'[c] = arrived[c] + 1
      /\ \A x \in Clients : x # c => arrived'[x] = arrived[x]
  BY <1>0, <1>1, <1>2, OneClient DEF Typed
<1>4. Typed'
  BY <1>0, <1>1, <1>3 DEF Typed
<1>5. Listed'
  BY <1>0, <1>1 DEF Listed, TodoIsRest, Once
<1>6. Served'
  <2> SUFFICES ASSUME NEW x \in Clients PROVE ServedAt(x)'
    BY DEF Served
  <2>1. ServedAt(x) /\ (Handled(x)' <=> Handled(x))
    BY <1>0, <1>1 DEF Served, Handled
  <2>2. CASE x # c
    BY <1>1, <1>3, <2>1, <2>2, ServedStays
  <2>3. CASE x = c
    <3>1. st'[c].recvLen <= arrived'[c] /\ arrived'[c] <= RequestLen(c)
      <4>1. st[c].recvLen \in Nat /\ st[c].recvLen <= arrived[c]
        BY <1>0, <2>1, <2>3 DEF Typed, Streams, ServedAt
      <4>2. QED BY <1>1, <1>2, <1>3, <4>1
    <3> HIDE DEF Handled
    <3>2. QED BY <1>1, <2>1, <2>3, <3>1 DEF ServedAt, Empty, Reading, Asking, Answering
  <2>4. QED BY <2>2, <2>3
<1>7. Reported'
  <2>1. ASSUME NEW x \in Clients, ReadyToRead(x) \/ ReadyToWrite(x)
        PROVE  (ReadyToRead(x) \/ ReadyToWrite(x))'
    <3>1. CASE x # c
      BY <1>1, <1>3, <2>1, <3>1 DEF ReadyToRead, ReadyToWrite, Takes
    <3>2. CASE x = c
      <4>1. st[c].recvLen \in Nat
        BY <1>0 DEF Typed, Streams
      <4>2. arrived[c] > st[c].recvLen => arrived'[c] > st'[c].recvLen
        BY <1>1, <1>2, <1>3, <4>1
      <4>3. QED BY <1>1, <2>1, <3>2, <4>2 DEF ReadyToRead, ReadyToWrite, Takes
    <3>3. QED BY <3>1, <3>2
  <2>2. \A i \in 1..Len(todo) : todo[i] \in Clients
    BY <1>0, ElementOfSeq DEF Typed
  <2>3. \A i \in 1..Len(todo) : ReportedAt(todo[i]) => ReportedAt(todo[i])'
    BY <1>1, <2>1, <2>2 DEF ReportedAt, ReadyToRead, ReadyToWrite, Takes
  <2>4. QED BY <1>0, <1>1, <2>3 DEF Reported
<1>8. Timed'
  BY <1>0, <1>1 DEF Timed, TimedAt, CapAge
<1>9. QED BY <1>4, <1>5, <1>6, <1>7, <1>8 DEF Inv

\* A client leaves.
LEMMA ClientLeavesStep == ASSUME Inv, NEW c \in Clients, ClientLeaves(c) PROVE Inv'
<1>0. Typed /\ Listed /\ Served /\ Reported /\ Timed
  BY DEF Inv
<1>1. /\ here' = [here EXCEPT ![c] = FALSE]
      /\ UNCHANGED <<pc, streams, todo, fds, waiting, conn, arrived, st, got, age, behind, idle,
                     late, closedBy>>
  BY DEF ClientLeaves, clock
<1>2. here' \in [Clients -> BOOLEAN] /\ \A x \in Clients : ~here[x] => ~here'[x]
  BY <1>0, <1>1 DEF Typed
<1>3. Typed'
  BY <1>0, <1>1, <1>2 DEF Typed
<1>4. Listed'
  BY <1>0, <1>1 DEF Listed, TodoIsRest, Once
<1>5. Served'
  <2> SUFFICES ASSUME NEW x \in Clients PROVE ServedAt(x)'
    BY DEF Served
  <2>1. ServedAt(x) /\ (Handled(x)' <=> Handled(x))
    BY <1>0, <1>1 DEF Served, Handled
  <2>2. QED BY <1>1, <2>1, ServedStays
<1>6. Reported'
  <2>1. \A i \in 1..Len(todo) : todo[i] \in Clients
    BY <1>0, ElementOfSeq DEF Typed
  <2>2. \A i \in 1..Len(todo) : ReportedAt(todo[i]) => ReportedAt(todo[i])'
    BY <1>1, <1>2, <2>1 DEF ReportedAt, ReadyToRead, ReadyToWrite, Takes
  <2>3. QED BY <1>0, <1>1, <2>2 DEF Reported
<1>7. Timed'
  BY <1>0, <1>1 DEF Timed, TimedAt, CapAge
<1>8. QED BY <1>3, <1>4, <1>5, <1>6, <1>7 DEF Inv

\* The list p when the first n of q are accepted, and those of q that wait on.
WithNew(p, q, n) == Reverse(SubSeq(q, 1, n)) \o p
Behind(q, n) == SubSeq(q, n + 1, Len(q))
FirstOf(q, n) == {q[i] : i \in 1..n}
In(x, q) == \E i \in DOMAIN q : q[i] = x
Apart(p, q) == \A i \in DOMAIN p, j \in DOMAIN q : p[i] # q[j]

\* The first n that wait are put in front of the list, the last of them first.
LEMMA Accepted ==
  ASSUME NEW T, NEW p \in Seq(T), NEW q \in Seq(T), NEW n \in 0..Len(q),
         Once(p), Once(q), Apart(p, q)
  PROVE  LET r == WithNew(p, q, n)
             w == Behind(q, n)
             new == FirstOf(q, n)
         IN /\ r \in Seq(T) /\ Len(r) = n + Len(p) /\ Once(r)
            /\ w \in Seq(T) /\ Once(w)
            /\ \A x : In(x, r) <=> x \in new \/ In(x, p)
            /\ \A x : In(x, w) <=> In(x, q) /\ x \notin new
<1> DEFINE a == SubSeq(q, 1, n)
           w == SubSeq(q, n + 1, Len(q))
           v == Reverse(a)
           r == v \o p
           new == {q[i] : i \in 1..n}
           k == Len(p)
           l == Len(q)
<1>1. /\ k \in Nat /\ l \in Nat /\ n \in Nat /\ n <= l
      /\ DOMAIN p = 1..k /\ DOMAIN q = 1..l
  BY LenProperties
<1>2. /\ a \in Seq(T) /\ Len(a) = n /\ \A i \in 1..n : a[i] = q[i]
      /\ w \in Seq(T) /\ Len(w) = l - n /\ \A i \in 1..l - n : w[i] = q[n + i]
  BY Parted
<1>3. DOMAIN w = 1..l - n
  BY <1>2, LenProperties
<1> HIDE DEF a, w
<1>4. v \in Seq(T) /\ Len(v) = n /\ \A i \in 1..n : v[i] = q[n + 1 - i]
  <2>1. v = [i \in 1..n |-> a[(n - i) + 1]]
    BY <1>2 DEF Reverse
  <2>2. \A i \in 1..n : (n - i) + 1 \in 1..n /\ (n - i) + 1 = n + 1 - i
    BY <1>1
  <2>3. \A i \in 1..n : a[(n - i) + 1] \in T
    BY <1>2, <2>2, ElementOfSeq
  <2>4. [i \in 1..n |-> a[(n - i) + 1]] \in Seq(T)
    BY <1>1, <2>3, IsASeq
  <2> HIDE DEF v
  <2>5. v \in Seq(T) /\ DOMAIN v = 1..n
    BY <2>1, <2>4
  <2>6. Len(v) = n
    BY <1>1, <2>5, LenProperties
  <2>7. \A i \in 1..n : v[i] = q[n + 1 - i]
    BY <1>2, <2>1, <2>2
  <2>8. QED BY <2>5, <2>6, <2>7
<1> HIDE DEF v, k
<1>5. /\ r \in Seq(T) /\ Len(r) = n + k
      /\ \A i \in 1..n + k : r[i] = IF i <= n THEN v[i] ELSE p[i - n]
  <2>1. Len(p) = k /\ v \in Seq(T) /\ Len(v) = n
    BY <1>4 DEF k
  <2>2. /\ r \in Seq(T) /\ Len(r) = Len(v) + Len(p)
        /\ \A i \in 1..Len(v) + Len(p) : r[i] = IF i <= Len(v) THEN v[i] ELSE p[i - Len(v)]
    BY <2>1, ConcatProperties
  <2> HIDE DEF r
  <2>3. QED BY <2>1, <2>2
<1>6. DOMAIN r = 1..n + k
  BY <1>5, LenProperties
<1> HIDE DEF r, l
<1>7. \A i \in 1..n + k : \/ i <= n /\ n + 1 - i \in 1..n /\ r[i] = q[n + 1 - i]
                          \/ ~(i <= n) /\ i - n \in 1..k /\ r[i] = p[i - n]
  <2> TAKE i \in 1..n + k
  <2>1. r[i] = IF i <= n THEN v[i] ELSE p[i - n]
    BY <1>5
  <2>2. CASE i <= n
    <3>1. i \in 1..n /\ n + 1 - i \in 1..n
      BY <1>1, <2>2
    <3>2. v[i] = q[n + 1 - i]
      BY <1>4, <3>1
    <3>3. r[i] = v[i]
      BY <2>1, <2>2
    <3>4. QED BY <2>2, <3>1, <3>2, <3>3
  <2>3. CASE ~(i <= n)
    <3>1. i - n \in 1..k
      BY <1>1, <2>3
    <3>2. QED BY <2>1, <2>3, <3>1
  <2>4. QED BY <2>2, <2>3
<1>8. /\ \A i, j \in 1..k : p[i] = p[j] => i = j
      /\ \A i, j \in 1..l : q[i] = q[j] => i = j
      /\ \A i \in 1..k, j \in 1..l : p[i] # q[j]
  BY <1>1 DEF Once, Apart
<1>9. \A i \in 1..n : i \in 1..l
  BY <1>1
<1>10. Once(r)
  <2> SUFFICES ASSUME NEW i \in 1..n + k, NEW j \in 1..n + k, r[i] = r[j] PROVE i = j
    BY <1>6 DEF Once
  <2>1. CASE i <= n /\ j <= n
    <3>1. n + 1 - i \in 1..l /\ n + 1 - j \in 1..l /\ q[n + 1 - i] = q[n + 1 - j]
      BY <1>7, <1>9, <2>1
    <3>2. n + 1 - i = n + 1 - j
      BY <1>8, <3>1
    <3>3. QED BY <1>1, <3>2
  <2>2. CASE ~(i <= n) /\ ~(j <= n)
    <3>1. i - n \in 1..k /\ j - n \in 1..k /\ p[i - n] = p[j - n]
      BY <1>7, <2>2
    <3>2. i - n = j - n
      BY <1>8, <3>1
    <3>3. QED BY <1>1, <3>2
  <2>3. CASE i <= n /\ ~(j <= n)
    <3>1. n + 1 - i \in 1..l /\ j - n \in 1..k /\ q[n + 1 - i] = p[j - n]
      BY <1>7, <1>9, <2>3
    <3>2. QED BY <1>8, <3>1
  <2>4. CASE ~(i <= n) /\ j <= n
    <3>1. n + 1 - j \in 1..l /\ i - n \in 1..k /\ q[n + 1 - j] = p[i - n]
      BY <1>7, <1>9, <2>4
    <3>2. QED BY <1>8, <3>1
  <2>5. QED BY <2>1, <2>2, <2>3, <2>4
<1>11. Once(w)
  <2> SUFFICES ASSUME NEW i \in 1..l - n, NEW j \in 1..l - n, w[i] = w[j] PROVE i = j
    BY <1>3 DEF Once
  <2>1. n + i \in 1..l /\ n + j \in 1..l /\ q[n + i] = q[n + j]
    BY <1>1, <1>2, SMTT(30) DEF l
  <2>2. n + i = n + j
    BY <1>8, <2>1
  <2>3. QED BY <1>1, <2>2
<1>12. \A x : (\E i \in DOMAIN r : r[i] = x) <=> x \in new \/ \E i \in DOMAIN p : p[i] = x
  <2> TAKE x
  <2>1. ASSUME NEW i \in DOMAIN r, r[i] = x PROVE x \in new \/ \E j \in DOMAIN p : p[j] = x
    BY <1>1, <1>6, <1>7, <2>1 DEF k
  <2>2. ASSUME NEW j \in 1..n, q[j] = x PROVE \E i \in DOMAIN r : r[i] = x
    <3>1. n + 1 - j \in 1..n + k /\ n + 1 - j <= n /\ n + 1 - (n + 1 - j) = j
      BY <1>1
    <3>2. r[n + 1 - j] = q[n + 1 - (n + 1 - j)]
      BY <1>7, <3>1
    <3>3. QED BY <1>6, <2>2, <3>1, <3>2
  <2>3. ASSUME NEW j \in 1..k, p[j] = x PROVE \E i \in DOMAIN r : r[i] = x
    <3>1. n + j \in 1..n + k /\ ~(n + j <= n) /\ n + j - n = j
      BY <1>1
    <3>2. r[n + j] = p[n + j - n]
      BY <1>7, <3>1
    <3>3. QED BY <1>6, <2>3, <3>1, <3>2
  <2>4. QED BY <1>1, <2>1, <2>2, <2>3 DEF k
<1>13. \A x : (\E i \in DOMAIN w : w[i] = x) <=> (\E i \in DOMAIN q : q[i] = x) /\ x \notin new
  <2> TAKE x
  <2>1. ASSUME NEW i \in 1..l - n, w[i] = x
        PROVE  (\E j \in 1..l : q[j] = x) /\ x \notin new
    <3>1. n + i \in 1..l /\ q[n + i] = x /\ ~(n + i <= n)
      BY <1>1, <1>2, <2>1 DEF l
    <3>2. \A j \in 1..n : q[j] # x
      <4> TAKE j \in 1..n
      <4>1. j \in 1..l /\ j # n + i
        BY <1>1, <1>9
      <4>2. QED BY <1>8, <3>1, <4>1
    <3>3. QED BY <3>1, <3>2
  <2>2. ASSUME NEW j \in 1..l, q[j] = x, x \notin new PROVE \E i \in DOMAIN w : w[i] = x
    <3>1. ~(j <= n)
      BY <1>1, <2>2
    <3>2. j - n \in 1..l - n /\ n + (j - n) = j
      BY <1>1, <3>1
    <3>3. w[j - n] = q[n + (j - n)]
      BY <1>2, <3>2 DEF l
    <3>4. QED BY <1>3, <2>2, <3>2, <3>3
  <2>3. QED BY <1>1, <1>3, <2>1, <2>2 DEF l
<1>14. r = WithNew(p, q, n) /\ w = Behind(q, n) /\ new = FirstOf(q, n)
  BY DEF r, v, a, w, l, WithNew, Behind, FirstOf
<1> HIDE DEF new
<1>15. /\ \A x : In(x, r) <=> x \in new \/ In(x, p)
       /\ \A x : In(x, w) <=> In(x, q) /\ x \notin new
  BY <1>12, <1>13 DEF In
<1>16. QED BY <1>2, <1>5, <1>10, <1>11, <1>14, <1>15 DEF k

\* The connections that wait are accepted, as many as there is room for.
LEMMA AcceptAllStep == Inv /\ AcceptAll => Inv'
<1> SUFFICES ASSUME Inv, AcceptAll PROVE Inv'
  OBVIOUS
<1>0. Typed /\ Listed /\ Served /\ Reported /\ Timed
  BY DEF Inv
<1> DEFINE m == MaxStreams - Len(streams)
           n == Min({Len(waiting), m})
           new == {waiting[i] : i \in 1..n}
           r == Reverse(SubSeq(waiting, 1, n)) \o streams
           w == SubSeq(waiting, n + 1, Len(waiting))
<1>1. /\ pc = "accept" /\ pc' = "select" /\ streams' = r /\ waiting' = w
      /\ conn' = [c \in Clients |-> IF c \in new THEN "open" ELSE conn[c]]
      /\ late' = [c \in Clients |-> IF c \in new THEN behind > 0 ELSE late[c]]
      /\ UNCHANGED <<todo, fds, here, arrived, st, got, age, behind, idle, closedBy>>
  BY DEF AcceptAll, clients, clock
<1>2. /\ streams \in Seq(Clients) /\ waiting \in Seq(Clients)
      /\ Len(streams) \in Nat /\ Len(waiting) \in Nat /\ m \in Nat
      /\ MaxStreams \in Nat /\ Timeout \in Nat /\ todo = <<>>
  BY <1>0, <1>1, LenProperties, ImageServerAssumption DEF Typed, Listed
<1>3. n \in 0..Len(waiting) /\ n + Len(streams) <= MaxStreams
  <2> DEFINE l == Len(waiting)
  <2>1. l \in Nat /\ m \in Nat /\ m + Len(streams) = MaxStreams
    BY <1>2
  <2> HIDE DEF l, m
  <2>2. n = IF l <= m THEN l ELSE m
    BY <2>1, MinOfTwo DEF l
  <2> HIDE DEF n
  <2>3. n \in 0..l /\ n <= m
    BY <2>1, <2>2
  <2>4. n + Len(streams) <= MaxStreams
    BY <1>2, <2>1, <2>3
  <2>5. QED BY <2>3, <2>4 DEF l
<1> HIDE DEF n, m
<1>4. Apart(streams, waiting)
  <2> SUFFICES \A i \in DOMAIN streams, j \in DOMAIN waiting : streams[i] # waiting[j]
    BY DEF Apart
  <2> TAKE i \in DOMAIN streams, j \in DOMAIN waiting
  <2>1. streams[i] \in Clients /\ waiting[j] \in Clients
    BY <1>2, LenProperties, ElementOfSeq
  <2>2. conn[streams[i]] = "open" /\ conn[waiting[j]] = "waiting"
    BY <1>0, <2>1 DEF Listed
  <2>3. QED BY <2>2
<1>5. /\ r \in Seq(Clients) /\ Len(r) = n + Len(streams) /\ Once(r)
      /\ w \in Seq(Clients) /\ Once(w)
      /\ \A x : In(x, r) <=> x \in new \/ In(x, streams)
      /\ \A x : In(x, w) <=> In(x, waiting) /\ x \notin new
  <2>1. Once(streams) /\ Once(waiting)
    BY <1>0 DEF Listed
  <2> HIDE DEF Once
  <2> HIDE DEF r, w, new
  <2>2. r = WithNew(streams, waiting, n) /\ w = Behind(waiting, n) /\ new = FirstOf(waiting, n)
    BY DEF r, w, new, WithNew, Behind, FirstOf
  <2>3. /\ r \in Seq(Clients) /\ Len(r) = n + Len(streams) /\ Once(r)
        /\ w \in Seq(Clients) /\ Once(w)
    BY <1>2, <1>3, <1>4, <2>1, <2>2, Accepted
  <2>4. \A x : In(x, r) <=> x \in new \/ In(x, streams)
    BY <1>2, <1>3, <1>4, <2>1, <2>2, Accepted
  <2>5. \A x : In(x, w) <=> In(x, waiting) /\ x \notin new
    BY <1>2, <1>3, <1>4, <2>1, <2>2, Accepted
  <2>6. QED BY <2>3, <2>4, <2>5
<1>6. \A x \in new : x \in Clients /\ conn[x] = "waiting"
  <2> TAKE x \in new
  <2>1. PICK i \in 1..n : x = waiting[i]
    OBVIOUS
  <2>2. i \in 1..Len(waiting) /\ DOMAIN waiting = 1..Len(waiting)
    BY <1>2, <1>3, LenProperties
  <2>3. x \in Clients
    BY <1>2, <2>1, <2>2, ElementOfSeq
  <2>4. QED BY <1>0, <2>1, <2>2, <2>3 DEF Listed
<1> HIDE DEF r, w, new
<1>7. \A c \in Clients : /\ conn'[c] = (IF c \in new THEN "open" ELSE conn[c])
                         /\ c \in new => late'[c] = (behind > 0)
                         /\ c \notin new => late'[c] = late[c]
  BY <1>1
<1>8. Typed'
  <2>1. conn' \in [Clients -> {"none", "waiting", "open", "closed"}]
    BY <1>0, <1>1 DEF Typed
  <2>2. late' \in [Clients -> BOOLEAN]
    <3>1. \A c \in Clients : (IF c \in new THEN behind > 0 ELSE late[c]) \in BOOLEAN
      <4>1. (behind > 0) \in BOOLEAN /\ \A c \in Clients : late[c] \in BOOLEAN
        BY <1>0 DEF Typed
      <4>2. QED BY <4>1, Zenon
    <3>2. QED BY <1>1, <3>1
  <2>3. QED BY <1>0, <1>1, <1>5, <2>1, <2>2 DEF Typed, Pc
<1>9. Listed'
  <2>1. \A c \in Clients : conn'[c] = "open" <=> \E i \in DOMAIN r : r[i] = c
    <3> TAKE c \in Clients
    <3>1. In(c, r) <=> c \in new \/ In(c, streams)
      BY <1>5
    <3>2. (\E i \in DOMAIN r : r[i] = c) <=> c \in new \/ conn[c] = "open"
      BY <1>0, <3>1 DEF Listed, In
    <3>3. QED BY <1>7, <3>2
  <2>2. \A c \in Clients : conn'[c] = "waiting" <=> \E i \in DOMAIN w : w[i] = c
    <3> TAKE c \in Clients
    <3>1. In(c, w) <=> In(c, waiting) /\ c \notin new
      BY <1>5
    <3>2. (\E i \in DOMAIN w : w[i] = c) <=> conn[c] = "waiting" /\ c \notin new
      BY <1>0, <3>1 DEF Listed, In
    <3>3. QED BY <1>7, <3>2
  <2>3. TodoIsRest'
    <3>1. Len(todo') = 0
      BY <1>1, <1>2, EmptySeq
    <3>2. Len(r) \in Nat
      BY <1>5, LenProperties
    <3>3. QED BY <1>1, <3>1, <3>2 DEF TodoIsRest
  <2>4. Once(streams)' /\ Once(waiting)'
    BY <1>1, <1>5 DEF Once
  <2>5. Len(streams') <= MaxStreams
    BY <1>1, <1>3, <1>5
  <2>6. /\ \A c \in Clients : conn'[c] = "open" <=> \E i \in DOMAIN streams' : streams'[i] = c
        /\ \A c \in Clients : conn'[c] = "waiting" <=> \E i \in DOMAIN waiting' : waiting'[i] = c
    BY <1>1, <2>1, <2>2
  <2> HIDE DEF Once, TodoIsRest
  <2>7. QED BY <1>1, <1>2, <2>3, <2>4, <2>5, <2>6 DEF Listed
<1>10. Served'
  <2> SUFFICES ASSUME NEW x \in Clients PROVE ServedAt(x)'
    BY DEF Served
  <2>1. ServedAt(x) /\ ~Handled(x) /\ ~Handled(x)'
    BY <1>0, <1>1 DEF Served, Handled
  <2>2. CASE x \notin new
    <3>1. conn'[x] = conn[x]
      BY <1>7, <2>2
    <3>2. QED BY <1>1, <2>1, <3>1, ServedStays
  <2>3. CASE x \in new
    <3>1. conn[x] = "waiting" /\ conn'[x] = "open"
      BY <1>6, <1>7, <2>3
    <3>2. /\ st[x] = NewStream /\ Empty(x) /\ closedBy[x] = "" /\ arrived[x] <= RequestLen(x)
          /\ st[x].recvLen <= arrived[x]
      BY <2>1, <3>1 DEF ServedAt
    <3>3. st[x].state = ReceivingHeader /\ st[x].recvLen = 0 /\ 0 < RequestLen(x)
      <4>1. NewStream.state = ReceivingHeader /\ NewStream.recvLen = 0
        BY DEF NewStream
      <4>2. 0 < RequestLen(x)
        BY RequestLenIs
      <4>3. QED BY <3>2, <4>1, <4>2
    <3>4. Reading(x)'
      <4>1. st'[x] = st[x] /\ got'[x] = got[x]
        BY <1>1
      <4>2. st[x].recvLen < RequestLen(x)
        BY <3>3
      <4> HIDE DEF Handled
      <4>3. QED BY <2>1, <3>2, <3>3, <4>1, <4>2 DEF Reading, Empty
    <3>5. QED BY <1>1, <3>1, <3>2, <3>4 DEF ServedAt
  <2>4. QED BY <2>2, <2>3
<1>11. Reported'
  <2>1. Len(todo') = 0
    BY <1>1, <1>2, EmptySeq
  <2>2. QED BY <2>1 DEF Reported
<1>12. Timed'
  <2> SUFFICES ASSUME NEW x \in Clients PROVE TimedAt(x)'
    BY DEF Timed
  <2>1. CASE x \notin new
    <3>1. conn'[x] = conn[x] /\ late'[x] = late[x] /\ TimedAt(x)
      BY <1>0, <1>7, <2>1 DEF Timed
    <3>2. QED BY <1>1, <3>1 DEF TimedAt, CapAge
  <2>2. CASE x \in new
    <3>1. age[x] = 0 /\ idle[x] \in Nat /\ behind \in Nat
      <4>1. age[x] = 0
        BY <1>0, <1>6, <2>2 DEF Served, ServedAt
      <4>2. idle[x] \in Nat /\ behind \in Nat
        BY <1>0, <1>2 DEF Typed
      <4>3. QED BY <4>1, <4>2
    <3>2. ~late'[x] => ~(behind > 0)
      BY <1>7, <2>2, Zenon
    <3>3. ~(behind > 0) => age'[x] + behind' = 0
      BY <1>1, <3>1
    <3>4. 0 \in Nat /\ 0 <= Timeout + 1
      BY <1>2
    <3>5. CapAge(0) = 0
      BY <3>4, CapAgeIs
    <3>6. ~late'[x] => CapAge(age[x] + behind)' <= idle'[x]
      <4> SUFFICES ASSUME ~late'[x] PROVE CapAge(age[x] + behind)' <= idle'[x]
        OBVIOUS
      <4>1. age'[x] + behind' = 0
        BY <3>2, <3>3
      <4>2. CapAge(age[x] + behind)' = 0
        BY <3>5, <4>1 DEF CapAge
      <4>3. idle'[x] \in Nat
        BY <1>1, <3>1
      <4>4. QED BY <4>2, <4>3
    <3>7. QED BY <3>6 DEF TimedAt
  <2>3. QED BY <2>1, <2>2
<1>13. QED BY <1>8, <1>9, <1>10, <1>11, <1>12 DEF Inv

-----------------------------------------------------------------------------
(* The invariant, and what follows from it.                                 *)

\* It holds at the start.
LEMMA InvInit == Init => Inv
<1> SUFFICES ASSUME Init PROVE Inv
  OBVIOUS
<1>1. /\ <<>> \in Seq(Clients) /\ <<>> \in Seq(Parts)
      /\ MaxStreams \in Nat /\ Timeout \in Nat
  BY EmptySeq, ImageServerAssumption
<1>2. NewStream \in Streams
  BY <1>1 DEF NewStream, Streams, ReceivingHeader
<1>3. Typed
  <2>1. /\ streams \in Seq(Clients) /\ todo \in Seq(Clients) /\ waiting \in Seq(Clients)
        /\ got \in [Clients -> Seq(Parts)]
    BY <1>1 DEF Init
  <2>2. fds \in [ready : SUBSET Clients, listener : BOOLEAN]
    BY DEF Init, NothingReady
  <2>3. /\ age \in [Clients -> 0..Timeout + 1] /\ idle \in [Clients -> 0..Timeout + 1]
        /\ behind \in 0..Timeout + 1 /\ arrived \in [Clients -> Nat]
    <3>1. 0 \in 0..Timeout + 1 /\ 0 \in Nat
      BY <1>1
    <3>2. QED BY <3>1 DEF Init
  <2>4. /\ pc \in Pc /\ conn \in [Clients -> {"none", "waiting", "open", "closed"}]
        /\ here \in [Clients -> BOOLEAN] /\ late \in [Clients -> BOOLEAN]
        /\ closedBy \in [Clients -> Reasons]
    BY DEF Init, Pc, Reasons
  <2>5. st \in [Clients -> Streams]
    BY <1>2 DEF Init
  <2>6. QED BY <2>1, <2>2, <2>3, <2>4, <2>5 DEF Typed
<1>4. Listed
  <2>1. /\ todo = <<>> /\ pc = "select" /\ \A c \in Clients : conn[c] = "none"
        /\ Len(streams) = 0 /\ Len(waiting) = 0 /\ Len(todo) = 0
    BY <1>1, EmptySeq DEF Init
  <2>2. DOMAIN streams = 1..0 /\ DOMAIN waiting = 1..0
    BY <1>3, <2>1, LenProperties DEF Typed
  <2>3. Once(streams) /\ Once(waiting)
    BY <2>2 DEF Once
  <2>4. TodoIsRest
    BY <2>1 DEF TodoIsRest
  <2>5. /\ \A c \in Clients : conn[c] = "open" <=> \E i \in DOMAIN streams : streams[i] = c
        /\ \A c \in Clients : conn[c] = "waiting" <=> \E i \in DOMAIN waiting : waiting[i] = c
    BY <2>1, <2>2
  <2>6. Len(streams) <= MaxStreams
    BY <1>1, <2>1
  <2> HIDE DEF Once, TodoIsRest
  <2>7. QED BY <2>1, <2>3, <2>4, <2>5, <2>6 DEF Listed
<1>5. Served
  <2> SUFFICES ASSUME NEW c \in Clients PROVE ServedAt(c)
    BY DEF Served
  <2>1. /\ st[c] = NewStream /\ Empty(c) /\ age[c] = 0 /\ arrived[c] = 0 /\ conn[c] = "none"
        /\ closedBy[c] = ""
    BY DEF Init, Empty, NewStream
  <2>2. st[c].recvLen <= arrived[c] /\ arrived[c] <= RequestLen(c)
    <3>1. NewStream.recvLen = 0
      BY DEF NewStream
    <3>2. st[c].recvLen = 0 /\ arrived[c] = 0
      BY <2>1, <3>1
    <3>3. RequestLen(c) \in Nat
      BY RequestLenIs
    <3>4. QED BY <3>2, <3>3
  <2>3. QED BY <2>1, <2>2 DEF ServedAt
<1>6. Reported
  <2>1. Len(todo) = 0
    BY EmptySeq DEF Init
  <2>2. QED BY <2>1 DEF Reported
<1>7. Timed
  BY DEF Init, Timed, TimedAt
<1>8. QED BY <1>3, <1>4, <1>5, <1>6, <1>7 DEF Inv

\* No step breaks it.
LEMMA InvStep == Inv /\ [Next]_vars => Inv'
<1> SUFFICES ASSUME Inv, [Next]_vars PROVE Inv'
  OBVIOUS
<1>1. CASE Poll
  BY <1>1, SelectStep, QuietStreamStep, ReadStreamStep, WriteStreamStep, StreamsDoneStep,
     AcceptAllStep DEF Poll
<1>2. CASE ImageArrives \/ ImageFails \/ Tick
  BY <1>2, ImageArrivesStep, ImageFailsStep, TickStep
<1>3. CASE \E c \in Clients : ClientConnects(c) \/ ClientSends(c) \/ ClientLeaves(c)
  BY <1>3, ClientConnectsStep, ClientSendsStep, ClientLeavesStep
<1>4. CASE UNCHANGED vars
  <2>0. Typed /\ Listed /\ Served /\ Reported /\ Timed
    BY DEF Inv
  <2>1. UNCHANGED <<pc, streams, todo, fds, waiting, conn, here, arrived, st, got, age, behind,
                    idle, late, closedBy>>
    BY <1>4 DEF vars, clients, clock
  <2>2. Typed'
    BY <2>0, <2>1 DEF Typed
  <2>3. Listed'
    BY <2>0, <2>1 DEF Listed, TodoIsRest, Once
  <2>4. Served'
    <3> SUFFICES ASSUME NEW x \in Clients PROVE ServedAt(x)'
      BY DEF Served
    <3>1. ServedAt(x) /\ (Handled(x)' <=> Handled(x))
      BY <2>0, <2>1 DEF Served, Handled
    <3>2. QED BY <2>1, <3>1, ServedStays
  <2>5. Reported'
    BY <2>0, <2>1 DEF Reported, ReportedAt, ReadyToRead, ReadyToWrite, Takes
  <2>6. Timed'
    BY <2>0, <2>1 DEF Timed, TimedAt, CapAge
  <2>7. QED BY <2>2, <2>3, <2>4, <2>5, <2>6 DEF Inv
<1>5. QED BY <1>1, <1>2, <1>3, <1>4 DEF Next

\* It always holds.
LEMMA InvAlways == Spec => []Inv
BY InvInit, InvStep, PTL DEF Spec

\* What is in a sequence.
LEMMA Elements ==
  ASSUME NEW T, NEW q \in Seq(T)
  PROVE  ToSet(q) \subseteq T /\ \A x : x \in ToSet(q) <=> In(x, q)
<1>1. \A i \in DOMAIN q : q[i] \in T
  BY ElementOfSeq, LenProperties
<1>2. QED BY <1>1 DEF ToSet, In

\* The type invariant follows.
LEMMA InvType == Inv => TypeOK
<1> SUFFICES ASSUME Inv PROVE TypeOK
  OBVIOUS
<1>0. Typed /\ Listed /\ Served
  BY DEF Inv
<1>1. /\ streams \in Seq(Clients) /\ todo \in Seq(Clients) /\ waiting \in Seq(Clients)
      /\ DOMAIN streams = 1..Len(streams) /\ DOMAIN todo = 1..Len(todo)
      /\ Len(streams) \in Nat /\ Len(todo) \in Nat
  BY <1>0, LenProperties DEF Typed
<1>2. IsInjective(streams) /\ Len(streams) <= MaxStreams
  BY <1>0 DEF Listed, Once, IsInjective
<1>3. ToSet(streams) = {c \in Clients : conn[c] = "open"}
  <2>1. ToSet(streams) \subseteq Clients /\ \A x : x \in ToSet(streams) <=> In(x, streams)
    BY <1>1, Elements
  <2>2. \A c \in Clients : conn[c] = "open" <=> In(c, streams)
    BY <1>0 DEF Listed, In
  <2>3. QED BY <2>1, <2>2
<1>4. ToSet(waiting) = {c \in Clients : conn[c] = "waiting"}
  <2>1. ToSet(waiting) \subseteq Clients /\ \A x : x \in ToSet(waiting) <=> In(x, waiting)
    BY <1>1, Elements
  <2>2. \A c \in Clients : conn[c] = "waiting" <=> In(c, waiting)
    BY <1>0 DEF Listed, In
  <2>3. QED BY <2>1, <2>2
<1>5. ToSet(todo) \subseteq ToSet(streams)
  <2>1. ASSUME NEW i \in DOMAIN todo PROVE In(todo[i], streams)
    <3>1. /\ Len(todo) <= Len(streams) /\ i \in 1..Len(todo)
          /\ todo[i] = streams[Len(streams) - Len(todo) + i]
      BY <1>0, <1>1 DEF Listed, TodoIsRest
    <3>2. Len(streams) - Len(todo) + i \in DOMAIN streams
      BY <1>1, <3>1
    <3>3. QED BY <3>1, <3>2 DEF In
  <2>2. \A x : (x \in ToSet(todo) <=> In(x, todo)) /\ (x \in ToSet(streams) <=> In(x, streams))
    BY <1>1, Elements
  <2>3. \A x : In(x, todo) => In(x, streams)
    BY <2>1 DEF In
  <2>4. QED BY <2>2, <2>3
<1>6. ASSUME NEW c \in Clients
      PROVE  /\ st[c].state \in 0..6
             /\ st[c].recvLen \in 0..arrived[c]
             /\ ToSet(st[c].sendBuf) \subseteq Parts
             /\ age[c] \in 0..Timeout + 1
  <2>1. st[c] \in Streams /\ arrived[c] \in Nat /\ age[c] \in 0..Timeout + 1
    BY <1>0 DEF Typed
  <2>2. st[c].state \in 0..6 /\ st[c].recvLen \in Nat /\ st[c].sendBuf \in Seq(Parts)
    BY <2>1 DEF Streams
  <2>3. st[c].recvLen <= arrived[c]
    BY <1>0 DEF Served, ServedAt
  <2>4. ToSet(st[c].sendBuf) \subseteq Parts
    BY <2>2, Elements
  <2>5. QED BY <2>1, <2>2, <2>3, <2>4
<1>7. pc \in {"select", "streams", "handler", "accept", "crashed"}
  BY <1>0 DEF Typed, Pc
<1>8. QED BY <1>2, <1>3, <1>4, <1>5, <1>6, <1>7 DEF TypeOK

\* Every variable has its type, and the list of streams holds the accepted
\* connections that were not removed, each once, as many as there is room for
\* (sb_poll_server, sandbird.c:903).
THEOREM TypeCorrect == Spec => []TypeOK
BY InvAlways, InvType, PTL

\* What was sent and what is queued is whole.
LEMMA InvWhole == Inv => AnswersAreWhole
<1> SUFFICES ASSUME Inv, NEW c \in Clients
             PROVE  /\ closedBy[c] = "done" => got[c] \in Answers
                    /\ conn[c] = "closed" => IsPrefix(got[c], Answer(Picture))
                    /\ conn[c] # "closed" =>
                         got[c] \o st[c].sendBuf \in {<<>>, Answer(<<>>), Answer(Picture)}
  BY DEF AnswersAreWhole, Answers
<1>1. ServedAt(c) /\ conn[c] \in {"none", "waiting", "open", "closed"}
  BY DEF Inv, Served, Typed
<1>2. <<>> \o <<>> = <<>>
  BY EmptySeq, ConcatEmptySeq
<1>3. Empty(c) => got[c] \o st[c].sendBuf = <<>>
  BY <1>2 DEF Empty
<1>4. CASE conn[c] \in {"none", "waiting"}
  BY <1>1, <1>3, <1>4 DEF ServedAt
<1>5. CASE conn[c] = "open"
  <2>1. Empty(c) \/ got[c] \o st[c].sendBuf \in Answers
    BY <1>1, <1>5 DEF ServedAt, Reading, Asking, Answering
  <2>2. QED BY <1>1, <1>3, <1>5, <2>1 DEF ServedAt, Answers
<1>6. CASE conn[c] = "closed"
  BY <1>1, <1>6 DEF ServedAt
<1>7. QED BY <1>1, <1>4, <1>5, <1>6

\* Whatever the pieces in which the request came and the answer left, what a
\* client has taken and what is queued for it is a complete answer or nothing,
\* and a connection that is ended as done has given everything (sandbird.c:513).
THEOREM AnswersAlwaysWhole == Spec => []AnswersAreWhole
BY InvAlways, InvWhole, PTL

\* Who has been quiet for longer than the timeout by the server's clock was idle
\* for as long, or is late.
LEMMA TooLong ==
  ASSUME Inv, NEW c \in Clients, conn[c] = "open", age[c] > Timeout
  PROVE  age[c] # 0 /\ (late[c] \/ idle[c] > Timeout)
<1> DEFINE a == age[c]
           b == behind
           i == idle[c]
           n == a + b
<1>1. /\ Timeout \in Nat /\ a \in 0..Timeout + 1 /\ b \in Nat /\ i \in Nat /\ a > Timeout
  BY ImageServerAssumption DEF Inv, Typed
<1>2. ~late[c] => CapAge(n) <= i
  BY DEF Inv, Timed, TimedAt
<1> HIDE DEF a, b, i
<1>3. n \in Nat /\ n >= Timeout + 1 /\ a # 0
  BY <1>1
<1> HIDE DEF n
<1>4. CapAge(n) = Timeout + 1
  BY <1>1, <1>3, CapAgeIs
<1>5. CapAge(n) <= i => i > Timeout
  BY <1>1, <1>4
<1>6. QED BY <1>2, <1>3, <1>5 DEF a, i

\* Why a stream that select reported is not timed out.
Spared(c, s, active) == c \in fds.ready => active \/ s.state = Closing \/ age[c] = 0

\* The end of the body times a stream out only if it was idle for too long, or
\* late; it was not reported if what is reported is moved, closed or just begun.
LEMMA TimesOut ==
  ASSUME Inv, todo # <<>>, NEW c, c = todo[1], conn[c] = "open", NEW s \in Streams,
         NEW active \in BOOLEAN, NEW why \in Reasons, why # "timeout", Finish(c, s, active, why),
         Spared(c, s, active)
  PROVE  \A x \in Clients : closedBy'[x] = "timeout" /\ closedBy[x] = "" =>
           x \notin fds.ready /\ (idle[x] > Timeout \/ late[x])
<1>0. Typed /\ Timed
  BY DEF Inv
<1> SUFFICES ASSUME NEW x \in Clients, closedBy'[x] = "timeout", closedBy[x] = ""
             PROVE  x \notin fds.ready /\ (idle[x] > Timeout \/ late[x])
  OBVIOUS
<1>1. x = c /\ c \in Clients
  BY <1>0, FinishEffect, ZenonT(40)
<1>2. s.state # Closing /\ ~active /\ age[c] > Timeout
  BY <1>0, <1>1, FinishEffect
<1>3. age[c] # 0 /\ (late[c] \/ idle[c] > Timeout)
  BY <1>1, <1>2, TooLong
<1>4. c \notin fds.ready
  BY <1>2, <1>3, Zenon DEF Spared
<1>5. QED BY <1>1, <1>3, <1>4, Zenon

\* What the loop has reached is ready if select reported it.
LEMMA StreamIsReady ==
  ASSUME Inv, pc = "streams", todo # <<>>, Stream \in fds.ready
  PROVE  ReadyToRead(Stream) \/ ReadyToWrite(Stream)
<1>1. Len(todo) \in Nat /\ Len(todo) >= 1 /\ Stream = todo[1]
  BY Rest DEF Inv, Typed, Stream
<1>2. ReportedAt(todo[1])
  BY <1>1 DEF Inv, Reported
<1>3. QED BY <1>1, <1>2 DEF ReportedAt

\* A stream that is read and that select reported was active, or is closed
\* because its client has left, or its request is complete.
LEMMA ReadTimesOut == Inv /\ ReadStream =>
  \A x \in Clients : closedBy'[x] = "timeout" /\ closedBy[x] = "" =>
    x \notin fds.ready /\ (idle[x] > Timeout \/ late[x])
<1> SUFFICES ASSUME Inv, ReadStream
             PROVE  \A x \in Clients : closedBy'[x] = "timeout" /\ closedBy[x] = "" =>
                      x \notin fds.ready /\ (idle[x] > Timeout \/ late[x])
  OBVIOUS
<1>1. pc = "streams" /\ todo # <<>> /\ Stream \in fds.ready
  BY DEF ReadStream, Turn
<1>2. PICK c \in Clients : c = Stream
  BY <1>1, AtStream
<1>3. st[c].state < SendingStatus
  BY <1>1, <1>2 DEF ReadStream, Turn
<1> DEFINE s == AfterRecv(c)
           some == arrived[c] > st[c].recvLen
           why == IF s.recvLen = RequestLen(c) THEN "invalid" ELSE "peer"
<1>4. /\ c = todo[1] /\ st[c] \in Streams /\ conn[c] = "open"
      /\ arrived[c] \in Nat /\ here[c] \in BOOLEAN
      /\ st[c].recvLen <= arrived[c] /\ arrived[c] <= RequestLen(c)
      /\ Reading(c) \/ Answering(c)
  BY <1>1, <1>2, AtStream
<1>5. Reading(c)
  BY <1>3, <1>4 DEF Answering, SendingStatus, SendingData
<1>6. /\ s \in Streams
      /\ \/ s.state = SendingStatus
         \/ s.state = Closing
         \/ s.state \in {ReceivingHeader, ReceivingRequest} /\ here[c]
  BY <1>4, <1>5, AfterRecvIs
<1>7. \/ s.state = SendingStatus /\ closedBy' = closedBy
      \/ s.state # SendingStatus /\ Finish(c, s, some, why)
  BY <1>2, Zenon DEF ReadStream
<1>8. some \/ ~here[c]
  <2>1. ReadyToRead(c) \/ ReadyToWrite(c)
    BY <1>1, <1>2, StreamIsReady
  <2>2. ~(st[c].state >= SendingStatus)
    BY <1>5 DEF Reading, ReceivingHeader, ReceivingRequest, SendingStatus
  <2>3. QED BY <2>1, <2>2 DEF ReadyToRead, ReadyToWrite
<1> HIDE DEF s
<1>9. CASE s.state # SendingStatus /\ Finish(c, s, some, why)
  <2>1. Spared(c, s, some)
    BY <1>6, <1>8, <1>9 DEF Spared
  <2>2. why \in Reasons /\ why # "timeout" /\ some \in BOOLEAN
    BY DEF Reasons
  <2> HIDE DEF some, why
  <2>3. QED BY <1>1, <1>4, <1>6, <1>9, <2>1, <2>2, TimesOut
<1>10. QED BY <1>7, <1>9

\* A stream that is written and that select reported was active, or is closed
\* because its client has left or everything was sent.
LEMMA WriteTimesOut == Inv /\ WriteStream =>
  \A x \in Clients : closedBy'[x] = "timeout" /\ closedBy[x] = "" =>
    x \notin fds.ready /\ (idle[x] > Timeout \/ late[x])
<1> SUFFICES ASSUME Inv, WriteStream
             PROVE  \A x \in Clients : closedBy'[x] = "timeout" /\ closedBy[x] = "" =>
                      x \notin fds.ready /\ (idle[x] > Timeout \/ late[x])
  OBVIOUS
<1>1. pc = "streams" /\ todo # <<>> /\ Stream \in fds.ready
  BY DEF WriteStream, Turn
<1>2. PICK c \in Clients : c = Stream
  BY <1>1, AtStream
<1>3. ~(st[c].state < SendingStatus)
  BY <1>1, <1>2 DEF WriteStream, Turn
<1>4. /\ c = todo[1] /\ st[c] \in Streams /\ conn[c] = "open" /\ got[c] \in Seq(Parts)
      /\ here[c] \in BOOLEAN
      /\ Reading(c) \/ Answering(c)
  BY <1>1, <1>2, AtStream
<1>5. st[c].state = SendingData
  BY <1>3, <1>4 DEF Reading, Answering, ReceivingHeader, ReceivingRequest, SendingStatus
<1>6. Takes(c) \in Int /\ (Takes(c) > 0 \/ ~here[c])
  <2>1. ReadyToRead(c) \/ ReadyToWrite(c)
    BY <1>1, <1>2, StreamIsReady
  <2>2. Takes(c) > 0 \/ ~here[c]
    BY <1>3, <2>1 DEF ReadyToRead, ReadyToWrite
  <2>3. Takes(c) \in Int
    BY <1>4, ImageServerAssumption, LenProperties DEF Takes
  <2>4. QED BY <2>2, <2>3
<1> DEFINE q == st[c].sendBuf
           most == Min({Takes(c), Len(q)})
<1>7. q \in Seq(Parts) /\ Len(q) \in Nat
  BY <1>4, LenProperties DEF Streams
<1>8. \/ /\ here[c] /\ most > 0
         /\ \E n \in 1..most : Finish(c, AfterSend(c, n), TRUE, "")
      \/ /\ ~(here[c] /\ most > 0)
         /\ Finish(c, AfterSend(c, 0), FALSE, IF here[c] THEN "done" ELSE "peer")
  BY <1>2, Zenon DEF WriteStream
<1>9. CASE /\ here[c] /\ most > 0
           /\ \E n \in 1..most : Finish(c, AfterSend(c, n), TRUE, "")
  <2>1. PICK n \in 1..most : Finish(c, AfterSend(c, n), TRUE, "")
    BY <1>9
  <2>2. "" \in Reasons /\ "" # "timeout" /\ TRUE \in BOOLEAN
    BY DEF Reasons
  <2>3. AfterSend(c, n) \in Streams
    <3>1. most <= Len(q) /\ most \in Int
      <4> DEFINE t == Takes(c)
                 l == Len(q)
      <4>1. t \in Int /\ l \in Int
        BY <1>6, <1>7
      <4> HIDE DEF t, l
      <4>2. Min({t, l}) <= l /\ Min({t, l}) \in Int
        BY <4>1, LeastOfTwo
      <4>3. QED BY <4>2 DEF t, l
    <3> HIDE DEF most, q
    <3>2. n \in 0..Len(q)
      BY <1>7, <3>1
    <3>3. SubSeq(q, n + 1, Len(q)) \in Seq(Parts)
      BY <1>7, <3>2, Parted
    <3>4. [st[c] EXCEPT !.sendBuf = SubSeq(q, n + 1, Len(q))] \in Streams
      BY <1>4, <3>3 DEF Streams
    <3>5. [st[c] EXCEPT !.state = Closing] \in Streams
      BY <1>4 DEF Streams, Closing
    <3>6. QED BY <3>4, <3>5 DEF AfterSend, q
  <2> DEFINE s == AfterSend(c, n)
  <2> HIDE DEF s
  <2>4. s \in Streams /\ Finish(c, s, TRUE, "") /\ Spared(c, s, TRUE)
    BY <2>1, <2>3 DEF s, Spared
  <2>5. QED BY <1>1, <1>4, <2>2, <2>4, TimesOut
<1>10. CASE /\ ~(here[c] /\ most > 0)
            /\ Finish(c, AfterSend(c, 0), FALSE, IF here[c] THEN "done" ELSE "peer")
  <2> DEFINE s == AfterSend(c, 0)
             why == IF here[c] THEN "done" ELSE "peer"
  <2>1. why \in Reasons /\ why # "timeout" /\ FALSE \in BOOLEAN
    BY DEF Reasons
  <2>2. ~here[c] \/ q = <<>>
    <3> SUFFICES ASSUME here[c], q # <<>> PROVE most > 0
      BY <1>10
    <3> DEFINE t == Takes(c)
               l == Len(q)
    <3>1. t \in Nat /\ l \in Nat /\ t > 0 /\ l # 0
      BY <1>6, <1>7, EmptySeq
    <3> HIDE DEF t, l
    <3>2. Min({t, l}) = IF t <= l THEN t ELSE l
      BY <3>1, MinOfTwo
    <3>3. Min({t, l}) > 0
      BY <3>1, <3>2
    <3>4. QED BY <3>3 DEF t, l
  <2>3. s = [st[c] EXCEPT !.state = Closing]
    BY <2>2 DEF AfterSend
  <2>4. s \in Streams /\ s.state = Closing
    BY <1>4, <2>3 DEF Streams, Closing
  <2>5. Finish(c, s, FALSE, why) /\ Spared(c, s, FALSE)
    BY <1>10, <2>4 DEF Spared
  <2> HIDE DEF s, why
  <2>6. QED BY <1>1, <1>4, <2>1, <2>4, <2>5, TimesOut
<1>11. QED BY <1>8, <1>9, <1>10

\* Every step times out only what was idle.
LEMMA StepTimesOut ==
  ASSUME Inv, [Next]_vars
  PROVE  \A x \in Clients : closedBy'[x] = "timeout" /\ closedBy[x] = "" =>
           x \notin fds.ready /\ (idle[x] > Timeout \/ late[x])
<1>1. CASE closedBy' = closedBy
  BY <1>1
<1>2. CASE QuietStream
  <2> DEFINE c == Stream
             s == st[c]
  <2>1. pc = "streams" /\ todo # <<>> /\ Finish(c, s, FALSE, "") /\ c \notin fds.ready
    BY <1>2, Zenon DEF QuietStream, Turn
  <2>2. c = todo[1] /\ conn[c] = "open" /\ s \in Streams /\ Spared(c, s, FALSE)
    BY <2>1, AtStream DEF Spared
  <2>3. "" \in Reasons /\ "" # "timeout" /\ FALSE \in BOOLEAN
    BY DEF Reasons
  <2> HIDE DEF c, s
  <2>4. QED BY <2>1, <2>2, <2>3, TimesOut
<1>3. CASE ReadStream
  BY <1>3, ReadTimesOut
<1>4. CASE WriteStream
  BY <1>4, WriteTimesOut
<1>5. CASE ImageArrives
  <2>1. todo # <<>> /\ pc = "handler"
    BY <1>5 DEF ImageArrives, Inv, Listed
  <2> DEFINE c == Stream
  <2>2. PICK data \in {Picture, <<>>} : Finish(c, Handle(st[c], data), FALSE, "")
    BY <1>5 DEF ImageArrives
  <2>3. /\ c = todo[1] /\ conn[c] = "open" /\ st[c] \in Streams
        /\ st[c].state = SendingStatus /\ st[c].sendBuf = <<>> /\ age[c] = 0
    BY <2>1, AtStream DEF Asking, Empty
  <2> DEFINE s == Handle(st[c], data)
  <2>4. s \in Streams
    BY <2>3, HandleIs
  <2>5. "" \in Reasons /\ "" # "timeout" /\ FALSE \in BOOLEAN
    BY DEF Reasons
  <2> HIDE DEF s
  <2>6. Finish(c, s, FALSE, "") /\ Spared(c, s, FALSE)
    BY <2>2, <2>3 DEF s, Spared
  <2> HIDE DEF c
  <2>7. QED BY <2>1, <2>3, <2>4, <2>5, <2>6, TimesOut
<1>6. \/ closedBy' = closedBy
      \/ QuietStream \/ ReadStream \/ WriteStream \/ ImageArrives
  BY DEF Next, Poll, Select, StreamsDone, AcceptAll, ImageFails, Tick, ClientConnects,
         ClientSends, ClientLeaves, vars
<1>7. QED BY <1>1, <1>2, <1>3, <1>4, <1>5, <1>6

\* A stream is timed out only if select did not report it, and only if it was
\* idle for longer than the timeout or its last activity was stamped with the
\* time before a handler (sb_poll_server, sandbird.c:899).
THEOREM OnlyIdleTimedOut == Spec => OnlyIdleAreTimedOut
<1>1. Inv /\ [Next]_vars => [\A c \in Clients : closedBy'[c] = "timeout" /\ closedBy[c] = "" =>
        /\ c \notin fds.ready
        /\ idle[c] > Timeout \/ late[c]]_vars
  BY StepTimesOut
<1>2. QED BY <1>1, InvAlways, PTL DEF Spec, OnlyIdleAreTimedOut
=============================================================================
