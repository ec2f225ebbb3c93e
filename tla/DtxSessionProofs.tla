-------------------------- MODULE DtxSessionProofs --------------------------
(* Theorems about DtxSession, for every value of its constants. *)
EXTENDS DtxSession, SequenceTheorems, TLAPS

\* Where a channel was requested; a call is entered under the number of the
\* last message sent, which therefore has to exist.
Requested == {"response", "verdict", "extra", "open", "call", "listen", "done"}

\* Whether a message expects a reply follows from what it is.
Sound ==
  /\ pc \in Requested => asked # <<>>
  /\ \A k \in DOMAIN asked : asked[k].reply <=> asked[k].what # "send"

TypeInv == TypeOK /\ Sound

\* The lengths and lookups of a well-typed state.
LEMMA Basics ==
  ASSUME TypeOK
  PROVE  /\ Len(asked) \in Nat /\ DOMAIN asked = 1 .. Len(asked)
         /\ \A k \in 1 .. Len(asked) :
              /\ asked[k] \in Asked /\ asked[k].id \in Nat
              /\ asked[k].on \in {"service", "outer", "chan"}
         /\ Len(told) \in Nat /\ DOMAIN told = 1 .. Len(told)
         /\ \A k \in 1 .. Len(told) : /\ told[k] \in Told
                                      /\ told[k].re \in Nat /\ told[k].id \in Nat
         /\ served \in Nat /\ served <= Len(asked)
         /\ heard \in Nat /\ heard <= Len(told)
         /\ outer \in Nat /\ nextMsgId \in Nat
<1>1. /\ Len(asked) \in Nat /\ DOMAIN asked = 1 .. Len(asked)
      /\ Len(told) \in Nat /\ DOMAIN told = 1 .. Len(told)
  BY LenProperties DEF TypeOK
<1>2. \A k \in 1 .. Len(asked) : asked[k] \in Asked
  BY ElementOfSeq DEF TypeOK
<1>3. \A k \in 1 .. Len(told) : told[k] \in Told
  BY ElementOfSeq DEF TypeOK
<1>4. \A k \in 1 .. Len(asked) : /\ asked[k].id \in Nat
                                 /\ asked[k].on \in {"service", "outer", "chan"}
  BY <1>2 DEF Asked
<1>5. \A k \in 1 .. Len(told) : told[k].re \in Nat /\ told[k].id \in Nat
  BY <1>3 DEF Told
<1>6. /\ served \in Nat /\ served <= Len(asked) /\ heard \in Nat
      /\ heard <= Len(told) /\ outer \in Nat /\ nextMsgId \in Nat
  BY <1>1 DEF TypeOK
<1>7. QED BY <1>1, <1>2, <1>3, <1>4, <1>5, <1>6

\* What a send that may fail does to the log of the messages sent.
LEMMA SendEffect ==
  ASSUME TypeOK, NEW on \in {"service", "outer", "chan"}, NEW i \in Nat,
         NEW what \in {"caps", "request", "send", "call"}, NEW reply \in BOOLEAN,
         SendOK(on, i, what, reply)
  PROVE  /\ asked' \in Seq(Asked) /\ Len(asked') = Len(asked) + 1
         /\ \A k \in 1 .. Len(asked) : asked'[k] = asked[k]
         /\ asked'[Len(asked) + 1] =
              [on |-> on, id |-> i, what |-> what, reply |-> reply]
         /\ asked' # <<>>
<1> DEFINE m == [on |-> on, id |-> i, what |-> what, reply |-> reply]
<1>1. m \in Asked
  BY DEF Asked
<1>2. asked \in Seq(Asked) /\ asked' = Append(asked, m)
  BY DEF TypeOK, SendOK
<1> HIDE DEF m
<1>3. /\ asked' \in Seq(Asked) /\ Len(asked') = Len(asked) + 1 /\ asked' # <<>>
      /\ \A k \in 1 .. Len(asked) : asked'[k] = asked[k]
      /\ asked'[Len(asked) + 1] = m
  BY <1>1, <1>2, AppendProperties
<1>4. QED BY <1>3 DEF m

\* What one more message of the device does to the log of its messages.
LEMMA TellEffect ==
  ASSUME TypeOK, NEW m \in Told, told' = Append(told, m)
  PROVE  /\ told' \in Seq(Told) /\ Len(told') = Len(told) + 1
         /\ \A k \in 1 .. Len(told) : told'[k] = told[k]
         /\ told'[Len(told) + 1] = m /\ told' # <<>>
<1>1. told \in Seq(Told)
  BY DEF TypeOK
<1>2. QED BY <1>1, AppendProperties

\* What the device does with the next message, by what that is.
LEMMA ServeEffect ==
  ASSUME TypeInv, Serve
  PROVE  /\ served + 1 \in 1 .. Len(asked) /\ served' = served + 1 /\ link = "up"
         /\ \/ asked[served + 1].what = "send" /\ UNCHANGED <<told, access>>
            \/ /\ asked[served + 1].what # "send"
               /\ \E m \in Told :
                    /\ m.re = served + 1 /\ m.body # "notice" /\ told' = Append(told, m)
                    /\ \/ access' = "refused" => access = "refused"
                       \/ m.body = "error" /\ asked[served + 1].what = "request"
                    /\ access' # access => asked[served + 1].what = "request"
                    /\ access' \in {"none", "granted", "refused"}
         /\ UNCHANGED <<kind, pc, link, asked, heard, outer, nextMsgId, nextChanId,
                        calls, ops>>
<1> DEFINE r == asked[served + 1]
<1>1. /\ served < Len(asked) /\ served' = served + 1 /\ link = "up"
      /\ UNCHANGED <<kind, pc, link, asked, heard, outer, nextMsgId, nextChanId,
                     calls, ops>>
  BY DEF Serve
<1>2. TypeOK /\ served + 1 \in 1 .. Len(asked)
  BY <1>1, Basics DEF TypeInv
<1>3. r \in Asked /\ (r.reply <=> r.what # "send")
  BY <1>2, Basics DEF TypeInv, Sound
<1>4. \A body \in {"empty", "error", "value"} :
        Answer(body) \in Told /\ Answer(body).re = served + 1 /\ Answer(body).body = body
  <2>1. r.id \in Nat /\ served + 1 \in Nat
    BY <1>2, <1>3, Basics
  <2>2. QED BY <2>1 DEF Answer, Told
<1>5. \/ r.what = "caps" /\ told' = Append(told, Answer("empty")) /\ UNCHANGED access
      \/ /\ r.what = "request"
         /\ told' = Append(told, Answer("empty")) /\ access' = "granted"
      \/ /\ r.what = "request"
         /\ told' = Append(told, Answer("error")) /\ access' = "refused"
      \/ ~r.reply /\ UNCHANGED <<told, access>>
      \/ /\ r.what = "call" /\ UNCHANGED access
         /\ \E body \in {"empty", "value"} : told' = Append(told, Answer(body))
  BY DEF Serve
<1>6. access \in {"none", "granted", "refused"}
  BY <1>2 DEF TypeOK
<1> HIDE DEF r
<1>7. \/ r.what = "send" /\ UNCHANGED <<told, access>>
      \/ /\ r.what # "send"
         /\ \E body \in {"empty", "error", "value"} :
              /\ told' = Append(told, Answer(body))
              /\ \/ access' = "refused" => access = "refused"
                 \/ body = "error" /\ r.what = "request"
              /\ access' # access => r.what = "request"
              /\ access' \in {"none", "granted", "refused"}
  BY <1>3, <1>5, <1>6
<1>8. \/ r.what = "send" /\ UNCHANGED <<told, access>>
      \/ /\ r.what # "send"
         /\ \E m \in Told :
              /\ m.re = served + 1 /\ m.body # "notice" /\ told' = Append(told, m)
              /\ \/ access' = "refused" => access = "refused"
                 \/ m.body = "error" /\ r.what = "request"
              /\ access' # access => r.what = "request"
              /\ access' \in {"none", "granted", "refused"}
  BY <1>4, <1>7
<1>9. QED BY <1>1, <1>2, <1>8 DEF r

\* What the device says of its own accord.
LEMMA NotifyEffect ==
  ASSUME TypeOK, Notify
  PROVE  /\ link = "up" /\ access = "granted"
         /\ \E k \in 1 .. served : asked[k].on = "chan"
         /\ \E m \in Told : m.re = 0 /\ m.body = "notice" /\ told' = Append(told, m)
         /\ UNCHANGED <<kind, pc, link, asked, served, heard, outer, nextMsgId,
                        nextChanId, access, calls, ops>>
<1>1. /\ link = "up" /\ access = "granted"
      /\ \E k \in 1 .. served : asked[k].on = "chan"
      /\ UNCHANGED <<kind, pc, link, asked, served, heard, outer, nextMsgId,
                     nextChanId, access, calls, ops>>
  BY DEF Notify
<1>2. PICK n \in 0 .. MaxNotices - 1 :
        told' = Append(told, [re |-> 0, id |-> n + 2, body |-> "notice"])
  BY DEF Notify
<1>3. [re |-> 0, id |-> n + 2, body |-> "notice"] \in Told
  BY ConstantsAssumption DEF Told
<1>4. QED BY <1>1, <1>2, <1>3

\* A receive hands out the next message, and a counter never goes back.
LEMMA RecvEffect ==
  ASSUME TypeOK, RecvOK
  PROVE  /\ heard < Len(told) /\ heard' = heard + 1 /\ heard + 1 \in 1 .. Len(told)
         /\ \A n \in Nat : Forward(n) \in Nat /\ Forward(n) >= n
<1>1. heard < Len(told) /\ heard' = heard + 1
  BY DEF RecvOK
<1>2. heard + 1 \in 1 .. Len(told)
  BY <1>1, Basics
<1>3. Message.id \in Nat
  BY <1>2, Basics DEF Message
<1>4. ASSUME NEW n \in Nat
      PROVE  Forward(n) \in Nat /\ Forward(n) >= n
  BY <1>3 DEF Forward
<1>5. QED BY <1>1, <1>2, <1>4

\* The same for the two objects that receive: that of the requested channel,
\* and the one the session is opened in.
LEMMA ObjectHears ==
  ASSUME TypeOK
  PROVE  /\ RecvOK /\ OuterHears => outer' \in Nat /\ outer' >= outer
         /\ ChanRecv => /\ nextMsgId' \in Nat /\ nextMsgId' >= nextMsgId
                        /\ heard' \in Nat /\ heard' <= Len(told)
<1>1. outer \in Nat /\ nextMsgId \in Nat
  BY Basics
<1>2. ASSUME RecvOK, OuterHears
      PROVE  outer' \in Nat /\ outer' >= outer
  <2>1. outer' = Forward(outer) \/ outer' = outer
    BY <1>2 DEF OuterHears
  <2>2. Forward(outer) \in Nat /\ Forward(outer) >= outer
    BY <1>1, <1>2, RecvEffect
  <2>3. QED BY <1>1, <2>1, <2>2
<1>3. CASE RecvOK /\ nextMsgId' = Forward(nextMsgId)
  <2>1. /\ heard' = heard + 1 /\ heard < Len(told)
        /\ Forward(nextMsgId) \in Nat /\ Forward(nextMsgId) >= nextMsgId
    BY <1>1, <1>3, RecvEffect
  <2>2. QED BY <1>2, <1>3, <2>1, Basics
<1>4. CASE RecvFails /\ UNCHANGED nextMsgId
  BY <1>1, <1>2, <1>4, Basics DEF RecvFails
<1>5. QED BY <1>2, <1>3, <1>4 DEF ChanRecv

\* The calls that returned stay well typed while the logs grow.
LEMMA CallsGrow ==
  ASSUME TypeOK, NEW a \in Nat, NEW t \in Nat, Len(asked) <= a, Len(told) <= t
  PROVE  calls \in Seq([request: 1 .. a, given: 0 .. t])
<1> DEFINE Old == [request: 1 .. Len(asked), given: 0 .. Len(told)]
           New == [request: 1 .. a, given: 0 .. t]
<1>1. Old \subseteq New
  <2>1. 1 .. Len(asked) \subseteq 1 .. a /\ 0 .. Len(told) \subseteq 0 .. t
    BY Basics
  <2>2. QED BY <2>1
<1>2. calls \in Seq(Old)
  BY DEF TypeOK
<1> HIDE DEF Old, New
<1>3. calls \in Seq(New)
  BY <1>1, <1>2, SeqMonotonic
<1>4. QED BY <1>3 DEF New

\* A step that sends one message, or fails to, keeps the types.
LEMMA SendKeepsTypes ==
  ASSUME TypeInv, NEW on \in {"service", "outer", "chan"}, NEW i \in Nat,
         NEW what \in {"caps", "request", "send", "call"},
         NEW reply \in BOOLEAN, reply <=> what # "send",
         SendOK(on, i, what, reply) \/ SendFails,
         UNCHANGED <<kind, heard, calls, told, served, link, access>>,
         pc' \in {"hello", "connect", "response", "verdict", "null", "open", "call"},
         outer' \in Nat, nextMsgId' \in Nat, CodeSpent', ops' \in 0 .. MaxOps,
         pc' \in Requested => pc \in Requested \/ SendOK(on, i, what, reply)
  PROVE  TypeInv'
<1>0. TypeOK /\ Sound
  BY DEF TypeInv
<1>1. CASE SendOK(on, i, what, reply)
  <2>1. /\ asked' \in Seq(Asked) /\ Len(asked') = Len(asked) + 1
        /\ \A k \in 1 .. Len(asked) : asked'[k] = asked[k]
        /\ asked'[Len(asked) + 1] =
             [on |-> on, id |-> i, what |-> what, reply |-> reply]
        /\ asked' # <<>>
    BY <1>0, <1>1, SendEffect
  <2>2. DOMAIN asked' = 1 .. Len(asked) + 1
    BY <2>1, LenProperties
  <2>3. calls' \in Seq([request: 1 .. Len(asked'), given: 0 .. Len(told')])
    <3>1. calls' = calls /\ told' = told
      OBVIOUS
    <3>2. /\ Len(asked') \in Nat /\ Len(asked) <= Len(asked')
          /\ Len(told) \in Nat /\ Len(told) <= Len(told)
      BY <2>1, Basics
    <3>3. PICK a, t : a = Len(asked') /\ t = Len(told)
      OBVIOUS
    <3>4. calls \in Seq([request: 1 .. a, given: 0 .. t])
      BY <1>0, <3>2, <3>3, CallsGrow
    <3>5. QED BY <3>1, <3>3, <3>4
  <2>4. served' \in 0 .. Len(asked')
    BY <1>0, <2>1, Basics
  <2>5. TypeOK'
    BY <1>0, <2>1, <2>3, <2>4 DEF TypeOK
  <2>6. \A k \in 1 .. Len(asked) + 1 : k \in 1 .. Len(asked) \/ k = Len(asked) + 1
    BY <1>0, Basics, SMTT(30)
  <2>7. asked'[Len(asked) + 1].reply <=> asked'[Len(asked) + 1].what # "send"
    BY <2>1
  <2>8. \A k \in DOMAIN asked' : asked'[k].reply <=> asked'[k].what # "send"
    BY <1>0, <2>1, <2>2, <2>6, <2>7, Basics DEF Sound
  <2>9. QED BY <2>1, <2>5, <2>8 DEF TypeInv, Sound
<1>2. CASE SendFails /\ ~SendOK(on, i, what, reply)
  BY <1>0, <1>2 DEF SendFails, TypeOK, TypeInv, Sound
<1>3. QED BY <1>1, <1>2

\* A step that only receives, and moves the program on, keeps the types.
LEMMA RecvKeepsTypes ==
  ASSUME TypeInv, UNCHANGED <<kind, asked, nextChanId, calls, ops, told, served, link, access>>,
         \/ (RecvOK \/ RecvFails) /\ UNCHANGED nextMsgId
            /\ (UNCHANGED outer \/ (RecvOK /\ OuterHears))
         \/ ChanRecv /\ UNCHANGED outer,
         pc' \in {"connect", "verdict", "null", "extra", "open"}, CodeSpent',
         pc' \in Requested => pc \in Requested
  PROVE  TypeInv'
<1>0. TypeOK /\ Sound
  BY DEF TypeInv
<1>1. heard' \in 0 .. Len(told) /\ outer' \in Nat /\ nextMsgId' \in Nat
  <2>1. RecvOK => heard' \in 0 .. Len(told)
    BY <1>0, RecvEffect, Basics
  <2>2. RecvFails => heard' \in 0 .. Len(told)
    BY <1>0 DEF RecvFails, TypeOK
  <2>3. ChanRecv => heard' \in 0 .. Len(told)
    BY <2>1, <2>2 DEF ChanRecv
  <2>4. QED BY <1>0, <2>1, <2>2, <2>3, ObjectHears, Basics
<1>2. TypeOK'
  BY <1>0, <1>1 DEF TypeOK
<1>3. QED BY <1>0, <1>2 DEF TypeInv, Sound

\* What is sent outside the requested channel goes out with a natural number.
LEMMA OuterTypes ==
  ASSUME TypeOK
  PROVE  /\ OnOuter \in {"service", "outer"} /\ OuterId \in Nat
         /\ OuterCounts => outer' \in Nat /\ outer' >= outer
         /\ OuterCounts /\ OnOuter = "outer" => OuterId = outer /\ outer' = outer + 1
<1>1. outer \in Nat
  BY Basics
<1>2. QED BY <1>1 DEF OnOuter, OuterId, OuterCounts

\* Every step of the device and of the program keeps the types.
LEMMA TypeStep == TypeInv /\ [Next]_vars => TypeInv'
<1> SUFFICES ASSUME TypeInv, [Next]_vars PROVE TypeInv'
  OBVIOUS
<1>0. TypeOK /\ Sound
  BY DEF TypeInv
<1>nats. /\ outer \in Nat /\ nextMsgId \in Nat
       /\ ops \in 0 .. MaxOps /\ MaxOps \in Nat
  BY <1>0, ConstantsAssumption DEF TypeOK
<1>code. ASSUME UNCHANGED <<kind, nextChanId>>,
                \/ UNCHANGED pc
                \/ pc \in {"handshake", "hello"} /\ pc' \in {"hello", "connect"}
                \/ /\ pc \notin {"handshake", "hello", "connect"}
                   /\ pc' \notin {"handshake", "hello", "connect"}
         PROVE  CodeSpent'
  BY <1>0, <1>code DEF TypeOK, CodeSpent, FirstChanId
<1>1. CASE Serve
  <2>1. /\ served' = served + 1 /\ served + 1 \in 1 .. Len(asked)
        /\ UNCHANGED <<kind, pc, link, asked, heard, outer, nextMsgId, nextChanId,
                       calls, ops>>
    BY <1>1, ServeEffect
  <2>2. /\ access' \in {"none", "granted", "refused"}
        /\ told' = told \/ \E m \in Told : told' = Append(told, m)
    <3>1. \/ told' = told /\ access' = access
          \/ /\ \E m \in Told : told' = Append(told, m)
             /\ access' \in {"none", "granted", "refused"}
      BY <1>1, ServeEffect
    <3>2. access \in {"none", "granted", "refused"}
      BY <1>0 DEF TypeOK
    <3>3. QED BY <3>1, <3>2
  <2>3. told' \in Seq(Told) /\ Len(told') \in Nat /\ Len(told) <= Len(told')
    BY <1>0, <2>2, TellEffect, Basics DEF TypeOK
  <2>4. calls' \in Seq([request: 1 .. Len(asked'), given: 0 .. Len(told')])
    <3>1. Len(asked) \in Nat /\ Len(asked) <= Len(asked) /\ asked' = asked /\ calls' = calls
      BY <1>0, <2>1, Basics
    <3>2. calls \in Seq([request: 1 .. Len(asked), given: 0 .. Len(told')])
      BY <1>0, <2>3, <3>1, CallsGrow
    <3>3. QED BY <3>1, <3>2
  <2>5. served' \in 0 .. Len(asked') /\ heard' \in 0 .. Len(told')
    BY <1>0, <2>1, <2>3, Basics
  <2>6. TypeOK'
    BY <1>0, <1>code, <2>1, <2>2, <2>3, <2>4, <2>5 DEF TypeOK
  <2>7. QED BY <1>0, <2>1, <2>6 DEF TypeInv, Sound
<1>2. CASE Notify
  <2>1. /\ UNCHANGED <<kind, pc, link, asked, served, heard, outer, nextMsgId,
                       nextChanId, access, calls, ops>>
        /\ \E m \in Told : told' = Append(told, m)
    BY <1>0, <1>2, NotifyEffect
  <2>2. told' \in Seq(Told) /\ Len(told') \in Nat /\ Len(told) <= Len(told')
    BY <1>0, <2>1, TellEffect, Basics
  <2>3. calls' \in Seq([request: 1 .. Len(asked'), given: 0 .. Len(told')])
    BY <1>0, <2>1, <2>2, Basics, CallsGrow
  <2>4. heard' \in 0 .. Len(told')
    BY <1>0, <2>1, <2>2, Basics
  <2>5. TypeOK'
    BY <1>0, <1>code, <2>1, <2>2, <2>3, <2>4 DEF TypeOK
  <2>6. QED BY <1>0, <2>1, <2>5 DEF TypeInv, Sound
<1>3. CASE Close
  BY <1>0, <1>3 DEF Close, TypeOK, TypeInv, Sound, CodeSpent, FirstChanId
<1>4. CASE HandshakeSend
  <2>1. /\ SendOK(OnOuter, OuterId, "caps", TRUE) \/ SendFails
        /\ pc = "handshake" /\ pc' \in {"hello", "connect"} /\ OuterCounts
        /\ UNCHANGED <<kind, heard, calls, told, served, link, access, nextMsgId,
                       nextChanId, ops>>
    BY <1>4 DEF HandshakeSend, deviceVars
  <2>2. CodeSpent'
    BY <1>code, <2>1
  <2>3. QED BY <1>0, <1>nats, <2>1, <2>2, OuterTypes, SendKeepsTypes DEF Requested
<1>5. CASE HandshakeRecv
  <2>1. /\ pc = "hello" /\ pc' = "connect"
        /\ ((RecvOK /\ OuterHears) \/ (RecvFails /\ UNCHANGED outer))
        /\ UNCHANGED <<kind, asked, nextMsgId, nextChanId, calls, ops, told, served,
                       link, access>>
    BY <1>5 DEF HandshakeRecv, deviceVars
  <2>2. CodeSpent'
    BY <1>code, <2>1
  <2>3. QED BY <2>1, <2>2, RecvKeepsTypes DEF Requested
<1>6. CASE ConnectSend
  <2>1. /\ \/ /\ SendOK(OnOuter, OuterId, "request", TRUE)
              /\ pc' \in {"response", "verdict"}
           \/ SendFails /\ pc' = "null"
        /\ pc = "connect" /\ OuterCounts /\ nextChanId' = nextChanId + 1
        /\ UNCHANGED <<kind, heard, calls, told, served, link, access, nextMsgId, ops>>
    BY <1>6 DEF ConnectSend, deviceVars
  <2>2. CodeSpent'
    BY <1>0, <2>1 DEF TypeOK, CodeSpent, FirstChanId
  <2>3. QED BY <1>0, <1>nats, <2>1, <2>2, OuterTypes, SendKeepsTypes DEF Requested
<1>7. CASE ConnectResponse
  <2>1. /\ pc = "response" /\ pc' \in {"verdict", "null"}
        /\ ((RecvOK /\ OuterHears) \/ (RecvFails /\ UNCHANGED outer))
        /\ UNCHANGED <<kind, asked, nextMsgId, nextChanId, calls, ops, told, served,
                       link, access>>
    BY <1>7 DEF ConnectResponse, deviceVars
  <2>2. CodeSpent'
    BY <1>code, <2>1
  <2>3. QED BY <2>1, <2>2, RecvKeepsTypes DEF Requested
<1>8. CASE ConnectVerdict
  <2>1. /\ pc = "verdict" /\ pc' \in {"open", "extra", "null"}
        /\ ((RecvOK /\ OuterHears) \/ (RecvFails /\ UNCHANGED outer))
        /\ UNCHANGED <<kind, asked, nextMsgId, nextChanId, calls, ops, told, served,
                       link, access>>
    BY <1>8 DEF ConnectVerdict, deviceVars
  <2>2. CodeSpent'
    BY <1>code, <2>1
  <2>3. QED BY <2>1, <2>2, RecvKeepsTypes DEF Requested
<1>9. CASE ConnectExtra
  <2>1. /\ pc = "extra" /\ pc' = "open" /\ ChanRecv
        /\ UNCHANGED <<kind, asked, outer, nextChanId, calls, ops, told, served,
                       link, access>>
    BY <1>9 DEF ConnectExtra, deviceVars
  <2>2. CodeSpent'
    BY <1>code, <2>1
  <2>3. QED BY <2>1, <2>2, RecvKeepsTypes DEF Requested
<1>10. CASE Send
  <2>1. /\ SendOK("chan", nextMsgId, "send", FALSE) \/ SendFails
        /\ pc = "open" /\ ops < MaxOps /\ ops' = ops + 1
        /\ nextMsgId' = nextMsgId + 1
        /\ UNCHANGED <<kind, pc, heard, outer, nextChanId, calls, told, served, link,
                       access>>
    BY <1>10 DEF Send, Operation, deviceVars
  <2>2. ops' \in 0 .. MaxOps /\ nextMsgId' \in Nat
    BY <1>nats, <2>1
  <2>3. CodeSpent'
    BY <1>code, <2>1
  <2>4. QED BY <1>nats, <2>1, <2>2, <2>3, SendKeepsTypes DEF Requested
<1>11. CASE CallSend
  <2>1. /\ SendOK("chan", nextMsgId, "call", TRUE) \/ SendFails
        /\ pc = "open" /\ pc' = "call" /\ ops < MaxOps /\ ops' = ops + 1
        /\ nextMsgId' = nextMsgId + 1
        /\ UNCHANGED <<kind, heard, outer, nextChanId, calls, told, served, link,
                       access>>
    BY <1>11 DEF CallSend, Operation, deviceVars
  <2>2. ops' \in 0 .. MaxOps /\ nextMsgId' \in Nat
    BY <1>nats, <2>1
  <2>3. CodeSpent'
    BY <1>code, <2>1
  <2>4. QED BY <1>nats, <2>1, <2>2, <2>3, SendKeepsTypes DEF Requested
<1>12. CASE CallRecv
  <2> DEFINE call == [request |-> Len(asked),
                      given |-> IF heard' = heard THEN 0 ELSE heard']
             Call == [request: 1 .. Len(asked), given: 0 .. Len(told)]
  <2>1. /\ pc = "call" /\ pc' = "open" /\ ChanRecv /\ calls' = Append(calls, call)
        /\ UNCHANGED <<kind, asked, outer, nextChanId, ops, told, served, link, access>>
    BY <1>12 DEF CallRecv, deviceVars
  <2>2. nextMsgId' \in Nat /\ heard' \in 0 .. Len(told)
    BY <1>0, <2>1, ObjectHears, Basics
  <2>3. Len(asked) \in 1 .. Len(asked)
    <3>1. asked # <<>> /\ asked \in Seq(Asked)
      BY <1>0, <2>1 DEF Sound, Requested, TypeOK
    <3>2. Len(asked) # 0
      BY <3>1, EmptySeq
    <3>3. QED BY <1>0, <3>2, Basics
  <2>4. call \in Call
    BY <1>0, <2>2, <2>3, Basics
  <2>5. calls \in Seq(Call)
    BY <1>0 DEF TypeOK
  <2>6. calls' \in Seq(Call)
    <3> HIDE DEF call, Call
    <3>1. QED BY <2>1, <2>4, <2>5, AppendProperties
  <2>7. TypeOK'
    BY <1>0, <1>code, <2>1, <2>2, <2>6 DEF TypeOK
  <2>8. QED BY <1>0, <2>1, <2>3, <2>7 DEF TypeInv, Sound, Requested
<1>13. CASE Listen
  <2>1. ops' \in 0 .. MaxOps
    BY <1>nats, <1>13 DEF Listen, Operation
  <2>2. QED BY <1>0, <1>13, <2>1 DEF Listen, Operation, deviceVars, TypeOK, TypeInv,
                                     Sound, Requested, CodeSpent, FirstChanId
<1>14. CASE ListenRecv
  <2>1. /\ pc = "listen" /\ pc' = "open" /\ ChanRecv
        /\ UNCHANGED <<kind, asked, outer, nextChanId, calls, ops, told, served,
                       link, access>>
    BY <1>14 DEF ListenRecv, deviceVars
  <2>2. CodeSpent'
    BY <1>code, <2>1
  <2>3. QED BY <2>1, <2>2, RecvKeepsTypes DEF Requested
<1>15. CASE UseOfNull
  BY <1>0, <1>15 DEF UseOfNull, deviceVars, TypeOK, TypeInv, Sound, Requested,
                      CodeSpent, FirstChanId
<1>16. CASE Exit
  BY <1>0, <1>16 DEF Exit, deviceVars, TypeOK, TypeInv, Sound, Requested,
                      CodeSpent, FirstChanId
<1>17. CASE UNCHANGED vars
  BY <1>0, <1>17 DEF vars, TypeOK, TypeInv, Sound, CodeSpent, FirstChanId
<1>18. QED
  BY <1>1, <1>2, <1>3, <1>4, <1>5, <1>6, <1>7, <1>8, <1>9, <1>10, <1>11, <1>12,
     <1>13, <1>14, <1>15, <1>16, <1>17 DEF Next, Opening, Using

\* What a session starts with has the right types.
LEMMA TypeInit == Init => TypeInv
<1> SUFFICES ASSUME Init PROVE TypeInv
  OBVIOUS
<1>1. told = <<Announcement>> /\ Announcement \in Told
  BY DEF Init, Announcement, Told
<1>2. told \in Seq(Told) /\ Len(told) = 1
  <2> HIDE DEF Announcement
  <2>1. QED BY <1>1
<1>3. MaxOps \in Nat
  BY ConstantsAssumption
<1>4. kind \in Kinds /\ pc \in {"hello", "handshake"} /\ asked = <<>>
  BY DEF Init
<1>5. TypeOK
  BY <1>2, <1>3, <1>4 DEF Init, TypeOK, CodeSpent
<1>6. QED BY <1>4, <1>5 DEF TypeInv, Sound, Requested

\* The logs of both directions are what the properties take them for, and a
\* call that returns is entered under a message that was sent.
THEOREM TypeCorrect == Spec => []TypeOK
<1>1. TypeInv => TypeOK
  BY DEF TypeInv
<1>2. QED BY <1>1, TypeInit, TypeStep, PTL DEF Spec

-----------------------------------------------------------------------------
(* The ids of messages. *)

\* A counter is ahead of every id that was sent on its channel.
IdsBelow ==
  \A k \in DOMAIN asked :
    /\ asked[k].on = "outer" => asked[k].id < outer
    /\ asked[k].on = "chan" => asked[k].id < nextMsgId

IdInv == IdsBelow /\ IdsIncrease

\* A step that sends nothing may push the counters forward.
LEMMA CountersMayGrow ==
  ASSUME TypeOK, IdInv, asked' = asked, outer' \in Nat, nextMsgId' \in Nat,
         outer' >= outer, nextMsgId' >= nextMsgId
  PROVE  IdInv'
<1>1. IdsIncrease'
  BY DEF IdInv, IdsIncrease
<1>2. IdsBelow'
  <2> SUFFICES ASSUME NEW k \in DOMAIN asked
               PROVE  /\ asked[k].on = "outer" => asked[k].id < outer'
                      /\ asked[k].on = "chan" => asked[k].id < nextMsgId'
    BY DEF IdsBelow
  <2>1. /\ asked[k].on = "outer" => asked[k].id < outer
        /\ asked[k].on = "chan" => asked[k].id < nextMsgId
        /\ asked[k].id \in Nat
    BY Basics DEF IdInv, IdsBelow
  <2>2. QED BY <2>1, Basics
<1>3. QED BY <1>1, <1>2 DEF IdInv

\* A step that sends takes the id from the counter, and counts it.
LEMMA SendTakesNextId ==
  ASSUME TypeOK, IdInv, NEW on \in {"service", "outer", "chan"}, NEW i \in Nat,
         NEW what \in {"caps", "request", "send", "call"}, NEW reply \in BOOLEAN,
         SendOK(on, i, what, reply),
         outer' \in Nat, nextMsgId' \in Nat, outer' >= outer, nextMsgId' >= nextMsgId,
         on = "outer" => i = outer /\ outer' = outer + 1,
         on = "chan" => i = nextMsgId /\ nextMsgId' = nextMsgId + 1
  PROVE  IdInv'
<1> DEFINE n == Len(asked)
<1>1. /\ n \in Nat /\ DOMAIN asked = 1 .. n /\ DOMAIN asked' = 1 .. n + 1
      /\ outer \in Nat /\ nextMsgId \in Nat
      /\ \A k \in 1 .. n : asked'[k] = asked[k] /\ asked[k].id \in Nat
      /\ asked'[n + 1].on = on /\ asked'[n + 1].id = i
  <2>1. /\ asked' \in Seq(Asked) /\ Len(asked') = n + 1
        /\ \A k \in 1 .. n : asked'[k] = asked[k]
        /\ asked'[n + 1] = [on |-> on, id |-> i, what |-> what, reply |-> reply]
    BY SendEffect
  <2>2. DOMAIN asked' = 1 .. n + 1
    BY <2>1, LenProperties
  <2>3. QED BY <2>1, <2>2, Basics
<1> HIDE DEF n
<1>2. \A k \in 1 .. n : /\ asked[k].on = "outer" => asked[k].id < outer
                        /\ asked[k].on = "chan" => asked[k].id < nextMsgId
  BY <1>1 DEF IdInv, IdsBelow
<1>3. IdsBelow'
  <2> SUFFICES ASSUME NEW k \in 1 .. n + 1
               PROVE  /\ asked'[k].on = "outer" => asked'[k].id < outer'
                      /\ asked'[k].on = "chan" => asked'[k].id < nextMsgId'
    BY <1>1 DEF IdsBelow
  <2>1. CASE k \in 1 .. n
    <3>1. asked'[k] = asked[k] /\ asked[k].id \in Nat
      BY <1>1, <2>1
    <3>2. QED BY <1>1, <1>2, <2>1, <3>1
  <2>2. CASE k = n + 1
    BY <1>1, <2>2
  <2>3. QED BY <1>1, <2>1, <2>2
<1>4. IdsIncrease'
  <2> SUFFICES ASSUME NEW j \in 1 .. n + 1, NEW k \in 1 .. n + 1, j < k,
                      asked'[j].on = asked'[k].on, asked'[j].on # "service"
               PROVE  asked'[j].id < asked'[k].id
    BY <1>1 DEF IdsIncrease
  <2>1. j \in 1 .. n /\ asked'[j] = asked[j] /\ asked[j].id \in Nat
    <3>1. j \in 1 .. n
      BY <1>1
    <3>2. QED BY <1>1, <3>1
  <2>2. CASE k \in 1 .. n
    BY <1>1, <2>1, <2>2 DEF IdInv, IdsIncrease
  <2>3. CASE k = n + 1
    <3>1. asked[j].on = on /\ on \in {"outer", "chan"}
      BY <1>1, <2>1, <2>3
    <3>2. QED BY <1>1, <1>2, <2>1, <2>3, <3>1
  <2>4. QED BY <1>1, <2>2, <2>3
<1>5. QED BY <1>3, <1>4 DEF IdInv

\* Every step keeps the counters ahead.
LEMMA IdStep == TypeInv /\ IdInv /\ [Next]_vars => IdInv'
<1> SUFFICES ASSUME TypeInv, IdInv, [Next]_vars PROVE IdInv'
  OBVIOUS
<1>0. TypeOK /\ outer \in Nat /\ nextMsgId \in Nat
  BY Basics DEF TypeInv
<1>1. CASE HandshakeSend \/ ConnectSend
  <2>1. /\ \/ SendOK(OnOuter, OuterId, "caps", TRUE)
           \/ SendOK(OnOuter, OuterId, "request", TRUE)
           \/ asked' = asked
        /\ OuterCounts /\ nextMsgId' = nextMsgId
    BY <1>1 DEF HandshakeSend, ConnectSend, SendFails
  <2>2. /\ outer' \in Nat /\ outer' >= outer
        /\ OnOuter \in {"service", "outer"} /\ OuterId \in Nat
        /\ OnOuter = "outer" => OuterId = outer /\ outer' = outer + 1
    BY <1>0, <2>1, OuterTypes
  <2>more. /\ OnOuter \in {"service", "outer", "chan"} /\ OnOuter # "chan"
            /\ nextMsgId' \in Nat /\ nextMsgId' >= nextMsgId
    BY <1>0, <2>1, <2>2
  <2>3. CASE asked' = asked
    BY <1>0, <2>1, <2>2, <2>3, CountersMayGrow
  <2>4. CASE SendOK(OnOuter, OuterId, "caps", TRUE)
    BY <1>0, <2>2, <2>more, <2>4, SendTakesNextId
  <2>5. CASE SendOK(OnOuter, OuterId, "request", TRUE)
    BY <1>0, <2>2, <2>more, <2>5, SendTakesNextId
  <2>6. QED BY <2>1, <2>3, <2>4, <2>5
<1>2. CASE Send \/ CallSend
  <2>1. /\ \/ SendOK("chan", nextMsgId, "send", FALSE)
           \/ SendOK("chan", nextMsgId, "call", TRUE)
           \/ asked' = asked
        /\ nextMsgId' = nextMsgId + 1 /\ outer' = outer
    BY <1>2 DEF Send, CallSend, SendFails
  <2>2. /\ nextMsgId' \in Nat /\ nextMsgId' >= nextMsgId
        /\ outer' \in Nat /\ outer' >= outer
    BY <1>0, <2>1
  <2>3. CASE asked' = asked
    BY <1>0, <2>2, <2>3, CountersMayGrow
  <2>4. CASE SendOK("chan", nextMsgId, "send", FALSE)
    BY <1>0, <2>1, <2>2, <2>4, SendTakesNextId
  <2>5. CASE SendOK("chan", nextMsgId, "call", TRUE)
    BY <1>0, <2>1, <2>2, <2>5, SendTakesNextId
  <2>6. QED BY <2>1, <2>3, <2>4, <2>5
<1>3. CASE HandshakeRecv \/ ConnectResponse \/ ConnectVerdict
  <2>1. /\ asked' = asked /\ nextMsgId' = nextMsgId
        /\ (RecvOK /\ OuterHears) \/ outer' = outer
    BY <1>3 DEF HandshakeRecv, ConnectResponse, ConnectVerdict
  <2>2. outer' \in Nat /\ outer' >= outer
    BY <1>0, <2>1, ObjectHears
  <2>3. QED BY <1>0, <2>1, <2>2, CountersMayGrow
<1>4. CASE ConnectExtra \/ CallRecv \/ ListenRecv
  <2>1. asked' = asked /\ outer' = outer /\ ChanRecv
    BY <1>4 DEF ConnectExtra, CallRecv, ListenRecv
  <2>2. nextMsgId' \in Nat /\ nextMsgId' >= nextMsgId
    BY <1>0, <2>1, ObjectHears
  <2>3. QED BY <1>0, <2>1, <2>2, CountersMayGrow
<1>5. CASE Serve \/ Notify \/ Close \/ Listen \/ UseOfNull \/ Exit \/ UNCHANGED vars
  <2>1. UNCHANGED <<asked, outer, nextMsgId>>
    BY <1>5 DEF Serve, Notify, Close, Listen, UseOfNull, Exit, vars
  <2>2. QED BY <1>0, <2>1, CountersMayGrow
<1>6. QED BY <1>1, <1>2, <1>3, <1>4, <1>5 DEF Next, Opening, Using

\* The device sees each id once on a channel and in increasing order, also
\* when the ids of its own messages push the counter of the channel forward.
THEOREM IdsAlwaysIncrease == Spec => []IdsIncrease
<1>1. Init => IdInv
  BY DEF Init, IdInv, IdsBelow, IdsIncrease
<1>2. IdInv => IdsIncrease
  BY DEF IdInv
<1>3. QED BY <1>1, <1>2, TypeInit, TypeStep, IdStep, PTL DEF Spec

-----------------------------------------------------------------------------
(* Who receives what. *)

Opened == {"open", "call", "listen", "done"}
OpeningPlaces == {"handshake", "hello", "connect", "response", "verdict", "extra"}

\* An answer is to a message that was handled.
Log ==
  /\ Len(told) >= 1 /\ told[1] = Announcement
  /\ \A i \in 1 .. Len(told) : told[i].re <= served

\* Until the channel is open every message sent is answered, so that the logs
\* run side by side: what follows the announcement answers the first, the
\* second...  A refusal is one of these answers.
SideBySide ==
  /\ Len(told) = served + 1
  /\ \A i \in 1 .. Len(told) : told[i].re = i - 1
  /\ \A k \in 1 .. Len(asked) : /\ asked[k].what \in {"caps", "request"}
                                /\ asked[k].on # "chan"
  /\ access = "refused" =>
       \E i \in 1 .. Len(told) : /\ i # 1 /\ told[i].body = "error"
                                 /\ asked[i - 1].what = "request"

\* The messages sent when the handshake is over, and when the n-th of them
\* requested the channel.  A connection that closes early leaves the handshake
\* out, and then nothing but the announcement ever comes.
Hellos == IF kind = "testmanagerd" THEN 0 ELSE 1
Greeted == /\ Len(asked) = Hellos
           /\ \A k \in 1 .. Len(asked) : asked[k].what = "caps"
Asking(n) ==
  /\ Len(asked) = n /\ asked[n].what = "request"
  /\ \A k \in 1 .. n - 1 : asked[k].what = "caps"
NotGreeted == link = "down" /\ Len(told) = 1

\* How many messages were sent and received at each place of the opening.
Place ==
  /\ pc = "handshake" => heard = 0 /\ Len(asked) = 0 /\ kind # "testmanagerd"
  /\ pc = "hello" => heard = 0 /\ Greeted
  /\ pc = "connect" => \/ heard = 1 /\ Greeted
                       \/ heard = 0 /\ Len(asked) = 0 /\ NotGreeted
  /\ pc = "response" =>
       /\ kind = "channel"
       /\ (heard = 1 /\ Asking(2)) \/ (heard = 0 /\ Asking(1) /\ NotGreeted)
  /\ pc = "verdict" =>
       \/ kind # "instruments" /\ heard = Hellos + 1 /\ Asking(Hellos + 1)
       \/ kind = "instruments" /\ heard = 1 /\ Asking(2)
       \/ heard \in {0, 1} /\ NotGreeted
  /\ pc = "extra" => kind = "instruments" /\ heard = 2 /\ Asking(2)

Received(k) == \E i \in 1 .. heard : told[i].re = k
AllReceived(n) == \A k \in 1 .. n : asked[k].what # "send" => Received(k)

\* Between operations nothing is to come; in a call at most its own answer.
Settled == heard = Len(told) /\ (link = "up" => AllReceived(Len(asked)))
OneToCome ==
  \/ heard = Len(told) /\ link = "down"
  \/ /\ heard = Len(told) /\ served < Len(asked)
     /\ asked[Len(asked)].what = "call" /\ AllReceived(Len(asked) - 1)
  \/ /\ heard + 1 = Len(told) /\ told[Len(told)].re = Len(asked)
     /\ AllReceived(Len(asked) - 1)

Turns ==
  /\ link = "up" => \A k \in 1 .. Len(asked) : asked[k].what = "request" => k <= served
  /\ Notices = {} => /\ pc \in {"open", "listen"} => Settled
                     /\ pc = "call" => OneToCome

TurnInv ==
  /\ Log
  /\ pc \in OpeningPlaces => SideBySide /\ Place
  /\ pc \in Opened => Turns
  /\ InStep

\* The device's log only grows, and with it the notices in it.
LEMMA NoticesGrow ==
  ASSUME TypeOK, NEW m \in Told, told' = Append(told, m)
  PROVE  /\ Notices' = {} => Notices = {} /\ m.body # "notice"
<1>1. /\ told' \in Seq(Told) /\ Len(told') = Len(told) + 1
      /\ \A k \in 1 .. Len(told) : told'[k] = told[k]
      /\ told'[Len(told) + 1] = m
  BY TellEffect
<1>2. /\ DOMAIN told = 1 .. Len(told) /\ DOMAIN told' = 1 .. Len(told) + 1
      /\ Len(told) \in Nat
  BY <1>1, LenProperties, Basics
<1>3. m.body = "notice" => Len(told) + 1 \in Notices'
  BY <1>1, <1>2 DEF Notices
<1>4. \A k \in Notices : k \in Notices'
  BY <1>1, <1>2 DEF Notices
<1>5. QED BY <1>3, <1>4

\* What the calls were given stays what it was while the logs grow.
LEMMA GivenIsKept ==
  ASSUME TypeOK, AnswersAreOwn, calls' = calls, Notices' = {} => Notices = {},
         \A k \in 1 .. Len(told) : told'[k] = told[k]
  PROVE  AnswersAreOwn'
<1> SUFFICES ASSUME Notices = {}, NEW i \in DOMAIN calls, calls[i].given # 0
             PROVE  told'[calls[i].given].re = calls[i].request
  BY DEF AnswersAreOwn
<1>1. calls[i].given \in 1 .. Len(told)
  <2> DEFINE Call == [request: 1 .. Len(asked), given: 0 .. Len(told)]
  <2>1. calls \in Seq(Call)
    BY DEF TypeOK
  <2>2. calls[i] \in Call
    <3> HIDE DEF Call
    <3>1. QED BY <2>1, LenProperties, ElementOfSeq
  <2>3. QED BY <2>2, Basics
<1>2. told[calls[i].given].re = calls[i].request
  BY DEF AnswersAreOwn
<1>3. QED BY <1>1, <1>2

\* The device handles a message: what it appends to its log, if anything, is
\* the one answer that was still to come.
LEMMA ServeTurns == TypeInv /\ TurnInv /\ Serve => TurnInv'
<1> SUFFICES ASSUME TypeInv, TurnInv, Serve PROVE TurnInv'
  OBVIOUS
<1> DEFINE n == Len(told)
           r == asked[served + 1]
<1>0. TypeOK /\ Log /\ InStep /\ n \in Nat /\ served \in Nat /\ heard \in Nat
      /\ heard <= n /\ n >= 1
  BY Basics DEF TypeInv, TurnInv, Log
<1>1. /\ served + 1 \in 1 .. Len(asked) /\ served' = served + 1 /\ link = "up"
      /\ UNCHANGED <<kind, pc, link, asked, heard, calls>>
  BY ServeEffect
<1>2. CASE r.what = "send" /\ UNCHANGED <<told, access>>
  <2>1. Log'
    BY <1>0, <1>1, <1>2, Basics DEF Log
  <2>2. pc \notin OpeningPlaces
    BY <1>1, <1>2 DEF TurnInv, SideBySide
  <2>3. pc \in Opened => Turns'
    <3>1. SUFFICES ASSUME pc \in Opened PROVE Turns'
      OBVIOUS
    <3>2. Turns
      BY <3>1 DEF TurnInv
    <3>3. \A k \in 1 .. Len(asked) : asked[k].what = "request" => k <= served'
      BY <1>0, <1>1, <3>2 DEF Turns
    <3>4. ASSUME Notices = {}, pc = "call" PROVE OneToCome'
      <4>1. OneToCome
        BY <3>2, <3>4 DEF Turns
      <4>2. CASE heard = n /\ served < Len(asked) /\ asked[Len(asked)].what = "call"
                 /\ AllReceived(Len(asked) - 1)
        <5>1. served + 1 # Len(asked)
          BY <1>2, <4>2
        <5>2. served' < Len(asked)
          <6>1. Len(asked) \in Nat /\ served \in Nat
            BY <1>0, Basics
          <6>2. QED BY <1>1, <5>1, <6>1
        <5>3. (AllReceived(Len(asked) - 1))'
          BY <1>1, <1>2, <4>2 DEF AllReceived, Received
        <5>4. QED BY <1>1, <1>2, <4>2, <5>2, <5>3 DEF OneToCome
      <4>3. CASE heard + 1 = n /\ told[n].re = Len(asked) /\ AllReceived(Len(asked) - 1)
        <5>1. (AllReceived(Len(asked) - 1))'
          BY <1>1, <1>2, <4>3 DEF AllReceived, Received
        <5>2. QED BY <1>1, <1>2, <4>3, <5>1 DEF OneToCome
      <4>4. QED BY <1>1, <4>1, <4>2, <4>3 DEF OneToCome
    <3>5. Notices' = Notices
      BY <1>2 DEF Notices
    <3>6. Settled => Settled'
      BY <1>1, <1>2 DEF Settled, AllReceived, Received
    <3>7. QED BY <1>1, <3>2, <3>3, <3>4, <3>5, <3>6 DEF Turns
  <2>4. InStep'
    BY <1>0, <1>1, <1>2 DEF InStep, AnswersAreOwn, RefusedIsSeen, Notices
  <2>5. QED BY <1>1, <2>1, <2>2, <2>3, <2>4 DEF TurnInv
<1>3. CASE r.what # "send"
  <2>1. PICK m \in Told :
          /\ m.re = served + 1 /\ m.body # "notice" /\ told' = Append(told, m)
          /\ (access' = "refused" => access = "refused")
             \/ (m.body = "error" /\ r.what = "request")
          /\ access' # access => r.what = "request"
    BY <1>3, ServeEffect
  <2>2. /\ Len(told') = n + 1 /\ told'[n + 1] = m
        /\ \A k \in 1 .. n : told'[k] = told[k]
    BY <1>0, <2>1, TellEffect
  <2>3. Notices' = {} => Notices = {}
    BY <1>0, <2>1, NoticesGrow
  <2> HIDE DEF n
  <2>4. \A k \in 1 .. n + 1 : k \in 1 .. n \/ k = n + 1
    BY <1>0
  <2>5. \A k \in 1 .. n : told[k].re \in Nat
    BY <1>0, Basics DEF n
  <2>6. Log'
    <3>1. \A k \in 1 .. n : told'[k].re <= served'
      BY <1>0, <1>1, <2>2, <2>5 DEF Log, n
    <3>2. told'[n + 1].re <= served'
      BY <1>0, <1>1, <2>1, <2>2
    <3>3. told'[1] = Announcement /\ Len(told') >= 1
      BY <1>0, <2>2 DEF Log, n
    <3>4. QED BY <2>2, <2>4, <3>1, <3>2, <3>3 DEF Log
  <2>7. ASSUME pc \in OpeningPlaces PROVE (SideBySide /\ Place)'
    <3>1. SideBySide /\ Place
      BY <2>7 DEF TurnInv
    <3>2. Len(told') = served' + 1
      BY <1>0, <1>1, <2>2, <3>1 DEF SideBySide, n
    <3>3. \A i \in 1 .. n + 1 : told'[i].re = i - 1
      <4>1. told'[n + 1].re = (n + 1) - 1
        BY <1>0, <2>1, <2>2, <3>1 DEF SideBySide, n
      <4>2. \A i \in 1 .. n : told'[i].re = i - 1
        BY <2>2, <3>1 DEF SideBySide, n
      <4>3. QED BY <2>4, <4>1, <4>2
    <3>4. ASSUME access' = "refused"
          PROVE  \E i \in 1 .. n + 1 : /\ i # 1 /\ told'[i].body = "error"
                                       /\ asked[i - 1].what = "request"
      <4>1. CASE access = "refused"
        <5>1. PICK i \in 1 .. n : /\ i # 1 /\ told[i].body = "error"
                                  /\ asked[i - 1].what = "request"
          BY <3>1, <4>1 DEF SideBySide, n
        <5>2. i \in 1 .. n + 1 /\ told'[i] = told[i]
          BY <1>0, <2>2
        <5>3. QED BY <5>1, <5>2
      <4>2. CASE m.body = "error" /\ r.what = "request"
        <5>1. n + 1 \in 1 .. n + 1 /\ n + 1 # 1 /\ (n + 1) - 1 = served + 1
          BY <1>0, <3>1 DEF SideBySide, n
        <5>2. QED BY <2>2, <4>2, <5>1
      <4>3. QED BY <2>1, <3>4, <4>1, <4>2
    <3>5. SideBySide'
      BY <1>1, <2>2, <3>1, <3>2, <3>3, <3>4 DEF SideBySide
    <3>6. Place'
      BY <1>1, <3>1 DEF Place, Greeted, Asking, NotGreeted, Hellos
    <3>7. QED BY <3>5, <3>6
  <2>8. ASSUME pc \in Opened PROVE Turns'
    <3>1. Turns /\ r.what # "request"
      <4>1. Turns
        BY <2>8 DEF TurnInv
      <4>2. r.what = "request" => served + 1 <= served
        BY <1>1, <4>1 DEF Turns
      <4>3. QED BY <1>0, <4>1, <4>2
    <3>2. \A k \in 1 .. Len(asked) : asked[k].what = "request" => k <= served'
      BY <1>0, <1>1, <3>1 DEF Turns
    <3>3. ~Received(served + 1)
      <4>1. ASSUME NEW i \in 1 .. heard PROVE told[i].re # served + 1
        <5>1. i \in 1 .. n
          BY <1>0
        <5>2. told[i].re <= served /\ told[i].re \in Nat
          BY <1>0, <2>5, <5>1 DEF Log, n
        <5>3. QED BY <1>0, <5>2
      <4>2. QED BY <4>1 DEF Received
    <3>4. ~Settled
      <4>1. AllReceived(Len(asked)) => Received(served + 1)
        BY <1>1, <1>3 DEF AllReceived
      <4>2. QED BY <1>1, <3>3, <4>1 DEF Settled
    <3>5. ASSUME OneToCome PROVE OneToCome'
      <4>1. ASSUME AllReceived(Len(asked) - 1) PROVE served + 1 = Len(asked)
        <5>1. served + 1 \in 1 .. Len(asked) - 1 => Received(served + 1)
          BY <1>3, <4>1 DEF AllReceived
        <5>2. QED BY <1>0, <1>1, <3>3, <5>1, Basics
      <4>2. ASSUME AllReceived(Len(asked) - 1) PROVE (AllReceived(Len(asked) - 1))'
        <5>1. \A i \in 1 .. heard : told'[i] = told[i]
          BY <1>0, <2>2
        <5>2. QED BY <1>1, <4>2, <5>1 DEF AllReceived, Received
      <4>3. CASE heard = n /\ served < Len(asked) /\ asked[Len(asked)].what = "call"
                 /\ AllReceived(Len(asked) - 1)
        <5>1. heard' + 1 = Len(told') /\ told'[Len(told')].re = Len(asked')
          BY <1>1, <2>1, <2>2, <4>1, <4>3
        <5>2. QED BY <4>2, <4>3, <5>1 DEF OneToCome
      <4>4. CASE heard + 1 = n /\ told[n].re = Len(asked) /\ AllReceived(Len(asked) - 1)
        <5>1. told[n].re <= served
          BY <1>0 DEF Log, n
        <5>2. QED BY <1>0, <4>1, <4>4, <5>1
      <4>5. QED BY <1>1, <3>5, <4>3, <4>4 DEF OneToCome, n
    <3>6. QED BY <1>1, <2>3, <3>1, <3>2, <3>4, <3>5 DEF Turns
  <2>9. InStep'
    <3>1. AnswersAreOwn'
      BY <1>0, <1>1, <2>2, <2>3, GivenIsKept DEF InStep, n
    <3>2. kind # "instruments" => RefusedIsSeen'
      <4>1. CASE access' = access
        BY <1>0, <1>1, <4>1 DEF InStep, RefusedIsSeen
      <4>2. CASE r.what = "request" /\ pc \in Opened
        <5>1. Turns
          BY <4>2 DEF TurnInv
        <5>2. served + 1 <= served
          BY <1>1, <4>2, <5>1 DEF Turns
        <5>3. QED BY <1>0, <5>2
      <4>3. CASE pc \notin Opened
        BY <1>1, <4>3 DEF RefusedIsSeen, Opened
      <4>4. QED BY <2>1, <4>1, <4>2, <4>3
    <3>3. QED BY <1>1, <3>1, <3>2 DEF InStep
  <2>10. QED BY <1>1, <2>6, <2>7, <2>8, <2>9 DEF TurnInv
<1>4. QED
  <2>1. \/ r.what = "send" /\ UNCHANGED <<told, access>>
        \/ r.what # "send"
    BY ServeEffect
  <2>2. QED BY <1>2, <1>3, <2>1

\* A notice comes only when the channel is in use, and then nothing is claimed
\* of the answers.
LEMMA NotifyTurns == TypeInv /\ TurnInv /\ Notify => TurnInv'
<1> SUFFICES ASSUME TypeInv, TurnInv, Notify PROVE TurnInv'
  OBVIOUS
<1>0. TypeOK /\ Log /\ InStep /\ Len(told) \in Nat
  BY Basics DEF TypeInv, TurnInv
<1>1. /\ link = "up" /\ \E k \in 1 .. served : asked[k].on = "chan"
      /\ UNCHANGED <<kind, pc, link, asked, served, heard, access, calls>>
  BY <1>0, NotifyEffect
<1>2. PICK m \in Told : m.re = 0 /\ m.body = "notice" /\ told' = Append(told, m)
  BY <1>0, NotifyEffect
<1>3. /\ Len(told') = Len(told) + 1 /\ told'[Len(told) + 1] = m
      /\ \A k \in 1 .. Len(told) : told'[k] = told[k]
  BY <1>0, <1>2, TellEffect
<1>4. Notices' # {}
  BY <1>0, <1>2, NoticesGrow
<1>5. Log'
  <2>1. \A k \in 1 .. Len(told) + 1 : k \in 1 .. Len(told) \/ k = Len(told) + 1
    BY <1>0
  <2>2. m.re <= served
    BY <1>0, <1>2, Basics
  <2>3. QED BY <1>0, <1>1, <1>3, <2>1, <2>2 DEF Log
<1>6. pc \notin OpeningPlaces
  <2>1. \A k \in 1 .. served : k \in 1 .. Len(asked)
    BY <1>0, Basics
  <2>2. QED BY <1>1, <2>1 DEF TurnInv, SideBySide
<1>7. pc \in Opened => Turns'
  BY <1>1, <1>4 DEF TurnInv, Turns
<1>8. InStep'
  BY <1>0, <1>1, <1>4 DEF InStep, AnswersAreOwn, RefusedIsSeen
<1>9. QED BY <1>1, <1>5, <1>6, <1>7, <1>8 DEF TurnInv

\* What has come can still be received after the connection has closed.
LEMMA CloseTurns == TypeInv /\ TurnInv /\ Close => TurnInv'
<1> SUFFICES ASSUME TypeInv, TurnInv, Close PROVE TurnInv'
  OBVIOUS
<1>1. /\ link = "up" /\ link' = "down"
      /\ UNCHANGED <<kind, pc, asked, served, told, heard, access, calls>>
  BY DEF Close
<1>2. Log' /\ InStep'
  BY <1>1 DEF TurnInv, Log, InStep, AnswersAreOwn, RefusedIsSeen, Notices
<1>3. pc \in OpeningPlaces => (SideBySide /\ Place)'
  BY <1>1 DEF TurnInv, SideBySide, Place, Greeted, Asking, NotGreeted, Hellos
<1>4. pc \in Opened => Turns'
  BY <1>1 DEF TurnInv, Turns, Notices, Settled, OneToCome, AllReceived, Received
<1>5. QED BY <1>1, <1>2, <1>3, <1>4 DEF TurnInv

\* What one more message of the program does to what is known of the logs.
LEMMA AskKeepsLog ==
  ASSUME TypeInv, TurnInv, NEW on \in {"service", "outer", "chan"}, NEW i \in Nat,
         NEW what \in {"caps", "request", "send", "call"}, NEW reply \in BOOLEAN,
         SendOK(on, i, what, reply),
         UNCHANGED <<kind, served, told, heard, access, calls>>
  PROVE  /\ Log' /\ AnswersAreOwn' /\ Len(asked) \in Nat
         /\ Len(asked') = Len(asked) + 1
         /\ \A k \in 1 .. Len(asked) : asked'[k] = asked[k]
         /\ asked'[Len(asked) + 1].what = what
         /\ \A k \in 1 .. Len(asked) + 1 : k \in 1 .. Len(asked) \/ k = Len(asked) + 1
         /\ SideBySide /\ on # "chan" /\ what \in {"caps", "request"} => SideBySide'
<1> DEFINE n == Len(asked)
<1>0. TypeOK /\ n \in Nat /\ Len(told) \in Nat /\ served <= n /\ served \in Nat
  BY Basics DEF TypeInv
<1>1. /\ Len(asked') = n + 1 /\ \A k \in 1 .. n : asked'[k] = asked[k]
      /\ asked'[n + 1] = [on |-> on, id |-> i, what |-> what, reply |-> reply]
  BY <1>0, SendEffect
<1> HIDE DEF n
<1>2. asked'[n + 1].what = what /\ asked'[n + 1].on = on
  BY <1>1
<1>3. \A k \in 1 .. n + 1 : k \in 1 .. n \/ k = n + 1
  BY <1>0
<1>4. Log'
  BY DEF TurnInv, Log
<1>5. AnswersAreOwn'
  BY DEF TurnInv, InStep, AnswersAreOwn, Notices
<1>6. ASSUME SideBySide, on # "chan", what \in {"caps", "request"}
      PROVE  SideBySide'
  <2>1. \A k \in 1 .. n + 1 : /\ asked'[k].what \in {"caps", "request"}
                              /\ asked'[k].on # "chan"
    BY <1>1, <1>2, <1>3, <1>6 DEF SideBySide, n
  <2>2. ASSUME access = "refused"
        PROVE  \E j \in 1 .. Len(told) : /\ j # 1 /\ told[j].body = "error"
                                         /\ asked'[j - 1].what = "request"
    <3>1. PICK j \in 1 .. Len(told) : /\ j # 1 /\ told[j].body = "error"
                                      /\ asked[j - 1].what = "request"
      BY <1>6, <2>2 DEF SideBySide
    <3>2. j - 1 \in 1 .. n
      BY <1>0, <1>6, <3>1 DEF SideBySide
    <3>3. QED BY <1>1, <3>1, <3>2
  <2>3. QED BY <1>1, <1>6, <2>1, <2>2 DEF SideBySide
<1>7. QED BY <1>0, <1>1, <1>2, <1>3, <1>4, <1>5, <1>6 DEF n

\* The two messages of the opening.
LEMMA OpeningSends ==
  ASSUME TypeInv, TurnInv, HandshakeSend \/ ConnectSend
  PROVE  TurnInv'
<1> DEFINE n == Len(asked)
<1>0. TypeOK /\ SideBySide /\ Place /\ Log /\ AnswersAreOwn
  BY DEF TypeInv, TurnInv, OpeningPlaces, HandshakeSend, ConnectSend, InStep
<1>1. UNCHANGED <<kind, heard, served, told, link, access, calls>>
  BY DEF HandshakeSend, ConnectSend, deviceVars
<1>2. OnOuter \in {"service", "outer", "chan"} /\ OnOuter # "chan" /\ OuterId \in Nat
  BY <1>0, OuterTypes
<1>3. ASSUME SendFails
      PROVE  Log' /\ SideBySide' /\ AnswersAreOwn'
  BY <1>0, <1>1, <1>3 DEF SendFails, Log, SideBySide, AnswersAreOwn, Notices
<1>4. ASSUME NEW what \in {"caps", "request"}, SendOK(OnOuter, OuterId, what, TRUE)
      PROVE  /\ Log' /\ SideBySide' /\ AnswersAreOwn' /\ n \in Nat /\ Len(asked') = n + 1
             /\ \A k \in 1 .. n : asked'[k] = asked[k]
             /\ asked'[n + 1].what = what
             /\ \A k \in 1 .. n + 1 : k \in 1 .. n \/ k = n + 1
  <2>1. what \in {"caps", "request", "send", "call"} /\ TRUE \in BOOLEAN
    OBVIOUS
  <2>2. QED BY <1>0, <1>1, <1>2, <1>4, <2>1, AskKeepsLog
<1>5. CASE pc = "handshake" /\ SendOK(OnOuter, OuterId, "caps", TRUE) /\ pc' = "hello"
  <2>1. heard = 0 /\ n = 0 /\ kind # "testmanagerd"
    BY <1>0, <1>5 DEF Place
  <2>2. /\ Log' /\ SideBySide' /\ AnswersAreOwn' /\ Len(asked') = n + 1
        /\ asked'[n + 1].what = "caps"
    BY <1>4, <1>5
  <2>3. Greeted'
    BY <1>1, <2>1, <2>2 DEF Greeted, Hellos
  <2>4. Place'
    BY <1>1, <1>5, <2>1, <2>3 DEF Place
  <2>5. QED BY <1>5, <2>2, <2>4 DEF TurnInv, Opened, InStep, RefusedIsSeen
<1>6. CASE pc = "handshake" /\ SendFails /\ pc' = "connect"
  <2>1. heard = 0 /\ n = 0 /\ Len(told) = 1
    <3>1. heard = 0 /\ n = 0
      BY <1>0, <1>6 DEF Place
    <3>2. QED BY <1>0, <3>1, Basics DEF SideBySide
  <2>2. Place'
    BY <1>1, <1>6, <2>1 DEF Place, NotGreeted, SendFails
  <2>3. QED BY <1>3, <1>6, <2>2 DEF TurnInv, Opened, InStep, RefusedIsSeen
<1>7. CASE /\ pc = "connect" /\ SendOK(OnOuter, OuterId, "request", TRUE)
           /\ pc' = IF kind = "channel" THEN "response" ELSE "verdict"
  <2>1. \/ heard = 1 /\ Greeted
        \/ heard = 0 /\ n = 0 /\ NotGreeted
    BY <1>0, <1>7 DEF Place
  <2>2. /\ Log' /\ SideBySide' /\ AnswersAreOwn' /\ n \in Nat /\ Len(asked') = n + 1
        /\ \A k \in 1 .. n : asked'[k] = asked[k]
        /\ asked'[n + 1].what = "request"
    BY <1>4, <1>7
  <2>3. kind \in SessionKinds
    BY <1>0, ConstantsAssumption DEF TypeOK
  <2>4. Place'
    <3>1. CASE heard = 1 /\ Greeted
      <4>1. Asking(Hellos + 1)'
        BY <1>1, <2>2, <3>1 DEF Asking, Greeted, Hellos
      <4>2. kind # "testmanagerd" => Asking(2)'
        BY <1>1, <4>1 DEF Hellos
      <4>3. QED BY <1>1, <1>7, <2>3, <3>1, <4>1, <4>2 DEF Place, Hellos, SessionKinds
    <3>2. CASE heard = 0 /\ n = 0 /\ NotGreeted
      <4>1. Asking(1)'
        BY <2>2, <3>2 DEF Asking
      <4>2. QED BY <1>1, <1>7, <3>2, <4>1 DEF Place, NotGreeted
    <3>3. QED BY <2>1, <3>1, <3>2
  <2>5. QED BY <1>7, <2>2, <2>4 DEF TurnInv, Opened, InStep, RefusedIsSeen
<1>8. CASE pc = "connect" /\ SendFails /\ pc' = "null"
  BY <1>3, <1>8 DEF TurnInv, Opened, OpeningPlaces, InStep, RefusedIsSeen
<1>9. QED BY <1>5, <1>6, <1>7, <1>8 DEF HandshakeSend, ConnectSend

\* While the logs run side by side, whoever has received everything that was
\* asked for has received all there is.
LEMMA AllHeard ==
  ASSUME TypeInv, SideBySide, NEW h \in Nat, h <= Len(told), h = Len(asked) + 1
  PROVE  /\ h = Len(told) /\ served = Len(asked)
         /\ \A k \in 1 .. Len(asked) : /\ k + 1 \in 1 .. h
                                       /\ told[k + 1].re = k /\ k <= served
<1>1. /\ Len(asked) \in Nat /\ Len(told) \in Nat /\ served \in Nat
      /\ served <= Len(asked)
  BY Basics DEF TypeInv
<1>2. h = Len(told) /\ served = Len(asked)
  BY <1>1 DEF SideBySide
<1>3. ASSUME NEW k \in 1 .. Len(asked)
      PROVE  k + 1 \in 1 .. h /\ told[k + 1].re = k /\ k <= served
  <2>1. k + 1 \in 1 .. h /\ k <= served /\ (k + 1) - 1 = k
    BY <1>1, <1>2
  <2>2. QED BY <1>2, <2>1 DEF SideBySide
<1>4. QED BY <1>2, <1>3

\* The receives before the verdict.
LEMMA EarlyReceives ==
  ASSUME TypeInv, TurnInv, HandshakeRecv \/ ConnectResponse
  PROVE  TurnInv'
<1>0. /\ TypeOK /\ SideBySide /\ Place /\ Log /\ AnswersAreOwn
      /\ heard \in Nat /\ heard <= Len(told) /\ Len(told) \in Nat
  BY Basics DEF TypeInv, TurnInv, OpeningPlaces, HandshakeRecv, ConnectResponse, InStep
<1>1. UNCHANGED <<kind, asked, served, told, link, access, calls>>
  BY DEF HandshakeRecv, ConnectResponse, deviceVars
<1>2. Log' /\ SideBySide' /\ AnswersAreOwn'
  BY <1>0, <1>1 DEF Log, SideBySide, AnswersAreOwn, Notices
<1>3. CASE pc = "hello" /\ pc' = "connect" /\ (RecvOK \/ RecvFails)
  <2>1. heard = 0 /\ Greeted
    BY <1>0, <1>3 DEF Place
  <2>2. heard' = 1
    BY <1>0, <1>3, <2>1 DEF RecvOK, RecvFails, Log
  <2>3. Place'
    BY <1>1, <1>3, <2>1, <2>2 DEF Place, Greeted, Hellos
  <2>4. QED BY <1>2, <1>3, <2>3 DEF TurnInv, Opened, InStep, RefusedIsSeen
<1>4. CASE pc = "response" /\ pc' = "verdict" /\ RecvOK
  <2>1. /\ kind = "channel"
        /\ (heard = 1 /\ Asking(2)) \/ (heard = 0 /\ NotGreeted)
    BY <1>0, <1>4 DEF Place
  <2>2. heard' = heard + 1
    BY <1>4 DEF RecvOK
  <2>3. Hellos = 1
    BY <2>1 DEF Hellos
  <2>4. (Asking(2) => Asking(Hellos + 1)') /\ (NotGreeted => NotGreeted') /\ Hellos' = 1
    BY <1>1, <2>3 DEF Asking, NotGreeted, Hellos
  <2>5. Place'
    BY <1>1, <1>4, <2>1, <2>2, <2>4 DEF Place
  <2>6. QED BY <1>2, <1>4, <2>5 DEF TurnInv, Opened, InStep, RefusedIsSeen
<1>5. CASE pc = "response" /\ pc' = "null"
  BY <1>2, <1>5 DEF TurnInv, OpeningPlaces, Opened, InStep, RefusedIsSeen
<1>6. QED BY <1>3, <1>4, <1>5 DEF HandshakeRecv, ConnectResponse

\* An empty message opens the channel: it is the answer to the request, except
\* on instruments services, which receive that one next.
LEMMA VerdictTurns ==
  ASSUME TypeInv, TurnInv, ConnectVerdict
  PROVE  TurnInv'
<1> DEFINE n == Len(asked)
<1>0. /\ TypeOK /\ SideBySide /\ Place /\ Log /\ AnswersAreOwn /\ pc = "verdict"
      /\ heard \in Nat /\ Len(told) \in Nat /\ n \in Nat
  BY Basics DEF TypeInv, TurnInv, OpeningPlaces, ConnectVerdict, InStep
<1>1. UNCHANGED <<kind, asked, served, told, link, access, calls>>
  BY DEF ConnectVerdict, deviceVars
<1>2. Log' /\ SideBySide' /\ AnswersAreOwn'
  BY <1>0, <1>1 DEF Log, SideBySide, AnswersAreOwn, Notices
<1>3. CASE pc' = "null"
  BY <1>2, <1>3 DEF TurnInv, OpeningPlaces, Opened, InStep, RefusedIsSeen
<1>4. ASSUME pc' # "null"
      PROVE  /\ heard' = heard + 1 /\ heard' <= Len(told)
             /\ told[heard'].body = "empty"
             /\ pc' = IF kind = "instruments" THEN "extra" ELSE "open"
             /\ \/ kind # "instruments" /\ heard' = n + 1 /\ Asking(Hellos + 1)
                \/ kind = "instruments" /\ heard' = 2 /\ Asking(2)
  <2>1. /\ RecvOK /\ Message.body = "empty"
        /\ pc' = IF kind = "instruments" THEN "extra" ELSE "open"
    BY <1>4 DEF ConnectVerdict, SkipRecv
  <2>2. heard' = heard + 1 /\ heard' <= Len(told) /\ told[heard'].body = "empty"
    BY <1>0, <2>1 DEF RecvOK, Message
  <2>3. ~NotGreeted
    <3>1. SUFFICES ASSUME NotGreeted PROVE FALSE
      OBVIOUS
    <3>2. heard' = 1
      BY <1>0, <2>2, <3>1 DEF NotGreeted
    <3>3. QED BY <1>0, <2>2, <3>2 DEF Log, Announcement
  <2>4. \/ kind # "instruments" /\ heard = Hellos + 1 /\ Asking(Hellos + 1)
        \/ kind = "instruments" /\ heard = 1 /\ Asking(2)
    BY <1>0, <2>3 DEF Place
  <2>5. QED BY <2>1, <2>2, <2>4 DEF Asking
<1>5. CASE pc' # "null" /\ kind = "instruments"
  <2>1. pc' = "extra" /\ heard' = 2 /\ Asking(2)
    BY <1>4, <1>5
  <2>2. Place'
    BY <1>1, <1>5, <2>1 DEF Place, Asking
  <2>3. QED BY <1>2, <2>1, <2>2 DEF TurnInv, Opened, InStep, RefusedIsSeen
<1>6. CASE pc' # "null" /\ kind # "instruments"
  <2>1. /\ pc' = "open" /\ heard' = n + 1 /\ Asking(Hellos + 1) /\ heard' \in Nat
        /\ heard' <= Len(told) /\ told[heard'].body = "empty"
    BY <1>0, <1>4, <1>6
  <2>2. /\ heard' = Len(told)
        /\ \A k \in 1 .. n : k + 1 \in 1 .. heard' /\ told[k + 1].re = k /\ k <= served
    BY <1>0, <2>1, AllHeard
  <2>3. (AllReceived(Len(asked)))'
    BY <1>1, <2>2 DEF AllReceived, Received
  <2>4. Turns'
    BY <1>1, <2>1, <2>2, <2>3 DEF Turns, Settled
  <2>5. access # "refused"
    <3>1. SUFFICES ASSUME access = "refused" PROVE FALSE
      OBVIOUS
    <3>2. PICK i \in 1 .. Len(told) : /\ i # 1 /\ told[i].body = "error"
                                      /\ asked[i - 1].what = "request"
      BY <1>0, <3>1 DEF SideBySide
    <3>3. /\ n = Hellos + 1 /\ Hellos \in {0, 1}
          /\ \A k \in 1 .. n - 1 : asked[k].what = "caps"
      BY <2>1 DEF Asking, Hellos
    <3>4. i - 1 \in 1 .. n /\ i - 1 \notin 1 .. n - 1
      BY <1>0, <2>1, <2>2, <3>2, <3>3
    <3>5. i = heard'
      BY <1>0, <2>1, <3>4
    <3>6. QED BY <2>1, <3>2, <3>5
  <2>6. InStep'
    BY <1>1, <1>2, <2>5 DEF InStep, RefusedIsSeen
  <2>7. QED BY <1>2, <2>1, <2>4, <2>6 DEF TurnInv, OpeningPlaces
<1>7. QED BY <1>3, <1>5, <1>6

\* One receive more puts an instruments service in step.
LEMMA ExtraTurns ==
  ASSUME TypeInv, TurnInv, ConnectExtra
  PROVE  TurnInv'
<1>0. /\ TypeOK /\ SideBySide /\ Log /\ AnswersAreOwn /\ heard = 2 /\ Asking(2)
      /\ kind = "instruments" /\ Len(told) \in Nat /\ Len(asked) = 2
  BY Basics DEF TypeInv, TurnInv, OpeningPlaces, ConnectExtra, InStep, Place, Asking
<1>1. /\ UNCHANGED <<kind, asked, served, told, link, access, calls>>
      /\ pc' = "open" /\ (RecvOK \/ RecvFails)
  BY DEF ConnectExtra, ChanRecv, deviceVars
<1>2. Log' /\ AnswersAreOwn'
  BY <1>0, <1>1 DEF Log, AnswersAreOwn, Notices
<1>3. Turns'
  <2>1. CASE RecvFails
    BY <1>0, <1>1, <2>1 DEF RecvFails, Turns, Settled
  <2>2. CASE RecvOK
    <3>1. heard' = 3 /\ heard' <= Len(told) /\ heard' = Len(asked) + 1 /\ heard' \in Nat
      BY <1>0, <2>2 DEF RecvOK
    <3>2. /\ heard' = Len(told)
          /\ \A k \in 1 .. Len(asked) :
               k + 1 \in 1 .. heard' /\ told[k + 1].re = k /\ k <= served
      BY <1>0, <3>1, AllHeard
    <3>3. (AllReceived(Len(asked)))'
      BY <1>1, <3>2 DEF AllReceived, Received
    <3>4. QED BY <1>1, <3>2, <3>3 DEF Turns, Settled
  <2>3. QED BY <1>1, <2>1, <2>2
<1>4. InStep'
  BY <1>0, <1>1, <1>2 DEF InStep
<1>5. QED BY <1>1, <1>2, <1>3, <1>4 DEF TurnInv, OpeningPlaces

\* A message that expects no answer leaves nothing to come.
LEMMA SendTurns ==
  ASSUME TypeInv, TurnInv, Send
  PROVE  TurnInv'
<1> DEFINE n == Len(asked)
<1>0. /\ TypeOK /\ Turns /\ pc = "open" /\ pc' = pc /\ nextMsgId \in Nat /\ n \in Nat
      /\ UNCHANGED <<kind, served, told, heard, link, access, calls>>
  BY Basics DEF TypeInv, TurnInv, Opened, Send, Operation, deviceVars
<1>1. CASE SendOK("chan", nextMsgId, "send", FALSE)
  <2>1. /\ Log' /\ AnswersAreOwn' /\ Len(asked') = n + 1
        /\ \A k \in 1 .. n : asked'[k] = asked[k]
        /\ asked'[n + 1].what = "send"
        /\ \A k \in 1 .. n + 1 : k \in 1 .. n \/ k = n + 1
    BY <1>0, <1>1, AskKeepsLog
  <2> HIDE DEF n
  <2>2. AllReceived(n) => (AllReceived(Len(asked)))'
    BY <1>0, <2>1 DEF AllReceived, Received
  <2>3. Turns'
    BY <1>0, <2>1, <2>2 DEF Turns, Settled, Notices, n
  <2>4. InStep'
    BY <1>0, <2>1 DEF TurnInv, InStep, RefusedIsSeen
  <2>5. QED BY <1>0, <2>1, <2>3, <2>4 DEF TurnInv, OpeningPlaces
<1>2. CASE SendFails
  <2>1. asked' = asked
    BY <1>2 DEF SendFails
  <2>2. Log' /\ InStep'
    BY <1>0, <2>1 DEF TurnInv, Log, InStep, AnswersAreOwn, RefusedIsSeen, Notices
  <2>3. Turns'
    BY <1>0, <2>1 DEF Turns, Settled, Notices, AllReceived, Received
  <2>4. QED BY <1>0, <2>2, <2>3 DEF TurnInv, OpeningPlaces
<1>3. QED BY <1>1, <1>2 DEF Send

\* A call is sent when nothing else is to come.
LEMMA CallTurns ==
  ASSUME TypeInv, TurnInv, CallSend
  PROVE  TurnInv'
<1> DEFINE n == Len(asked)
<1>0. /\ TypeOK /\ Turns /\ pc = "open" /\ pc' = "call" /\ nextMsgId \in Nat
      /\ n \in Nat /\ served \in Nat /\ served <= n
      /\ UNCHANGED <<kind, served, told, heard, link, access, calls>>
  BY Basics DEF TypeInv, TurnInv, Opened, CallSend, Operation, deviceVars
<1>1. CASE SendOK("chan", nextMsgId, "call", TRUE)
  <2>1. /\ Log' /\ AnswersAreOwn' /\ Len(asked') = n + 1
        /\ \A k \in 1 .. n : asked'[k] = asked[k]
        /\ asked'[n + 1].what = "call"
        /\ \A k \in 1 .. n + 1 : k \in 1 .. n \/ k = n + 1
    BY <1>0, <1>1, AskKeepsLog
  <2>2. (n + 1) - 1 = n /\ served < n + 1
    BY <1>0
  <2> HIDE DEF n
  <2>3. AllReceived(n) => (AllReceived(Len(asked) - 1))'
    BY <1>0, <2>1, <2>2 DEF AllReceived, Received
  <2>4. Settled => OneToCome'
    <3>1. CASE link = "down"
      BY <1>0, <3>1 DEF Settled, OneToCome
    <3>2. CASE link = "up"
      BY <1>0, <2>1, <2>2, <2>3, <3>2 DEF Settled, OneToCome, n
    <3>3. QED BY <1>0, <3>1, <3>2 DEF TypeOK
  <2>5. Turns'
    <3>1. Notices' = Notices
      BY <1>0 DEF Notices
    <3>2. link' = "up" => \A k \in 1 .. Len(asked') :
                            asked'[k].what = "request" => k <= served'
      BY <1>0, <2>1 DEF Turns, n
    <3>3. Notices = {} => Settled
      BY <1>0 DEF Turns
    <3>4. QED BY <1>0, <2>4, <3>1, <3>2, <3>3 DEF Turns
  <2>6. InStep'
    BY <1>0, <2>1 DEF TurnInv, InStep, RefusedIsSeen
  <2>7. QED BY <1>0, <2>1, <2>5, <2>6 DEF TurnInv, OpeningPlaces
<1>2. CASE SendFails
  <2>1. asked' = asked /\ link = "down"
    BY <1>2 DEF SendFails
  <2>2. Log' /\ InStep'
    BY <1>0, <2>1 DEF TurnInv, Log, InStep, AnswersAreOwn, RefusedIsSeen, Notices
  <2>3. Turns'
    BY <1>0, <2>1 DEF Turns, Settled, OneToCome, Notices
  <2>4. QED BY <1>0, <2>2, <2>3 DEF TurnInv, OpeningPlaces
<1>3. QED BY <1>1, <1>2 DEF CallSend

\* A call receives one message, its answer, or finds the connection closed.
LEMMA AnswerTurns ==
  ASSUME TypeInv, TurnInv, CallRecv
  PROVE  TurnInv'
<1> DEFINE n == Len(asked)
           c == [request |-> n, given |-> IF heard' = heard THEN 0 ELSE heard']
<1>0. /\ TypeOK /\ Turns /\ InStep /\ pc = "call" /\ pc' = "open" /\ n \in Nat
      /\ heard \in Nat /\ Len(told) \in Nat /\ (RecvOK \/ RecvFails)
      /\ UNCHANGED <<kind, asked, served, told, link, access>>
      /\ calls' = Append(calls, c)
  BY Basics DEF TypeInv, TurnInv, Opened, CallRecv, ChanRecv, deviceVars
<1>1. Notices' = Notices
  BY <1>0 DEF Notices
<1>2. ASSUME Notices = {}, RecvOK
      PROVE  /\ heard' = heard + 1 /\ heard' = Len(told) /\ told[heard'].re = n
             /\ AllReceived(n - 1)
  BY <1>0, <1>2 DEF Turns, OneToCome, RecvOK
<1>3. ASSUME Notices = {} PROVE Settled'
  <2>1. CASE RecvOK
    <3>1. \A k \in 1 .. n - 1 :
            Received(k) => \E i \in 1 .. heard' : told[i].re = k
      <4>1. \A i \in 1 .. heard : i \in 1 .. heard'
        BY <1>0, <1>2, <1>3, <2>1
      <4>2. QED BY <1>0, <4>1 DEF Received
    <3>2. \E i \in 1 .. heard' : told[i].re = n
      <4>1. heard' \in 1 .. heard'
        BY <1>0, <1>2, <1>3, <2>1
      <4>2. QED BY <1>2, <1>3, <2>1, <4>1
    <3>3. \A k \in 1 .. n : k \in 1 .. n - 1 \/ k = n
      BY <1>0
    <3>4. (AllReceived(Len(asked)))'
      <4> HIDE DEF n
      <4>1. \A k \in 1 .. n - 1 : asked[k].what # "send" => Received(k)
        BY <1>2, <1>3, <2>1 DEF AllReceived
      <4>2. \A k \in 1 .. n : asked[k].what # "send" =>
              \E i \in 1 .. heard' : told[i].re = k
        BY <3>1, <3>2, <3>3, <4>1
      <4>3. QED BY <1>0, <4>2 DEF AllReceived, Received, n
    <3>5. QED BY <1>0, <1>2, <1>3, <2>1, <3>4 DEF Settled
  <2>2. CASE RecvFails
    BY <1>0, <2>2 DEF RecvFails, Settled
  <2>3. QED BY <1>0, <2>1, <2>2
<1>4. Log' /\ Turns'
  BY <1>0, <1>1, <1>3 DEF TurnInv, Log, Turns
<1>5. AnswersAreOwn'
  <2>1. SUFFICES ASSUME Notices = {}
                 PROVE  \A i \in DOMAIN calls' : calls'[i].given # 0 =>
                          told[calls'[i].given].re = calls'[i].request
    BY <1>0, <1>1 DEF AnswersAreOwn
  <2>2. calls \in Seq([request: 1 .. n, given: 0 .. Len(told)])
    BY <1>0 DEF TypeOK
  <2>3. \A i \in DOMAIN calls : calls[i].given # 0 =>
          told[calls[i].given].re = calls[i].request
    BY <1>0, <2>1 DEF InStep, AnswersAreOwn
  <2>4. c.given # 0 => told[c.given].re = c.request
    BY <1>0, <1>2, <2>1 DEF RecvFails
  <2> DEFINE Call == [request: 1 .. n, given: 0 .. Len(told)]
  <2>5. calls \in Seq(Call)
    BY <2>2
  <2>6. c \in Call
    <3>1. n \in 1 .. n
      BY <1>0, EmptySeq DEF TypeInv, Sound, Requested, TypeOK
    <3>2. heard' = heard \/ heard' \in 0 .. Len(told)
      BY <1>0 DEF RecvOK, RecvFails
    <3>3. QED BY <1>0, <3>1, <3>2
  <2> HIDE DEF c, Call, n
  <2>7. /\ DOMAIN calls = 1 .. Len(calls) /\ Len(calls) \in Nat
        /\ DOMAIN calls' = 1 .. Len(calls) + 1
        /\ \A i \in 1 .. Len(calls) : calls'[i] = calls[i]
        /\ calls'[Len(calls) + 1] = c
    BY <1>0, <2>5, <2>6, AppendProperties, LenProperties
  <2>8. \A i \in DOMAIN calls' : i \in DOMAIN calls \/ i = Len(calls) + 1
    BY <2>7
  <2>9. QED BY <2>3, <2>4, <2>7, <2>8
<1>6. InStep'
  BY <1>0, <1>5 DEF InStep, RefusedIsSeen
<1>7. QED BY <1>0, <1>4, <1>6 DEF TurnInv, OpeningPlaces

\* Who waits for the device receives only notices.
LEMMA ListenTurns ==
  ASSUME TypeInv, TurnInv, Listen \/ ListenRecv
  PROVE  TurnInv'
<1>0. /\ TypeOK /\ Turns /\ InStep /\ Log /\ pc \in {"open", "listen"}
      /\ pc' \in {"open", "listen"} /\ heard \in Nat /\ Len(told) \in Nat
      /\ UNCHANGED <<kind, asked, served, told, link, access, calls>>
      /\ UNCHANGED heard \/ RecvOK
  BY Basics DEF TypeInv, TurnInv, Opened, Listen, ListenRecv, ChanRecv, RecvFails,
                Operation, deviceVars
<1>1. Log' /\ InStep' /\ Notices' = Notices
  BY <1>0 DEF Log, InStep, AnswersAreOwn, RefusedIsSeen, Notices
<1>2. ASSUME Notices = {} PROVE UNCHANGED heard
  BY <1>0, <1>2 DEF Turns, Settled, RecvOK
<1>3. Turns'
  BY <1>0, <1>1, <1>2 DEF Turns, Settled, AllReceived, Received
<1>4. QED BY <1>0, <1>1, <1>3 DEF TurnInv, OpeningPlaces, Opened

\* The end of the program.
LEMMA EndTurns ==
  ASSUME TypeInv, TurnInv, UseOfNull \/ Exit \/ UNCHANGED vars
  PROVE  TurnInv'
<1>1. UNCHANGED <<kind, asked, served, told, heard, link, access, calls>>
  BY DEF UseOfNull, Exit, vars, deviceVars
<1>2. Log' /\ AnswersAreOwn'
  BY <1>1 DEF TurnInv, Log, InStep, AnswersAreOwn, Notices
<1>3. CASE UseOfNull
  BY <1>2, <1>3 DEF UseOfNull, TurnInv, InStep, RefusedIsSeen, OpeningPlaces, Opened
<1>4. CASE Exit
  <2>1. pc' = "done" /\ Turns
    BY <1>4 DEF Exit, TurnInv, Opened
  <2>2. Turns'
    BY <1>1, <2>1 DEF Turns
  <2>3. QED BY <1>2, <2>1, <2>2 DEF TurnInv, InStep, RefusedIsSeen, OpeningPlaces
<1>5. CASE UNCHANGED vars
  BY <1>5 DEF vars, TurnInv, Log, SideBySide, Place, Greeted, Asking, NotGreeted,
              Hellos, Turns, Settled, OneToCome, AllReceived, Received, Notices,
              InStep, AnswersAreOwn, RefusedIsSeen
<1>6. QED BY <1>3, <1>4, <1>5

\* Every step keeps the turns.
LEMMA TurnStep == TypeInv /\ TurnInv /\ [Next]_vars => TurnInv'
BY ServeTurns, NotifyTurns, CloseTurns, OpeningSends, EarlyReceives, VerdictTurns,
   ExtraTurns, SendTurns, CallTurns, AnswerTurns, ListenTurns, EndTurns
   DEF Next, Opening, Using

\* A session begins with the announcement of the device on its way.
LEMMA TurnInit == Init => TurnInv
<1> SUFFICES ASSUME Init PROVE TurnInv
  OBVIOUS
<1>1. /\ pc = IF kind = "testmanagerd" THEN "hello" ELSE "handshake"
      /\ told = <<Announcement>> /\ Len(told) = 1 /\ told[1] = Announcement
      /\ asked = <<>> /\ Len(asked) = 0 /\ served = 0 /\ heard = 0
      /\ access = "none" /\ calls = <<>>
  BY DEF Init
<1>2. Log
  BY <1>1 DEF Log, Announcement
<1>3. SideBySide
  BY <1>1 DEF SideBySide, Announcement
<1>4. Place
  BY <1>1 DEF Place, Greeted, Hellos
<1>5. InStep
  BY <1>1 DEF InStep, AnswersAreOwn, RefusedIsSeen
<1>6. pc \notin Opened
  BY <1>1 DEF Opened
<1>7. QED BY <1>2, <1>3, <1>4, <1>5, <1>6 DEF TurnInv

\* Although channel__call takes whatever comes next for its answer, it is given
\* the answer to its own request, and a refused channel is never used.
THEOREM AlwaysInStep == Spec => []InStep
<1>1. TurnInv => InStep
  BY DEF TurnInv
<1>2. QED BY <1>1, TurnInit, TypeInit, TypeStep, TurnStep, PTL DEF Spec

\* The receives of every way of opening a session, and of every operation, are
\* as many as the answers: between operations nothing is to come.
THEOREM NothingIsLeftOver == Spec => []NothingLeftOver
<1>1. TypeInv /\ TurnInv => NothingLeftOver
  <2> SUFFICES ASSUME TypeInv, TurnInv, pc = "open", link = "up", Notices = {}
               PROVE  Awaited = {} /\ heard = Len(told)
    BY DEF NothingLeftOver
  <2>1. heard = Len(told) /\ AllReceived(Len(asked))
    BY DEF TurnInv, Opened, Turns, Settled
  <2>2. DOMAIN asked = 1 .. Len(asked)
    BY Basics DEF TypeInv
  <2>3. \A k \in DOMAIN asked : asked[k].reply => Received(k)
    BY <2>1, <2>2 DEF AllReceived, TypeInv, Sound
  <2>4. QED BY <2>1, <2>3 DEF Awaited, Received
<1>2. QED BY <1>1, TurnInit, TypeInit, TypeStep, TurnStep, PTL DEF Spec
=============================================================================
