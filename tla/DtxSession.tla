----------------------------- MODULE DtxSession -----------------------------
(***************************************************************************)
(* service.c: opening a DTX service on a device, requesting a channel on   *)
(* it and calling its methods (services.c, channel.c).                     *)
(*                                                                         *)
(* Both directions are logs of whole messages (DtxRecv has the framing):   *)
(* the device has handled the first `served` messages of `asked`, and the  *)
(* program has received the first `heard` of `told`.  channel__recv hands  *)
(* out whatever message comes next, so that who receives how many messages *)
(* at each place decides which answer a caller is given.                   *)
(***************************************************************************)
EXTENDS Naturals, Sequences

CONSTANTS
  Kinds,       \* how the session is opened: a subset of SessionKinds
  MaxOps,      \* bound: sends, calls and receives once the channel is open
  MaxNotices,  \* bound: messages the device sends of its own accord
  MayRefuse,   \* may the device refuse the channel?
  MayClose     \* may the device close the connection?

\* service__new_instruments, service__new_testmanagerd, and the same steps
\* inside a channel (channel__handshake, channel__connect_channel_int).
SessionKinds == {"instruments", "testmanagerd", "channel"}

ASSUME ConstantsAssumption ==
  /\ Kinds # {} /\ Kinds \subseteq SessionKinds
  /\ MaxOps \in Nat /\ MaxNotices \in Nat
  /\ MayRefuse \in BOOLEAN /\ MayClose \in BOOLEAN

VARIABLES
  kind,        \* the way this session is opened
  pc,          \* the program: the receive it is in, or what it has reached
  link,        \* "up", or "down" once the device has closed
  asked,       \* the messages sent to the device
  served,      \* how many of them the device has handled
  told,        \* the messages sent by the device
  heard,       \* how many of them the program has received
  outer,       \* nextMsgId of the channel object the session is opened in
  nextMsgId,   \* nextMsgId of the requested channel's object
  nextChanId,  \* of the service: the next channel code
  access,      \* what the device did with the request: "none", "granted" or "refused"
  calls,       \* history: the calls that returned, and what they were given
  ops          \* bound: operations so far

deviceVars == <<link, served, told, access>>
vars == <<kind, pc, link, asked, served, told, heard, outer, nextMsgId,
          nextChanId, access, calls, ops>>

\* re is the index in `asked` of what a message answers, 0 for a conversation
\* that the device starts with an id of its own.
Told == [re: Nat, id: Nat, body: {"caps", "empty", "error", "value", "notice"}]
Asked == [on: {"service", "outer", "chan"}, id: Nat,
          what: {"caps", "request", "send", "call"}, reply: BOOLEAN]

\* The announcement that either side of a DTX connection starts with.
Announcement == [re |-> 0, id |-> 1, body |-> "caps"]

Notices == {k \in DOMAIN told : told[k].body = "notice"}

-----------------------------------------------------------------------------
(* The device. *)

Answer(body) == [re |-> served + 1, id |-> asked[served + 1].id, body |-> body]

\* Every message that expects a reply is answered, in the order received: the
\* announcement and a granted request with an empty message.
Serve ==
  /\ link = "up" /\ served < Len(asked)
  /\ served' = served + 1
  /\ LET r == asked[served + 1]
     IN \/ r.what = "caps" /\ told' = Append(told, Answer("empty")) /\ UNCHANGED access
        \/ /\ r.what = "request"
           /\ told' = Append(told, Answer("empty")) /\ access' = "granted"
        \/ /\ r.what = "request" /\ MayRefuse
           /\ told' = Append(told, Answer("error")) /\ access' = "refused"
        \/ ~r.reply /\ UNCHANGED <<told, access>>
        \/ /\ r.what = "call" /\ r.reply /\ UNCHANGED access
           /\ \E body \in {"empty", "value"} : told' = Append(told, Answer(body))
  /\ UNCHANGED <<kind, pc, link, asked, heard, outer, nextMsgId, nextChanId,
                 calls, ops>>

\* Samples, output lines, notifications: whenever the channel was asked for
\* something the device may start a conversation of its own.
Notify ==
  /\ link = "up" /\ access = "granted"
  /\ \E k \in 1 .. served : asked[k].on = "chan"
  /\ \E n \in 0 .. MaxNotices - 1 :
       /\ told' = Append(told, [re |-> 0, id |-> n + 2, body |-> "notice"])
       /\ \A k \in Notices : told[k].id < n + 2
  /\ UNCHANGED <<kind, pc, link, asked, served, heard, outer, nextMsgId,
                 nextChanId, access, calls, ops>>

Close ==
  /\ MayClose /\ link = "up" /\ link' = "down"
  /\ UNCHANGED <<kind, pc, asked, served, told, heard, outer, nextMsgId,
                 nextChanId, access, calls, ops>>

-----------------------------------------------------------------------------
(* channel__send and channel__recv. *)

\* A write may fail once the device has closed; the id is spent all the same.
SendOK(on, id, what, reply) ==
  asked' = Append(asked, [on |-> on, id |-> id, what |-> what, reply |-> reply])
SendFails == link = "down" /\ UNCHANGED asked

\* The service-level operations make a new channel object each time, with a
\* counter of 0; inside a channel its own counter is used.
OnOuter == IF kind = "channel" THEN "outer" ELSE "service"
OuterId == IF kind = "channel" THEN outer ELSE 0
OuterCounts == outer' = IF kind = "channel" THEN outer + 1 ELSE outer

Message == told[heard + 1]
RecvOK == heard < Len(told) /\ heard' = heard + 1
RecvFails == link = "down" /\ heard = Len(told) /\ UNCHANGED heard

\* "fast forward" of the counter of the object that receives.
Forward(counter) ==
  IF Message.re = 0 /\ Message.id > counter THEN Message.id + 1 ELSE counter
OuterHears == outer' = IF kind = "channel" THEN Forward(outer) ELSE outer

\* The requested channel's object receives, or fails to.
ChanRecv == \/ RecvOK /\ nextMsgId' = Forward(nextMsgId)
            \/ RecvFails /\ UNCHANGED nextMsgId

-----------------------------------------------------------------------------
(* The handshake: service__handshake, service__handshake2, channel__handshake. *)

\* Nobody looks at what the handshake returned.
HandshakeSend ==
  /\ pc = "handshake"
  /\ \/ SendOK(OnOuter, OuterId, "caps", TRUE) /\ pc' = "hello"
     \/ SendFails /\ pc' = "connect"
  /\ OuterCounts
  /\ UNCHANGED <<kind, heard, nextMsgId, nextChanId, calls, ops>>
  /\ UNCHANGED deviceVars

HandshakeRecv ==
  /\ pc = "hello" /\ pc' = "connect"
  /\ \/ RecvOK /\ OuterHears
     \/ RecvFails /\ UNCHANGED outer
  /\ UNCHANGED <<kind, asked, nextMsgId, nextChanId, calls, ops>>
  /\ UNCHANGED deviceVars

-----------------------------------------------------------------------------
(* service__connect_channel_int and channel__connect_channel_int. *)

\* The service counts its channel codes from 1; a channel that requests another
\* one has spent the first.
FirstChanId == IF kind = "channel" THEN 2 ELSE 1

\* Mutant: the code of the channel is not counted, the next one gets it too.
ConnectSendSameCode ==
  /\ pc = "connect"
  /\ \/ /\ SendOK(OnOuter, OuterId, "request", TRUE)
        /\ pc' = IF kind = "channel" THEN "response" ELSE "verdict"
     \/ SendFails /\ pc' = "null"
  /\ OuterCounts
  /\ UNCHANGED <<kind, heard, nextMsgId, nextChanId, calls, ops>>
  /\ UNCHANGED deviceVars

\* A channel's own request waits for two messages before it looks at one.
ConnectSend ==
  /\ pc = "connect"
  /\ nextChanId' = nextChanId + 1
  /\ \/ /\ SendOK(OnOuter, OuterId, "request", TRUE)
        /\ pc' = IF kind = "channel" THEN "response" ELSE "verdict"
     \/ SendFails /\ pc' = "null"
  /\ OuterCounts
  /\ UNCHANGED <<kind, heard, nextMsgId, calls, ops>> /\ UNCHANGED deviceVars

ConnectResponse ==
  /\ pc = "response"
  /\ \/ RecvOK /\ OuterHears /\ pc' = "verdict"
     \/ RecvFails /\ UNCHANGED outer /\ pc' = "null"
  /\ UNCHANGED <<kind, asked, nextMsgId, nextChanId, calls, ops>>
  /\ UNCHANGED deviceVars

\* Mutants: the third argument of the connect functions ignored.
SkipAlways == TRUE
SkipNever == FALSE

\* skipRecv: testmanagerd's callers pass 1, service__connect_channel 0.
SkipRecv == kind # "instruments"

\* Mutant: any answer will do.
AnyVerdict ==
  /\ pc = "verdict"
  /\ \/ RecvOK /\ OuterHears /\ pc' = IF SkipRecv THEN "open" ELSE "extra"
     \/ RecvFails /\ UNCHANGED outer /\ pc' = "null"
  /\ UNCHANGED <<kind, asked, nextMsgId, nextChanId, calls, ops>>
  /\ UNCHANGED deviceVars

\* An empty message means yes; anything else is reported as an error.
ConnectVerdict ==
  /\ pc = "verdict"
  /\ \/ /\ RecvOK /\ OuterHears
        /\ pc' = IF Message.body # "empty" THEN "null"
                 ELSE IF SkipRecv THEN "open" ELSE "extra"
     \/ RecvFails /\ UNCHANGED outer /\ pc' = "null"
  /\ UNCHANGED <<kind, asked, nextMsgId, nextChanId, calls, ops>>
  /\ UNCHANGED deviceVars

\* One more message is received on the new channel and not looked at.
ConnectExtra ==
  /\ pc = "extra" /\ pc' = "open" /\ ChanRecv
  /\ UNCHANGED <<kind, asked, outer, nextChanId, calls, ops>>
  /\ UNCHANGED deviceVars

-----------------------------------------------------------------------------
(* The commands on the channel. *)

Operation == pc = "open" /\ ops < MaxOps /\ ops' = ops + 1

Send ==
  /\ Operation /\ nextMsgId' = nextMsgId + 1
  /\ SendOK("chan", nextMsgId, "send", FALSE) \/ SendFails
  /\ UNCHANGED <<kind, pc, heard, outer, nextChanId, calls>>
  /\ UNCHANGED deviceVars

\* Mutant: a call that does not count its id.
CallReusesId ==
  /\ Operation
  /\ SendOK("chan", nextMsgId, "call", TRUE) \/ SendFails
  /\ pc' = "call"
  /\ UNCHANGED <<kind, heard, outer, nextMsgId, nextChanId, calls>>
  /\ UNCHANGED deviceVars

\* channel__call does not look at the result of its send.
CallSend ==
  /\ Operation /\ nextMsgId' = nextMsgId + 1
  /\ SendOK("chan", nextMsgId, "call", TRUE) \/ SendFails
  /\ pc' = "call"
  /\ UNCHANGED <<kind, heard, outer, nextChanId, calls>>
  /\ UNCHANGED deviceVars

CallRecv ==
  /\ pc = "call" /\ pc' = "open" /\ ChanRecv
  /\ calls' = Append(calls, [request |-> Len(asked),
                             given |-> IF heard' = heard THEN 0 ELSE heard'])
  /\ UNCHANGED <<kind, asked, outer, nextChanId, ops>> /\ UNCHANGED deviceVars

\* runTail, runNotices and runSysmon wait for what the device has to say.
Listen ==
  /\ Operation /\ MaxNotices > 0 /\ pc' = "listen"
  /\ UNCHANGED <<kind, asked, heard, outer, nextMsgId, nextChanId, calls>>
  /\ UNCHANGED deviceVars

ListenRecv ==
  /\ pc = "listen" /\ pc' = "open" /\ ChanRecv
  /\ UNCHANGED <<kind, asked, outer, nextChanId, calls, ops>>
  /\ UNCHANGED deviceVars

\* No command looks at what connect_channel returned: the first operation
\* reads through the null pointer.
UseOfNull ==
  /\ pc = "null" /\ pc' = "crashed"
  /\ UNCHANGED <<kind, asked, heard, outer, nextMsgId, nextChanId, calls, ops>>
  /\ UNCHANGED deviceVars

Exit ==
  /\ pc = "open" /\ pc' = "done"
  /\ UNCHANGED <<kind, asked, heard, outer, nextMsgId, nextChanId, calls, ops>>
  /\ UNCHANGED deviceVars

-----------------------------------------------------------------------------
Init ==
  /\ kind \in Kinds
  /\ pc = IF kind = "testmanagerd" THEN "hello" ELSE "handshake"
  /\ link = "up" /\ asked = <<>> /\ served = 0
  /\ told = <<Announcement>> /\ heard = 0
  /\ outer = 0 /\ nextMsgId = 0
  /\ nextChanId = FirstChanId
  /\ access = "none" /\ calls = <<>> /\ ops = 0

Opening == HandshakeSend \/ HandshakeRecv \/ ConnectSend \/ ConnectResponse
             \/ ConnectVerdict \/ ConnectExtra
Using == Send \/ CallSend \/ CallRecv \/ Listen \/ ListenRecv \/ UseOfNull \/ Exit

Next == Serve \/ Notify \/ Close \/ Opening \/ Using

Spec == Init /\ [][Next]_vars

\* The device handles what it is sent, and the program runs.
FairSpec == Spec /\ WF_vars(Serve) /\ WF_vars(Opening \/ Using)
-----------------------------------------------------------------------------
(* Properties. *)

\* The request spends one channel code, also when it cannot be sent.
CodeSpent ==
  nextChanId = IF pc \in {"handshake", "hello", "connect"} THEN FirstChanId
                                                        ELSE FirstChanId + 1

\* Every variable has the type of what it stands for, and the next channel code
\* is one that no request was made with.
TypeOK ==
  /\ kind \in Kinds
  /\ pc \in {"handshake", "hello", "connect", "response", "verdict", "extra",
             "open", "call", "listen", "null", "crashed", "done"}
  /\ link \in {"up", "down"}
  /\ asked \in Seq(Asked) /\ served \in 0 .. Len(asked)
  /\ told \in Seq(Told) /\ heard \in 0 .. Len(told)
  /\ outer \in Nat /\ nextMsgId \in Nat /\ CodeSpent
  /\ access \in {"none", "granted", "refused"}
  /\ calls \in Seq([request: 1 .. Len(asked), given: 0 .. Len(told)])
  /\ ops \in 0 .. MaxOps

\* The requests whose answer has not been received, and the messages that
\* were received or wait to be.
Awaited == {k \in DOMAIN asked :
              asked[k].reply /\ \A i \in 1 .. heard : told[i].re # k}

\* While the device only answers: as many receives as answers, whichever way
\* the session is opened.  When no call is in progress nothing is left to
\* receive and no answer is still to come.
NothingLeftOver ==
  pc = "open" /\ link = "up" /\ Notices = {} => Awaited = {} /\ heard = Len(told)

\* A call that is given a message is given the answer to its own request.
AnswersAreOwn ==
  Notices = {} =>
    \A i \in DOMAIN calls :
      calls[i].given # 0 => told[calls[i].given].re = calls[i].request

\* "Error: _requestChannelWithCode:identifier: returned" (service.c): a
\* channel that the device refuses is not used.
RefusedIsSeen == access = "refused" => pc \notin {"open", "call", "listen"}

\* While the device only answers, and also when it closes at some point, what
\* is received is the answer that is waited for, although channel__call does
\* not compare ids: calls are given their own answers, and a refusal is seen
\* (except on instruments services, where the message looked at for the verdict
\* is an earlier one, service.c:118).
InStep == AnswersAreOwn /\ (kind # "instruments" => RefusedIsSeen)

\* The device sees each id once on a channel, in increasing order, also when
\* its own messages push the counter forward.
IdsIncrease ==
  \A i, j \in DOMAIN asked :
    i < j /\ asked[i].on = asked[j].on /\ asked[i].on # "service" =>
      asked[i].id < asked[j].id

\* Opening a session never waits for a message that does not come, and every
\* call returns: there is no receive too many, on any path, failed ones
\* included (service.c:134, channel.c:45).
CallsReturn == <>(pc \in {"open", "null"}) /\ (pc = "call" ~> pc = "open")
=============================================================================
