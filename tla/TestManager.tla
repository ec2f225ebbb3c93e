---------------------------- MODULE TestManager -----------------------------
(***************************************************************************)
(* service_testmanager.c: launchTest and launchTestIos11 run an XCTest     *)
(* bundle over three DTX connections that are already open (DtxSession):   *)
(* "control" (dciChan), "session" (dciChan2, and negChan on the same       *)
(* connection) and "process" (processChan), the last one shared with the   *)
(* thread watchWda.                                                        *)
(*                                                                         *)
(* The daemons answer calls; the test runner, once launched, speaks on the *)
(* session connection and expects an answer to everything it says.  A call *)
(* receives the next message of its connection, whatever that is.          *)
(***************************************************************************)
EXTENDS Naturals, Sequences, FiniteSets

CONSTANTS
  Versions,   \* which of launchTest (12) and launchTestIos11 (11) to run
  Chatter,    \* what else the runner says: a subset of {"log", "other"}
  MaxChatter, \* bound: how many of those
  MaxOutput,  \* bound: lines of output of the test process
  MaxLate,    \* bound: writes that still succeed after the connection closed
  MayClose    \* may the session connection close?

ASSUME ConstantsAssumption ==
  /\ Versions # {} /\ Versions \subseteq {11, 12}
  /\ Chatter \subseteq {"log", "other"}
  /\ MaxChatter \in Nat /\ MaxOutput \in Nat /\ MaxLate \in Nat
  /\ MayClose \in BOOLEAN

Conn == {"control", "session", "process"}

VARIABLES
  ios,        \* the version: which of the two functions runs
  pc,         \* the main thread
  readyId,    \* local `readyId`
  msg,        \* local `msg` (with `msgid`) of the loops
  asked,      \* per connection: is a call waiting for the daemon?
  inbox,      \* per connection: the messages to be received
  said,       \* the kinds of messages the runner sent; the position is the id
  launched,   \* the test process: "no", "yes" or "failed"
  authorized, \* the daemon knows the process that belongs to the session
  replies,    \* what channel__reply sent
  started,    \* the start call has been sent
  thread,     \* watchWda: "none", "new" or "watching"
  output,     \* lines of output written so far
  up          \* is the session connection up?

netVars == <<asked, inbox, said, launched, authorized, output, up>>
mainVars == <<ios, pc, readyId, msg, replies, started>>
vars == <<ios, pc, readyId, msg, asked, inbox, said, launched, authorized,
          replies, started, thread, output, up>>

\* id 0: an answer to a call, empty or with a value, or a line of output.
Kinds == {"caps", "request", "ready", "logConf", "logReady", "logError", "log",
          "other"}
Message == [kind: Kinds \cup {"empty", "value", "output"}, id: Nat]
Null == [kind |-> "empty", id |-> 0]

ToClient(c, m) == inbox' = [inbox EXCEPT ![c] = Append(@, m)]
Said(kind) == \E k \in DOMAIN said : said[k] = kind
Answered(k) == \E i \in DOMAIN replies : replies[i].to = k
GivenConf(k) ==
  \E i \in DOMAIN replies : replies[i] = [to |-> k, what |-> "conf"]
Chats == {k \in DOMAIN said : said[k] \in Chatter}
ConfSent == \E i \in DOMAIN replies : replies[i].what = "conf"

-----------------------------------------------------------------------------
(* The daemons and the test runner. *)

\* A call is answered once; launching may succeed, fail, or say nothing.
AnswerCall(c) ==
  /\ asked[c] /\ asked' = [asked EXCEPT ![c] = FALSE]
  /\ c = "session" => up
  /\ \E kind \in {"empty", "value"} : ToClient(c, [kind |-> kind, id |-> 0])
  /\ IF c = "control" THEN authorized' = (launched = "yes")
                      ELSE UNCHANGED authorized
  /\ IF c = "process"
       THEN launched' \in IF inbox'[c][Len(inbox'[c])].kind = "value"
                            THEN {"yes", "failed"} ELSE {"failed"}
       ELSE UNCHANGED launched
  /\ UNCHANGED <<said, output, up, thread>> /\ UNCHANGED mainVars

\* The runner publishes what it can do, says that it is ready, logs that it
\* asks for its configuration, and, given that, that it is ready to run, or
\* that it is "ready ... with error".
Verdicts == {"logReady", "logError"}

Runner ==
  /\ launched = "yes" /\ up
  /\ \E kind \in {"caps", "request", "ready", "logConf"} \cup Verdicts \cup Chatter :
       /\ IF kind \in Chatter THEN Cardinality(Chats) < MaxChatter ELSE ~Said(kind)
       /\ kind = "logConf" => Said("ready")
       /\ kind \in Verdicts =>
            /\ \A v \in Verdicts : ~Said(v)
            /\ \E k \in DOMAIN said : said[k] = "ready" /\ GivenConf(k)
       /\ said' = Append(said, kind)
       /\ ToClient("session", [kind |-> kind, id |-> Len(said) + 1])
  /\ UNCHANGED <<asked, launched, authorized, output, up, thread>>
  /\ UNCHANGED mainVars

\* The runner does get there, however chatty it is.
RunnerGoesOn == Runner /\ \E kind \in {"ready", "logConf"} \cup Verdicts :
                            said' = Append(said, kind)

ProcessWrites ==
  /\ thread = "watching" /\ launched = "yes" /\ output < MaxOutput
  /\ output' = output + 1
  /\ ToClient("process", [kind |-> "output", id |-> 0])
  /\ UNCHANGED <<asked, said, launched, authorized, up, thread>>
  /\ UNCHANGED mainVars

SessionCloses ==
  /\ MayClose /\ up /\ up' = FALSE
  /\ UNCHANGED <<asked, inbox, said, launched, authorized, output, thread>>
  /\ UNCHANGED mainVars

-----------------------------------------------------------------------------
(* Calls and replies of the main thread. *)

\* channel__call: the send, whose result is not looked at, and the receive.
CallSend(c) ==
  /\ asked' = IF c = "session" /\ ~up THEN asked ELSE [asked EXCEPT ![c] = TRUE]
  /\ UNCHANGED <<inbox, said, launched, authorized, output, up>>

Recv(c) ==
  /\ inbox[c] # <<>>
  /\ inbox' = [inbox EXCEPT ![c] = Tail(@)]
  /\ UNCHANGED <<asked, said, launched, authorized, output, up>>

RecvFails(c) == c = "session" /\ ~up /\ inbox[c] = <<>> /\ UNCHANGED netVars

\* One call of the dci__ functions, which drop what they receive.
Call(c, before, during, after) ==
  \/ pc = before /\ CallSend(c) /\ pc' = during
  \/ pc = during /\ (Recv(c) \/ RecvFails(c)) /\ pc' = after

\* channel__reply, once per element of rs: a write that fails ends the program.
Reply(rs, next) ==
  \/ /\ up \/ Len(replies) < Len(said) + MaxLate
     /\ replies' = replies \o rs /\ pc' = next
  \/ /\ ~up /\ pc' = "exit"
     /\ \E n \in 0 .. Len(rs) - 1 : replies' = replies \o SubSeq(rs, 1, n)

Ack(k) == <<[to |-> k, what |-> "ack"]>>
Conf(k) == <<[to |-> k, what |-> "conf"]>>

KeepMain == UNCHANGED <<ios, readyId, msg, replies, started, thread>>

\* dci__initControlSession__capabilities, in launchTest only.
InitControlSession ==
  /\ \/ ios = 12 /\ Call("control", "control", "control2", "session")
     \/ ios = 11 /\ pc = "control" /\ pc' = "session" /\ UNCHANGED netVars
  /\ KeepMain

\* dci__initSession__identifier__capabilities and ...__protocolVersion.
InitSession == Call("session", "session", "session2", "launch") /\ KeepMain

LaunchTestRunner == pc = "launch" /\ CallSend("process") /\ pc' = "launch2" /\ KeepMain

\* launchProcess_withchan: a launch that returns nothing ends the program; one
\* that returns an error does not.
Launched ==
  /\ pc = "launch2" /\ Recv("process")
  /\ pc' = IF inbox["process"][1].kind = "empty" THEN "exit"
           ELSE IF ios = 12 THEN "wait" ELSE "pid"
  /\ KeepMain

\* dci__initiateControlSession__pid__protocolVersion, in launchTestIos11 only.
InitiateControlSession == Call("control", "pid", "pid2", "wait") /\ KeepMain

\* Mutant: the session is initiated when the process already runs.
SetUpLate ==
  /\ \/ ios = 12 /\ Call("control", "control", "control2", "launch")
     \/ ios = 11 /\ pc = "control" /\ pc' = "launch" /\ UNCHANGED netVars
     \/ Call("session", "session", "session2", IF ios = 12 THEN "wait" ELSE "pid")
     \/ pc = "launch" /\ CallSend("process") /\ pc' = "launch2"
     \/ /\ pc = "launch2" /\ Recv("process")
        /\ pc' = IF inbox["process"][1].kind = "empty" THEN "exit" ELSE "session"
     \/ Call("control", "pid", "pid2", "wait")
  /\ KeepMain

\* The calls before the waiting loop.
SetUp == InitControlSession \/ InitSession \/ LaunchTestRunner \/ Launched
           \/ InitiateControlSession

-----------------------------------------------------------------------------
(* Waiting for the test bundle. *)

Waits(kinds) ==
  /\ pc = "wait" /\ Recv("session") /\ inbox["session"][1].kind \in kinds
  /\ msg' = inbox["session"][1]
  /\ UNCHANGED <<ios, started, thread>>

\* Mutants: the session is not authorized; the ready message is replied to like
\* any other; the id of the message after it is kept.
ReadyUnauthorized ==
  Waits({"ready"}) /\ readyId' = msg'.id /\ pc' = "wait" /\ UNCHANGED replies

ReadyAcked ==
  /\ Waits({"ready"})
  /\ readyId' = msg'.id
  /\ Reply(Ack(msg'.id), IF ios = 12 THEN "authorize" ELSE "wait")

ReadyOffByOne ==
  /\ Waits({"ready"})
  /\ readyId' = msg'.id + 1
  /\ pc' = IF ios = 12 THEN "authorize" ELSE "wait"
  /\ UNCHANGED replies

\* launchTest authorizes the session before it goes on.
WaitReady ==
  /\ Waits({"ready"})
  /\ readyId' = msg'.id
  /\ pc' = IF ios = 12 THEN "authorize" ELSE "wait"
  /\ UNCHANGED replies

Authorize ==
  /\ Call("control", "authorize", "authorize2", "wait") /\ KeepMain

\* Mutant: the configuration goes to the message that asks for it.
ConfToLog ==
  /\ Waits({"logConf"}) /\ UNCHANGED readyId
  /\ IF ios = 12 THEN Reply(Conf(msg'.id), "wait") ELSE Reply(Conf(msg'.id), "watch")

\* The configuration is the answer to the ready message.  launchTestIos11
\* leaves the loop here, without a reply to the log message.
WaitLogConf ==
  /\ Waits({"logConf"}) /\ UNCHANGED readyId
  /\ IF ios = 12 THEN Reply(Conf(readyId) \o Ack(msg'.id), "wait")
                 ELSE Reply(Conf(readyId), "watch")

\* launchTest takes both verdicts for the good one.
WaitLogReady ==
  /\ Waits(Verdicts) /\ UNCHANGED readyId
  /\ Reply(Ack(msg'.id), IF ios = 12 THEN "start" ELSE "wait")

\* Everything else is answered, except what is no method call.  launchTest reads
\* the type of a message without looking whether there is one.
WaitOther ==
  /\ Waits({"caps", "request", "log", "other", "empty", "value"})
  /\ UNCHANGED readyId
  /\ CASE msg'.kind \in Kinds -> Reply(Ack(msg'.id), "wait")
       [] msg'.kind = "empty" /\ ios = 12 -> pc' = "crashed" /\ UNCHANGED replies
       [] OTHER -> UNCHANGED <<pc, replies>>

WaitFails ==
  /\ pc = "wait" /\ RecvFails("session") /\ pc' = "exit" /\ KeepMain

-----------------------------------------------------------------------------
(* Executing the test plan and watching it. *)

StartSend ==
  /\ pc = "start" /\ CallSend("session") /\ pc' = "start2" /\ started' = TRUE
  /\ UNCHANGED <<ios, readyId, msg, replies, thread>>

\* Takes the next message of the session connection, the runner's included.
StartRecv ==
  /\ pc = "start2" /\ (Recv("session") \/ RecvFails("session"))
  /\ pc' = IF ios = 12 THEN "watch" ELSE "loop"
  /\ UNCHANGED <<ios, readyId, msg, replies, started, thread>>

\* pthread_create: launchTest does so after the start call.
Watch ==
  /\ pc = "watch" /\ thread' = "new"
  /\ pc' = IF ios = 12 THEN "loop" ELSE "start"
  /\ UNCHANGED <<ios, readyId, msg, replies, started>> /\ UNCHANGED netVars

\* Mutant: a message without text ends the loop.
LoopEndsEarly ==
  /\ pc = "loop" /\ Recv("session") /\ msg' = inbox["session"][1]
  /\ IF msg'.kind \in Kinds THEN Reply(Ack(msg'.id), "loop")
                            ELSE pc' = "exit" /\ UNCHANGED replies
  /\ UNCHANGED <<ios, readyId, started, thread>>

\* Everything is answered, until a verdict with error ends the program.
LoopTake ==
  /\ pc = "loop" /\ Recv("session") /\ msg' = inbox["session"][1]
  /\ CASE msg'.kind = "logError" -> pc' = "exit" /\ UNCHANGED replies
       [] msg'.kind \in Kinds \ {"logError"} -> Reply(Ack(msg'.id), "loop")
       [] msg'.kind \notin Kinds -> UNCHANGED <<pc, replies>>
  /\ UNCHANGED <<ios, readyId, started, thread>>

\* The result of the receive is not looked at: `msg` still is the last message,
\* and if that was the runner's it is answered again.
LoopFails ==
  /\ pc = "loop" /\ RecvFails("session")
  /\ IF msg.kind \in Kinds THEN Reply(Ack(msg.id), "loop")
                           ELSE UNCHANGED <<pc, replies>>
  /\ UNCHANGED <<ios, readyId, msg, started, thread>>

\* watchWda, until the main thread ends the process.
Observe ==
  /\ thread = "new" /\ pc # "exit" /\ thread' = "watching"
  /\ UNCHANGED mainVars /\ UNCHANGED netVars

PrintOutput ==
  /\ thread = "watching" /\ pc # "exit" /\ Recv("process")
  /\ UNCHANGED thread /\ UNCHANGED mainVars

-----------------------------------------------------------------------------
Init ==
  /\ ios \in Versions /\ pc = "control" /\ readyId = 0 /\ msg = Null
  /\ asked = [c \in Conn |-> FALSE] /\ inbox = [c \in Conn |-> <<>>]
  /\ said = <<>> /\ launched = "no" /\ authorized = FALSE
  /\ replies = <<>> /\ started = FALSE /\ thread = "none" /\ output = 0
  /\ up = TRUE

Waiting == WaitReady \/ Authorize \/ WaitLogConf \/ WaitLogReady \/ WaitOther
             \/ WaitFails
Main == SetUp \/ Waiting \/ StartSend \/ StartRecv \/ Watch \/ LoopTake \/ LoopFails
WatchWda == Observe \/ PrintOutput
Daemons == \E c \in Conn : AnswerCall(c)

Next == Daemons \/ Runner \/ ProcessWrites \/ SessionCloses \/ Main \/ WatchWda

Spec == Init /\ [][Next]_vars

\* Both threads run, the daemons answer calls, and the runner starts up.
FairSpec ==
  /\ Spec
  /\ WF_vars(Main) /\ WF_vars(WatchWda) /\ WF_vars(RunnerGoesOn)
  /\ \A c \in Conn : WF_vars(AnswerCall(c))
-----------------------------------------------------------------------------
(* Properties. *)

\* Every variable has the type of what it stands for.
TypeOK ==
  /\ ios \in Versions
  /\ pc \in {"control", "control2", "session", "session2", "launch", "launch2",
             "pid", "pid2", "wait", "authorize", "authorize2", "start", "start2",
             "watch", "loop", "exit", "crashed"}
  /\ readyId \in 0 .. Len(said) /\ msg \in Message
  /\ asked \in [Conn -> BOOLEAN] /\ inbox \in [Conn -> Seq(Message)]
  /\ said \in Seq(Kinds) /\ launched \in {"no", "yes", "failed"}
  /\ authorized \in BOOLEAN
  /\ replies \in Seq([to: 0 .. Len(said), what: {"ack", "conf"}])
  /\ started \in BOOLEAN /\ thread \in {"none", "new", "watching"}
  /\ output \in 0 .. MaxOutput /\ up \in BOOLEAN

\* The test configuration goes out as the answer to the runner's ready message,
\* whose id was remembered over what came in between, and nothing else is that
\* answer; and the plan is started after that, and after the daemon was told
\* which process belongs to the session (service_testmanager.c:688).
ConfAnswersReady ==
  /\ started => authorized /\ ConfSent
  /\ \A i \in DOMAIN replies :
       replies[i].what = "conf" <=> replies[i].to # 0 /\ said[replies[i].to] = "ready"

AnsweredAtMostOnce ==
  up => \A i, j \in DOMAIN replies : i < j => replies[i].to # replies[j].to

\* The runner's messages that were received and not answered.
Unanswered ==
  {k \in DOMAIN said :
     /\ ~Answered(k)
     /\ \A i \in DOMAIN inbox["session"] : inbox["session"][i].id # k}

\* While the program waits only the ready message is kept unanswered, and the
\* loop starts with at most one message that nobody answers any more
\* (launchTestIos11 leaves out the one that asked for the configuration).
AtMostOneLost ==
  /\ pc = "wait" => \A k \in Unanswered : k = readyId /\ ~ConfSent
  /\ pc = "loop" => Cardinality({k \in Unanswered :
                                   ios = 12 \/ said[k] # "logConf"}) <= 1

\* Whichever loop receives it, a message of the runner is answered once, as long
\* as the connection is up: never twice, and of all that was received only one
\* may stay unanswered, the one the start call takes for its own answer
\* (service_testmanager.c:703).
AnsweredOnce == AnsweredAtMostOnce /\ AtMostOneLost

\* An answer that an earlier call left behind would end launchTest by a null
\* pointer; the order of the calls leaves none behind.
NoAnswerLeftBehind ==
  pc \in {"wait", "crashed"} =>
    /\ pc # "crashed"
    /\ \A i \in DOMAIN inbox["session"] : inbox["session"][i].kind \in Kinds

\* A process that was launched gets to execute its test plan, unless the session
\* connection closes: no call on one connection waits for ever while the runner
\* waits on another.  When it closes while the program waits for the test bundle
\* the program ends (service_testmanager.c:649, 664).
TestRuns == (launched = "yes" ~> started \/ ~up) /\ ((~up /\ pc = "wait") ~> pc # "wait")

\* Whatever the runner says is received, before and after the start and also
\* when the connection closes.  Only a verdict with error, or a closed
\* connection, may end the program before.
EverythingHeard ==
  \A k \in 1 .. 5 + MaxChatter :
    k \in DOMAIN said ~>
      \/ \A i \in DOMAIN inbox["session"] : inbox["session"][i].id # k
      \/ pc = "exit" /\ (~up \/ Said("logError"))
=============================================================================
