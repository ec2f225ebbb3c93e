---------------------------- MODULE ImageServer ----------------------------
(***************************************************************************)
(* cmd_image.c with sandbird.c: a server that answers every request with a *)
(* picture of the device's screen.  It has one thread: sb_poll_server waits *)
(* in select, works through its list of streams, and accepts new ones; the *)
(* handler of a request asks the device for the picture before it returns, *)
(* and all that time the server's clock, srv->now, stands still.            *)
(*                                                                         *)
(* A request is counted in units: so many for the header, so many for a    *)
(* body announced with Content-Length.  An answer is a sequence of parts.   *)
(***************************************************************************)
EXTENDS Integers, Sequences, FiniteSets, FiniteSetsExt, SequencesExt

CONSTANTS Clients,     \* clients that connect, each once
          Request,     \* for each client its request, see RequestType
          Room,        \* how many parts of an answer each client ever takes
          Timeout,     \* srv->timeout, in ticks
          MaxStreams,  \* how many connections there are descriptors for
          MayLeave     \* clients that may leave before they are answered

NoLength == -1         \* the header has no Content-Length
RequestType == [head : Nat \ {0}, body : Nat \cup {NoLength}, valid : BOOLEAN]

ASSUME ImageServerAssumption ==
    /\ Request \in [Clients -> RequestType]
    /\ Room \in [Clients -> Nat]
    /\ Timeout \in Nat
    /\ MaxStreams \in Nat \ {0}
    /\ MayLeave \subseteq Clients

(* The states of a stream, in the order in which the code compares them.    *)
ReceivingHeader == 0
ReceivingRequest == 1
SendingStatus == 2
SendingHeader == 3
SendingData == 4
Closing == 6

Picture == <<"data">>
Answer(data) == <<"status", "type", "blank">> \o data

VARIABLES pc,        \* "select", "streams", "handler", "accept" or "crashed"
          streams,   \* the list of streams, newest first
          todo,      \* the streams this poll has still to look at
          fds,       \* what select reported: the streams ready, and the listener
          waiting,   \* the connections not yet accepted
          conn,      \* "none", "waiting", "open" or "closed"
          here,      \* the client has not closed its end
          arrived,   \* how much of the request has arrived
          st,        \* for each stream [state, recvLen, expected, sendBuf]
          got,       \* the parts the client has taken
          age,       \* srv->now - st->last_activity
          behind,    \* the time since srv->now was set
          idle,      \* the time since bytes were last read or written, or the
                     \* client was accepted
          late,      \* the stream's last activity was stamped with a clock behind
          closedBy   \* why the stream was closed

clock == <<age, behind, idle>>
clients == <<here, arrived>>
vars == <<pc, streams, todo, fds, waiting, conn, clients, st, got, clock, late, closedBy>>

NothingReady == [ready |-> {}, listener |-> FALSE]
NewStream == [state |-> ReceivingHeader, recvLen |-> 0, expected |-> 0, sendBuf |-> <<>>]

Init ==
    /\ pc = "select" /\ streams = <<>> /\ todo = <<>>
    /\ fds = NothingReady
    /\ waiting = <<>>
    /\ conn = [c \in Clients |-> "none"]
    /\ here = [c \in Clients |-> TRUE]
    /\ arrived = [c \in Clients |-> 0]
    /\ st = [c \in Clients |-> NewStream]
    /\ got = [c \in Clients |-> <<>>]
    /\ age = [c \in Clients |-> 0] /\ behind = 0
    /\ idle = [c \in Clients |-> 0]
    /\ late = [c \in Clients |-> FALSE]
    /\ closedBy = [c \in Clients |-> ""]

-----------------------------------------------------------------------------
(* What a handler calls.  Each returns the stream it leaves behind; a call *)
(* that comes too late in the answer is refused and changes nothing.        *)
Queue(s, part) == [s EXCEPT !.sendBuf = Append(@, part)]

SendStatus(s) ==
    IF s.state # SendingStatus THEN s
    ELSE [Queue(s, "status") EXCEPT !.state = SendingHeader]

SendHeader(s) ==
    IF s.state > SendingHeader THEN s
    ELSE LET t == IF s.state < SendingHeader THEN SendStatus(s) ELSE s
         IN IF t.state = SendingHeader THEN Queue(t, "type") ELSE t

FinalizeHeader(s) ==
    LET t == IF s.state < SendingHeader THEN SendStatus(s) ELSE s
    IN IF t.state = SendingHeader THEN [Queue(t, "blank") EXCEPT !.state = SendingData] ELSE t

\* Mutant: the blank line that ends the header is left out.
WriteNoBlank(s, data) ==
    IF s.state < SendingStatus \/ s.state > SendingData THEN s
    ELSE [s EXCEPT !.sendBuf = @ \o data, !.state = SendingData]

Write(s, data) ==
    LET t == IF s.state < SendingData THEN FinalizeHeader(s) ELSE s
    IN IF t.state # SendingData THEN t ELSE [t EXCEPT !.sendBuf = @ \o data]

(* event_handler, once getImage has returned.                               *)
Handle(s, data) == Write(SendHeader(SendStatus(s)), data)

-----------------------------------------------------------------------------
(* sb_stream_recv takes what has arrived, up to the end of the request.  A *)
(* request whose first line is not one of HTTP is not answered.             *)
HasLength(c) == Request[c].body # NoLength
RequestLen(c) == Request[c].head + IF HasLength(c) THEN Request[c].body ELSE 0
Complete(c) == arrived[c] = RequestLen(c)

Received(c) ==
    LET len == Min({arrived[c], RequestLen(c)})
        s == [st[c] EXCEPT !.recvLen = len]
    IN IF len < Request[c].head THEN s
       ELSE [s EXCEPT !.state = IF len = RequestLen(c) THEN SendingStatus ELSE ReceivingRequest,
                      !.expected = IF HasLength(c) THEN RequestLen(c) ELSE 0]

(* What recv does to the stream: it may be closed, because the client has  *)
(* left before the request was complete or because the request is invalid.  *)
AfterRecv(c) ==
    LET s == Received(c)
        whole == s.state = SendingStatus
    IN IF whole /\ ~Request[c].valid THEN [s EXCEPT !.state = Closing]
       ELSE IF ~whole /\ ~here[c] THEN [s EXCEPT !.state = Closing]
       ELSE s

(* sb_stream_send sends what the socket takes, and disconnects when there  *)
(* is nothing left.                                                         *)
Takes(c) == Room[c] - Len(got[c])

AfterSend(c, n) ==
    IF ~here[c] \/ st[c].sendBuf = <<>> THEN [st[c] EXCEPT !.state = Closing]
    ELSE [st[c] EXCEPT !.sendBuf = SubSeq(@, n + 1, Len(@))]

\* Mutants: the time of the last activity is never set again; a closed stream
\* stays linked.
AgeKept(c, active) == IF active THEN age[c] ELSE age[c]
UnlinkNot == streams

NewAge(c, active) == IF active THEN 0 ELSE age[c]
TooOld(a) == a > Timeout
Unlink == RemoveAt(streams, Len(streams) - Len(todo) + 1)  \* where the loop is

(* The end of the loop's body for stream c, left as s: the check of the    *)
(* times, and the removal of a stream that is closed.  active: bytes were   *)
(* moved.                                                                   *)
Finish(c, s, active, why) ==
    LET a == NewAge(c, active)
        expired == s.state # Closing /\ TooOld(a)
        closes == s.state = Closing \/ expired
    IN /\ st' = [st EXCEPT ![c] = IF closes THEN [NewStream EXCEPT !.state = Closing] ELSE s]
       /\ closedBy' = [closedBy EXCEPT ![c] = IF expired THEN "timeout" ELSE IF closes THEN why ELSE @]
       /\ conn' = [conn EXCEPT ![c] = IF closes THEN "closed" ELSE @]
       /\ streams' = IF closes THEN Unlink ELSE streams
       /\ age' = [age EXCEPT ![c] = IF closes THEN 0 ELSE a]
       /\ idle' = [idle EXCEPT ![c] = IF closes \/ active THEN 0 ELSE @]
       /\ late' = [late EXCEPT ![c] = ~closes /\ IF active THEN behind > 0 ELSE @]
       /\ todo' = Tail(todo)
       /\ pc' = "streams"

-----------------------------------------------------------------------------
(* sb_poll_server.  select returns when there is something to do or its    *)
(* time is up, and only then the clock is set.                              *)
CapAge(n) == Min({n, Timeout + 1})
ReadyToRead(c)  == st[c].state < SendingStatus /\ (arrived[c] > st[c].recvLen \/ ~here[c])
ReadyToWrite(c) == st[c].state >= SendingStatus /\ (Takes(c) > 0 \/ ~here[c])

\* Mutant: select looks no further than the newest stream.
SelectNewest ==
    /\ pc = "select"
    /\ fds' = [ready |-> {c \in ToSet(streams) : c = Head(streams) /\ (ReadyToRead(c) \/ ReadyToWrite(c))},
               listener |-> waiting # <<>>]
    /\ age' = [c \in Clients |-> IF conn[c] = "open" THEN CapAge(age[c] + behind) ELSE 0]
    /\ behind' = 0
    /\ todo' = streams
    /\ pc' = "streams"
    /\ UNCHANGED <<streams, waiting, conn, clients, st, got, idle, late, closedBy>>

Select ==
    /\ pc = "select"
    /\ fds' = [ready |-> {c \in ToSet(streams) : ReadyToRead(c) \/ ReadyToWrite(c)},
               listener |-> waiting # <<>>]
    /\ age' = [c \in Clients |-> IF conn[c] = "open" THEN CapAge(age[c] + behind) ELSE 0]
    /\ behind' = 0
    /\ todo' = streams
    /\ pc' = "streams"
    /\ UNCHANGED <<streams, waiting, conn, clients, st, got, idle, late, closedBy>>

Stream == todo[1]
Turn(mode) == pc = "streams" /\ todo # <<>> /\
    mode = (IF Stream \notin fds.ready THEN "quiet"
            ELSE IF st[Stream].state < SendingStatus THEN "read" ELSE "write")

QuietStream ==
    /\ Turn("quiet")
    /\ Finish(Stream, st[Stream], FALSE, "")
    /\ UNCHANGED <<fds, waiting, clients, got, behind>>

ReadStream ==
    /\ Turn("read")
    /\ LET s == AfterRecv(Stream)
           some == arrived[Stream] > st[Stream].recvLen
       IN IF s.state = SendingStatus
            THEN /\ pc' = "handler"
                 /\ st' = [st EXCEPT ![Stream] = s]
                 /\ age' = [age EXCEPT ![Stream] = 0]
                 /\ idle' = [idle EXCEPT ![Stream] = 0]
                 /\ late' = [late EXCEPT ![Stream] = behind > 0]
                 /\ UNCHANGED <<streams, todo, conn, closedBy>>
            ELSE Finish(Stream, s, some, IF s.recvLen = RequestLen(Stream) THEN "invalid" ELSE "peer")
    /\ UNCHANGED <<fds, waiting, clients, got, behind>>

(* getImage.  Its errors are only reported: an answer without a picture    *)
(* leaves the pointer empty and the length whatever it was, and no answer   *)
(* at all leaves nothing to release.                                        *)
ImageArrives ==
    /\ pc = "handler"
    /\ \E data \in {Picture, <<>>} :
         Finish(Stream, Handle(st[Stream], data), FALSE, "")
    /\ UNCHANGED <<fds, waiting, clients, got, behind>>

ImageFails ==
    /\ pc = "handler"
    /\ pc' = "crashed"
    /\ UNCHANGED <<streams, todo, fds, waiting, conn, clients, st, got, clock, late, closedBy>>

WriteStream ==
    /\ Turn("write")
    /\ LET c == Stream
           most == Min({Takes(c), Len(st[c].sendBuf)})
       IN IF here[c] /\ most > 0
            THEN \E n \in 1..most :
                    /\ got' = [got EXCEPT ![c] = @ \o SubSeq(st[c].sendBuf, 1, n)]
                    /\ Finish(c, AfterSend(c, n), TRUE, "")
            ELSE /\ Finish(c, AfterSend(c, 0), FALSE, IF here[c] THEN "done" ELSE "peer")
                 /\ UNCHANGED got
    /\ UNCHANGED <<fds, waiting, clients, behind>>

StreamsDone ==
    /\ pc = "streams" /\ todo = <<>>
    /\ pc' = IF fds.listener THEN "accept" ELSE "select"
    /\ fds' = NothingReady
    /\ UNCHANGED <<streams, todo, waiting, conn, clients, st, got, clock, late, closedBy>>

(* Connections are accepted until there are none, or no descriptor is left. *)
(* The new stream's times are set to a clock that may be behind.            *)
AcceptAll ==
    /\ pc = "accept"
    /\ LET n == Min({Len(waiting), MaxStreams - Len(streams)})
           new == {waiting[i] : i \in 1..n}
       IN /\ streams' = Reverse(SubSeq(waiting, 1, n)) \o streams
          /\ waiting' = SubSeq(waiting, n + 1, Len(waiting))
          /\ conn' = [c \in Clients |-> IF c \in new THEN "open" ELSE conn[c]]
          /\ late' = [c \in Clients |-> IF c \in new THEN behind > 0 ELSE late[c]]
    /\ pc' = "select"
    /\ UNCHANGED <<todo, fds, clients, st, got, clock, closedBy>>

-----------------------------------------------------------------------------
(* The clients, and time.                                                   *)
Connected(c) == conn[c] \in {"waiting", "open"} /\ here[c]

ClientConnects(c) ==
    /\ conn[c] = "none" /\ pc # "crashed"
    /\ conn' = [conn EXCEPT ![c] = "waiting"]
    /\ waiting' = Append(waiting, c)
    /\ UNCHANGED <<pc, streams, todo, fds, clients, st, got, clock, late, closedBy>>

ClientSends(c) ==
    /\ Connected(c) /\ arrived[c] < RequestLen(c)
    /\ arrived' = [arrived EXCEPT ![c] = @ + 1]
    /\ UNCHANGED <<pc, streams, todo, fds, waiting, conn, here, st, got, clock, late, closedBy>>

ClientLeaves(c) ==
    /\ Connected(c) /\ c \in MayLeave
    /\ here' = [here EXCEPT ![c] = FALSE]
    /\ UNCHANGED <<pc, streams, todo, fds, waiting, conn, arrived, st, got, clock, late, closedBy>>

Tick ==
    /\ pc \in {"select", "handler"}
    /\ behind' = CapAge(behind + 1)
    /\ idle' = [c \in Clients |-> IF conn[c] = "open" THEN CapAge(idle[c] + 1) ELSE idle[c]]
    /\ UNCHANGED <<pc, streams, todo, fds, waiting, conn, clients, st, got, age, late, closedBy>>

Poll == Select \/ QuietStream \/ ReadStream \/ WriteStream \/ StreamsDone \/ AcceptAll

Next == \/ Poll \/ ImageArrives \/ ImageFails \/ Tick
        \/ \E c \in Clients : ClientConnects(c) \/ ClientSends(c) \/ ClientLeaves(c)

(* The server runs, time passes while it waits, and the device answers in   *)
(* the end, with or without a picture.                                      *)
Fairness == WF_vars(Poll) /\ SF_vars(Tick) /\ WF_vars(ImageArrives \/ ImageFails)

Spec == Init /\ [][Next]_vars /\ Fairness

-----------------------------------------------------------------------------
(* Every variable has its type.  The list holds the accepted connections   *)
(* that were not removed, each once, and never more than there is room for. *)
Parts == {"status", "type", "blank", "data"}
TypeOK ==
    /\ pc \in {"select", "streams", "handler", "accept", "crashed"}
    /\ IsInjective(streams) /\ Len(streams) <= MaxStreams
    /\ ToSet(streams) = {c \in Clients : conn[c] = "open"}
    /\ ToSet(todo) \subseteq ToSet(streams)
    /\ ToSet(waiting) = {c \in Clients : conn[c] = "waiting"}
    /\ \A c \in Clients :
        /\ st[c].state \in 0..6
        /\ st[c].recvLen \in 0..arrived[c]
        /\ ToSet(st[c].sendBuf) \subseteq Parts
        /\ age[c] \in 0..Timeout + 1

(* What a client has taken and what is queued for it is a complete answer, *)
(* with or without a picture, or there is nothing: whatever the pieces in   *)
(* which the request came and the answer left.  The answer announces no     *)
(* length, so its end is the end of the connection: when the server ends it *)
(* as done, the client has everything (sandbird.c:513).                     *)
AnswersAreWhole == \A c \in Clients :
    /\ closedBy[c] = "done" => got[c] \in {Answer(<<>>), Answer(Picture)}
    /\ LET all == got[c] \o st[c].sendBuf
       IN IF conn[c] = "closed" THEN IsPrefix(got[c], Answer(Picture))
          ELSE all \in {<<>>, Answer(<<>>), Answer(Picture)}

(* A stream is closed for being idle only if select did not report it: the *)
(* time a handler takes is not held against a client whose bytes wait.  And *)
(* it was idle for longer than the timeout, unless its last activity (or    *)
(* its connection) was in a poll in which a handler had run: it was stamped *)
(* with the time before the handler, whose time counts as idle              *)
(* (sandbird.c:899).                                                        *)
OnlyIdleAreTimedOut ==
    [][\A c \in Clients : closedBy'[c] = "timeout" /\ closedBy[c] = "" =>
        /\ c \notin fds.ready
        /\ idle[c] > Timeout \/ late[c]]_vars

(* A request that has arrived while select waits is answered: no timeout    *)
(* and no other client can come first, however long pictures take, unless   *)
(* the device fails or the client leaves or stops reading.  And a connection *)
(* is accepted even if all descriptors are taken by clients that neither     *)
(* send nor read nor leave (sandbird.c:945).                                 *)
Proper == {c \in Clients : Room[c] >= Len(Answer(Picture)) /\ Request[c].valid}
AnsweredInTime ==
    /\ \A c \in Proper :
        (pc = "select" /\ conn[c] \in {"waiting", "open"} /\ Complete(c)) ~>
            \/ got[c] \in {Answer(<<>>), Answer(Picture)}
            \/ ~here[c]
            \/ pc = "crashed"
    /\ \A c \in Clients :
        conn[c] = "waiting" ~> conn[c] # "waiting" \/ pc = "crashed"
=============================================================================
