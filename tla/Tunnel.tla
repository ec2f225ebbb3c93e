------------------------------- MODULE Tunnel -------------------------------
(***************************************************************************)
(* cmd_tunnel.c: TCP connections to ports of this machine are carried to   *)
(* ports of the device.  One process listens; every connection gets a      *)
(* handler, which connects to the device and leaves two forwarders, one    *)
(* for each direction.  The forwarders share both sockets.                 *)
(*                                                                         *)
(* A connection c has two sides, the client and the device; the forwarder  *)
(* of side s reads from s and writes to the other side.  Bytes are numbered *)
(* in the order in which their side sends them.  Sockets are those of the  *)
(* system the program runs on: shutting the reading half throws away what  *)
(* was received, and writing to a shut or reset socket kills the writer.   *)
(***************************************************************************)
EXTENDS Naturals, Sequences, FiniteSets, FiniteSetsExt

CONSTANTS Clients,     \* clients that may connect, each once
          Coming,      \* the sets of clients that connect in one run
          PortOf,      \* the port each connects to
          Pairs,       \* the arguments: the port of each from:to pair
          NoColon,     \* an argument without a colon
          Busy,        \* ports somebody else is bound to
          ToSend,      \* how many bytes each side of a connection may send; a
                       \* connection without any is accepted and stays silent
          NetBufSize,  \* what one recv can take
          Cap,         \* what the socket towards a peer can hold
          ProcLimit,   \* how many processes may exist
          MayStall,    \* <<client, side>> that may never read
          MayReset     \* <<client, side>> that may break the connection

Sides == {"client", "device"}
Other(s) == IF s = "client" THEN "device" ELSE "client"
Ports == {Pairs[i] : i \in DOMAIN Pairs} \ {NoColon}

ASSUME TunnelAssumption ==
    /\ Coming \subseteq SUBSET Clients
    /\ Pairs \in Seq(Ports \cup {NoColon})
    /\ PortOf \in [Clients -> Ports]
    /\ ToSend \in [Clients -> [Sides -> Nat]]
    /\ NetBufSize \in Nat \ {0}
    /\ Cap \in Nat \ {0}
    /\ ProcLimit \in Nat
    /\ MayStall \subseteq Clients \X Sides
    /\ MayReset \subseteq Clients \X Sides

VARIABLES listener,  \* "setup", "select", "accept", "fork" or "exited"
          arg,       \* the argument runTunnel looks at next
          tuns,      \* the ports listened on, in order
          ready,     \* indices in tuns that select reported, not yet accepted
          new,       \* the clients accepted and not yet handed to a handler
          backlog,   \* for each port the clients waiting to be accepted
          handler,   \* for each client where its handler is
          forwarder, \* for each client and side where the forwarder is
          held,      \* the bytes in a forwarder's buffer
          peer,      \* what each side has done with its end
          reads,     \* whether each side ever reads
          toHost,    \* bytes from a side that were not yet received
          fromHost,  \* bytes to a side that it has not yet read
          shut,      \* the socket to a side was shut down here
          broken,    \* a reset: "no", "pending" (not yet reported) or "taken"
          sent,      \* how many bytes a side has sent
          got        \* the bytes a side has read

listening == <<listener, arg, tuns, ready, new, backlog>>
streams   == <<toHost, fromHost, sent, got>>
sockets   == <<shut, broken>>
peers     == <<peer, reads>>
vars == <<listening, handler, forwarder, held, peers, streams, sockets>>

PerSide(v) == [c \in Clients |-> [s \in Sides |-> v]]

(* What exists: a forwarder that has not ended, and the processes.  Nobody  *)
(* waits for a handler, so its entry stays in the table of processes.       *)
Running(c, s) == forwarder[c][s] \in {"recv", "send", "shutIn", "shutOut"}
Processes == Cardinality({c \in Clients : handler[c] \notin {"none", "dropped"}})
             + Cardinality({p \in Clients \X Sides : Running(p[1], p[2])})
ForkOK == Processes < ProcLimit

(* A socket is closed once nobody holds it any more, and a side is told     *)
(* that the connection has ended when its socket is shut or closed.         *)
Closed(c) == handler[c] \in {"done", "dropped"} /\ ~Running(c, "client") /\ ~Running(c, "device")
Told(c, s) == shut[c][s] \/ Closed(c)
Ended(c, s) == peer[c][s] \in {"half", "gone"}
Silent(c) == \A s \in Sides : ToSend[c][s] = 0

Init ==
    /\ listener = "setup" /\ arg = 1 /\ tuns = <<>> /\ ready = {} /\ new = {}
    /\ backlog = [p \in Ports |-> <<>>]
    /\ handler = [c \in Clients |-> "none"]
    /\ forwarder = PerSide("none")
    /\ held = PerSide(<<>>)
    /\ \E who \in Coming :
         peer = [c \in Clients |->
                   [s \in Sides |-> IF s = "client" /\ c \notin who THEN "absent" ELSE "none"]]
    /\ reads \in {r \in [Clients -> [Sides -> BOOLEAN]] :
                    \A c \in Clients, s \in Sides : r[c][s] \/ <<c, s>> \in MayStall}
    /\ toHost = PerSide(<<>>) /\ fromHost = PerSide(<<>>)
    /\ shut = PerSide(FALSE) /\ broken = PerSide("no")
    /\ sent = PerSide(0) /\ got = PerSide(<<>>)

-----------------------------------------------------------------------------
(* runTunnel: one argument after the other.  A pair without a colon is     *)
(* passed over, a port that cannot be bound ends the program.               *)
PortTaken(p) == p \in Busy \/ \E i \in DOMAIN tuns : tuns[i] = p

AddTunnel ==
    /\ listener = "setup"
    /\ arg <= Len(Pairs)
    /\ arg' = arg + 1
    /\ LET p == Pairs[arg]
           bound == p # NoColon /\ ~PortTaken(p)
       IN /\ tuns' = IF bound THEN Append(tuns, p) ELSE tuns
          /\ listener' = IF p = NoColon \/ bound THEN "setup" ELSE "exited"
    /\ UNCHANGED <<ready, new, backlog, handler, forwarder, held, peers, streams, sockets>>

ListenForClients ==
    /\ listener = "setup"
    /\ arg > Len(Pairs)
    /\ listener' = IF Pairs = <<>> THEN "exited" ELSE "select"
    /\ UNCHANGED <<arg, tuns, ready, new, backlog, handler, forwarder, held, peers, streams, sockets>>

(* select reports the ports with somebody waiting; the loop behind it      *)
(* accepts one client of each, in the order of the arguments.               *)
\* Mutants: the descriptors start from zero; the loop leaves the last one out.
SelectFromZero ==
    /\ listener = "select"
    /\ ready' = {i - 1 : i \in {j \in DOMAIN tuns : backlog[tuns[j]] # <<>>}}
    /\ ready' # {}
    /\ listener' = "accept"
    /\ UNCHANGED <<arg, tuns, new, backlog, handler, forwarder, held, peers, streams, sockets>>

SelectButLast ==
    /\ listener = "select"
    /\ ready' = {i \in DOMAIN tuns : i < Len(tuns) /\ backlog[tuns[i]] # <<>>}
    /\ ready' # {}
    /\ listener' = "accept"
    /\ UNCHANGED <<arg, tuns, new, backlog, handler, forwarder, held, peers, streams, sockets>>

Select ==
    /\ listener = "select"
    /\ ready' = {i \in DOMAIN tuns : backlog[tuns[i]] # <<>>}
    /\ ready' # {}
    /\ listener' = "accept"
    /\ UNCHANGED <<arg, tuns, new, backlog, handler, forwarder, held, peers, streams, sockets>>

Accept ==
    /\ listener = "accept"
    /\ IF ready = {}
         THEN /\ listener' = "select"
              /\ UNCHANGED <<ready, new, backlog>>
         ELSE LET i == Min(ready)
                  c == Head(backlog[tuns[i]])
                  gaveUp == peer[c]["client"] = "reset"     \* accept fails
              IN /\ ready' = ready \ {i}
                 /\ backlog' = [backlog EXCEPT ![tuns[i]] = Tail(@)]
                 /\ new' = IF gaveUp THEN {} ELSE {c}
                 /\ listener' = IF gaveUp THEN "accept" ELSE "fork"
    /\ UNCHANGED <<arg, tuns, handler, forwarder, held, peers, streams, sockets>>

ForkHandler ==
    /\ listener = "fork"
    /\ new' = {}
    /\ listener' = IF ForkOK THEN "accept" ELSE "exited"
    /\ handler' = [c \in Clients |->
                     IF c \notin new THEN handler[c]
                     ELSE IF ForkOK THEN "connect" ELSE "dropped"]
    /\ UNCHANGED <<arg, tuns, ready, backlog, forwarder, held, peers, streams, sockets>>

-----------------------------------------------------------------------------
(* handleClient.  A failed connection leaves the descriptor as it was, for *)
(* exitOnError only reports: it may look invalid, which ends the handler,  *)
(* or valid, in which case the forwarders work on a socket with nobody at  *)
(* the other end.  A failed fork goes unnoticed.                            *)
Connect(c) ==
    /\ handler[c] = "connect"
    /\ \E p \in IF Silent(c) THEN {"open"} ELSE {"open", "refused", "nobody"} :
         /\ peer' = [peer EXCEPT ![c]["device"] = p]
         /\ handler' = [handler EXCEPT ![c] = IF p = "refused" THEN "done" ELSE "forkIn"]
    /\ UNCHANGED <<listening, forwarder, held, reads, streams, sockets>>

\* Mutant: the second forwarder is started when the first has ended.
ForkForwarderInTurn(c) ==
    /\ handler[c] \in {"forkIn", "forkOut"}
    /\ LET s == IF handler[c] = "forkIn" THEN "client" ELSE "device"
       IN /\ s = "device" => ~Running(c, "client")
          /\ forwarder' = [forwarder EXCEPT ![c][s] = IF ForkOK THEN "recv" ELSE "missing"]
    /\ handler' = [handler EXCEPT ![c] = IF @ = "forkIn" THEN "forkOut" ELSE "close"]
    /\ UNCHANGED <<listening, held, peers, streams, sockets>>

ForkForwarder(c) ==
    /\ handler[c] \in {"forkIn", "forkOut"}
    /\ LET s == IF handler[c] = "forkIn" THEN "client" ELSE "device"
       IN forwarder' = [forwarder EXCEPT ![c][s] = IF ForkOK THEN "recv" ELSE "missing"]
    /\ handler' = [handler EXCEPT ![c] = IF @ = "forkIn" THEN "forkOut" ELSE "close"]
    /\ UNCHANGED <<listening, held, peers, streams, sockets>>

HandlerCloses(c) ==
    /\ handler[c] = "close"
    /\ handler' = [handler EXCEPT ![c] = "done"]
    /\ UNCHANGED <<listening, forwarder, held, peers, streams, sockets>>

-----------------------------------------------------------------------------
(* sendBytes.  What was received comes before the news of a reset, a reset *)
(* is reported once, and after it, as after the peer's end, recv returns 0. *)
NobodyAt(c, s) == peer[c][s] = "nobody"

Receive(c, s) ==
    /\ forwarder[c][s] = "recv"
    /\ \/ /\ toHost[c][s] # <<>>
          /\ \E n \in 1..Min({NetBufSize, Len(toHost[c][s])}) :
               /\ held' = [held EXCEPT ![c][s] = SubSeq(toHost[c][s], 1, n)]
               /\ toHost' = [toHost EXCEPT ![c][s] = SubSeq(@, n + 1, Len(@))]
          /\ forwarder' = [forwarder EXCEPT ![c][s] = "send"]
          /\ UNCHANGED broken
       \/ /\ toHost[c][s] = <<>>
          /\ \/ /\ broken[c][s] = "pending" \/ NobodyAt(c, s)
                /\ broken' = [broken EXCEPT ![c][s] = IF @ = "pending" THEN "taken" ELSE @]
                /\ forwarder' = [forwarder EXCEPT ![c][s] = "failed"]
             \/ /\ broken[c][s] # "pending"
                /\ shut[c][s] \/ broken[c][s] = "taken" \/ Ended(c, s)
                /\ forwarder' = [forwarder EXCEPT ![c][s] = "shutIn"]
                /\ UNCHANGED broken
          /\ UNCHANGED <<held, toHost>>
    /\ UNCHANGED <<listening, handler, peers, fromHost, shut, sent, got>>

(* send blocks until the socket has taken everything.  Its result is not   *)
(* looked at: what is sent to nobody is gone.                               *)
\* Mutant: what did not fit is tried again together with what did.
SendAgain(c, s) ==
    LET o == Other(s)
        n == Min({Cap - Len(fromHost[c][o]), Len(held[c][s])})
    IN
    /\ forwarder[c][s] = "send"
    /\ n > 0
    /\ fromHost' = [fromHost EXCEPT ![c][o] = @ \o SubSeq(held[c][s], 1, n)]
    /\ held' = [held EXCEPT ![c][s] = IF n = Len(@) THEN <<>> ELSE @]
    /\ forwarder' = [forwarder EXCEPT ![c][s] =
                        IF shut[c][o] THEN "killed" ELSE IF n = Len(held[c][s]) THEN "recv" ELSE "send"]
    /\ UNCHANGED <<listening, handler, peers, toHost, sent, got, sockets>>

Send(c, s) ==
    LET o == Other(s)
        room == Cap - Len(fromHost[c][o])
    IN
    /\ forwarder[c][s] = "send"
    /\ \/ /\ NobodyAt(c, o)
          /\ held' = [held EXCEPT ![c][s] = <<>>]
          /\ forwarder' = [forwarder EXCEPT ![c][s] = "recv"]
          /\ UNCHANGED fromHost
       \/ /\ shut[c][o] \/ broken[c][o] # "no"
          /\ held' = [held EXCEPT ![c][s] = <<>>]
          /\ forwarder' = [forwarder EXCEPT ![c][s] = "killed"]
          /\ UNCHANGED fromHost
       \/ /\ ~NobodyAt(c, o) /\ ~shut[c][o] /\ broken[c][o] = "no"
          /\ room > 0
          /\ LET n == Min({room, Len(held[c][s])})
             IN /\ fromHost' = [fromHost EXCEPT ![c][o] = @ \o SubSeq(held[c][s], 1, n)]
                /\ held' = [held EXCEPT ![c][s] = SubSeq(@, n + 1, Len(@))]
                /\ forwarder' = [forwarder EXCEPT ![c][s] =
                                   IF n = Len(held[c][s]) THEN "recv" ELSE "send"]
    /\ UNCHANGED <<listening, handler, peers, toHost, sent, got, sockets>>

(* Both sockets are shut in both directions, then closed.                   *)
ShutDown(c, s, from, to, side) ==
    /\ forwarder[c][s] = from
    /\ forwarder' = [forwarder EXCEPT ![c][s] = to]
    /\ shut' = [shut EXCEPT ![c][side] = TRUE]
    /\ toHost' = [toHost EXCEPT ![c][side] = <<>>]
    /\ UNCHANGED <<listening, handler, held, peers, fromHost, broken, sent, got>>

ShutIn(c, s)  == ShutDown(c, s, "shutIn", "shutOut", s)
\* Mutant: the socket written to is only closed, which the other process has too.
ShutOutMissing(c, s) ==
    /\ forwarder[c][s] = "shutOut"
    /\ forwarder' = [forwarder EXCEPT ![c][s] = "ended"]
    /\ UNCHANGED <<listening, handler, held, peers, streams, sockets>>
ShutOut(c, s) == ShutDown(c, s, "shutOut", "ended", Other(s))

-----------------------------------------------------------------------------
(* The peers: clients connect, both sides send, end their half, close, or  *)
(* break the connection.                                                    *)
Alive(c, s) == peer[c][s] \in {"open", "half"}

ClientConnects(c) ==
    /\ peer[c]["client"] = "none"
    /\ \E i \in DOMAIN tuns : tuns[i] = PortOf[c]
    /\ listener # "exited"
    /\ peer' = [peer EXCEPT ![c]["client"] = "open"]
    /\ backlog' = [backlog EXCEPT ![PortOf[c]] = Append(@, c)]
    /\ UNCHANGED <<listener, arg, tuns, ready, new, handler, forwarder, held, reads, streams, sockets>>

PeerSends(c, s) ==
    /\ peer[c][s] = "open"
    /\ sent[c][s] < ToSend[c][s]
    /\ sent' = [sent EXCEPT ![c][s] = @ + 1]
    /\ toHost' = IF Told(c, s) THEN toHost
                 ELSE [toHost EXCEPT ![c][s] = Append(@, sent[c][s] + 1)]
    /\ UNCHANGED <<listening, handler, forwarder, held, peers, fromHost, got, sockets>>

PeerReads(c, s) ==
    /\ Alive(c, s) /\ reads[c][s]
    /\ fromHost[c][s] # <<>>
    /\ got' = [got EXCEPT ![c][s] = Append(@, Head(fromHost[c][s]))]
    /\ fromHost' = [fromHost EXCEPT ![c][s] = Tail(@)]
    /\ UNCHANGED <<listening, handler, forwarder, held, peers, toHost, sent, sockets>>

PeerEnds(c, s) ==
    /\ Alive(c, s) /\ ~Silent(c)
    /\ \E end \in {"half", "gone"} : end # peer[c][s] /\ peer' = [peer EXCEPT ![c][s] = end]
    /\ UNCHANGED <<listening, handler, forwarder, held, reads, streams, sockets>>

Reset(c, s) ==
    /\ broken' = [broken EXCEPT ![c][s] = "pending"]
    /\ fromHost' = [fromHost EXCEPT ![c][s] = <<>>]
    /\ UNCHANGED <<listening, handler, forwarder, held, reads, toHost, shut, sent, got>>

PeerResets(c, s) ==
    /\ Alive(c, s) /\ <<c, s>> \in MayReset
    /\ peer' = [peer EXCEPT ![c][s] = "reset"]
    /\ Reset(c, s)

(* Bytes that reach a side that has closed are answered with a reset.       *)
PeerRejects(c, s) ==
    /\ peer[c][s] = "gone" /\ broken[c][s] = "no"
    /\ fromHost[c][s] # <<>>
    /\ UNCHANGED peer
    /\ Reset(c, s)

-----------------------------------------------------------------------------
Listener == AddTunnel \/ ListenForClients \/ Select \/ Accept \/ ForkHandler
Handler(c) == Connect(c) \/ ForkForwarder(c) \/ HandlerCloses(c)
Forwarder(c, s) == Receive(c, s) \/ Send(c, s) \/ ShutIn(c, s) \/ ShutOut(c, s)
Network(c, s) == PeerReads(c, s) \/ PeerRejects(c, s)
Peer(c, s) == PeerSends(c, s) \/ PeerEnds(c, s) \/ PeerResets(c, s)

Next == \/ Listener
        \/ \E c \in Clients : Handler(c) \/ ClientConnects(c)
        \/ \E c \in Clients, s \in Sides : Forwarder(c, s) \/ Network(c, s) \/ Peer(c, s)

(* The system runs every process and delivers what was sent; a side that   *)
(* reads goes on reading.  Nothing makes a side send or end.                *)
Fairness ==
    /\ WF_vars(Listener)
    /\ \A c \in Clients : WF_vars(Handler(c))
    /\ \A c \in Clients, s \in Sides :
          WF_vars(Forwarder(c, s)) /\ WF_vars(Network(c, s))

Spec == Init /\ [][Next]_vars /\ Fairness

-----------------------------------------------------------------------------
(* Every variable has its type, and no buffer holds more than its size.     *)
ByteSeqs(c, s) == UNION {[1..n -> 1..ToSend[c][s]] : n \in 0..ToSend[c][s]}
TypeOK ==
    /\ listener \in {"setup", "select", "accept", "fork", "exited"}
    /\ arg \in 1..Len(Pairs) + 1
    /\ ready \subseteq DOMAIN tuns
    /\ new \subseteq Clients
    /\ handler \in [Clients -> {"none", "connect", "forkIn", "forkOut", "close", "done", "dropped"}]
    /\ \A c \in Clients, s \in Sides :
        /\ forwarder[c][s] \in {"none", "missing", "recv", "send", "shutIn", "shutOut",
                                "ended", "failed", "killed"}
        /\ peer[c][s] \in {"absent", "none", "open", "half", "gone", "reset", "refused", "nobody"}
        /\ broken[c][s] \in {"no", "pending", "taken"}
        /\ held[c][s] \in ByteSeqs(c, s) /\ Len(held[c][s]) <= NetBufSize
        /\ toHost[c][s] \in ByteSeqs(c, s)
        /\ fromHost[c][s] \in ByteSeqs(c, Other(s)) /\ Len(fromHost[c][s]) <= Cap

(* What side s has sent and what has become of it, oldest byte first.       *)
Numbered(n) == [i \in 1..n |-> i]
OnTheWay(c, s) == fromHost[c][Other(s)] \o held[c][s] \o toHost[c][s]

(* What a side reads is a beginning of what the other side sent.            *)
ReadInOrder == \A c \in Clients, s \in Sides :
    /\ Len(got[c][Other(s)]) <= sent[c][s]
    /\ got[c][Other(s)] = Numbered(Len(got[c][Other(s)]))

(* While neither side has ended, every byte is either read or on its way.   *)
NothingLostWhileOpen == \A c \in Clients :
    (\A s \in Sides : peer[c][s] = "open") /\ ~Closed(c) =>
        \A s \in Sides : got[c][Other(s)] \o OnTheWay(c, s) = Numbered(sent[c][s])

(* The end of a side never overtakes its bytes: if s has ended and the     *)
(* other side is told, everything s sent is there before the end (provided *)
(* both forwarders were started, and the other side has not ended itself).  *)
EndAfterBytes == \A c \in Clients, s \in Sides :
    LET o == Other(s) IN
    (/\ Ended(c, s) /\ peer[c][o] = "open" /\ Told(c, o)
     /\ forwarder[c][s] # "missing" /\ forwarder[c][o] # "missing")
    => got[c][o] \o fromHost[c][o] = Numbered(sent[c][s])

(* No byte is doubled or moved, whatever is shut, reset or killed at        *)
(* whatever moment (cmd_tunnel.c:82); none is lost while both sides are     *)
(* there; and an end, which shuts both sockets in both directions, does not *)
(* overtake what it has to end (cmd_tunnel.c:87).                           *)
BytesInOrder == ReadInOrder /\ NothingLostWhileOpen /\ EndAfterBytes

(* A client that waits is accepted whoever waits on other ports             *)
(* (cmd_tunnel.c:179), and served both ways, unless it gives up itself.     *)
(* Nobody waits for the processes, so this holds until more connections     *)
(* were accepted than their processes, three each, have room for: a fork    *)
(* that fails then leaves one direction, or ends the program                *)
(* (cmd_tunnel.c:109, 194).                                                 *)
Accepted == {c \in Clients : handler[c] # "none"}
ProcessesRanOut == \E n \in 1..Cardinality(Accepted) : 3 * n > ProcLimit
EveryoneServed == \A c \in Clients :
    (peer[c]["client"] = "open" /\ listener \notin {"setup", "exited"}) ~>
        \/ handler[c] = "done" /\ \A s \in Sides : forwarder[c][s] # "missing"
        \/ peer[c]["client"] = "reset"
        \/ ProcessesRanOut

(* One direction does not wait for the other: what a side sends is read,   *)
(* even if that side reads nothing of what comes back, as long as neither  *)
(* side ends and both forwarders were started.                              *)
Undisturbed(c) == \A s \in Sides :
    /\ peer[c][s] = "open"
    /\ forwarder[c][s] # "missing"
DirectionsAreIndependent == \A c \in Clients, s \in Sides : \A n \in 1..ToSend[c][s] :
    (sent[c][s] >= n /\ Undisturbed(c) /\ reads[c][Other(s)])
        ~> (Len(got[c][Other(s)]) >= n \/ ~Undisturbed(c))

(* The end of one side ends the connection: both forwarders leave and the  *)
(* other side is told, when the sides read.  The exceptions are the ones    *)
(* in which sendBytes leaves without a shutdown: its own recv failed, or   *)
(* the forwarder that would have seen the end was never started.            *)
EndIsPassedOn == \A c \in Clients, s \in Sides :
    (Ended(c, s) /\ peer[c][Other(s)] # "none" /\ (\A z \in Sides : reads[c][z]))
        ~> \/ Closed(c) /\ Told(c, Other(s))
           \/ forwarder[c][s] \in {"failed", "missing"}
=============================================================================
