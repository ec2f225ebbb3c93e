---------------------------- MODULE TunnelProofs ----------------------------
(* Theorems about Tunnel, for every value of its constants: whatever is    *)
(* shut, reset or killed at whatever moment, no byte is doubled or moved.   *)
EXTENDS Tunnel, SequenceTheorems, WellFoundedInduction, TLAPS

-----------------------------------------------------------------------------
(* The inductive invariant.                                                 *)

FState == {"none", "missing", "recv", "send", "shutIn", "shutOut", "ended", "failed", "killed"}
PState == {"absent", "none", "open", "half", "gone", "reset", "refused", "nobody"}
HState == {"none", "connect", "forkIn", "forkOut", "close", "done", "dropped"}

\* Every variable is a function of what it is kept for.
Typed ==
    /\ listener \in {"setup", "select", "accept", "fork", "exited"}
    /\ arg \in 1..Len(Pairs) + 1
    /\ tuns \in Seq(Ports)
    /\ ready \subseteq DOMAIN tuns
    /\ new \subseteq Clients
    /\ backlog \in [Ports -> Seq(Clients)]
    /\ handler \in [Clients -> HState]
    /\ forwarder \in [Clients -> [Sides -> FState]]
    /\ peer \in [Clients -> [Sides -> PState]]
    /\ broken \in [Clients -> [Sides -> {"no", "pending", "taken"}]]
    /\ shut \in [Clients -> [Sides -> BOOLEAN]]
    /\ held \in [Clients -> [Sides -> Seq(Nat)]]
    /\ toHost \in [Clients -> [Sides -> Seq(Nat)]]
    /\ fromHost \in [Clients -> [Sides -> Seq(Nat)]]
    /\ got \in [Clients -> [Sides -> Seq(Nat)]]
    /\ sent \in [Clients -> [Sides -> Nat]]

\* A client waits once, on its own port, until it is accepted; a port that was
\* reported still has somebody waiting when its turn comes.
OneTunnelPerPort == \A i, j \in DOMAIN tuns : tuns[i] = tuns[j] => i = j
ReportedAreThere == \A i \in ready : backlog[tuns[i]] # <<>>
WaitOnce == \A p \in Ports : \A i \in DOMAIN backlog[p] :
    LET c == backlog[p][i] IN
    /\ PortOf[c] = p /\ c \notin new /\ handler[c] = "none"
    /\ peer[c]["client"] \notin {"absent", "none"}
    /\ \A j \in DOMAIN backlog[p] : backlog[p][j] = c => i = j
NewAreUnhandled == \A c \in new :
    handler[c] = "none" /\ peer[c]["client"] \notin {"absent", "none"}
HandledHaveConnected == \A c \in Clients :
    peer[c]["client"] \in {"absent", "none"} => handler[c] = "none"
Accepting ==
    OneTunnelPerPort /\ ReportedAreThere /\ WaitOnce /\ NewAreUnhandled /\ HandledHaveConnected

\* What a handler has done by the time it is somewhere.
Handling == \A c \in Clients :
    /\ handler[c] \in {"none", "connect", "dropped"} => peer[c]["device"] = "none"
    /\ handler[c] \in {"none", "connect", "dropped", "forkIn"} =>
         \A s \in Sides : forwarder[c][s] = "none"
    /\ handler[c] = "forkOut" => forwarder[c]["device"] = "none"
    /\ handler[c] \in {"close", "done"} =>
         peer[c]["device"] = "refused" \/ \A s \in Sides : forwarder[c][s] # "none"
    /\ handler[c] = "forkOut" => forwarder[c]["client"] # "none"

\* A side that has neither ended nor broken the connection, nor will have been
\* somebody else.
Fresh(c, s) == peer[c][s] \in {"none", "open"}
Leaving(c, s) == forwarder[c][s] \in {"shutIn", "shutOut", "ended"}

\* Who may have shut or left what, and what was seen before that.
Endings == \A c \in Clients, s \in Sides :
    /\ broken[c][s] # "no" => peer[c][s] \in {"gone", "reset"}
    /\ shut[c][s] /\ Fresh(c, s) => forwarder[c][Other(s)] = "ended"
    /\ shut[c][s] => \/ forwarder[c][s] \in {"shutOut", "ended"}
                     \/ forwarder[c][Other(s)] = "ended"
    /\ Leaving(c, s) /\ Fresh(c, s) => shut[c][s]
    /\ shut[c][s] \/ Leaving(c, s) => \E z \in Sides : ~Fresh(c, z)
    /\ forwarder[c][s] = "killed" => ~Fresh(c, Other(s))
    /\ forwarder[c][s] = "failed" => peer[c][s] \in {"gone", "reset", "nobody"}

\* The bytes of side s: g were read, f wait to be read, h are in the forwarder's
\* buffer and t still to be received, and of those in between some may be lost;
\* none is while there is somebody to send to, and none at the end of them while
\* s is not told that the connection has ended.
Run(b, n) == [i \in 1..n |-> b + i]
Passable(c, o) == peer[c][o] # "nobody" /\ ~shut[c][o] /\ broken[c][o] = "no"
Flow(c, s, g, f, b, h, t) ==
    /\ got[c][Other(s)] = Run(0, g)
    /\ fromHost[c][Other(s)] = Run(g, f)
    /\ held[c][s] = Run(b, h)
    /\ toHost[c][s] = Run(b + h, t)
    /\ g + f <= b /\ b + h + t <= sent[c][s] /\ sent[c][s] <= ToSend[c][s]
    /\ f <= Cap /\ h <= NetBufSize
    /\ forwarder[c][s] # "send" => h = 0
    /\ Passable(c, Other(s)) => b = g + f
    /\ ~Told(c, s) => b + h + t = sent[c][s]
    /\ forwarder[c][s] = "failed" \/ Leaving(c, s) =>
         (Fresh(c, Other(s)) /\ Ended(c, s) => t = 0 /\ g + f = sent[c][s])
FlowsAt(c, s) == \E g, f, b, h, t \in 0..ToSend[c][s] : Flow(c, s, g, f, b, h, t)
Flowing == \A c \in Clients, s \in Sides : FlowsAt(c, s)

Inv == Typed /\ Accepting /\ Handling /\ Endings /\ Flowing

-----------------------------------------------------------------------------
(* Runs of consecutive numbers.                                             *)

\* A run is a sequence of its length.
LEMMA RunIsSeq ==
  ASSUME NEW b \in Nat, NEW n \in Nat
  PROVE  /\ Run(b, n) \in Seq(Nat) /\ Len(Run(b, n)) = n
         /\ \A i \in 1..n : Run(b, n)[i] = b + i
         /\ Run(b, n) = <<>> <=> n = 0
<1>1. \A i \in 1..n : b + i \in Nat
  OBVIOUS
<1>2. Run(b, n) \in Seq(Nat)
  BY <1>1, IsASeq DEF Run
<1>3. DOMAIN Run(b, n) = 1..n
  BY DEF Run
<1>4. Len(Run(b, n)) = n
  BY <1>2, <1>3, LenProperties
<1>5. \A i \in 1..n : Run(b, n)[i] = b + i
  BY DEF Run
<1>6. n = 0 => Run(b, n) = <<>>
  BY <1>2, <1>4, EmptySeq
<1>7. QED BY <1>2, <1>4, <1>5, <1>6, EmptySeq

\* The next number makes a run longer by one.
LEMMA RunGrows ==
  ASSUME NEW b \in Nat, NEW n \in Nat
  PROVE  Append(Run(b, n), b + n + 1) = Run(b, n + 1)
<1> DEFINE r == Run(b, n)
           a == Append(r, b + n + 1)
           u == Run(b, n + 1)
<1>1. r \in Seq(Nat) /\ Len(r) = n /\ \A i \in 1..n : r[i] = b + i
  BY RunIsSeq
<1>2. u \in Seq(Nat) /\ Len(u) = n + 1 /\ \A i \in 1..n + 1 : u[i] = b + i
  BY RunIsSeq
<1> HIDE DEF r, u
<1>3. /\ a \in Seq(Nat) /\ Len(a) = n + 1
      /\ \A i \in 1..n : a[i] = r[i]
      /\ a[n + 1] = b + n + 1
  BY <1>1, AppendProperties
<1> HIDE DEF a
<1>4. \A i \in 1..n + 1 : a[i] = u[i]
  BY <1>1, <1>2, <1>3, SMTT(30)
<1>5. a = u
  BY <1>2, <1>3, <1>4, SeqEqual
<1>6. QED BY <1>5 DEF a, r, u

\* A run and the run that follows it are one run.
LEMMA RunsJoin ==
  ASSUME NEW b \in Nat, NEW n \in Nat, NEW m \in Nat
  PROVE  Run(b, n) \o Run(b + n, m) = Run(b, n + m)
<1> DEFINE p == Run(b, n)
           q == Run(b + n, m)
           u == Run(b, n + m)
           pq == p \o q
<1>1. p \in Seq(Nat) /\ Len(p) = n /\ \A i \in 1..n : p[i] = b + i
  BY RunIsSeq
<1>2. q \in Seq(Nat) /\ Len(q) = m /\ \A i \in 1..m : q[i] = b + n + i
  <2>1. b + n \in Nat
    OBVIOUS
  <2>2. QED BY <2>1, RunIsSeq
<1>3. u \in Seq(Nat) /\ Len(u) = n + m /\ \A i \in 1..n + m : u[i] = b + i
  BY RunIsSeq
<1> HIDE DEF p, q, u
<1>4. /\ pq \in Seq(Nat) /\ Len(pq) = n + m
      /\ \A i \in 1..n + m : pq[i] = IF i <= n THEN p[i] ELSE q[i - n]
  BY <1>1, <1>2, ConcatProperties, ZenonT(40)
<1> HIDE DEF pq
<1>5. \A i \in 1..n + m : pq[i] = u[i]
  <2> TAKE i \in 1..n + m
  <2>1. CASE i <= n
    BY <1>1, <1>3, <1>4, <2>1
  <2>2. CASE ~(i <= n)
    <3>1. i - n \in 1..m /\ b + n + (i - n) = b + i
      BY <2>2
    <3>2. pq[i] = q[i - n] /\ q[i - n] = b + n + (i - n)
      BY <1>2, <1>4, <2>2, <3>1
    <3>3. QED BY <1>3, <3>1, <3>2
  <2>3. QED BY <2>1, <2>2
<1>6. pq = u
  BY <1>3, <1>4, <1>5, SeqEqual
<1>7. QED BY <1>6 DEF pq, p, q, u

\* What is taken off the front of a run and what is left are runs.
LEMMA RunSplits ==
  ASSUME NEW b \in Nat, NEW n \in Nat, NEW k \in 0..n
  PROVE  /\ SubSeq(Run(b, n), 1, k) = Run(b, k)
         /\ SubSeq(Run(b, n), k + 1, n) = Run(b + k, n - k)
<1> DEFINE r == Run(b, n)
           front == SubSeq(r, 1, k)
           rest == SubSeq(r, k + 1, n)
           p == Run(b, k)
           q == Run(b + k, n - k)
<1>0. k \in Nat /\ n - k \in Nat /\ b + k \in Nat /\ k + 1 \in Int /\ n \in Int
  OBVIOUS
<1>1. r \in Seq(Nat) /\ Len(r) = n /\ \A i \in 1..n : r[i] = b + i
  BY RunIsSeq
<1>2. p \in Seq(Nat) /\ Len(p) = k /\ \A i \in 1..k : p[i] = b + i
  BY <1>0, RunIsSeq
<1>3. q \in Seq(Nat) /\ Len(q) = n - k /\ \A i \in 1..n - k : q[i] = b + k + i
  BY <1>0, RunIsSeq
<1> HIDE DEF r, p, q
<1>4. (\A i \in 1..k : r[i] \in Nat) /\ (\A i \in k + 1..n : r[i] \in Nat)
  BY <1>0, <1>1
<1>5. front \in Seq(Nat) /\ Len(front) = k /\ \A i \in 1..k : front[i] = r[i]
  <2>1. /\ front \in Seq(Nat) /\ Len(front) = IF 1 <= k THEN k - 1 + 1 ELSE 0
        /\ \A i \in 1..k - 1 + 1 : front[i] = r[1 + i - 1]
    BY <1>0, <1>4, SubSeqProperties
  <2> HIDE DEF front
  <2>2. QED BY <1>0, <2>1
<1>6. /\ rest \in Seq(Nat) /\ Len(rest) = n - k
      /\ \A i \in 1..n - k : rest[i] = r[k + i]
  <2>1. /\ rest \in Seq(Nat) /\ Len(rest) = IF k + 1 <= n THEN n - (k + 1) + 1 ELSE 0
        /\ \A i \in 1..n - (k + 1) + 1 : rest[i] = r[k + 1 + i - 1]
    BY <1>0, <1>4, SubSeqProperties
  <2> HIDE DEF rest
  <2>2. QED BY <1>0, <2>1
<1> HIDE DEF front, rest
<1>7. front = p
  <2>1. \A i \in 1..k : front[i] = p[i]
    BY <1>0, <1>1, <1>2, <1>5
  <2>2. QED BY <2>1, <1>2, <1>5, SeqEqual
<1>8. rest = q
  <2>1. \A i \in 1..n - k : rest[i] = q[i]
    BY <1>0, <1>1, <1>3, <1>6
  <2>2. QED BY <2>1, <1>3, <1>6, SeqEqual
<1>9. QED BY <1>7, <1>8 DEF front, rest, p, q, r

\* The first number of a run, and the rest.
LEMMA RunHead ==
  ASSUME NEW b \in Nat, NEW n \in Nat, n # 0
  PROVE  Head(Run(b, n)) = b + 1 /\ Tail(Run(b, n)) = Run(b + 1, n - 1)
<1> DEFINE r == Run(b, n)
<1>1. r \in Seq(Nat) /\ Len(r) = n /\ r # <<>> /\ r[1] = b + 1
  BY RunIsSeq
<1>2. SubSeq(r, 1 + 1, n) = Run(b + 1, n - 1)
  <2>1. 1 \in 0..n
    OBVIOUS
  <2>2. QED BY <2>1, RunSplits
<1> HIDE DEF r
<1>3. Tail(r) = SubSeq(r, 2, Len(r))
  BY <1>1, TailIsSubSeq
<1>4. Head(r) = r[1]
  BY <1>1
<1>5. QED BY <1>1, <1>2, <1>3, <1>4 DEF r

\* The smaller of two numbers, and the smallest of a set of them.
LEMMA MinOfTwo ==
  ASSUME NEW m \in Nat, NEW n \in Nat
  PROVE  /\ Min({m, n}) \in Nat /\ Min({m, n}) <= m /\ Min({m, n}) <= n
         /\ Min({m, n}) = m \/ Min({m, n}) = n
<1>1. \E x \in {m, n} : \A y \in {m, n} : x =< y
  <2>1. CASE m <= n
    BY <2>1
  <2>2. CASE ~(m <= n)
    BY <2>2
  <2>3. QED BY <2>1, <2>2
<1>2. Min({m, n}) \in {m, n} /\ \A y \in {m, n} : Min({m, n}) =< y
  BY <1>1 DEF Min
<1>3. QED BY <1>2

\* The minimum of a set of numbers is one of them.
LEMMA MinIsElement ==
  ASSUME NEW S \in SUBSET Nat, S # {}
  PROVE  Min(S) \in S
<1>1. \E x \in S : \A y \in S : ~(<<y, x>> \in OpToRel(<, Nat))
  BY NatLessThanWellFounded, WFMin
<1>2. PICK x \in S : \A y \in S : ~(<<y, x>> \in OpToRel(<, Nat))
  BY <1>1
<1>3. \A y \in S : x =< y
  <2> TAKE y \in S
  <2>1. x \in Nat /\ y \in Nat /\ <<y, x>> \in Nat \X Nat
    OBVIOUS
  <2>2. ~(y < x)
    BY <1>2, <2>1 DEF OpToRel
  <2>3. QED BY <2>1, <2>2
<1>4. QED BY <1>3 DEF Min

-----------------------------------------------------------------------------
(* The sides, and what a step changes at one of them.                      *)

\* There are two sides, and each is the other's other.
LEMMA OtherSide ==
  ASSUME NEW s \in Sides
  PROVE  /\ Other(s) \in Sides /\ Other(s) # s /\ Other(Other(s)) = s
         /\ \A z \in Sides : z = s \/ z = Other(s)
BY DEF Sides, Other

\* Changing what is kept for one side of one connection changes nothing else.
LEMMA OneSide ==
  ASSUME NEW T, NEW f \in [Clients -> [Sides -> T]], NEW c \in Clients, NEW s \in Sides,
         NEW e \in T
  PROVE  /\ [f EXCEPT ![c][s] = e] \in [Clients -> [Sides -> T]]
         /\ \A x \in Clients, y \in Sides :
              [f EXCEPT ![c][s] = e][x][y] = IF x = c /\ y = s THEN e ELSE f[x][y]
OBVIOUS

\* What a receive does: bytes move into the buffer, or the forwarder leaves.
LEMMA ReceiveEffect ==
  ASSUME Typed, NEW c \in Clients, NEW s \in Sides, Receive(c, s)
  PROVE  /\ Typed' /\ forwarder[c][s] = "recv"
         /\ UNCHANGED <<listening, handler, peers, fromHost, shut, sent, got>>
         /\ \A x \in Clients, y \in Sides : x # c \/ y # s =>
              /\ held'[x][y] = held[x][y] /\ toHost'[x][y] = toHost[x][y]
              /\ forwarder'[x][y] = forwarder[x][y] /\ broken'[x][y] = broken[x][y]
         /\ \/ \E n \in 1..Len(toHost[c][s]) :
                 /\ n <= NetBufSize
                 /\ held'[c][s] = SubSeq(toHost[c][s], 1, n)
                 /\ toHost'[c][s] = SubSeq(toHost[c][s], n + 1, Len(toHost[c][s]))
                 /\ forwarder'[c][s] = "send" /\ broken'[c][s] = broken[c][s]
            \/ /\ toHost[c][s] = <<>> /\ toHost'[c][s] = <<>>
               /\ held'[c][s] = held[c][s]
               /\ \/ /\ broken[c][s] = "pending" \/ NobodyAt(c, s)
                     /\ broken'[c][s] = IF broken[c][s] = "pending" THEN "taken"
                                        ELSE broken[c][s]
                     /\ forwarder'[c][s] = "failed"
                  \/ /\ broken[c][s] # "pending"
                     /\ shut[c][s] \/ broken[c][s] = "taken" \/ Ended(c, s)
                     /\ forwarder'[c][s] = "shutIn" /\ broken'[c][s] = broken[c][s]
<1> DEFINE q == toHost[c][s]
<1>1. q \in Seq(Nat) /\ Len(q) \in Nat /\ NetBufSize \in Nat /\ held[c][s] \in Seq(Nat)
  BY TunnelAssumption, LenProperties DEF Typed
<1>2. /\ forwarder[c][s] = "recv"
      /\ UNCHANGED <<listening, handler, peers, fromHost, shut, sent, got>>
  BY DEF Receive
<1>3. CASE \E n \in 1..Min({NetBufSize, Len(q)}) :
             /\ held' = [held EXCEPT ![c][s] = SubSeq(q, 1, n)]
             /\ toHost' = [toHost EXCEPT ![c][s] = SubSeq(q, n + 1, Len(q))]
             /\ forwarder' = [forwarder EXCEPT ![c][s] = "send"]
             /\ broken' = broken
  <2>1. PICK n \in 1..Min({NetBufSize, Len(q)}) :
             /\ held' = [held EXCEPT ![c][s] = SubSeq(q, 1, n)]
             /\ toHost' = [toHost EXCEPT ![c][s] = SubSeq(q, n + 1, Len(q))]
             /\ forwarder' = [forwarder EXCEPT ![c][s] = "send"]
             /\ broken' = broken
    BY <1>3
  <2>2. n \in 1..Len(q) /\ n <= NetBufSize /\ n \in Nat
    <3> DEFINE most == Min({NetBufSize, Len(q)})
    <3>1. most \in Nat /\ most <= NetBufSize /\ most <= Len(q) /\ n \in 1..most
      BY <1>1, MinOfTwo
    <3> HIDE DEF most, q
    <3>2. QED BY <1>1, <3>1
  <2>3. SubSeq(q, 1, n) \in Seq(Nat) /\ SubSeq(q, n + 1, Len(q)) \in Seq(Nat)
    <3>1. \A i \in 1..Len(q) : q[i] \in Nat
      BY <1>1, ElementOfSeq
    <3> HIDE DEF q
    <3>2. (\A i \in 1..n : q[i] \in Nat) /\ (\A i \in n + 1..Len(q) : q[i] \in Nat)
      BY <1>1, <2>2, <3>1
    <3>3. QED BY <1>1, <2>2, <3>2, SubSeqProperties
  <2> DEFINE N == Seq(Nat)
             front == SubSeq(q, 1, n)
             rest == SubSeq(q, n + 1, Len(q))
  <2>4. held \in [Clients -> [Sides -> N]] /\ toHost \in [Clients -> [Sides -> N]]
    BY DEF Typed
  <2>5. front \in N /\ rest \in N
    BY <2>3
  <2>6. held' = [held EXCEPT ![c][s] = front] /\ toHost' = [toHost EXCEPT ![c][s] = rest]
    BY <2>1
  <2> HIDE DEF N, front, rest
  <2>7. /\ held' \in [Clients -> [Sides -> N]] /\ held'[c][s] = front
        /\ \A x \in Clients, y \in Sides : x # c \/ y # s => held'[x][y] = held[x][y]
    BY <2>4, <2>5, <2>6, OneSide
  <2>8. /\ toHost' \in [Clients -> [Sides -> N]] /\ toHost'[c][s] = rest
        /\ \A x \in Clients, y \in Sides : x # c \/ y # s => toHost'[x][y] = toHost[x][y]
    BY <2>4, <2>5, <2>6, OneSide
  <2>9. /\ forwarder' \in [Clients -> [Sides -> FState]] /\ forwarder'[c][s] = "send"
        /\ \A x \in Clients, y \in Sides :
             x # c \/ y # s => forwarder'[x][y] = forwarder[x][y]
    <3>1. forwarder \in [Clients -> [Sides -> FState]] /\ "send" \in FState
      BY DEF Typed, FState
    <3>2. QED BY <2>1, <3>1, OneSide
  <2>10. Typed'
    BY <1>2, <2>1, <2>7, <2>8, <2>9 DEF Typed, N, listening, peers
  <2>11. \E k \in 1..Len(q) :
           /\ k <= NetBufSize /\ held'[c][s] = SubSeq(q, 1, k)
           /\ toHost'[c][s] = SubSeq(q, k + 1, Len(q))
           /\ forwarder'[c][s] = "send" /\ broken'[c][s] = broken[c][s]
    BY <2>1, <2>2, <2>7, <2>8, <2>9 DEF front, rest
  <2>12. \A x \in Clients, y \in Sides : x # c \/ y # s =>
           /\ held'[x][y] = held[x][y] /\ toHost'[x][y] = toHost[x][y]
           /\ forwarder'[x][y] = forwarder[x][y] /\ broken'[x][y] = broken[x][y]
    BY <2>1, <2>7, <2>8, <2>9
  <2>13. QED BY <1>2, <2>10, <2>11, <2>12
<1>4. ASSUME q = <<>>, UNCHANGED <<held, toHost>>,
             NEW to \in {"failed", "shutIn"}, NEW e \in {"no", "pending", "taken"},
             broken' = [broken EXCEPT ![c][s] = e],
             forwarder' = [forwarder EXCEPT ![c][s] = to]
      PROVE  /\ Typed' /\ forwarder'[c][s] = to /\ broken'[c][s] = e
             /\ \A x \in Clients, y \in Sides : x # c \/ y # s =>
                  /\ held'[x][y] = held[x][y] /\ toHost'[x][y] = toHost[x][y]
                  /\ forwarder'[x][y] = forwarder[x][y] /\ broken'[x][y] = broken[x][y]
  <2>1. /\ forwarder' \in [Clients -> [Sides -> FState]] /\ forwarder'[c][s] = to
        /\ \A x \in Clients, y \in Sides :
             x # c \/ y # s => forwarder'[x][y] = forwarder[x][y]
    <3>1. forwarder \in [Clients -> [Sides -> FState]] /\ to \in FState
      BY DEF Typed, FState
    <3>2. QED BY <1>4, <3>1, OneSide
  <2>2. /\ broken' \in [Clients -> [Sides -> {"no", "pending", "taken"}]] /\ broken'[c][s] = e
        /\ \A x \in Clients, y \in Sides : x # c \/ y # s => broken'[x][y] = broken[x][y]
    <3>1. broken \in [Clients -> [Sides -> {"no", "pending", "taken"}]]
      BY DEF Typed
    <3>2. QED BY <1>4, <3>1, OneSide
  <2>3. QED BY <1>2, <1>4, <2>1, <2>2 DEF Typed, listening, peers
<1>5. broken[c][s] \in {"no", "pending", "taken"}
  BY DEF Typed
<1>6. CASE /\ q = <<>> /\ UNCHANGED <<held, toHost>>
           /\ broken[c][s] = "pending" \/ NobodyAt(c, s)
           /\ broken' = [broken EXCEPT ![c][s] = IF @ = "pending" THEN "taken" ELSE @]
           /\ forwarder' = [forwarder EXCEPT ![c][s] = "failed"]
  <2> DEFINE e == IF broken[c][s] = "pending" THEN "taken" ELSE broken[c][s]
  <2>1. e \in {"no", "pending", "taken"} /\ broken' = [broken EXCEPT ![c][s] = e]
    BY <1>5, <1>6 DEF Typed
  <2> HIDE DEF e
  <2>2. /\ Typed' /\ forwarder'[c][s] = "failed" /\ broken'[c][s] = e
        /\ \A x \in Clients, y \in Sides : x # c \/ y # s =>
             /\ held'[x][y] = held[x][y] /\ toHost'[x][y] = toHost[x][y]
             /\ forwarder'[x][y] = forwarder[x][y] /\ broken'[x][y] = broken[x][y]
    BY <1>4, <1>6, <2>1
  <2>3. QED BY <1>2, <1>6, <2>2 DEF e
<1>7. CASE /\ q = <<>> /\ UNCHANGED <<held, toHost>>
           /\ broken[c][s] # "pending"
           /\ shut[c][s] \/ broken[c][s] = "taken" \/ Ended(c, s)
           /\ forwarder' = [forwarder EXCEPT ![c][s] = "shutIn"]
           /\ broken' = broken
  <2>1. broken' = [broken EXCEPT ![c][s] = broken[c][s]]
    BY <1>7 DEF Typed
  <2>2. /\ Typed' /\ forwarder'[c][s] = "shutIn" /\ broken'[c][s] = broken[c][s]
        /\ \A x \in Clients, y \in Sides : x # c \/ y # s =>
             /\ held'[x][y] = held[x][y] /\ toHost'[x][y] = toHost[x][y]
             /\ forwarder'[x][y] = forwarder[x][y] /\ broken'[x][y] = broken[x][y]
    BY <1>4, <1>5, <1>7, <2>1
  <2>3. QED BY <1>2, <1>7, <2>2
<1>8. QED
  <2>1. \/ \E n \in 1..Min({NetBufSize, Len(q)}) :
             /\ held' = [held EXCEPT ![c][s] = SubSeq(q, 1, n)]
             /\ toHost' = [toHost EXCEPT ![c][s] = SubSeq(q, n + 1, Len(q))]
             /\ forwarder' = [forwarder EXCEPT ![c][s] = "send"]
             /\ broken' = broken
        \/ /\ q = <<>> /\ UNCHANGED <<held, toHost>>
           /\ broken[c][s] = "pending" \/ NobodyAt(c, s)
           /\ broken' = [broken EXCEPT ![c][s] = IF @ = "pending" THEN "taken" ELSE @]
           /\ forwarder' = [forwarder EXCEPT ![c][s] = "failed"]
        \/ /\ q = <<>> /\ UNCHANGED <<held, toHost>>
           /\ broken[c][s] # "pending"
           /\ shut[c][s] \/ broken[c][s] = "taken" \/ Ended(c, s)
           /\ forwarder' = [forwarder EXCEPT ![c][s] = "shutIn"]
           /\ broken' = broken
    <3>1. \A n : [toHost EXCEPT ![c][s] = SubSeq(@, n + 1, Len(@))]
                   = [toHost EXCEPT ![c][s] = SubSeq(q, n + 1, Len(q))]
      BY DEF Typed
    <3>2. QED BY <3>1 DEF Receive
  <2>2. QED BY <1>3, <1>6, <1>7, <2>1

\* What a send does: some of the buffer goes on, or all of it is lost.
LEMMA SendEffect ==
  ASSUME Typed, NEW c \in Clients, NEW s \in Sides, Send(c, s)
  PROVE  /\ Typed' /\ forwarder[c][s] = "send"
         /\ UNCHANGED <<listening, handler, peers, toHost, sent, got, sockets>>
         /\ \A x \in Clients, y \in Sides : x # c \/ y # s =>
              held'[x][y] = held[x][y] /\ forwarder'[x][y] = forwarder[x][y]
         /\ \A x \in Clients, y \in Sides :
              x # c \/ y # Other(s) => fromHost'[x][y] = fromHost[x][y]
         /\ \/ /\ fromHost' = fromHost /\ held'[c][s] = <<>>
               /\ \/ NobodyAt(c, Other(s)) /\ forwarder'[c][s] = "recv"
                  \/ /\ shut[c][Other(s)] \/ broken[c][Other(s)] # "no"
                     /\ forwarder'[c][s] = "killed"
            \/ /\ Passable(c, Other(s)) /\ Len(fromHost[c][Other(s)]) < Cap
               /\ \E n \in 0..Len(held[c][s]) :
                    /\ Len(fromHost[c][Other(s)]) + n <= Cap
                    /\ fromHost'[c][Other(s)] =
                         fromHost[c][Other(s)] \o SubSeq(held[c][s], 1, n)
                    /\ held'[c][s] = SubSeq(held[c][s], n + 1, Len(held[c][s]))
                    /\ forwarder'[c][s] = IF n = Len(held[c][s]) THEN "recv" ELSE "send"
<1> DEFINE o == Other(s)
           q == held[c][s]
           r == fromHost[c][o]
           room == Cap - Len(r)
           N == Seq(Nat)
<1>1. o \in Sides
  BY OtherSide
<1>2. /\ q \in N /\ r \in N /\ Len(q) \in Nat /\ Len(r) \in Nat /\ Cap \in Nat
      /\ <<>> \in N
  BY <1>1, TunnelAssumption, LenProperties, EmptySeq DEF Typed
<1>3. /\ held \in [Clients -> [Sides -> N]] /\ fromHost \in [Clients -> [Sides -> N]]
      /\ forwarder \in [Clients -> [Sides -> FState]]
  BY DEF Typed
<1>4. /\ forwarder[c][s] = "send"
      /\ UNCHANGED <<listening, handler, peers, toHost, sent, got, sockets>>
  BY DEF Send
<1>5. \/ /\ NobodyAt(c, o)
         /\ held' = [held EXCEPT ![c][s] = <<>>]
         /\ forwarder' = [forwarder EXCEPT ![c][s] = "recv"]
         /\ fromHost' = fromHost
      \/ /\ shut[c][o] \/ broken[c][o] # "no"
         /\ held' = [held EXCEPT ![c][s] = <<>>]
         /\ forwarder' = [forwarder EXCEPT ![c][s] = "killed"]
         /\ fromHost' = fromHost
      \/ /\ Passable(c, o) /\ room > 0
         /\ \E n : /\ n = Min({room, Len(q)})
                   /\ fromHost' = [fromHost EXCEPT ![c][o] = r \o SubSeq(q, 1, n)]
                   /\ held' = [held EXCEPT ![c][s] = SubSeq(q, n + 1, Len(q))]
                   /\ forwarder' = [forwarder EXCEPT ![c][s] =
                                      IF n = Len(q) THEN "recv" ELSE "send"]
  <2>1. \A n : /\ [fromHost EXCEPT ![c][o] = @ \o SubSeq(q, 1, n)]
                    = [fromHost EXCEPT ![c][o] = r \o SubSeq(q, 1, n)]
               /\ [held EXCEPT ![c][s] = SubSeq(@, n + 1, Len(@))]
                    = [held EXCEPT ![c][s] = SubSeq(q, n + 1, Len(q))]
    BY <1>1, <1>3
  <2>2. QED BY <2>1 DEF Send, Passable, NobodyAt
<1>6. ASSUME NEW h \in N, NEW r2 \in N, NEW to \in FState,
             held' = [held EXCEPT ![c][s] = h],
             fromHost' = [fromHost EXCEPT ![c][o] = r2],
             forwarder' = [forwarder EXCEPT ![c][s] = to]
      PROVE  /\ Typed' /\ held'[c][s] = h /\ fromHost'[c][o] = r2 /\ forwarder'[c][s] = to
             /\ \A x \in Clients, y \in Sides : x # c \/ y # s =>
                  held'[x][y] = held[x][y] /\ forwarder'[x][y] = forwarder[x][y]
             /\ \A x \in Clients, y \in Sides :
                  x # c \/ y # o => fromHost'[x][y] = fromHost[x][y]
  <2> HIDE DEF N, o
  <2>1. /\ held' \in [Clients -> [Sides -> N]] /\ held'[c][s] = h
        /\ \A x \in Clients, y \in Sides : x # c \/ y # s => held'[x][y] = held[x][y]
    BY <1>3, <1>6, OneSide
  <2>2. /\ fromHost' \in [Clients -> [Sides -> N]] /\ fromHost'[c][o] = r2
        /\ \A x \in Clients, y \in Sides : x # c \/ y # o => fromHost'[x][y] = fromHost[x][y]
    BY <1>1, <1>3, <1>6, OneSide
  <2>3. /\ forwarder' \in [Clients -> [Sides -> FState]] /\ forwarder'[c][s] = to
        /\ \A x \in Clients, y \in Sides :
             x # c \/ y # s => forwarder'[x][y] = forwarder[x][y]
    BY <1>3, <1>6, OneSide
  <2>4. Typed'
    BY <1>4, <2>1, <2>2, <2>3 DEF Typed, N, listening, peers, sockets
  <2>5. QED BY <2>1, <2>2, <2>3, <2>4
<1>7. CASE /\ held' = [held EXCEPT ![c][s] = <<>>] /\ fromHost' = fromHost
           /\ \/ /\ NobodyAt(c, o)
                 /\ forwarder' = [forwarder EXCEPT ![c][s] = "recv"]
              \/ /\ shut[c][o] \/ broken[c][o] # "no"
                 /\ forwarder' = [forwarder EXCEPT ![c][s] = "killed"]
  <2>1. fromHost' = [fromHost EXCEPT ![c][o] = r]
    BY <1>1, <1>3, <1>7
  <2>2. "recv" \in FState /\ "killed" \in FState
    BY DEF FState
  <2> HIDE DEF N, o, r
  <2>3. CASE NobodyAt(c, o) /\ forwarder' = [forwarder EXCEPT ![c][s] = "recv"]
    BY <1>2, <1>4, <1>6, <1>7, <2>1, <2>2, <2>3, ZenonT(40) DEF o
  <2>4. CASE /\ shut[c][o] \/ broken[c][o] # "no"
             /\ forwarder' = [forwarder EXCEPT ![c][s] = "killed"]
    BY <1>2, <1>4, <1>6, <1>7, <2>1, <2>2, <2>4, ZenonT(40) DEF o
  <2>5. QED BY <1>7, <2>3, <2>4
<1>8. CASE /\ Passable(c, o) /\ room > 0
           /\ \E n : /\ n = Min({room, Len(q)})
                     /\ fromHost' = [fromHost EXCEPT ![c][o] = r \o SubSeq(q, 1, n)]
                     /\ held' = [held EXCEPT ![c][s] = SubSeq(q, n + 1, Len(q))]
                     /\ forwarder' = [forwarder EXCEPT ![c][s] =
                                        IF n = Len(q) THEN "recv" ELSE "send"]
  <2>1. PICK n : /\ n = Min({room, Len(q)})
                 /\ fromHost' = [fromHost EXCEPT ![c][o] = r \o SubSeq(q, 1, n)]
                 /\ held' = [held EXCEPT ![c][s] = SubSeq(q, n + 1, Len(q))]
                 /\ forwarder' = [forwarder EXCEPT ![c][s] =
                                    IF n = Len(q) THEN "recv" ELSE "send"]
    BY <1>8
  <2>2. n \in 0..Len(q) /\ Len(r) + n <= Cap /\ Len(r) < Cap
    <3> DEFINE lr == Len(r)
               lq == Len(q)
    <3>1. lr \in Nat /\ lq \in Nat /\ Cap \in Nat /\ Cap - lr > 0 /\ n = Min({Cap - lr, lq})
      BY <1>2, <1>8, <2>1
    <3> HIDE DEF lr, lq
    <3>2. Cap - lr \in Nat
      BY <3>1
    <3>3. n \in Nat /\ n <= Cap - lr /\ n <= lq
      BY <3>1, <3>2, MinOfTwo
    <3>4. n \in 0..lq /\ lr + n <= Cap /\ lr < Cap
      BY <3>1, <3>3
    <3>5. QED BY <3>4 DEF lr, lq
  <2>3. SubSeq(q, 1, n) \in N /\ SubSeq(q, n + 1, Len(q)) \in N
    <3>1. \A i \in 1..Len(q) : q[i] \in Nat
      BY <1>2, ElementOfSeq
    <3> HIDE DEF q
    <3>2. /\ \A i \in 1..n : q[i] \in Nat
          /\ \A i \in n + 1..Len(q) : q[i] \in Nat
          /\ n \in Int /\ n + 1 \in Int /\ Len(q) \in Int
      BY <1>2, <2>2, <3>1
    <3>3. QED BY <3>2, SubSeqProperties
  <2>4. r \o SubSeq(q, 1, n) \in N
    BY <1>2, <2>3, ConcatProperties
  <2>5. (IF n = Len(q) THEN "recv" ELSE "send") \in FState
    BY DEF FState
  <2> HIDE DEF N, o, r, q
  <2>6. /\ Typed' /\ held'[c][s] = SubSeq(q, n + 1, Len(q))
        /\ fromHost'[c][o] = r \o SubSeq(q, 1, n)
        /\ forwarder'[c][s] = IF n = Len(q) THEN "recv" ELSE "send"
        /\ \A x \in Clients, y \in Sides : x # c \/ y # s =>
             held'[x][y] = held[x][y] /\ forwarder'[x][y] = forwarder[x][y]
        /\ \A x \in Clients, y \in Sides : x # c \/ y # o => fromHost'[x][y] = fromHost[x][y]
    BY <1>6, <2>1, <2>3, <2>4, <2>5
  <2>7. QED BY <1>4, <1>8, <2>2, <2>6 DEF o, r, q
<1>9. QED BY <1>5, <1>7, <1>8

\* What a shutdown does: what the side had sent and was not received is gone.
LEMMA ShutDownEffect ==
  ASSUME Typed, NEW c \in Clients, NEW s \in Sides, NEW z \in Sides,
         NEW from, NEW to \in FState, ShutDown(c, s, from, to, z)
  PROVE  /\ Typed' /\ forwarder[c][s] = from /\ forwarder'[c][s] = to
         /\ UNCHANGED <<listening, handler, held, peers, fromHost, broken, sent, got>>
         /\ \A x \in Clients, y \in Sides :
              x # c \/ y # s => forwarder'[x][y] = forwarder[x][y]
         /\ shut'[c][z] /\ toHost'[c][z] = <<>>
         /\ \A x \in Clients, y \in Sides : x # c \/ y # z =>
              shut'[x][y] = shut[x][y] /\ toHost'[x][y] = toHost[x][y]
<1> DEFINE N == Seq(Nat)
<1>1. /\ toHost \in [Clients -> [Sides -> N]] /\ shut \in [Clients -> [Sides -> BOOLEAN]]
      /\ forwarder \in [Clients -> [Sides -> FState]] /\ <<>> \in N
  BY EmptySeq DEF Typed
<1>2. /\ forwarder' = [forwarder EXCEPT ![c][s] = to]
      /\ shut' = [shut EXCEPT ![c][z] = TRUE] /\ toHost' = [toHost EXCEPT ![c][z] = <<>>]
      /\ UNCHANGED <<listening, handler, held, peers, fromHost, broken, sent, got>>
      /\ forwarder[c][s] = from
  BY DEF ShutDown
<1> HIDE DEF N
<1>3. /\ forwarder' \in [Clients -> [Sides -> FState]] /\ forwarder'[c][s] = to
      /\ \A x \in Clients, y \in Sides :
           x # c \/ y # s => forwarder'[x][y] = forwarder[x][y]
  BY <1>1, <1>2, OneSide
<1>4. /\ shut' \in [Clients -> [Sides -> BOOLEAN]] /\ shut'[c][z] = TRUE
      /\ \A x \in Clients, y \in Sides : x # c \/ y # z => shut'[x][y] = shut[x][y]
  <2> DEFINE B == BOOLEAN
             yes == TRUE
  <2>1. /\ yes \in B /\ shut \in [Clients -> [Sides -> B]]
        /\ shut' = [shut EXCEPT ![c][z] = yes]
    BY <1>1, <1>2
  <2> HIDE DEF B, yes
  <2>2. /\ shut' \in [Clients -> [Sides -> B]] /\ shut'[c][z] = yes
        /\ \A x \in Clients, y \in Sides : x # c \/ y # z => shut'[x][y] = shut[x][y]
    BY <2>1, OneSide
  <2>3. QED BY <2>2 DEF B, yes
<1>5. /\ toHost' \in [Clients -> [Sides -> N]] /\ toHost'[c][z] = <<>>
      /\ \A x \in Clients, y \in Sides : x # c \/ y # z => toHost'[x][y] = toHost[x][y]
  BY <1>1, <1>2, OneSide
<1>6. Typed'
  BY <1>2, <1>3, <1>4, <1>5 DEF Typed, N, listening, peers
<1>7. QED BY <1>2, <1>3, <1>4, <1>5, <1>6, ZenonT(40)

\* What the handler's steps do.
LEMMA ConnectEffect ==
  ASSUME Typed, NEW c \in Clients, Connect(c)
  PROVE  /\ Typed' /\ handler[c] = "connect"
         /\ UNCHANGED <<listening, forwarder, held, reads, streams, sockets>>
         /\ \A x \in Clients : x # c => handler'[x] = handler[x]
         /\ \A x \in Clients, y \in Sides :
              x # c \/ y # "device" => peer'[x][y] = peer[x][y]
         /\ peer'[c]["device"] \in {"open", "refused", "nobody"}
         /\ handler'[c] = IF peer'[c]["device"] = "refused" THEN "done" ELSE "forkIn"
<1>1. PICK p \in {"open", "refused", "nobody"} :
         /\ peer' = [peer EXCEPT ![c]["device"] = p]
         /\ handler' = [handler EXCEPT ![c] = IF p = "refused" THEN "done" ELSE "forkIn"]
  BY DEF Connect
<1>2. /\ handler[c] = "connect"
      /\ UNCHANGED <<listening, forwarder, held, reads, streams, sockets>>
  BY DEF Connect
<1>3. /\ peer \in [Clients -> [Sides -> PState]] /\ p \in PState /\ "device" \in Sides
      /\ handler \in [Clients -> HState]
      /\ (IF p = "refused" THEN "done" ELSE "forkIn") \in HState
  BY DEF Typed, PState, HState, Sides
<1>4. /\ peer' \in [Clients -> [Sides -> PState]] /\ peer'[c]["device"] = p
      /\ \A x \in Clients, y \in Sides :
           x # c \/ y # "device" => peer'[x][y] = peer[x][y]
  BY <1>1, <1>3, OneSide
<1>5. /\ handler' \in [Clients -> HState]
      /\ handler'[c] = IF p = "refused" THEN "done" ELSE "forkIn"
      /\ \A x \in Clients : x # c => handler'[x] = handler[x]
  BY <1>1, <1>3
<1>6. Typed'
  BY <1>2, <1>4, <1>5 DEF Typed, listening, streams, sockets
<1>7. QED BY <1>1, <1>2, <1>4, <1>5, <1>6

\* What a fork of a forwarder changes: the handler and the forwarder, which
\* receives or, when the fork fails, is missing.
LEMMA ForkForwarderEffect ==
  ASSUME Typed, NEW c \in Clients, ForkForwarder(c)
  PROVE  /\ Typed' /\ handler[c] \in {"forkIn", "forkOut"}
         /\ UNCHANGED <<listening, held, peers, streams, sockets>>
         /\ \A x \in Clients : x # c => handler'[x] = handler[x]
         /\ handler'[c] = IF handler[c] = "forkIn" THEN "forkOut" ELSE "close"
         /\ \E s \in Sides :
              /\ s = IF handler[c] = "forkIn" THEN "client" ELSE "device"
              /\ forwarder'[c][s] \in {"recv", "missing"}
              /\ \A x \in Clients, y \in Sides :
                   x # c \/ y # s => forwarder'[x][y] = forwarder[x][y]
<1> DEFINE s == IF handler[c] = "forkIn" THEN "client" ELSE "device"
           to == IF ForkOK THEN "recv" ELSE "missing"
<1>1. /\ handler[c] \in {"forkIn", "forkOut"}
      /\ forwarder' = [forwarder EXCEPT ![c][s] = to]
      /\ handler' = [handler EXCEPT ![c] = IF @ = "forkIn" THEN "forkOut" ELSE "close"]
      /\ UNCHANGED <<listening, held, peers, streams, sockets>>
  BY DEF ForkForwarder
<1>2. /\ forwarder \in [Clients -> [Sides -> FState]] /\ to \in FState /\ s \in Sides
      /\ to \in {"recv", "missing"} /\ handler \in [Clients -> HState]
  BY DEF Typed, FState, Sides
<1>3. /\ handler' \in [Clients -> HState]
      /\ \A x \in Clients : x # c => handler'[x] = handler[x]
      /\ handler'[c] = IF handler[c] = "forkIn" THEN "forkOut" ELSE "close"
  BY <1>1, <1>2 DEF HState
<1> HIDE DEF to, s
<1>4. /\ forwarder' \in [Clients -> [Sides -> FState]] /\ forwarder'[c][s] = to
      /\ \A x \in Clients, y \in Sides :
           x # c \/ y # s => forwarder'[x][y] = forwarder[x][y]
  BY <1>1, <1>2, OneSide
<1>5. Typed'
  BY <1>1, <1>3, <1>4 DEF Typed, listening, peers, streams, sockets
<1>6. \E y \in Sides :
         /\ y = IF handler[c] = "forkIn" THEN "client" ELSE "device"
         /\ forwarder'[c][y] \in {"recv", "missing"}
         /\ \A x \in Clients, z \in Sides :
              x # c \/ z # y => forwarder'[x][z] = forwarder[x][z]
  BY <1>2, <1>4 DEF s
<1>7. QED BY <1>1, <1>3, <1>5, <1>6

\* What the end of the handler changes: it is done.
LEMMA HandlerClosesEffect ==
  ASSUME Typed, NEW c \in Clients, HandlerCloses(c)
  PROVE  /\ Typed' /\ handler[c] = "close" /\ handler'[c] = "done"
         /\ UNCHANGED <<listening, forwarder, held, peers, streams, sockets>>
         /\ \A x \in Clients : x # c => handler'[x] = handler[x]
<1>1. /\ handler[c] = "close" /\ handler' = [handler EXCEPT ![c] = "done"]
      /\ UNCHANGED <<listening, forwarder, held, peers, streams, sockets>>
  BY DEF HandlerCloses
<1>2. /\ handler' \in [Clients -> HState] /\ handler'[c] = "done"
      /\ \A x \in Clients : x # c => handler'[x] = handler[x]
  BY <1>1 DEF Typed, HState
<1>3. Typed'
  BY <1>1, <1>2 DEF Typed, listening, peers, streams, sockets
<1>4. QED BY <1>1, <1>2, <1>3

\* What the two sides do.
LEMMA ClientConnectsEffect ==
  ASSUME Typed, NEW c \in Clients, ClientConnects(c)
  PROVE  /\ Typed' /\ peer[c]["client"] = "none" /\ peer'[c]["client"] = "open"
         /\ UNCHANGED <<listener, arg, tuns, ready, new, handler, forwarder, held, reads,
                        streams, sockets>>
         /\ \A x \in Clients, y \in Sides :
              x # c \/ y # "client" => peer'[x][y] = peer[x][y]
         /\ PortOf[c] \in Ports
         /\ \A p \in Ports : backlog'[p] = IF p = PortOf[c] THEN Append(backlog[p], c)
                                           ELSE backlog[p]
<1> DEFINE p == PortOf[c]
<1>1. /\ peer[c]["client"] = "none"
      /\ peer' = [peer EXCEPT ![c]["client"] = "open"]
      /\ backlog' = [backlog EXCEPT ![p] = Append(@, c)]
      /\ UNCHANGED <<listener, arg, tuns, ready, new, handler, forwarder, held, reads,
                     streams, sockets>>
  BY DEF ClientConnects
<1>2. /\ peer \in [Clients -> [Sides -> PState]] /\ "open" \in PState /\ "client" \in Sides
      /\ backlog \in [Ports -> Seq(Clients)] /\ p \in Ports
  BY TunnelAssumption DEF Typed, PState, Sides
<1>3. /\ peer' \in [Clients -> [Sides -> PState]] /\ peer'[c]["client"] = "open"
      /\ \A x \in Clients, y \in Sides :
           x # c \/ y # "client" => peer'[x][y] = peer[x][y]
  BY <1>1, <1>2, OneSide
<1> HIDE DEF p
<1>4. Append(backlog[p], c) \in Seq(Clients)
  BY <1>2, AppendProperties
<1>5. /\ backlog' \in [Ports -> Seq(Clients)]
      /\ \A x \in Ports : backlog'[x] = IF x = p THEN Append(backlog[x], c) ELSE backlog[x]
  BY <1>1, <1>2, <1>4
<1>6. Typed'
  BY <1>1, <1>3, <1>5 DEF Typed, streams, sockets
<1>7. QED BY <1>1, <1>2, <1>3, <1>5, <1>6 DEF p

\* What a peer changes when it sends: the bytes that are under way to the host.
LEMMA PeerSendsEffect ==
  ASSUME Typed, NEW c \in Clients, NEW s \in Sides, PeerSends(c, s)
  PROVE  /\ Typed' /\ peer[c][s] = "open"
         /\ UNCHANGED <<listening, handler, forwarder, held, peers, fromHost, got, sockets>>
         /\ sent[c][s] < ToSend[c][s] /\ sent'[c][s] = sent[c][s] + 1
         /\ toHost'[c][s] = IF Told(c, s) THEN toHost[c][s]
                            ELSE Append(toHost[c][s], sent[c][s] + 1)
         /\ \A x \in Clients, y \in Sides : x # c \/ y # s =>
              sent'[x][y] = sent[x][y] /\ toHost'[x][y] = toHost[x][y]
<1> DEFINE N == Seq(Nat)
           q == toHost[c][s]
           r == IF Told(c, s) THEN q ELSE Append(q, sent[c][s] + 1)
           k == sent[c][s] + 1
<1>1. /\ toHost \in [Clients -> [Sides -> N]] /\ sent \in [Clients -> [Sides -> Nat]]
      /\ q \in N /\ sent[c][s] \in Nat
  BY DEF Typed
<1>2. /\ peer[c][s] = "open" /\ sent[c][s] < ToSend[c][s]
      /\ UNCHANGED <<listening, handler, forwarder, held, peers, fromHost, got, sockets>>
  BY DEF PeerSends
<1>3. sent' = [sent EXCEPT ![c][s] = k] /\ toHost' = [toHost EXCEPT ![c][s] = r]
  BY <1>1 DEF PeerSends
<1>4. k \in Nat /\ Append(q, k) \in N
  BY <1>1, AppendProperties
<1>5. r \in N
  BY <1>1, <1>4
<1> HIDE DEF N, r, k
<1>6. /\ sent' \in [Clients -> [Sides -> Nat]] /\ sent'[c][s] = k
      /\ \A x \in Clients, y \in Sides : x # c \/ y # s => sent'[x][y] = sent[x][y]
  BY <1>1, <1>3, <1>4, OneSide
<1>7. /\ toHost' \in [Clients -> [Sides -> N]] /\ toHost'[c][s] = r
      /\ \A x \in Clients, y \in Sides : x # c \/ y # s => toHost'[x][y] = toHost[x][y]
  BY <1>1, <1>3, <1>5, OneSide
<1>8. Typed'
  BY <1>2, <1>6, <1>7 DEF Typed, N, listening, peers, sockets
<1>9. QED BY <1>2, <1>6, <1>7, <1>8 DEF r, k

\* What a peer changes when it reads: the bytes that were under way to it.
LEMMA PeerReadsEffect ==
  ASSUME Typed, NEW c \in Clients, NEW s \in Sides, PeerReads(c, s)
  PROVE  /\ Typed' /\ fromHost[c][s] # <<>>
         /\ UNCHANGED <<listening, handler, forwarder, held, peers, toHost, sent, sockets>>
         /\ got'[c][s] = Append(got[c][s], Head(fromHost[c][s]))
         /\ fromHost'[c][s] = Tail(fromHost[c][s])
         /\ \A x \in Clients, y \in Sides : x # c \/ y # s =>
              got'[x][y] = got[x][y] /\ fromHost'[x][y] = fromHost[x][y]
<1> DEFINE N == Seq(Nat)
           q == fromHost[c][s]
           r == Append(got[c][s], Head(q))
           u == Tail(q)
<1>1. /\ got \in [Clients -> [Sides -> N]] /\ fromHost \in [Clients -> [Sides -> N]]
      /\ q \in N /\ got[c][s] \in N
  BY DEF Typed
<1>2. /\ q # <<>> /\ UNCHANGED <<listening, handler, forwarder, held, peers, toHost, sent, sockets>>
  BY DEF PeerReads
<1>3. got' = [got EXCEPT ![c][s] = r] /\ fromHost' = [fromHost EXCEPT ![c][s] = u]
  BY <1>1 DEF PeerReads
<1>4. r \in N /\ u \in N
  <2> HIDE DEF q
  <2>1. Head(q) \in Nat /\ Tail(q) \in Seq(Nat)
    BY <1>1, <1>2, HeadTailProperties
  <2>2. QED BY <1>1, <2>1, AppendProperties
<1> HIDE DEF N, r, u
<1>5. /\ got' \in [Clients -> [Sides -> N]] /\ got'[c][s] = r
      /\ \A x \in Clients, y \in Sides : x # c \/ y # s => got'[x][y] = got[x][y]
  BY <1>1, <1>3, <1>4, OneSide
<1>6. /\ fromHost' \in [Clients -> [Sides -> N]] /\ fromHost'[c][s] = u
      /\ \A x \in Clients, y \in Sides : x # c \/ y # s => fromHost'[x][y] = fromHost[x][y]
  BY <1>1, <1>3, <1>4, OneSide
<1>7. Typed'
  BY <1>2, <1>5, <1>6 DEF Typed, N, listening, peers, sockets
<1>8. QED BY <1>2, <1>5, <1>6, <1>7 DEF r, u

\* A side goes on to an end, whatever of it, and nobody reads any more.
LEMMA PeerGoesEffect ==
  ASSUME Typed, NEW c \in Clients, NEW s \in Sides, NEW p \in PState,
         peer' = [peer EXCEPT ![c][s] = p] \/ (p = peer[c][s] /\ peer' = peer),
         UNCHANGED <<listening, handler, forwarder, held, reads, toHost, shut, sent, got>>,
         UNCHANGED <<fromHost, broken>> \/ Reset(c, s)
  PROVE  /\ Typed' /\ peer'[c][s] = p
         /\ \A x \in Clients, y \in Sides : x # c \/ y # s =>
              /\ peer'[x][y] = peer[x][y] /\ broken'[x][y] = broken[x][y]
              /\ fromHost'[x][y] = fromHost[x][y]
         /\ \/ broken'[c][s] = broken[c][s] /\ fromHost'[c][s] = fromHost[c][s]
            \/ broken'[c][s] = "pending" /\ fromHost'[c][s] = <<>>
<1> DEFINE N == Seq(Nat)
           B == {"no", "pending", "taken"}
<1>1. /\ peer \in [Clients -> [Sides -> PState]] /\ fromHost \in [Clients -> [Sides -> N]]
      /\ broken \in [Clients -> [Sides -> B]] /\ <<>> \in N /\ "pending" \in B
  BY EmptySeq DEF Typed
<1> HIDE DEF N, B
<1>2. /\ peer' \in [Clients -> [Sides -> PState]] /\ peer'[c][s] = p
      /\ \A x \in Clients, y \in Sides : x # c \/ y # s => peer'[x][y] = peer[x][y]
  <2>1. CASE peer' = [peer EXCEPT ![c][s] = p]
    BY <1>1, <2>1, OneSide
  <2>2. CASE p = peer[c][s] /\ peer' = peer
    BY <1>1, <2>2
  <2>3. QED BY <2>1, <2>2
<1>3. /\ broken' \in [Clients -> [Sides -> B]] /\ fromHost' \in [Clients -> [Sides -> N]]
      /\ \A x \in Clients, y \in Sides : x # c \/ y # s =>
           broken'[x][y] = broken[x][y] /\ fromHost'[x][y] = fromHost[x][y]
      /\ \/ broken'[c][s] = broken[c][s] /\ fromHost'[c][s] = fromHost[c][s]
         \/ broken'[c][s] = "pending" /\ fromHost'[c][s] = <<>>
  <2>1. CASE UNCHANGED <<fromHost, broken>>
    BY <1>1, <2>1
  <2>2. CASE Reset(c, s)
    <3>1. /\ broken' = [broken EXCEPT ![c][s] = "pending"]
          /\ fromHost' = [fromHost EXCEPT ![c][s] = <<>>]
      BY <2>2 DEF Reset
    <3>2. /\ broken' \in [Clients -> [Sides -> B]] /\ broken'[c][s] = "pending"
          /\ \A x \in Clients, y \in Sides : x # c \/ y # s => broken'[x][y] = broken[x][y]
      BY <1>1, <3>1, OneSide
    <3>3. /\ fromHost' \in [Clients -> [Sides -> N]] /\ fromHost'[c][s] = <<>>
          /\ \A x \in Clients, y \in Sides :
               x # c \/ y # s => fromHost'[x][y] = fromHost[x][y]
      BY <1>1, <3>1, OneSide
    <3>4. QED BY <3>2, <3>3
  <2>3. QED BY <2>1, <2>2
<1>4. Typed'
  BY <1>2, <1>3 DEF Typed, N, B, listening
<1>5. QED BY <1>2, <1>3, <1>4

-----------------------------------------------------------------------------
(* What no step undoes, and what a step leaves alone.                       *)

\* What was said to a side, and what a side has done, stays so.
Onwards == \A c \in Clients, s \in Sides :
    /\ Fresh(c, s)' => Fresh(c, s)
    /\ Passable(c, s)' => Passable(c, s)
    /\ Told(c, s) => Told(c, s)'
    /\ Ended(c, s)' => Ended(c, s) \/ peer[c][s] = "open"

\* A side that was told stays told unless a forwarder begins once the host has closed.
LEMMA StaysToldOf ==
  ASSUME NEW c \in Clients,
         \A y \in Sides : shut[c][y] => shut'[c][y],
         handler[c] \in {"done", "dropped"} => handler'[c] = handler[c],
         \/ \A y \in Sides : Running(c, y)' => Running(c, y)
         \/ ~Closed(c)
  PROVE  \A s \in Sides : Told(c, s) => Told(c, s)'
<1>1. Closed(c) => Closed(c)'
  BY DEF Closed, Sides
<1>2. QED BY <1>1 DEF Told

\* How much each side sends is a number.
LEMMA ToSendIsNat ==
  ASSUME NEW c \in Clients, NEW s \in Sides
  PROVE  ToSend[c][s] \in Nat
BY TunnelAssumption

\* The numbers of a flow are no larger than what may be sent.
LEMMA FlowIsWitness ==
  ASSUME NEW c \in Clients, NEW s \in Sides, Typed',
         NEW g \in Nat, NEW f \in Nat, NEW b \in Nat, NEW h \in Nat, NEW t \in Nat,
         Flow(c, s, g, f, b, h, t)'
  PROVE  FlowsAt(c, s)'
<1>1. sent'[c][s] \in Nat
  BY DEF Typed
<1>2. g + f <= b /\ b + h + t <= sent'[c][s] /\ sent'[c][s] <= ToSend[c][s]
  BY DEF Flow
<1> DEFINE m == ToSend[c][s]
<1>3. g \in 0..m /\ f \in 0..m /\ b \in 0..m /\ h \in 0..m /\ t \in 0..m
  BY <1>1, <1>2, ToSendIsNat
<1>4. QED BY <1>3 DEF FlowsAt

\* Two states that agree on a direction's bytes, and in which no more of them may
\* be missing than before, have the same runs of bytes.
LEMMA FlowKept ==
  ASSUME NEW c \in Clients, NEW s \in Sides, Typed', Onwards,
         NEW g \in Nat, NEW f \in Nat, NEW b \in Nat, NEW h \in Nat, NEW t \in Nat,
         Flow(c, s, g, f, b, h, t),
         got'[c][Other(s)] = got[c][Other(s)], fromHost'[c][Other(s)] = fromHost[c][Other(s)],
         held'[c][s] = held[c][s], toHost'[c][s] = toHost[c][s], sent'[c][s] = sent[c][s],
         forwarder'[c][s] # "send" => h = 0,
         forwarder'[c][s] = "failed" \/ Leaving(c, s)' =>
           (Fresh(c, Other(s))' /\ Ended(c, s)' => t = 0 /\ g + f = sent[c][s])
  PROVE  FlowsAt(c, s)'
<1>1. Other(s) \in Sides
  BY OtherSide
<1>2. (Passable(c, Other(s))' => Passable(c, Other(s))) /\ (~Told(c, s)' => ~Told(c, s))
  BY <1>1 DEF Onwards
<1>3. Flow(c, s, g, f, b, h, t)'
  BY <1>2 DEF Flow
<1>4. QED BY <1>3, FlowIsWitness

\* The runs of bytes stay when a step changes none of the direction's bytes and
\* its forwarder at most begins.
LEMMA FlowStays ==
  ASSUME NEW c \in Clients, NEW s \in Sides, Typed', Onwards, Endings, FlowsAt(c, s),
         got'[c][Other(s)] = got[c][Other(s)], fromHost'[c][Other(s)] = fromHost[c][Other(s)],
         held'[c][s] = held[c][s], toHost'[c][s] = toHost[c][s], sent'[c][s] = sent[c][s],
         \/ forwarder'[c][s] = forwarder[c][s]
         \/ forwarder[c][s] = "none" /\ forwarder'[c][s] \in {"recv", "missing"}
  PROVE  FlowsAt(c, s)'
<1>1. PICK g, f, b, h, t \in 0..ToSend[c][s] : Flow(c, s, g, f, b, h, t)
  BY DEF FlowsAt
<1>2. g \in Nat /\ f \in Nat /\ b \in Nat /\ h \in Nat /\ t \in Nat
  BY ToSendIsNat
<1>3. Other(s) \in Sides /\ (\A z \in Sides : z = s \/ z = Other(s))
  BY OtherSide
<1>4. forwarder'[c][s] # "send" => h = 0
  BY <1>1 DEF Flow
<1>5. ASSUME forwarder'[c][s] = "failed" \/ Leaving(c, s)', Fresh(c, Other(s))', Ended(c, s)'
      PROVE  t = 0 /\ g + f = sent[c][s]
  <2>1. Fresh(c, Other(s)) /\ (Ended(c, s) \/ peer[c][s] = "open")
    BY <1>3, <1>5 DEF Onwards
  <2>2. forwarder[c][s] = "failed" \/ Leaving(c, s)
    BY <1>5 DEF Leaving
  <2>3. ~Fresh(c, s)
    BY <1>3, <2>1, <2>2 DEF Endings, Fresh
  <2>4. Ended(c, s)
    BY <2>1, <2>3 DEF Fresh
  <2>5. QED BY <1>1, <2>1, <2>2, <2>4 DEF Flow
<1>6. QED BY <1>1, <1>2, <1>4, <1>5, FlowKept

\* Nothing moves on a connection on which nobody does anything.
LEMMA FlowingKept ==
  ASSUME Typed', Onwards, Endings, Flowing,
         UNCHANGED <<forwarder, held, toHost, fromHost, sent, got>>
  PROVE  Flowing'
BY FlowStays DEF Flowing

\* A step that leaves the listener alone keeps what is known of its clients, if
\* nobody who had no handler gets one and who has connected stays connected.
LEMMA AcceptingKept ==
  ASSUME Accepting, UNCHANGED listening,
         \A c \in Clients : handler[c] = "none" => handler'[c] = "none",
         \A c \in Clients : peer[c]["client"] \notin {"absent", "none"} =>
                              peer'[c]["client"] \notin {"absent", "none"},
         Typed
  PROVE  Accepting'
<1>1. UNCHANGED <<tuns, ready, new, backlog>>
  BY DEF listening
<1>2. OneTunnelPerPort' /\ ReportedAreThere'
  BY <1>1 DEF Accepting, OneTunnelPerPort, ReportedAreThere
<1>3. \A p \in Ports : \A i \in DOMAIN backlog[p] : backlog[p][i] \in Clients
  <2> TAKE p \in Ports
  <2>1. backlog[p] \in Seq(Clients)
    BY DEF Typed
  <2>2. QED BY <2>1, LenProperties, ElementOfSeq
<1>4. WaitOnce'
  BY <1>1, <1>3 DEF Accepting, WaitOnce
<1>5. NewAreUnhandled'
  BY <1>1 DEF Accepting, NewAreUnhandled, Typed
<1>6. HandledHaveConnected'
  BY DEF Accepting, HandledHaveConnected
<1>7. QED BY <1>2, <1>4, <1>5, <1>6 DEF Accepting

\* A step that moves no handler and starts no forwarder keeps Handling.
LEMMA HandlingKept ==
  ASSUME Handling, UNCHANGED handler,
         \A c \in Clients : peer[c]["device"] \in {"none", "refused"} =>
                              peer'[c]["device"] = peer[c]["device"],
         \A c \in Clients, s \in Sides :
           forwarder[c][s] = "none" <=> forwarder'[c][s] = "none"
  PROVE  Handling'
BY DEF Handling, Sides

\* A side that ends disturbs no forwarder.
LEMMA EndingsKept ==
  ASSUME Endings, Onwards, UNCHANGED <<forwarder, shut>>,
         \A c \in Clients, s \in Sides :
           /\ peer[c][s] \in {"gone", "reset", "nobody"} =>
                peer'[c][s] \in {"gone", "reset", "nobody"}
           /\ broken'[c][s] # "no" => peer'[c][s] \in {"gone", "reset"}
  PROVE  Endings'
<1> SUFFICES ASSUME NEW c \in Clients, NEW s \in Sides
             PROVE  /\ broken'[c][s] # "no" => peer'[c][s] \in {"gone", "reset"}
                    /\ shut[c][s] /\ Fresh(c, s)' => forwarder[c][Other(s)] = "ended"
                    /\ shut[c][s] => \/ forwarder[c][s] \in {"shutOut", "ended"}
                                     \/ forwarder[c][Other(s)] = "ended"
                    /\ Leaving(c, s) /\ Fresh(c, s)' => shut[c][s]
                    /\ shut[c][s] \/ Leaving(c, s) => \E z \in Sides : ~Fresh(c, z)'
                    /\ forwarder[c][s] = "killed" => ~Fresh(c, Other(s))'
                    /\ forwarder[c][s] = "failed" => peer'[c][s] \in {"gone", "reset", "nobody"}
  BY DEF Endings, Leaving
<1>1. Other(s) \in Sides
  BY OtherSide
<1>2. \A z \in Sides : Fresh(c, z)' => Fresh(c, z)
  BY DEF Onwards
<1>3. QED BY <1>1, <1>2 DEF Endings

-----------------------------------------------------------------------------
(* The listener.                                                            *)

\* A step of the listener alone keeps what is known of the connections.
LEMMA ConnectionsKept ==
  ASSUME Inv, Typed', UNCHANGED <<handler, forwarder, held, peers, streams, sockets>>
  PROVE  Handling' /\ Endings' /\ Flowing'
<1>1. /\ UNCHANGED <<handler, forwarder, held, peer>> /\ UNCHANGED <<broken, shut>>
      /\ UNCHANGED <<toHost, fromHost, sent, got>>
  BY DEF peers, streams, sockets
<1>2. Onwards
  BY <1>1 DEF Onwards, Fresh, Passable, Told, Closed, Running, Ended
<1>3. Handling'
  BY <1>1, HandlingKept DEF Inv
<1>4. Endings'
  BY <1>1, <1>2, EndingsKept DEF Inv, Endings
<1>5. Flowing'
  BY <1>1, <1>2, FlowingKept DEF Inv
<1>6. QED BY <1>3, <1>4, <1>5

\* A port is entered once.
LEMMA AddTunnelStep == Inv /\ AddTunnel => Inv'
<1> SUFFICES ASSUME Inv, AddTunnel PROVE Inv'
  OBVIOUS
<1> DEFINE p == Pairs[arg]
<1>0. Typed /\ Accepting
  BY DEF Inv
<1>1. /\ arg <= Len(Pairs) /\ arg' = arg + 1 /\ listener' \in {"setup", "exited"}
      /\ tuns' = tuns \/ (tuns' = Append(tuns, p) /\ p # NoColon /\ ~PortTaken(p))
      /\ UNCHANGED <<ready, new, backlog, handler, forwarder, held, peers, streams, sockets>>
  BY DEF AddTunnel
<1>2. Len(Pairs) \in Nat /\ arg \in 1..Len(Pairs) + 1 /\ Pairs \in Seq(Ports \cup {NoColon})
  BY <1>0, TunnelAssumption, LenProperties DEF Typed
<1>3. arg \in 1..Len(Pairs) /\ arg + 1 \in 1..Len(Pairs) + 1
  BY <1>1, <1>2
<1>4. p \in Ports \cup {NoColon}
  BY <1>2, <1>3, ElementOfSeq
<1>5. tuns \in Seq(Ports) /\ Len(tuns) \in Nat /\ DOMAIN tuns = 1..Len(tuns)
      /\ ready \subseteq 1..Len(tuns)
  BY <1>0, LenProperties DEF Typed
<1>6. /\ tuns' \in Seq(Ports) /\ DOMAIN tuns \subseteq DOMAIN tuns'
      /\ \A i \in DOMAIN tuns : tuns'[i] = tuns[i]
      /\ \A i, j \in DOMAIN tuns' : tuns'[i] = tuns'[j] => i = j
  <2>1. CASE tuns' = tuns
    BY <1>0, <1>5, <2>1 DEF Accepting, OneTunnelPerPort
  <2>2. CASE tuns' = Append(tuns, p) /\ p # NoColon /\ ~PortTaken(p)
    <3>1. p \in Ports
      BY <1>4, <2>2
    <3>2. \A i \in DOMAIN tuns : tuns[i] # p
      BY <2>2 DEF PortTaken
    <3> HIDE DEF p
    <3>3. /\ tuns' \in Seq(Ports) /\ Len(tuns') = Len(tuns) + 1
          /\ \A i \in 1..Len(tuns) : tuns'[i] = tuns[i]
          /\ tuns'[Len(tuns) + 1] = p
      BY <1>5, <2>2, <3>1, AppendProperties
    <3>4. DOMAIN tuns' = 1..Len(tuns) + 1
      BY <3>3, LenProperties
    <3>5. ASSUME NEW i \in DOMAIN tuns', NEW j \in DOMAIN tuns', tuns'[i] = tuns'[j]
          PROVE  i = j
      <4>1. i \in 1..Len(tuns) \/ i = Len(tuns) + 1
        BY <1>5, <3>4
      <4>2. j \in 1..Len(tuns) \/ j = Len(tuns) + 1
        BY <1>5, <3>4
      <4>3. QED BY <1>0, <1>5, <3>2, <3>3, <3>5, <4>1, <4>2 DEF Accepting, OneTunnelPerPort
    <3>6. QED BY <1>5, <3>3, <3>4, <3>5
  <2>3. QED BY <1>1, <2>1, <2>2
<1>7. Typed'
  BY <1>0, <1>1, <1>3, <1>6 DEF Typed, peers, streams, sockets
<1>8. Accepting'
  <2>1. OneTunnelPerPort'
    BY <1>6 DEF OneTunnelPerPort
  <2>2. UNCHANGED <<ready, new, backlog, handler, peer>>
    BY <1>1 DEF peers
  <2>3. ReportedAreThere'
    BY <1>0, <1>6, <2>2 DEF Typed, Accepting, ReportedAreThere
  <2>4. WaitOnce' /\ NewAreUnhandled' /\ HandledHaveConnected'
    BY <1>0, <2>2 DEF Accepting, WaitOnce, NewAreUnhandled, HandledHaveConnected
  <2>5. QED BY <2>1, <2>3, <2>4 DEF Accepting
<1>9. QED BY <1>1, <1>7, <1>8, ConnectionsKept DEF Inv

\* The arguments are all read: the listener goes on to select, or exits.
LEMMA ListenForClientsStep == Inv /\ ListenForClients => Inv'
<1> SUFFICES ASSUME Inv, ListenForClients PROVE Inv'
  OBVIOUS
<1>1. /\ listener' \in {"exited", "select"}
      /\ UNCHANGED <<arg, tuns, ready, new, backlog, handler, forwarder, held, peers,
                     streams, sockets>>
  BY DEF ListenForClients
<1>2. Typed'
  BY <1>1 DEF Inv, Typed, peers, streams, sockets
<1>3. Accepting'
  BY <1>1 DEF Inv, Accepting, OneTunnelPerPort, ReportedAreThere, WaitOnce, NewAreUnhandled,
              HandledHaveConnected, peers
<1>4. QED BY <1>1, <1>2, <1>3, ConnectionsKept DEF Inv

\* What select reports is what waits.
LEMMA SelectStep == Inv /\ Select => Inv'
<1> SUFFICES ASSUME Inv, Select PROVE Inv'
  OBVIOUS
<1>1. /\ ready' = {i \in DOMAIN tuns : backlog[tuns[i]] # <<>>} /\ listener' = "accept"
      /\ UNCHANGED <<arg, tuns, new, backlog, handler, forwarder, held, peers, streams, sockets>>
  BY DEF Select
<1>2. Typed'
  BY <1>1 DEF Inv, Typed, peers, streams, sockets
<1>3. UNCHANGED <<tuns, new, backlog, handler, peer>>
  BY <1>1 DEF peers
<1>4. ReportedAreThere'
  BY <1>1, <1>3 DEF ReportedAreThere
<1>5. (OneTunnelPerPort /\ WaitOnce /\ NewAreUnhandled /\ HandledHaveConnected)'
  BY <1>3 DEF Inv, Accepting, OneTunnelPerPort, WaitOnce, NewAreUnhandled,
              HandledHaveConnected
<1>6. QED BY <1>1, <1>2, <1>4, <1>5, ConnectionsKept DEF Inv, Accepting

\* The client that is accepted waits nowhere any more.
LEMMA AcceptStep == Inv /\ Accept => Inv'
<1> SUFFICES ASSUME Inv, Accept PROVE Inv'
  OBVIOUS
<1>0. Typed /\ Accepting
  BY DEF Inv
<1>1. UNCHANGED <<arg, tuns, handler, forwarder, held, peers, streams, sockets>>
  BY DEF Accept
<1>2. CASE ready = {}
  <2>1. listener' = "select" /\ UNCHANGED <<ready, new, backlog>>
    BY <1>2 DEF Accept
  <2>2. Typed'
    BY <1>0, <1>1, <2>1 DEF Typed, peers, streams, sockets
  <2>3. Accepting'
    BY <1>0, <1>1, <2>1 DEF Accepting, OneTunnelPerPort, ReportedAreThere, WaitOnce,
                            NewAreUnhandled, HandledHaveConnected, peers
  <2>4. QED BY <1>1, <2>2, <2>3, ConnectionsKept DEF Inv
<1>3. CASE ready # {}
  <2> DEFINE k == Min(ready)
             port == tuns[k]
             q == backlog[port]
             c == Head(q)
  <2>1. tuns \in Seq(Ports) /\ DOMAIN tuns = 1..Len(tuns) /\ Len(tuns) \in Nat
    BY <1>0, LenProperties DEF Typed
  <2>2. ready \subseteq 1..Len(tuns)
    BY <1>0, <2>1 DEF Typed
  <2>3. k \in ready
    <3>1. ready \in SUBSET Nat
      BY <2>1, <2>2
    <3>2. QED BY <1>3, <3>1, MinIsElement
  <2>4. /\ ready' = ready \ {k}
        /\ backlog' = [backlog EXCEPT ![port] = Tail(@)]
        /\ new' \in {{}, {c}} /\ listener' \in {"accept", "fork"}
    BY <1>3 DEF Accept
  <2> HIDE DEF k
  <2>5. port \in Ports
    BY <2>1, <2>2, <2>3, ElementOfSeq
  <2>6. q \in Seq(Clients) /\ q # <<>>
    BY <1>0, <2>3, <2>5 DEF Typed, Accepting, ReportedAreThere
  <2> HIDE DEF port
  <2>7. /\ c \in Clients /\ c = q[1] /\ Tail(q) \in Seq(Clients)
        /\ Len(Tail(q)) = Len(q) - 1 /\ Len(q) \in Nat /\ Len(q) >= 1
        /\ \A i \in 1..Len(Tail(q)) : Tail(q)[i] = q[i + 1]
        /\ DOMAIN q = 1..Len(q) /\ DOMAIN Tail(q) = 1..Len(Tail(q))
    <3> HIDE DEF q
    <3>1. /\ Head(q) \in Clients /\ Tail(q) \in Seq(Clients) /\ Len(Tail(q)) = Len(q) - 1
          /\ \A i \in 1..Len(Tail(q)) : Tail(q)[i] = q[i + 1] /\ Head(q) = q[1]
      BY <2>6, HeadTailProperties
    <3>2. Len(q) \in Nat /\ Len(q) # 0 /\ DOMAIN q = 1..Len(q)
      BY <2>6, LenProperties, EmptySeq
    <3>3. DOMAIN Tail(q) = 1..Len(Tail(q))
      BY <3>1, LenProperties
    <3>4. QED BY <3>1, <3>2, <3>3
  <2>8. /\ backlog' \in [Ports -> Seq(Clients)] /\ backlog'[port] = Tail(q)
        /\ \A p \in Ports : p # port => backlog'[p] = backlog[p]
    BY <1>0, <2>4, <2>5, <2>7 DEF Typed
  <2>9. /\ PortOf[c] = port /\ c \notin new /\ handler[c] = "none"
        /\ peer[c]["client"] \notin {"absent", "none"}
        /\ \A j \in 1..Len(q) : q[j] = c => j = 1
    BY <1>0, <2>5, <2>7 DEF Accepting, WaitOnce
  <2> HIDE DEF c, q
  <2>10. Typed'
    BY <1>0, <1>1, <2>4, <2>7, <2>8 DEF Typed, peers, streams, sockets
  <2>11. OneTunnelPerPort'
    BY <1>0, <1>1 DEF Accepting, OneTunnelPerPort
  <2>12. ReportedAreThere'
    <3>1. ASSUME NEW i \in ready' PROVE backlog'[tuns[i]] # <<>>
      <4>1. i \in ready /\ i # k /\ tuns[i] \in Ports
        BY <2>1, <2>2, <2>4, <3>1, ElementOfSeq
      <4>2. tuns[i] # port
        BY <1>0, <2>1, <2>2, <2>3, <4>1 DEF Accepting, OneTunnelPerPort, port
      <4>3. QED BY <1>0, <2>8, <4>1, <4>2 DEF Accepting, ReportedAreThere
    <3>2. QED BY <1>1, <3>1 DEF ReportedAreThere
  <2>13. WaitOnce'
    <3>0. handler' = handler /\ peer' = peer
      BY <1>1 DEF peers
    <3> SUFFICES ASSUME NEW p \in Ports, NEW i \in DOMAIN backlog'[p]
                 PROVE  LET d == backlog'[p][i] IN
                        /\ PortOf[d] = p /\ d \notin new' /\ handler[d] = "none"
                        /\ peer[d]["client"] \notin {"absent", "none"}
                        /\ \A j \in DOMAIN backlog'[p] : backlog'[p][j] = d => i = j
      BY <3>0 DEF WaitOnce
    <3>1. CASE p = port
      <4>1. /\ i \in 1..Len(Tail(q)) /\ i + 1 \in 1..Len(q) /\ i \in Nat
            /\ backlog'[p][i] = q[i + 1]
        BY <2>7, <2>8, <3>1
      <4>2. q[i + 1] # c
        BY <2>9, <4>1
      <4>3. /\ PortOf[q[i + 1]] = p /\ handler[q[i + 1]] = "none"
            /\ peer[q[i + 1]]["client"] \notin {"absent", "none"}
            /\ \A j \in 1..Len(q) : q[j] = q[i + 1] => i + 1 = j
        BY <1>0, <2>5, <2>7, <3>1, <4>1 DEF Accepting, WaitOnce, q
      <4>4. q[i + 1] \notin new'
        BY <2>4, <4>2
      <4>5. ASSUME NEW j \in DOMAIN backlog'[p], backlog'[p][j] = q[i + 1] PROVE i = j
        <5>1. j \in 1..Len(Tail(q)) /\ j + 1 \in 1..Len(q) /\ j \in Nat
              /\ q[j + 1] = q[i + 1]
          BY <2>7, <2>8, <3>1, <4>5
        <5>2. i + 1 = j + 1
          BY <4>3, <5>1
        <5>3. QED BY <4>1, <5>1, <5>2
      <4>6. QED BY <4>1, <4>3, <4>4, <4>5
    <3>2. CASE p # port
      <4>1. /\ PortOf[backlog[p][i]] = p /\ handler[backlog[p][i]] = "none"
            /\ peer[backlog[p][i]]["client"] \notin {"absent", "none"}
            /\ \A j \in DOMAIN backlog[p] : backlog[p][j] = backlog[p][i] => i = j
        BY <1>0, <2>8, <3>2 DEF Accepting, WaitOnce
      <4>2. backlog[p][i] # c
        BY <2>9, <3>2, <4>1
      <4>3. QED BY <2>4, <2>8, <3>2, <4>1, <4>2
    <3>3. QED BY <3>1, <3>2
  <2>14. NewAreUnhandled'
    BY <1>1, <2>4, <2>9 DEF NewAreUnhandled, peers
  <2>15. HandledHaveConnected'
    BY <1>0, <1>1 DEF Accepting, HandledHaveConnected, peers
  <2>16. QED BY <1>1, <2>10, <2>11, <2>12, <2>13, <2>14, <2>15, ConnectionsKept
             DEF Inv, Accepting
<1>4. QED BY <1>2, <1>3

\* A client that was accepted gets a handler, or is dropped.
LEMMA ForkHandlerStep == Inv /\ ForkHandler => Inv'
<1> SUFFICES ASSUME Inv, ForkHandler PROVE Inv'
  OBVIOUS
<1>0. Typed /\ Accepting /\ Handling /\ Endings
  BY DEF Inv
<1>1. /\ new' = {} /\ listener' \in {"accept", "exited"}
      /\ UNCHANGED <<arg, tuns, ready, backlog, forwarder, held, peers, streams, sockets>>
      /\ handler' = [c \in Clients |-> IF c \notin new THEN handler[c]
                                       ELSE IF ForkOK THEN "connect" ELSE "dropped"]
  BY DEF ForkHandler
<1>2. \A c \in Clients :
        handler'[c] = handler[c] \/ (c \in new /\ handler'[c] \in {"connect", "dropped"})
  BY <1>1
<1>3. handler' \in [Clients -> HState]
  BY <1>0, <1>1 DEF Typed, HState
<1>4. Typed'
  BY <1>0, <1>1, <1>3 DEF Typed, peers, streams, sockets
<1>5. UNCHANGED <<forwarder, held, peer, broken, shut, toHost, fromHost, sent, got>>
  BY <1>1 DEF peers, streams, sockets
<1>6. \A c \in Clients : c \in new => handler[c] = "none"
  BY <1>0 DEF Accepting, NewAreUnhandled
<1>7. Onwards
  <2>1. ASSUME NEW c \in Clients PROVE \A s \in Sides : Told(c, s) => Told(c, s)'
    <3>1. handler[c] \in {"done", "dropped"} => handler'[c] = handler[c]
      BY <1>2, <1>6
    <3>2. \A y \in Sides : /\ shut[c][y] => shut'[c][y]
                           /\ Running(c, y)' => Running(c, y)
      BY <1>5 DEF Running
    <3>3. QED BY <3>1, <3>2, StaysToldOf
  <2>2. QED BY <1>5, <2>1 DEF Onwards, Fresh, Passable, Ended
<1>8. Accepting'
  <2>1. \A p \in Ports : \A i \in DOMAIN backlog[p] : backlog[p][i] \in Clients
    <3> TAKE p \in Ports
    <3>1. backlog[p] \in Seq(Clients)
      BY <1>0 DEF Typed
    <3>2. QED BY <3>1, LenProperties, ElementOfSeq
  <2>2. WaitOnce'
    BY <1>0, <1>1, <1>2, <1>5, <2>1 DEF Accepting, WaitOnce
  <2>3. HandledHaveConnected'
    BY <1>0, <1>2, <1>5 DEF Accepting, HandledHaveConnected, NewAreUnhandled
  <2>4. QED BY <1>0, <1>1, <2>2, <2>3 DEF Accepting, OneTunnelPerPort, ReportedAreThere,
                                          NewAreUnhandled
<1>9. Handling'
  BY <1>0, <1>2, <1>5, <1>6 DEF Handling
<1>10. Endings'
  BY <1>0, <1>5, <1>7, EndingsKept DEF Endings
<1>11. Flowing'
  BY <1>0, <1>4, <1>5, <1>7, FlowingKept DEF Inv
<1>12. QED BY <1>4, <1>8, <1>9, <1>10, <1>11 DEF Inv

-----------------------------------------------------------------------------
(* The handler.                                                             *)

\* Connecting is the first that is done with the device's side.
LEMMA ConnectStep == ASSUME Inv, NEW c \in Clients, Connect(c) PROVE Inv'
<1>0. Typed /\ Accepting /\ Handling /\ Endings
  BY DEF Inv
<1>1. /\ Typed' /\ handler[c] = "connect"
      /\ UNCHANGED <<listening, forwarder, held, reads, streams, sockets>>
      /\ \A x \in Clients : x # c => handler'[x] = handler[x]
      /\ \A x \in Clients, y \in Sides : x # c \/ y # "device" => peer'[x][y] = peer[x][y]
      /\ peer'[c]["device"] \in {"open", "refused", "nobody"}
      /\ handler'[c] = IF peer'[c]["device"] = "refused" THEN "done" ELSE "forkIn"
  BY <1>0, ConnectEffect
<1>2. peer[c]["device"] = "none" /\ \A s \in Sides : forwarder[c][s] = "none"
  BY <1>0, <1>1 DEF Handling
<1>3. UNCHANGED <<forwarder, held, broken, shut, toHost, fromHost, sent, got>>
  BY <1>1 DEF streams, sockets
<1>4. \A x \in Clients, y \in Sides :
        \/ peer'[x][y] = peer[x][y]
        \/ peer[x][y] = "none" /\ peer'[x][y] \in {"open", "refused", "nobody"}
  BY <1>1, <1>2 DEF Sides
<1>5. "client" # "device" /\ "client" \in Sides /\ "device" \in Sides
  BY DEF Sides
<1>6. Onwards
  <2>1. ASSUME NEW x \in Clients PROVE \A s \in Sides : Told(x, s) => Told(x, s)'
    <3>1. handler[x] \in {"done", "dropped"} => handler'[x] = handler[x]
      BY <1>1
    <3>2. \A y \in Sides : /\ shut[x][y] => shut'[x][y]
                           /\ Running(x, y)' => Running(x, y)
      BY <1>3 DEF Running
    <3>3. QED BY <3>1, <3>2, StaysToldOf
  <2>2. \A x \in Clients, s \in Sides :
          /\ Fresh(x, s)' => Fresh(x, s)
          /\ Passable(x, s)' => Passable(x, s)
          /\ Ended(x, s)' => Ended(x, s)
    BY <1>3, <1>4 DEF Fresh, Passable, Ended
  <2>3. QED BY <2>1, <2>2 DEF Onwards
<1>7. Accepting'
  BY <1>0, <1>1, <1>5, AcceptingKept
<1>8. Handling'
  BY <1>0, <1>1, <1>2, <1>3, <1>5 DEF Handling
<1>9. Endings'
  <2>1. \A x \in Clients, s \in Sides :
          /\ peer[x][s] \in {"gone", "reset", "nobody"} =>
               peer'[x][s] \in {"gone", "reset", "nobody"}
          /\ broken'[x][s] # "no" => peer'[x][s] \in {"gone", "reset"}
    BY <1>0, <1>3, <1>4 DEF Endings
  <2>2. QED BY <1>0, <1>3, <1>6, <2>1, EndingsKept
<1>10. Flowing'
  BY <1>0, <1>1, <1>3, <1>6, FlowingKept DEF Inv
<1>11. QED BY <1>1, <1>7, <1>8, <1>9, <1>10 DEF Inv

\* A forwarder starts with nothing in its buffer, or does not.
LEMMA ForkForwarderStep == ASSUME Inv, NEW c \in Clients, ForkForwarder(c) PROVE Inv'
<1>0. Typed /\ Accepting /\ Handling /\ Endings
  BY DEF Inv
<1>1. /\ Typed' /\ handler[c] \in {"forkIn", "forkOut"}
      /\ UNCHANGED <<listening, held, peers, streams, sockets>>
      /\ \A x \in Clients : x # c => handler'[x] = handler[x]
      /\ handler'[c] = IF handler[c] = "forkIn" THEN "forkOut" ELSE "close"
  BY <1>0, ForkForwarderEffect
<1>2. PICK s \in Sides :
        /\ s = IF handler[c] = "forkIn" THEN "client" ELSE "device"
        /\ forwarder'[c][s] \in {"recv", "missing"}
        /\ \A x \in Clients, y \in Sides :
             x # c \/ y # s => forwarder'[x][y] = forwarder[x][y]
  BY <1>0, ForkForwarderEffect
<1>3. UNCHANGED <<held, peer, broken, shut, toHost, fromHost, sent, got>>
  BY <1>1 DEF peers, streams, sockets
<1>4. forwarder[c][s] = "none" /\ (handler[c] = "forkOut" => forwarder[c]["client"] # "none")
  BY <1>0, <1>1, <1>2 DEF Handling
<1>5. \A x \in Clients, y \in Sides :
        \/ forwarder'[x][y] = forwarder[x][y]
        \/ forwarder[x][y] = "none" /\ forwarder'[x][y] \in {"recv", "missing"}
  BY <1>2, <1>4
<1>6. Onwards
  <2>1. ASSUME NEW x \in Clients PROVE \A y \in Sides : Told(x, y) => Told(x, y)'
    <3>1. handler[x] \in {"done", "dropped"} => handler'[x] = handler[x]
      BY <1>1
    <3>2. (\A y \in Sides : Running(x, y)' => Running(x, y)) \/ ~Closed(x)
      BY <1>1, <1>2 DEF Running, Closed
    <3>3. \A y \in Sides : shut[x][y] => shut'[x][y]
      BY <1>3
    <3>4. QED BY <3>1, <3>2, <3>3, StaysToldOf
  <2>2. QED BY <1>3, <2>1 DEF Onwards, Fresh, Passable, Ended
<1>7. Accepting'
  BY <1>0, <1>1, <1>3, AcceptingKept
<1>8. Handling'
  <2>1. ASSUME NEW x \in Clients, x # c
        PROVE  /\ handler'[x] = handler[x] /\ peer'[x] = peer[x]
               /\ \A y \in Sides : forwarder'[x][y] = forwarder[x][y]
    BY <1>1, <1>2, <1>3, <2>1
  <2>2. "client" \in Sides /\ "device" \in Sides /\ "client" # "device"
        /\ \A y \in Sides : y = "client" \/ y = "device"
    BY DEF Sides
  <2>3. handler[c] = "forkIn" =>
          forwarder'[c]["device"] = "none" /\ forwarder'[c]["client"] # "none"
    BY <1>0, <1>2, <2>2 DEF Handling
  <2>4. handler[c] = "forkOut" =>
          forwarder'[c]["device"] # "none" /\ forwarder'[c]["client"] # "none"
    BY <1>2, <1>4, <2>2
  <2>5. QED BY <1>0, <1>1, <2>1, <2>2, <2>3, <2>4 DEF Handling
<1>9. Endings'
  <2>1. \A x \in Clients, y \in Sides :
          /\ Leaving(x, y)' <=> Leaving(x, y)
          /\ forwarder[x][y] \in {"shutOut", "ended"} <=> forwarder'[x][y] \in {"shutOut", "ended"}
          /\ forwarder[x][y] = "ended" <=> forwarder'[x][y] = "ended"
          /\ forwarder[x][y] = "killed" <=> forwarder'[x][y] = "killed"
          /\ forwarder[x][y] = "failed" <=> forwarder'[x][y] = "failed"
    BY <1>5 DEF Leaving
  <2>2. \A x \in Clients, y \in Sides : Fresh(x, y)' <=> Fresh(x, y)
    BY <1>3 DEF Fresh
  <2>3. \A y \in Sides : Other(y) \in Sides
    BY OtherSide
  <2>4. QED BY <1>0, <1>3, <2>1, <2>2, <2>3 DEF Endings
<1>10. Flowing'
  <2>1. Flowing
    BY DEF Inv
  <2>2. QED BY <1>0, <1>1, <1>3, <1>5, <1>6, <2>1, FlowStays DEF Flowing
<1>11. QED BY <1>1, <1>7, <1>8, <1>9, <1>10 DEF Inv

\* A handler that has forked its forwarders closes its sockets.
LEMMA HandlerClosesStep == ASSUME Inv, NEW c \in Clients, HandlerCloses(c) PROVE Inv'
<1>0. Typed /\ Accepting /\ Handling /\ Endings
  BY DEF Inv
<1>1. /\ Typed' /\ handler[c] = "close" /\ handler'[c] = "done"
      /\ UNCHANGED <<listening, forwarder, held, peers, streams, sockets>>
      /\ \A x \in Clients : x # c => handler'[x] = handler[x]
  BY <1>0, HandlerClosesEffect
<1>2. UNCHANGED <<forwarder, held, peer, broken, shut, toHost, fromHost, sent, got>>
  BY <1>1 DEF peers, streams, sockets
<1>3. Onwards
  <2>1. ASSUME NEW x \in Clients PROVE \A y \in Sides : Told(x, y) => Told(x, y)'
    <3>1. handler[x] \in {"done", "dropped"} => handler'[x] = handler[x]
      BY <1>1
    <3>2. \A y \in Sides : /\ shut[x][y] => shut'[x][y]
                           /\ Running(x, y)' => Running(x, y)
      BY <1>2 DEF Running
    <3>3. QED BY <3>1, <3>2, StaysToldOf
  <2>2. QED BY <1>2, <2>1 DEF Onwards, Fresh, Passable, Ended
<1>4. Accepting'
  BY <1>0, <1>1, <1>2, AcceptingKept
<1>5. Handling'
  BY <1>0, <1>1, <1>2 DEF Handling
<1>6. Endings'
  BY <1>0, <1>2, <1>3, EndingsKept DEF Endings
<1>7. Flowing'
  BY <1>0, <1>1, <1>2, <1>3, FlowingKept DEF Inv
<1>8. QED BY <1>1, <1>4, <1>5, <1>6, <1>7 DEF Inv

-----------------------------------------------------------------------------
(* The forwarders.                                                          *)

\* While the other side is fresh, a forwarder that still runs has lost nothing.
LEMMA NothingLostYet ==
  ASSUME Inv, NEW c \in Clients, NEW s \in Sides, forwarder[c][s] = "recv",
         Fresh(c, Other(s))
  PROVE  Passable(c, Other(s)) /\ ~Told(c, s)
<1> DEFINE o == Other(s)
<1>1. o \in Sides /\ Other(o) = s
  BY OtherSide
<1>2. ~shut[c][o] /\ broken[c][o] = "no"
  BY <1>1 DEF Inv, Endings, Fresh
<1>3. peer[c][o] # "nobody"
  BY DEF Fresh
<1>4. ~Closed(c)
  BY DEF Closed, Running, Sides
<1>5. ~shut[c][s]
  <2>1. SUFFICES ASSUME shut[c][s] PROVE FALSE
    OBVIOUS
  <2>2. forwarder[c][o] = "ended"
    BY <2>1 DEF Inv, Endings
  <2>3. shut[c][o]
    BY <1>1, <2>2 DEF Inv, Endings, Leaving
  <2>4. QED BY <1>2, <2>3
<1>6. QED BY <1>2, <1>3, <1>4, <1>5 DEF Passable, Told

\* A forwarder receives: what was under way to the host is held, or it ends.
LEMMA ReceiveStep ==
  ASSUME Inv, NEW c \in Clients, NEW s \in Sides, Receive(c, s) PROVE Inv'
<1> DEFINE o == Other(s)
<1>0. Typed /\ Accepting /\ Handling /\ Endings /\ Flowing
  BY DEF Inv
<1>1. /\ Typed' /\ forwarder[c][s] = "recv"
      /\ UNCHANGED <<listening, handler, peers, fromHost, shut, sent, got>>
      /\ \A x \in Clients, y \in Sides : x # c \/ y # s =>
           /\ held'[x][y] = held[x][y] /\ toHost'[x][y] = toHost[x][y]
           /\ forwarder'[x][y] = forwarder[x][y] /\ broken'[x][y] = broken[x][y]
  BY <1>0, ReceiveEffect
<1>2. \/ \E n \in 1..Len(toHost[c][s]) :
           /\ n <= NetBufSize
           /\ held'[c][s] = SubSeq(toHost[c][s], 1, n)
           /\ toHost'[c][s] = SubSeq(toHost[c][s], n + 1, Len(toHost[c][s]))
           /\ forwarder'[c][s] = "send" /\ broken'[c][s] = broken[c][s]
      \/ /\ toHost[c][s] = <<>> /\ toHost'[c][s] = <<>>
         /\ held'[c][s] = held[c][s]
         /\ \/ /\ broken[c][s] = "pending" \/ NobodyAt(c, s)
               /\ broken'[c][s] = IF broken[c][s] = "pending" THEN "taken" ELSE broken[c][s]
               /\ forwarder'[c][s] = "failed"
            \/ /\ broken[c][s] # "pending"
               /\ shut[c][s] \/ broken[c][s] = "taken" \/ Ended(c, s)
               /\ forwarder'[c][s] = "shutIn" /\ broken'[c][s] = broken[c][s]
  BY <1>0, ReceiveEffect
<1>3. peer' = peer /\ (\A x \in Clients, y \in Sides : broken'[x][y] = "no" <=> broken[x][y] = "no")
  BY <1>1, <1>2 DEF peers
<1>4. forwarder'[c][s] \in {"send", "failed", "shutIn"}
  BY <1>2
<1>5. o \in Sides /\ o # s /\ Other(o) = s /\ \A y \in Sides : y = s \/ y = o
  BY OtherSide
<1>6. \A x \in Clients, y \in Sides : Fresh(x, y)' <=> Fresh(x, y)
  BY <1>3 DEF Fresh
<1>7. Onwards
  <2>1. ASSUME NEW x \in Clients PROVE \A y \in Sides : Told(x, y) => Told(x, y)'
    <3>1. (\A y \in Sides : Running(x, y)' => Running(x, y)) \/ ~Closed(x)
      BY <1>1 DEF Running, Closed, Sides
    <3>2. handler'[x] = handler[x] /\ shut' = shut
      BY <1>1
    <3>3. QED BY <3>1, <3>2, StaysToldOf
  <2>2. QED BY <1>1, <1>3, <1>6, <2>1 DEF Onwards, Passable, Ended
<1>8. Accepting'
  BY <1>0, <1>1, <1>3, AcceptingKept
<1>9. Handling'
  BY <1>0, <1>1, <1>3, <1>4, HandlingKept
<1>10. Endings'
  <2>1. ASSUME NEW x \in Clients, NEW y \in Sides, x # c
        PROVE  \A z \in Sides : /\ forwarder'[x][z] = forwarder[x][z] /\ peer'[x][z] = peer[x][z]
                                /\ shut'[x][z] = shut[x][z] /\ broken'[x][z] = broken[x][z]
    BY <1>1, <1>3, <2>1
  <2>2. shut' = shut /\ forwarder'[c][o] = forwarder[c][o]
    BY <1>1, <1>5
  <2>3. /\ broken'[c][s] # "no" => peer'[c][s] \in {"gone", "reset"}
        /\ broken'[c][o] # "no" => peer'[c][o] \in {"gone", "reset"}
    BY <1>0, <1>3, <1>5 DEF Endings
  <2>4. /\ ~shut[c][o] \/ ~Fresh(c, o)
        /\ shut[c][s] /\ Fresh(c, s) => forwarder[c][o] = "ended"
        /\ shut[c][s] => forwarder[c][o] = "ended"
        /\ shut[c][o] => forwarder[c][o] \in {"shutOut", "ended"}
    BY <1>0, <1>1, <1>5 DEF Endings
  <2>5. ASSUME forwarder'[c][s] = "shutIn"
        PROVE  /\ Fresh(c, s) => shut[c][s]
               /\ \E z \in Sides : ~Fresh(c, z)
    <3>1. shut[c][s] \/ broken[c][s] = "taken" \/ Ended(c, s)
      BY <1>2, <2>5
    <3>2. shut[c][s] => \E z \in Sides : ~Fresh(c, z)
      BY <1>0 DEF Endings
    <3>3. broken[c][s] = "taken" \/ Ended(c, s) => ~Fresh(c, s)
      BY <1>0 DEF Endings, Ended, Fresh
    <3>4. QED BY <3>1, <3>2, <3>3
  <2>6. forwarder'[c][s] = "failed" => peer[c][s] \in {"gone", "reset", "nobody"}
    <3>1. ASSUME forwarder'[c][s] = "failed" PROVE broken[c][s] = "pending" \/ NobodyAt(c, s)
      BY <1>2, <3>1
    <3>2. QED BY <1>0, <3>1 DEF Endings, NobodyAt
  <2>7. /\ forwarder[c][o] \in {"shutIn", "shutOut", "ended"} /\ Fresh(c, o) => shut[c][o]
        /\ forwarder[c][o] \in {"shutIn", "shutOut", "ended"} => \E z \in Sides : ~Fresh(c, z)
        /\ forwarder[c][o] = "killed" => ~Fresh(c, s)
        /\ forwarder[c][o] = "failed" => peer[c][o] \in {"gone", "reset", "nobody"}
        /\ shut[c][s] \/ shut[c][o] => \E z \in Sides : ~Fresh(c, z)
    BY <1>0, <1>5 DEF Endings, Leaving
  <2>8. ASSUME NEW x \in Clients, NEW y \in Sides
        PROVE  /\ broken'[x][y] # "no" => peer'[x][y] \in {"gone", "reset"}
               /\ shut[x][y] /\ Fresh(x, y) => forwarder'[x][Other(y)] = "ended"
               /\ shut[x][y] => \/ forwarder'[x][y] \in {"shutOut", "ended"}
                                \/ forwarder'[x][Other(y)] = "ended"
               /\ Leaving(x, y)' /\ Fresh(x, y) => shut[x][y]
               /\ shut[x][y] \/ Leaving(x, y)' => \E z \in Sides : ~Fresh(x, z)
               /\ forwarder'[x][y] = "killed" => ~Fresh(x, Other(y))
               /\ forwarder'[x][y] = "failed" => peer[x][y] \in {"gone", "reset", "nobody"}
    <3>1. CASE x # c
      <4>1. Other(y) \in Sides
        BY OtherSide
      <4>2. QED BY <1>0, <2>1, <3>1, <4>1 DEF Endings, Leaving
    <3>2. CASE x = c /\ y = s
      BY <1>4, <2>2, <2>3, <2>4, <2>5, <2>6, <2>7, <3>2 DEF Leaving
    <3>3. CASE x = c /\ y = o
      BY <1>4, <1>5, <2>2, <2>3, <2>4, <2>5, <2>6, <2>7, <3>3 DEF Leaving
    <3>4. QED BY <1>5, <3>1, <3>2, <3>3
  <2>9. \A x \in Clients : (\E z \in Sides : ~Fresh(x, z)) => \E z \in Sides : ~Fresh(x, z)'
    BY <1>6
  <2>10. \A y \in Sides : Other(y) \in Sides
    BY OtherSide
  <2>11. QED BY <1>3, <1>6, <2>2, <2>8, <2>9, <2>10 DEF Endings
<1>11. Flowing'
  <2>1. ASSUME NEW x \in Clients, NEW y \in Sides, x # c \/ y # s
        PROVE  FlowsAt(x, y)'
    <3>1. FlowsAt(x, y)
      BY <1>0 DEF Flowing
    <3>2. /\ got'[x][Other(y)] = got[x][Other(y)] /\ sent'[x][y] = sent[x][y]
          /\ fromHost'[x][Other(y)] = fromHost[x][Other(y)]
          /\ held'[x][y] = held[x][y] /\ toHost'[x][y] = toHost[x][y]
          /\ forwarder'[x][y] = forwarder[x][y]
      BY <1>1, <2>1
    <3>3. QED BY <1>0, <1>1, <1>7, <3>1, <3>2, FlowStays
  <2>2. FlowsAt(c, s)'
    <3>1. PICK g, f, b, h, t \in 0..ToSend[c][s] : Flow(c, s, g, f, b, h, t)
      BY <1>0 DEF Flowing, FlowsAt
    <3>2. g \in Nat /\ f \in Nat /\ b \in Nat /\ h \in Nat /\ t \in Nat /\ h = 0
      BY <1>1, <3>1, ToSendIsNat DEF Flow
    <3>3. toHost[c][s] = Run(b, t) /\ b + h = b
      BY <3>1, <3>2 DEF Flow
    <3>4. Len(toHost[c][s]) = t /\ (toHost[c][s] = <<>> => t = 0)
      BY <3>2, <3>3, RunIsSeq
    <3>5. CASE \E n \in 1..Len(toHost[c][s]) :
                 /\ n <= NetBufSize
                 /\ held'[c][s] = SubSeq(toHost[c][s], 1, n)
                 /\ toHost'[c][s] = SubSeq(toHost[c][s], n + 1, Len(toHost[c][s]))
                 /\ forwarder'[c][s] = "send"
      <4>1. PICK n \in 1..t :
              /\ n <= NetBufSize /\ held'[c][s] = SubSeq(Run(b, t), 1, n)
              /\ toHost'[c][s] = SubSeq(Run(b, t), n + 1, t) /\ forwarder'[c][s] = "send"
        BY <3>3, <3>4, <3>5
      <4>2. n \in 0..t /\ n \in Nat /\ t - n \in Nat /\ b + n + (t - n) = b + h + t
        BY <3>2, <4>1
      <4>3. held'[c][s] = Run(b, n) /\ toHost'[c][s] = Run(b + n, t - n)
        BY <3>2, <4>1, <4>2, RunSplits, ZenonT(40)
      <4>4. (Passable(c, o)' => Passable(c, o)) /\ (~Told(c, s)' => ~Told(c, s))
        BY <1>5, <1>7 DEF Onwards
      <4>5. Flow(c, s, g, f, b, n, t - n)'
        BY <1>1, <3>1, <4>1, <4>2, <4>3, <4>4 DEF Flow, Leaving
      <4>6. QED BY <1>1, <3>2, <4>2, <4>5, FlowIsWitness
    <3>6. CASE /\ toHost[c][s] = <<>> /\ toHost'[c][s] = <<>>
               /\ held'[c][s] = held[c][s] /\ forwarder'[c][s] \in {"failed", "shutIn"}
      <4>1. ASSUME Fresh(c, o)' PROVE t = 0 /\ g + f = sent[c][s]
        <5>1. Passable(c, o) /\ ~Told(c, s)
          BY <1>1, <1>6, <1>5, <4>1, NothingLostYet
        <5>2. b = g + f /\ b + h + t = sent[c][s] /\ t = 0
          BY <3>1, <3>4, <3>6, <5>1 DEF Flow
        <5>3. QED BY <3>2, <5>2
      <4>2. /\ got'[c][o] = got[c][o] /\ sent'[c][s] = sent[c][s]
            /\ fromHost'[c][o] = fromHost[c][o] /\ toHost'[c][s] = toHost[c][s]
        BY <1>1, <3>6
      <4>3. QED BY <1>1, <1>7, <3>1, <3>2, <3>6, <4>1, <4>2, FlowKept
    <3>7. QED BY <1>2, <3>5, <3>6
  <2>3. QED BY <2>1, <2>2 DEF Flowing
<1>12. QED BY <1>1, <1>8, <1>9, <1>10, <1>11 DEF Inv

\* A forwarder sends: what it held is under way to the peer, or it is killed.
LEMMA SendStep ==
  ASSUME Inv, NEW c \in Clients, NEW s \in Sides, Send(c, s) PROVE Inv'
<1> DEFINE o == Other(s)
<1>0. Typed /\ Accepting /\ Handling /\ Endings /\ Flowing
  BY DEF Inv
<1>1. /\ Typed' /\ forwarder[c][s] = "send"
      /\ UNCHANGED <<listening, handler, peers, toHost, sent, got, sockets>>
      /\ \A x \in Clients, y \in Sides : x # c \/ y # s =>
           held'[x][y] = held[x][y] /\ forwarder'[x][y] = forwarder[x][y]
      /\ \A x \in Clients, y \in Sides : x # c \/ y # o => fromHost'[x][y] = fromHost[x][y]
  BY <1>0, SendEffect
<1>2. \/ /\ fromHost' = fromHost /\ held'[c][s] = <<>>
         /\ \/ NobodyAt(c, o) /\ forwarder'[c][s] = "recv"
            \/ /\ shut[c][o] \/ broken[c][o] # "no"
               /\ forwarder'[c][s] = "killed"
      \/ /\ Passable(c, o)
         /\ \E n \in 0..Len(held[c][s]) :
              /\ Len(fromHost[c][o]) + n <= Cap
              /\ fromHost'[c][o] = fromHost[c][o] \o SubSeq(held[c][s], 1, n)
              /\ held'[c][s] = SubSeq(held[c][s], n + 1, Len(held[c][s]))
              /\ forwarder'[c][s] = IF n = Len(held[c][s]) THEN "recv" ELSE "send"
  BY <1>0, SendEffect
<1>3. peer' = peer /\ shut' = shut /\ broken' = broken
  BY <1>1 DEF peers, sockets
<1>4. forwarder'[c][s] \in {"send", "recv", "killed"}
  BY <1>2
<1>5. o \in Sides /\ o # s /\ Other(o) = s /\ \A y \in Sides : y = s \/ y = o
  BY OtherSide
<1>6. \A x \in Clients, y \in Sides :
        (Fresh(x, y)' <=> Fresh(x, y)) /\ (Passable(x, y)' <=> Passable(x, y))
  BY <1>3 DEF Fresh, Passable
<1>7. Onwards
  <2>1. ASSUME NEW x \in Clients PROVE \A y \in Sides : Told(x, y) => Told(x, y)'
    <3>1. (\A y \in Sides : Running(x, y)' => Running(x, y)) \/ ~Closed(x)
      BY <1>1 DEF Running, Closed, Sides
    <3>2. handler'[x] = handler[x] /\ shut' = shut
      BY <1>1, <1>3
    <3>3. QED BY <3>1, <3>2, StaysToldOf
  <2>2. QED BY <1>3, <1>6, <2>1 DEF Onwards, Ended
<1>8. Accepting'
  BY <1>0, <1>1, <1>3, AcceptingKept
<1>9. Handling'
  BY <1>0, <1>1, <1>3, <1>4, HandlingKept
<1>10. Endings'
  <2>1. forwarder'[c][s] = "killed" => ~Fresh(c, o)
    <3>1. ASSUME forwarder'[c][s] = "killed" PROVE shut[c][o] \/ broken[c][o] # "no"
      BY <1>2, <3>1
    <3>2. ~shut[c][o] \/ ~Fresh(c, o)
      BY <1>0, <1>1, <1>5 DEF Endings
    <3>3. broken[c][o] # "no" => ~Fresh(c, o)
      BY <1>0, <1>5 DEF Endings, Fresh
    <3>4. QED BY <3>1, <3>2, <3>3
  <2>2. /\ ~Leaving(c, s) /\ ~Leaving(c, s)'
        /\ \A x \in Clients, y \in Sides : Leaving(x, y)' <=> Leaving(x, y)
        /\ \A x \in Clients, y \in Sides :
             /\ forwarder'[x][y] = "ended" <=> forwarder[x][y] = "ended"
             /\ forwarder'[x][y] = "shutOut" <=> forwarder[x][y] = "shutOut"
             /\ forwarder'[x][y] = "failed" <=> forwarder[x][y] = "failed"
             /\ forwarder'[x][y] = "killed" => forwarder[x][y] = "killed" \/ (x = c /\ y = s)
    BY <1>1, <1>4 DEF Leaving
  <2>3. ASSUME NEW x \in Clients, NEW y \in Sides
        PROVE  /\ broken[x][y] # "no" => peer[x][y] \in {"gone", "reset"}
               /\ shut[x][y] /\ Fresh(x, y) => forwarder'[x][Other(y)] = "ended"
               /\ shut[x][y] => \/ forwarder'[x][y] \in {"shutOut", "ended"}
                                \/ forwarder'[x][Other(y)] = "ended"
               /\ Leaving(x, y)' /\ Fresh(x, y) => shut[x][y]
               /\ shut[x][y] \/ Leaving(x, y)' => \E z \in Sides : ~Fresh(x, z)
               /\ forwarder'[x][y] = "killed" => ~Fresh(x, Other(y))
               /\ forwarder'[x][y] = "failed" => peer[x][y] \in {"gone", "reset", "nobody"}
    <3>1. Other(y) \in Sides
      BY OtherSide
    <3>2. QED BY <1>0, <2>1, <2>2, <3>1 DEF Endings
  <2>4. \A y \in Sides : Other(y) \in Sides
    BY OtherSide
  <2>5. \A x \in Clients : (\E z \in Sides : ~Fresh(x, z)) => \E z \in Sides : ~Fresh(x, z)'
    BY <1>6
  <2>6. QED BY <1>3, <1>6, <2>3, <2>4, <2>5 DEF Endings
<1>11. Flowing'
  <2>1. ASSUME NEW x \in Clients, NEW y \in Sides, x # c \/ y # s
        PROVE  FlowsAt(x, y)'
    <3>1. FlowsAt(x, y)
      BY <1>0 DEF Flowing
    <3>2. Other(y) \in Sides /\ (x = c => Other(y) # o)
      BY <1>5, <2>1, OtherSide
    <3>3. /\ got'[x][Other(y)] = got[x][Other(y)] /\ sent'[x][y] = sent[x][y]
          /\ fromHost'[x][Other(y)] = fromHost[x][Other(y)]
          /\ held'[x][y] = held[x][y] /\ toHost'[x][y] = toHost[x][y]
          /\ forwarder'[x][y] = forwarder[x][y]
      BY <1>1, <2>1, <3>2
    <3>4. QED BY <1>0, <1>1, <1>7, <3>1, <3>3, FlowStays
  <2>2. FlowsAt(c, s)'
    <3>1. PICK g, f, b, h, t \in 0..ToSend[c][s] : Flow(c, s, g, f, b, h, t)
      BY <1>0 DEF Flowing, FlowsAt
    <3>2. g \in Nat /\ f \in Nat /\ b \in Nat /\ h \in Nat /\ t \in Nat
      BY ToSendIsNat
    <3>3. held[c][s] = Run(b, h) /\ fromHost[c][o] = Run(g, f)
      BY <3>1 DEF Flow
    <3>4. Len(held[c][s]) = h /\ Len(fromHost[c][o]) = f
      BY <3>2, <3>3, RunIsSeq
    <3>5. ~Told(c, s)' => ~Told(c, s)
      BY <1>7 DEF Onwards
    <3>6. CASE fromHost' = fromHost /\ held'[c][s] = <<>> /\ ~Passable(c, o)
      <4>1. b + h \in Nat /\ 0 \in Nat /\ b + h + 0 = b + h
        BY <3>2
      <4>2. held'[c][s] = Run(b + h, 0)
        BY <3>6, <4>1, RunIsSeq
      <4>3. NetBufSize \in Nat /\ ~Passable(c, o)' /\ g + f <= b + h
        BY <1>5, <1>6, <3>1, <3>2, <3>6, TunnelAssumption DEF Flow
      <4>4. Flow(c, s, g, f, b + h, 0, t)'
        BY <1>1, <1>4, <3>1, <3>5, <3>6, <4>1, <4>2, <4>3 DEF Flow, Leaving
      <4>5. QED BY <1>1, <3>2, <4>1, <4>4, FlowIsWitness
    <3>7. CASE /\ Passable(c, o)
               /\ \E n \in 0..h :
                    /\ f + n <= Cap
                    /\ fromHost'[c][o] = Run(g, f) \o SubSeq(Run(b, h), 1, n)
                    /\ held'[c][s] = SubSeq(Run(b, h), n + 1, h)
                    /\ forwarder'[c][s] = IF n = h THEN "recv" ELSE "send"
      <4>1. PICK n \in 0..h :
              /\ f + n <= Cap
              /\ fromHost'[c][o] = Run(g, f) \o SubSeq(Run(b, h), 1, n)
              /\ held'[c][s] = SubSeq(Run(b, h), n + 1, h)
              /\ forwarder'[c][s] = IF n = h THEN "recv" ELSE "send"
        BY <3>7
      <4>2. b = g + f
        BY <3>1, <3>7 DEF Flow
      <4>3. /\ n \in Nat /\ h - n \in Nat /\ f + n \in Nat /\ b + n \in Nat
            /\ b + n + (h - n) = b + h /\ g + (f + n) = b + n
            /\ b + n + (h - n) + t = b + h + t
        BY <3>2, <4>2
      <4>4. held'[c][s] = Run(b + n, h - n) /\ SubSeq(Run(b, h), 1, n) = Run(b, n)
        BY <3>2, <4>1, RunSplits
      <4>5. fromHost'[c][o] = Run(g, f + n)
        <5>1. \A k \in Nat : Run(g, f) \o Run(g + f, k) = Run(g, f + k)
          BY <3>2, RunsJoin
        <5>2. QED BY <4>1, <4>2, <4>3, <4>4, <5>1
      <4>6. h <= NetBufSize /\ NetBufSize \in Nat
        BY <3>1, TunnelAssumption DEF Flow
      <4>7. h - n <= NetBufSize /\ (n = h => h - n = 0)
        BY <3>2, <4>3, <4>6
      <4>8. Flow(c, s, g, f + n, b + n, h - n, t)'
        <5>1. /\ got'[c][o] = Run(0, g)
              /\ toHost'[c][s] = Run(b + n + (h - n), t)
              /\ b + n + (h - n) + t <= sent'[c][s] /\ sent'[c][s] <= ToSend[c][s]
              /\ ~Told(c, s)' => b + n + (h - n) + t = sent'[c][s]
          BY <1>1, <3>1, <3>5, <4>3 DEF Flow
        <5>2. forwarder'[c][s] # "send" => h - n = 0
          BY <4>1, <4>7
        <5>3. ~(forwarder'[c][s] = "failed" \/ Leaving(c, s)')
          BY <1>4 DEF Leaving
        <5>4. g + (f + n) <= b + n /\ b + n = g + (f + n)
          BY <4>3
        <5>5. QED BY <1>1, <3>1, <4>1, <4>4, <4>5, <4>7, <5>1, <5>2, <5>3, <5>4 DEF Flow
      <4>9. QED BY <1>1, <3>2, <4>3, <4>8, FlowIsWitness
    <3>8. QED
      <4>1. NobodyAt(c, o) \/ shut[c][o] \/ broken[c][o] # "no" => ~Passable(c, o)
        BY DEF NobodyAt, Passable
      <4>2. QED BY <1>2, <3>3, <3>4, <3>6, <3>7, <4>1
  <2>3. QED BY <2>1, <2>2 DEF Flowing
<1>12. QED BY <1>1, <1>8, <1>9, <1>10, <1>11 DEF Inv

\* A shutdown loses what was not received, of a side whose forwarder has left.
LEMMA ShutDownStep ==
  ASSUME Inv, NEW c \in Clients, NEW s \in Sides, NEW z \in Sides,
         NEW from, NEW to \in FState, ShutDown(c, s, from, to, z),
         \/ from = "shutIn" /\ to = "shutOut" /\ z = s
         \/ from = "shutOut" /\ to = "ended" /\ z = Other(s)
  PROVE  Inv'
<1> DEFINE o == Other(s)
<1>0. Typed /\ Accepting /\ Handling /\ Endings /\ Flowing
  BY DEF Inv
<1>1. /\ Typed' /\ forwarder[c][s] = from /\ forwarder'[c][s] = to
      /\ UNCHANGED <<listening, handler, held, peers, fromHost, broken, sent, got>>
      /\ \A x \in Clients, y \in Sides : x # c \/ y # s => forwarder'[x][y] = forwarder[x][y]
      /\ shut'[c][z] /\ toHost'[c][z] = <<>>
      /\ \A x \in Clients, y \in Sides : x # c \/ y # z =>
           shut'[x][y] = shut[x][y] /\ toHost'[x][y] = toHost[x][y]
  BY <1>0, ShutDownEffect
<1>2. peer' = peer /\ broken' = broken
  BY <1>1 DEF peers
<1>3. \A x \in Clients, y \in Sides : shut[x][y] => shut'[x][y]
  BY <1>1
<1>5. o \in Sides /\ o # s /\ Other(o) = s /\ \A y \in Sides : y = s \/ y = o
  BY OtherSide
<1>6. \A x \in Clients, y \in Sides : Fresh(x, y)' <=> Fresh(x, y)
  BY <1>2 DEF Fresh
<1>7. Onwards
  <2>1. ASSUME NEW x \in Clients PROVE \A y \in Sides : Told(x, y) => Told(x, y)'
    <3>1. (\A y \in Sides : Running(x, y)' => Running(x, y)) \/ ~Closed(x)
      BY <1>1 DEF Running, Closed, Sides
    <3>2. handler'[x] = handler[x] /\ \A y \in Sides : shut[x][y] => shut'[x][y]
      BY <1>1, <1>3
    <3>3. QED BY <3>1, <3>2, StaysToldOf
  <2>2. QED BY <1>2, <1>3, <1>6, <2>1 DEF Onwards, Passable, Ended
<1>8. Accepting'
  BY <1>0, <1>1, <1>2, AcceptingKept
<1>9. Handling'
  BY <1>0, <1>1, <1>2, HandlingKept
<1>10. Endings'
  <2>1. \A x \in Clients, y \in Sides :
          /\ Leaving(x, y)' <=> Leaving(x, y)
          /\ forwarder[x][y] = "ended" => forwarder'[x][y] = "ended"
          /\ forwarder[x][y] = "shutOut" => forwarder'[x][y] \in {"shutOut", "ended"}
          /\ forwarder'[x][y] = "failed" => forwarder[x][y] = "failed"
          /\ forwarder'[x][y] = "killed" => forwarder[x][y] = "killed"
    BY <1>1 DEF Leaving
  <2>2. Leaving(c, s)
    BY <1>1 DEF Leaving
  <2>3. \A x \in Clients, y \in Sides : shut'[x][y] => shut[x][y] \/ (x = c /\ y = z)
    BY <1>1
  <2>4. /\ Fresh(c, z) => forwarder'[c][Other(z)] = "ended"
        /\ forwarder'[c][z] \in {"shutOut", "ended"} \/ forwarder'[c][Other(z)] = "ended"
    <3>1. CASE z = s
      BY <1>0, <1>1, <1>5, <2>1, <2>2, <3>1 DEF Endings
    <3>2. CASE z = o
      BY <1>1, <1>5, <3>2
    <3>3. QED BY <1>5, <3>1, <3>2
  <2>5. \E y \in Sides : ~Fresh(c, y)
    BY <1>0, <2>2 DEF Endings
  <2>6. ASSUME NEW x \in Clients, NEW y \in Sides
        PROVE  /\ broken[x][y] # "no" => peer[x][y] \in {"gone", "reset"}
               /\ shut'[x][y] /\ Fresh(x, y) => forwarder'[x][Other(y)] = "ended"
               /\ shut'[x][y] => \/ forwarder'[x][y] \in {"shutOut", "ended"}
                                 \/ forwarder'[x][Other(y)] = "ended"
               /\ Leaving(x, y)' /\ Fresh(x, y) => shut'[x][y]
               /\ shut'[x][y] \/ Leaving(x, y)' => \E w \in Sides : ~Fresh(x, w)
               /\ forwarder'[x][y] = "killed" => ~Fresh(x, Other(y))
               /\ forwarder'[x][y] = "failed" => peer[x][y] \in {"gone", "reset", "nobody"}
    <3>1. Other(y) \in Sides
      BY OtherSide
    <3>2. shut'[x][y] /\ Fresh(x, y) => forwarder'[x][Other(y)] = "ended"
      BY <1>0, <2>1, <2>3, <2>4, <3>1 DEF Endings
    <3>3. shut'[x][y] => \/ forwarder'[x][y] \in {"shutOut", "ended"}
                         \/ forwarder'[x][Other(y)] = "ended"
      BY <1>0, <2>1, <2>3, <2>4, <3>1 DEF Endings
    <3>4. shut'[x][y] \/ Leaving(x, y)' => \E w \in Sides : ~Fresh(x, w)
      BY <1>0, <2>1, <2>3, <2>5 DEF Endings
    <3>5. QED BY <1>0, <1>3, <2>1, <3>1, <3>2, <3>3, <3>4 DEF Endings
  <2>7. \A y \in Sides : Other(y) \in Sides
    BY OtherSide
  <2>8. \A x \in Clients : (\E w \in Sides : ~Fresh(x, w)) => \E w \in Sides : ~Fresh(x, w)'
    BY <1>6
  <2>9. QED BY <1>2, <1>6, <2>6, <2>7, <2>8 DEF Endings
<1>11. Flowing'
  <2>1. ASSUME NEW x \in Clients, NEW y \in Sides PROVE FlowsAt(x, y)'
    <3>1. PICK g, f, b, h, t \in 0..ToSend[x][y] : Flow(x, y, g, f, b, h, t)
      BY <1>0 DEF Flowing, FlowsAt
    <3>2. g \in Nat /\ f \in Nat /\ b \in Nat /\ h \in Nat /\ t \in Nat
      BY ToSendIsNat
    <3>3. Other(y) \in Sides
      BY OtherSide
    <3>4. /\ Passable(x, Other(y))' => Passable(x, Other(y))
          /\ ~Told(x, y)' => ~Told(x, y)
      BY <1>7, <3>3 DEF Onwards
    <3>5. forwarder'[x][y] # "send" => h = 0
      BY <1>1, <3>1 DEF Flow
    <3>6. ASSUME forwarder'[x][y] = "failed" \/ Leaving(x, y)', Fresh(x, Other(y))', Ended(x, y)'
          PROVE  t = 0 /\ g + f = sent[x][y]
      <4>1. Fresh(x, Other(y)) /\ Ended(x, y)
        BY <1>2, <3>6 DEF Fresh, Ended
      <4>2. forwarder[x][y] = "failed" \/ Leaving(x, y)
        BY <1>1, <3>6 DEF Leaving
      <4>3. QED BY <3>1, <4>1, <4>2 DEF Flow
    <3>7. CASE x # c \/ y # z
      <4>1. toHost'[x][y] = toHost[x][y]
        BY <1>1, <3>7
      <4>2. QED BY <1>1, <1>7, <3>1, <3>2, <3>5, <3>6, <4>1, FlowKept
    <3>8. CASE x = c /\ y = z
      <4>1. b + h \in Nat /\ b + h + 0 <= b + h + t /\ 0 \in Nat
        BY <3>2
      <4>2. toHost'[x][y] = Run(b + h, 0)
        BY <1>1, <3>8, <4>1, RunIsSeq
      <4>3. Told(x, y)'
        BY <1>1, <3>8 DEF Told
      <4>4. sent[x][y] \in Nat /\ b + h + 0 <= sent[x][y]
        <5>1. sent[x][y] \in Nat /\ b + h + t <= sent[x][y]
          BY <1>0, <3>1 DEF Typed, Flow
        <5>2. QED BY <3>2, <5>1
      <4>5. Flow(x, y, g, f, b, h, 0)'
        BY <1>1, <3>1, <3>4, <3>5, <3>6, <4>2, <4>3, <4>4 DEF Flow
      <4>6. QED BY <1>1, <3>2, <4>1, <4>5, FlowIsWitness
    <3>9. QED BY <3>7, <3>8
  <2>2. QED BY <2>1 DEF Flowing
<1>12. QED BY <1>1, <1>8, <1>9, <1>10, <1>11 DEF Inv

-----------------------------------------------------------------------------
(* The two sides.                                                           *)

\* A client connects once.
LEMMA ClientConnectsStep ==
  ASSUME Inv, NEW c \in Clients, ClientConnects(c) PROVE Inv'
<1>0. Typed /\ Accepting /\ Handling /\ Endings /\ Flowing
  BY DEF Inv
<1> DEFINE port == PortOf[c]
<1>1. /\ Typed' /\ peer[c]["client"] = "none" /\ peer'[c]["client"] = "open"
      /\ UNCHANGED <<listener, arg, tuns, ready, new, handler, forwarder, held, reads,
                     streams, sockets>>
      /\ \A x \in Clients, y \in Sides : x # c \/ y # "client" => peer'[x][y] = peer[x][y]
      /\ port \in Ports
      /\ \A p \in Ports : backlog'[p] = IF p = port THEN Append(backlog[p], c) ELSE backlog[p]
  BY <1>0, ClientConnectsEffect
<1>2. UNCHANGED <<handler, forwarder, held, broken, shut, toHost, fromHost, sent, got>>
  BY <1>1 DEF streams, sockets
<1>3. "client" \in Sides /\ "device" \in Sides /\ "client" # "device"
  BY DEF Sides
<1>4. \A x \in Clients, y \in Sides :
        peer'[x][y] = peer[x][y] \/ (peer[x][y] = "none" /\ peer'[x][y] = "open")
  BY <1>1
<1>5. Onwards
  <2>1. \A x \in Clients, s \in Sides :
          /\ Fresh(x, s)' => Fresh(x, s)
          /\ Passable(x, s)' => Passable(x, s)
          /\ Ended(x, s)' => Ended(x, s)
    BY <1>2, <1>4 DEF Fresh, Passable, Ended
  <2>2. QED BY <1>2, <2>1 DEF Onwards, Told, Closed, Running
<1>6. Accepting'
  <2>1. handler[c] = "none" /\ c \notin new
    BY <1>0, <1>1 DEF Accepting, HandledHaveConnected, NewAreUnhandled
  <2>2. \A p \in Ports : \A i \in DOMAIN backlog[p] :
          backlog[p][i] \in Clients /\ backlog[p][i] # c
    <3> TAKE p \in Ports
    <3>1. backlog[p] \in Seq(Clients)
      BY <1>0 DEF Typed
    <3>2. \A i \in DOMAIN backlog[p] : backlog[p][i] \in Clients
      BY <3>1, LenProperties, ElementOfSeq
    <3>3. QED BY <1>0, <1>1, <3>2 DEF Accepting, WaitOnce
  <2>3. \A x \in Clients : x # c => peer'[x]["client"] = peer[x]["client"]
    BY <1>1, <1>3
  <2>4. ReportedAreThere'
    <3>1. ASSUME NEW i \in ready PROVE backlog'[tuns[i]] # <<>>
      <4>1. tuns[i] \in Ports
        BY <1>0, LenProperties, ElementOfSeq DEF Typed
      <4>2. backlog[tuns[i]] # <<>>
        BY <1>0 DEF Accepting, ReportedAreThere
      <4>3. Append(backlog[port], c) # <<>>
        <5>1. backlog[port] \in Seq(Clients)
          BY <1>0, <1>1 DEF Typed
        <5> HIDE DEF port
        <5>2. Len(Append(backlog[port], c)) = Len(backlog[port]) + 1 /\ Len(backlog[port]) \in Nat
          BY <5>1, AppendProperties, LenProperties
        <5>3. Len(Append(backlog[port], c)) # 0
          BY <5>2
        <5>4. QED BY <5>3, EmptySeq
      <4>4. QED BY <1>1, <4>1, <4>2, <4>3
    <3>2. QED BY <1>1, <3>1 DEF ReportedAreThere
  <2>5. WaitOnce'
    <3>0. handler' = handler /\ new' = new
      BY <1>1
    <3> SUFFICES ASSUME NEW p \in Ports, NEW i \in DOMAIN backlog'[p]
                 PROVE  LET d == backlog'[p][i] IN
                        /\ PortOf[d] = p /\ d \notin new /\ handler[d] = "none"
                        /\ peer'[d]["client"] \notin {"absent", "none"}
                        /\ \A j \in DOMAIN backlog'[p] : backlog'[p][j] = d => i = j
      BY <3>0 DEF WaitOnce
    <3>1. CASE p # port
      BY <1>0, <1>1, <2>2, <2>3, <3>1 DEF Accepting, WaitOnce
    <3>2. CASE p = port
      <4> DEFINE q == backlog[p]
                 r == Append(q, c)
      <4>1. backlog'[p] = r /\ q \in Seq(Clients)
        BY <1>0, <1>1, <3>2 DEF Typed
      <4>2. /\ \A k \in DOMAIN q : /\ PortOf[q[k]] = p /\ q[k] \notin new
                                   /\ handler[q[k]] = "none" /\ q[k] \in Clients /\ q[k] # c
                                   /\ peer[q[k]]["client"] \notin {"absent", "none"}
                                   /\ \A j \in DOMAIN q : q[j] = q[k] => k = j
        BY <1>0, <2>2 DEF Accepting, WaitOnce
      <4> HIDE DEF q
      <4>3. /\ Len(q) \in Nat /\ DOMAIN q = 1..Len(q) /\ r \in Seq(Clients)
            /\ Len(r) = Len(q) + 1 /\ r[Len(q) + 1] = c
            /\ \A k \in 1..Len(q) : r[k] = q[k]
        BY <4>1, AppendProperties, LenProperties
      <4> HIDE DEF r
      <4>4. DOMAIN r = 1..Len(q) + 1
        BY <4>3, LenProperties
      <4>5. \A k \in DOMAIN r : k \in DOMAIN q \/ k = Len(q) + 1
        BY <4>3, <4>4
      <4>6. CASE i \in DOMAIN q
        <5>1. r[i] = q[i] /\ i \in 1..Len(q)
          BY <4>3, <4>6
        <5>2. \A j \in DOMAIN r : r[j] = q[i] => i = j
          BY <4>2, <4>3, <4>5, <4>6
        <5>3. QED BY <2>3, <4>1, <4>2, <4>6, <5>1, <5>2
      <4>7. CASE i = Len(q) + 1
        <5>1. r[i] = c
          BY <4>3, <4>7
        <5>2. \A j \in DOMAIN r : r[j] = c => i = j
          BY <4>2, <4>3, <4>5, <4>7
        <5>3. QED BY <1>1, <2>1, <3>2, <4>1, <5>1, <5>2
      <4>8. QED BY <4>1, <4>5, <4>6, <4>7
    <3>3. QED BY <3>1, <3>2
  <2>6. NewAreUnhandled'
    <3>1. new \subseteq Clients
      BY <1>0 DEF Typed
    <3>2. QED BY <1>0, <1>1, <2>1, <2>3, <3>1 DEF Accepting, NewAreUnhandled
  <2>7. OneTunnelPerPort' /\ HandledHaveConnected'
    BY <1>0, <1>1, <2>3 DEF Accepting, OneTunnelPerPort, HandledHaveConnected
  <2>8. QED BY <2>4, <2>5, <2>6, <2>7 DEF Accepting
<1>7. Handling'
  BY <1>0, <1>1, <1>2, <1>3, HandlingKept
<1>8. Endings'
  <2>1. \A x \in Clients, s \in Sides :
          /\ peer[x][s] \in {"gone", "reset", "nobody"} =>
               peer'[x][s] \in {"gone", "reset", "nobody"}
          /\ broken'[x][s] # "no" => peer'[x][s] \in {"gone", "reset"}
    BY <1>0, <1>2, <1>4 DEF Endings
  <2>2. QED BY <1>0, <1>2, <1>5, <2>1, EndingsKept
<1>9. Flowing'
  BY <1>0, <1>1, <1>2, <1>5, FlowingKept
<1>10. QED BY <1>1, <1>6, <1>7, <1>8, <1>9 DEF Inv

\* What a side sends is the next number.
LEMMA PeerSendsStep ==
  ASSUME Inv, NEW c \in Clients, NEW s \in Sides, PeerSends(c, s) PROVE Inv'
<1>0. Typed /\ Accepting /\ Handling /\ Endings /\ Flowing
  BY DEF Inv
<1>1. /\ Typed' /\ peer[c][s] = "open"
      /\ UNCHANGED <<listening, handler, forwarder, held, peers, fromHost, got, sockets>>
      /\ sent[c][s] < ToSend[c][s] /\ sent'[c][s] = sent[c][s] + 1
      /\ toHost'[c][s] = IF Told(c, s) THEN toHost[c][s]
                         ELSE Append(toHost[c][s], sent[c][s] + 1)
      /\ \A x \in Clients, y \in Sides : x # c \/ y # s =>
           sent'[x][y] = sent[x][y] /\ toHost'[x][y] = toHost[x][y]
  BY <1>0, PeerSendsEffect
<1>2. UNCHANGED <<handler, forwarder, held, peer, broken, shut, fromHost, got>>
  BY <1>1 DEF peers, sockets
<1>3. Onwards
  BY <1>2 DEF Onwards, Fresh, Passable, Told, Closed, Running, Ended
<1>4. Accepting' /\ Handling'
  BY <1>0, <1>1, <1>2, AcceptingKept, HandlingKept
<1>5. Endings'
  BY <1>0, <1>2, <1>3, EndingsKept DEF Endings
<1>6. Flowing'
  <2>1. ASSUME NEW x \in Clients, NEW y \in Sides, x # c \/ y # s
        PROVE  FlowsAt(x, y)'
    <3>1. sent'[x][y] = sent[x][y] /\ toHost'[x][y] = toHost[x][y] /\ FlowsAt(x, y)
      BY <1>0, <1>1, <2>1 DEF Flowing
    <3>2. QED BY <1>0, <1>1, <1>2, <1>3, <3>1, FlowStays
  <2>2. FlowsAt(c, s)'
    <3>1. PICK g, f, b, h, t \in 0..ToSend[c][s] : Flow(c, s, g, f, b, h, t)
      BY <1>0 DEF Flowing, FlowsAt
    <3>2. g \in Nat /\ f \in Nat /\ b \in Nat /\ h \in Nat /\ t \in Nat
          /\ sent[c][s] \in Nat /\ ToSend[c][s] \in Nat
      BY <1>0, ToSendIsNat DEF Typed
    <3>3. sent'[c][s] <= ToSend[c][s]
      BY <1>1, <3>2
    <3>4. /\ Passable(c, Other(s))' <=> Passable(c, Other(s))
          /\ Told(c, s)' <=> Told(c, s)
          /\ ~Ended(c, s)'
      BY <1>1, <1>2 DEF Passable, Told, Closed, Running, Ended
    <3>5. CASE Told(c, s)
      <4>1. b + h + t <= sent[c][s]
        BY <3>1 DEF Flow
      <4>2. b + h + t <= sent'[c][s]
        BY <1>1, <3>2, <4>1
      <4>3. Flow(c, s, g, f, b, h, t)'
        BY <1>1, <1>2, <3>1, <3>3, <3>4, <3>5, <4>2 DEF Flow, Leaving
      <4>4. QED BY <1>1, <3>2, <4>3, FlowIsWitness
    <3>6. CASE ~Told(c, s)
      <4>1. b + h + t = sent[c][s] /\ toHost[c][s] = Run(b + h, t)
        BY <3>1, <3>6 DEF Flow
      <4>2. b + h \in Nat /\ t + 1 \in Nat
        BY <3>2
      <4>3. toHost'[c][s] = Run(b + h, t + 1)
        BY <1>1, <3>2, <3>6, <4>1, <4>2, RunGrows, ZenonT(40)
      <4>4. b + h + (t + 1) = sent'[c][s] /\ b + h + (t + 1) <= sent'[c][s]
        BY <1>1, <3>2, <4>1
      <4>5. Flow(c, s, g, f, b, h, t + 1)'
        BY <1>1, <1>2, <3>1, <3>3, <3>4, <3>6, <4>3, <4>4 DEF Flow, Leaving
      <4>6. QED BY <1>1, <3>2, <4>2, <4>5, FlowIsWitness
    <3>7. QED BY <3>5, <3>6
  <2>3. QED BY <2>1, <2>2 DEF Flowing
<1>7. QED BY <1>1, <1>4, <1>5, <1>6 DEF Inv

\* What a side reads is the next number.
LEMMA PeerReadsStep ==
  ASSUME Inv, NEW c \in Clients, NEW z \in Sides, PeerReads(c, z) PROVE Inv'
<1> DEFINE s == Other(z)
<1>0. Typed /\ Accepting /\ Handling /\ Endings /\ Flowing
  BY DEF Inv
<1>1. /\ Typed' /\ fromHost[c][z] # <<>>
      /\ UNCHANGED <<listening, handler, forwarder, held, peers, toHost, sent, sockets>>
      /\ got'[c][z] = Append(got[c][z], Head(fromHost[c][z]))
      /\ fromHost'[c][z] = Tail(fromHost[c][z])
      /\ \A x \in Clients, y \in Sides : x # c \/ y # z =>
           got'[x][y] = got[x][y] /\ fromHost'[x][y] = fromHost[x][y]
  BY <1>0, PeerReadsEffect
<1>2. UNCHANGED <<handler, forwarder, held, peer, broken, shut, toHost, sent>>
  BY <1>1 DEF peers, sockets
<1>3. Onwards
  BY <1>2 DEF Onwards, Fresh, Passable, Told, Closed, Running, Ended
<1>4. Accepting' /\ Handling'
  BY <1>0, <1>1, <1>2, AcceptingKept, HandlingKept
<1>5. Endings'
  BY <1>0, <1>2, <1>3, EndingsKept DEF Endings
<1>6. s \in Sides /\ Other(s) = z
  BY OtherSide
<1>7. Flowing'
  <2>1. ASSUME NEW x \in Clients, NEW y \in Sides, x # c \/ y # s
        PROVE  FlowsAt(x, y)'
    <3>1. Other(y) \in Sides /\ (x # c \/ Other(y) # z)
      BY <1>6, <2>1, OtherSide
    <3>2. /\ got'[x][Other(y)] = got[x][Other(y)] /\ FlowsAt(x, y)
          /\ fromHost'[x][Other(y)] = fromHost[x][Other(y)]
      BY <1>0, <1>1, <3>1 DEF Flowing
    <3>3. QED BY <1>0, <1>1, <1>2, <1>3, <3>2, FlowStays
  <2>2. FlowsAt(c, s)'
    <3>1. PICK g, f, b, h, t \in 0..ToSend[c][s] : Flow(c, s, g, f, b, h, t)
      BY <1>0, <1>6 DEF Flowing, FlowsAt
    <3>2. /\ g \in Nat /\ f \in Nat /\ b \in Nat /\ h \in Nat /\ t \in Nat
          /\ ToSend[c][s] \in Nat /\ Cap \in Nat
      BY <1>6, ToSendIsNat, TunnelAssumption
    <3>3. got[c][z] = Run(0, g) /\ fromHost[c][z] = Run(g, f) /\ f <= Cap /\ g + f <= b
      BY <1>6, <3>1 DEF Flow
    <3>4. f # 0
      BY <1>1, <3>2, <3>3, RunIsSeq
    <3>5. /\ g + 1 \in Nat /\ f - 1 \in Nat /\ g + 1 + (f - 1) = g + f /\ f - 1 <= Cap
          /\ 0 + g + 1 = g + 1 /\ 0 \in Nat
      BY <3>2, <3>3, <3>4
    <3>6. Head(fromHost[c][z]) = 0 + g + 1 /\ fromHost'[c][z] = Run(g + 1, f - 1)
      BY <1>1, <3>2, <3>3, <3>4, <3>5, RunHead
    <3>7. got'[c][z] = Run(0, g + 1)
      BY <1>1, <3>2, <3>3, <3>5, <3>6, RunGrows, ZenonT(40)
    <3>8. /\ Passable(c, z)' <=> Passable(c, z)
          /\ Told(c, s)' <=> Told(c, s)
          /\ Ended(c, s)' <=> Ended(c, s)
          /\ Fresh(c, z)' <=> Fresh(c, z)
          /\ Leaving(c, s)' <=> Leaving(c, s)
      BY <1>2 DEF Passable, Told, Closed, Running, Ended, Fresh, Leaving
    <3>9. Flow(c, s, g + 1, f - 1, b, h, t)'
      <4> HIDE DEF s
      <4>1. /\ g + 1 + (f - 1) <= b /\ f - 1 <= Cap
            /\ Passable(c, z) => b = g + 1 + (f - 1)
            /\ forwarder[c][s] = "failed" \/ Leaving(c, s) =>
                 (Fresh(c, z) /\ Ended(c, s) => t = 0 /\ g + 1 + (f - 1) = sent[c][s])
        BY <1>6, <3>1, <3>3, <3>5 DEF Flow
      <4>2. QED BY <1>2, <1>6, <3>1, <3>6, <3>7, <3>8, <4>1 DEF Flow
    <3>10. QED BY <1>1, <1>6, <3>2, <3>5, <3>9, FlowIsWitness
  <2>3. QED BY <2>1, <2>2 DEF Flowing
<1>8. QED BY <1>1, <1>4, <1>5, <1>7 DEF Inv

\* A side that ends or breaks the connection loses what it has not read.
LEMMA PeerGoesStep ==
  ASSUME Inv, NEW c \in Clients, NEW s \in Sides,
         NEW p \in {"half", "gone", "reset"},
         peer' = [peer EXCEPT ![c][s] = p] \/ (p = peer[c][s] /\ peer' = peer),
         Alive(c, s) \/ (p = "gone" /\ p = peer[c][s]),
         UNCHANGED <<listening, handler, forwarder, held, reads, toHost, shut, sent, got>>,
         UNCHANGED <<fromHost, broken>> \/ (p \in {"gone", "reset"} /\ Reset(c, s))
  PROVE  Inv'
<1>0. Typed /\ Accepting /\ Handling /\ Endings /\ Flowing
  BY DEF Inv
<1>1. /\ Typed' /\ peer'[c][s] = p
      /\ \A x \in Clients, y \in Sides : x # c \/ y # s =>
           /\ peer'[x][y] = peer[x][y] /\ broken'[x][y] = broken[x][y]
           /\ fromHost'[x][y] = fromHost[x][y]
      /\ \/ broken'[c][s] = broken[c][s] /\ fromHost'[c][s] = fromHost[c][s]
         \/ broken'[c][s] = "pending" /\ fromHost'[c][s] = <<>>
  <2>1. p \in PState
    BY DEF PState
  <2>2. QED BY <1>0, <2>1, PeerGoesEffect
<1>2. peer[c][s] \in {"open", "half", "gone"} /\ (peer[c][s] = "gone" => p = "gone")
  BY DEF Alive
<1>3. broken'[c][s] # "no" => p \in {"gone", "reset"}
  <2>1. CASE UNCHANGED <<fromHost, broken>>
    BY <1>0, <1>2, <2>1 DEF Endings
  <2>2. QED BY <2>1
<1>4. UNCHANGED <<listening, handler, forwarder, held, shut, toHost, sent, got>>
  OBVIOUS
<1>5. \A x \in Clients, y \in Sides : broken'[x][y] = "no" => broken[x][y] = "no"
  BY <1>1
<1>6. Onwards
  <2>1. \A x \in Clients, y \in Sides :
          /\ Fresh(x, y)' => Fresh(x, y)
          /\ Ended(x, y)' => Ended(x, y) \/ peer[x][y] = "open"
          /\ Passable(x, y)' => Passable(x, y)
    BY <1>1, <1>2, <1>4, <1>5 DEF Fresh, Ended, Passable
  <2>2. QED BY <1>4, <2>1 DEF Onwards, Told, Closed, Running
<1>7. Accepting'
  <2>1. \A x \in Clients : peer[x]["client"] \notin {"absent", "none"} =>
                             peer'[x]["client"] \notin {"absent", "none"}
    BY <1>1, <1>2 DEF Sides
  <2>2. QED BY <1>0, <1>4, <2>1, AcceptingKept
<1>8. Handling'
  <2>1. \A x \in Clients : peer[x]["device"] \in {"none", "refused"} =>
                             peer'[x]["device"] = peer[x]["device"]
    BY <1>1, <1>2 DEF Sides
  <2>2. QED BY <1>0, <1>4, <2>1, HandlingKept
<1>9. Endings'
  <2>1. \A x \in Clients, y \in Sides :
          /\ peer[x][y] \in {"gone", "reset", "nobody"} =>
               peer'[x][y] \in {"gone", "reset", "nobody"}
          /\ broken'[x][y] # "no" => peer'[x][y] \in {"gone", "reset"}
    BY <1>0, <1>1, <1>2, <1>3 DEF Endings
  <2>2. QED BY <1>0, <1>4, <1>6, <2>1, EndingsKept
<1>10. Flowing'
  <2>1. ASSUME NEW x \in Clients, NEW y \in Sides,
               fromHost'[x][Other(y)] = fromHost[x][Other(y)]
        PROVE  FlowsAt(x, y)'
    BY <1>0, <1>1, <1>4, <1>6, <2>1, FlowStays DEF Flowing
  <2>2. ASSUME NEW y \in Sides, Other(y) = s, broken'[c][s] = "pending",
               fromHost'[c][s] = <<>>
        PROVE  FlowsAt(c, y)'
    <3>1. PICK g, f, b, h, t \in 0..ToSend[c][y] : Flow(c, y, g, f, b, h, t)
      BY <1>0 DEF Flowing, FlowsAt
    <3>2. g \in Nat /\ f \in Nat /\ b \in Nat /\ h \in Nat /\ t \in Nat /\ 0 \in Nat /\ Cap \in Nat
      BY ToSendIsNat, TunnelAssumption
    <3>3. fromHost'[c][s] = Run(g, 0)
      BY <2>2, <3>2, RunIsSeq
    <3>4. g + 0 <= b /\ 0 <= Cap
      <4>1. g + f <= b
        BY <3>1 DEF Flow
      <4>2. QED BY <3>2, <4>1
    <3>5. ~Passable(c, s)' /\ ~Fresh(c, s)' /\ (~Told(c, y)' => ~Told(c, y))
      <4>1. ~Passable(c, s)'
        BY <2>2 DEF Passable
      <4>2. ~Fresh(c, s)'
        BY <1>1 DEF Fresh
      <4>3. QED BY <1>6, <4>1, <4>2 DEF Onwards
    <3>6. Flow(c, y, g, 0, b, h, t)'
      BY <1>4, <2>2, <3>1, <3>3, <3>4, <3>5 DEF Flow
    <3>7. QED BY <1>1, <3>2, <3>6, FlowIsWitness
  <2>3. ASSUME NEW x \in Clients, NEW y \in Sides PROVE FlowsAt(x, y)'
    <3>1. Other(y) \in Sides
      BY OtherSide
    <3>2. CASE x = c /\ Other(y) = s
      BY <1>1, <2>1, <2>2, <3>1, <3>2
    <3>3. CASE x # c \/ Other(y) # s
      BY <1>1, <2>1, <3>1, <3>3
    <3>4. QED BY <3>2, <3>3
  <2>4. QED BY <2>3 DEF Flowing
<1>11. QED BY <1>1, <1>7, <1>8, <1>9, <1>10 DEF Inv

-----------------------------------------------------------------------------
(* The invariant, and what follows from it.                                *)

\* The invariant holds of a tunnel that has not started.
LEMMA InvInit == Init => Inv
<1> SUFFICES ASSUME Init PROVE Inv
  OBVIOUS
<1> DEFINE N == Seq(Nat)
<1>1. /\ listener = "setup" /\ arg = 1 /\ tuns = <<>> /\ ready = {} /\ new = {}
      /\ backlog = [p \in Ports |-> <<>>]
      /\ handler = [c \in Clients |-> "none"]
      /\ \A c \in Clients, s \in Sides :
           /\ forwarder[c][s] = "none" /\ held[c][s] = <<>> /\ toHost[c][s] = <<>>
           /\ fromHost[c][s] = <<>> /\ got[c][s] = <<>> /\ sent[c][s] = 0
           /\ ~shut[c][s] /\ broken[c][s] = "no"
  BY DEF Init, PerSide
<1>2. \A c \in Clients, s \in Sides :
        peer[c][s] \in {"absent", "none"} /\ (s # "client" => peer[c][s] = "none")
  BY DEF Init
<1>3. Typed
  <2>1. <<>> \in N
    BY EmptySeq
  <2>2. /\ held = PerSide(<<>>) /\ toHost = PerSide(<<>>) /\ fromHost = PerSide(<<>>)
        /\ got = PerSide(<<>>)
    BY DEF Init
  <2> HIDE DEF N
  <2>3. PerSide(<<>>) \in [Clients -> [Sides -> N]]
    BY <2>1 DEF PerSide
  <2>4. /\ held \in [Clients -> [Sides -> N]] /\ toHost \in [Clients -> [Sides -> N]]
        /\ fromHost \in [Clients -> [Sides -> N]] /\ got \in [Clients -> [Sides -> N]]
    BY <2>2, <2>3
  <2>5. /\ forwarder \in [Clients -> [Sides -> FState]]
        /\ broken \in [Clients -> [Sides -> {"no", "pending", "taken"}]]
        /\ shut \in [Clients -> [Sides -> BOOLEAN]]
        /\ sent \in [Clients -> [Sides -> Nat]]
        /\ handler \in [Clients -> HState]
    BY DEF Init, PerSide, FState, HState
  <2>6. peer \in [Clients -> [Sides -> PState]]
    BY DEF Init, PState
  <2>7. /\ tuns \in Seq(Ports) /\ <<>> \in Seq(Clients) /\ Len(Pairs) \in Nat
        /\ 1 \in 1..Len(Pairs) + 1
    <3>1. Len(Pairs) \in Nat
      BY TunnelAssumption, LenProperties
    <3>2. QED BY <1>1, <3>1, EmptySeq
  <2>8. backlog \in [Ports -> Seq(Clients)]
    <3> DEFINE Q == Seq(Clients)
    <3>1. <<>> \in Q
      BY <2>7
    <3> HIDE DEF Q
    <3>2. backlog \in [Ports -> Q]
      BY <1>1, <3>1
    <3>3. QED BY <3>2 DEF Q
  <2>9. QED BY <1>1, <2>4, <2>5, <2>6, <2>7, <2>8 DEF Typed, N
<1>4. Accepting
  <2>1. DOMAIN tuns = {} /\ \A p \in Ports : DOMAIN backlog[p] = {}
    BY <1>1
  <2>2. OneTunnelPerPort /\ ReportedAreThere /\ NewAreUnhandled /\ HandledHaveConnected
    BY <1>1, <2>1 DEF OneTunnelPerPort, ReportedAreThere, NewAreUnhandled, HandledHaveConnected
  <2>3. WaitOnce
    BY <2>1 DEF WaitOnce
  <2>4. QED BY <2>2, <2>3 DEF Accepting
<1>5. Handling
  BY <1>1, <1>2 DEF Handling, Sides
<1>6. Endings
  BY <1>1 DEF Endings, Leaving
<1>7. Flowing
  <2>1. ASSUME NEW c \in Clients, NEW s \in Sides PROVE FlowsAt(c, s)
    <3>1. Other(s) \in Sides /\ 0 \in 0..ToSend[c][s] /\ ToSend[c][s] \in Nat
      BY OtherSide, ToSendIsNat
    <3>2. Run(0, 0) = <<>>
      BY RunIsSeq
    <3>3. NetBufSize \in Nat /\ Cap \in Nat /\ 0 + 0 = 0
      BY TunnelAssumption
    <3>4. Flow(c, s, 0, 0, 0, 0, 0)
      BY <1>1, <3>1, <3>2, <3>3 DEF Flow, Leaving
    <3>5. QED BY <3>1, <3>4 DEF FlowsAt
  <2>2. QED BY <2>1 DEF Flowing
<1>8. QED BY <1>3, <1>4, <1>5, <1>6, <1>7 DEF Inv

\* Every step preserves the invariant.
LEMMA InvStep == Inv /\ [Next]_vars => Inv'
<1> SUFFICES ASSUME Inv, [Next]_vars PROVE Inv'
  OBVIOUS
<1>1. CASE Listener
  BY <1>1, AddTunnelStep, ListenForClientsStep, SelectStep, AcceptStep, ForkHandlerStep
     DEF Listener
<1>2. ASSUME NEW c \in Clients, Handler(c) \/ ClientConnects(c) PROVE Inv'
  BY <1>2, ConnectStep, ForkForwarderStep, HandlerClosesStep, ClientConnectsStep DEF Handler
<1>3. ASSUME NEW c \in Clients, NEW s \in Sides, Forwarder(c, s) PROVE Inv'
  <2>1. CASE Receive(c, s) \/ Send(c, s)
    BY <2>1, ReceiveStep, SendStep
  <2>2. Other(s) \in Sides /\ "shutOut" \in FState /\ "ended" \in FState
    BY OtherSide DEF FState
  <2>3. CASE ShutIn(c, s)
    BY <2>2, <2>3, ShutDownStep DEF ShutIn
  <2>4. CASE ShutOut(c, s)
    BY <2>2, <2>4, ShutDownStep DEF ShutOut
  <2>5. QED BY <1>3, <2>1, <2>3, <2>4 DEF Forwarder
<1>4. ASSUME NEW c \in Clients, NEW s \in Sides, Network(c, s) \/ Peer(c, s) PROVE Inv'
  <2>1. CASE PeerReads(c, s) \/ PeerSends(c, s)
    BY <2>1, PeerReadsStep, PeerSendsStep
  <2>2. CASE PeerRejects(c, s)
    <3>1. /\ peer' = peer /\ peer[c][s] = "gone" /\ Reset(c, s)
          /\ UNCHANGED <<listening, handler, forwarder, held, reads, toHost, shut, sent, got>>
      BY <2>2 DEF PeerRejects, Reset
    <3>2. QED BY <3>1, PeerGoesStep
  <2>3. CASE PeerResets(c, s)
    <3>1. /\ peer' = [peer EXCEPT ![c][s] = "reset"] /\ Alive(c, s) /\ Reset(c, s)
          /\ UNCHANGED <<listening, handler, forwarder, held, reads, toHost, shut, sent, got>>
      BY <2>3 DEF PeerResets, Reset
    <3>2. QED BY <3>1, PeerGoesStep
  <2>4. CASE PeerEnds(c, s)
    <3>1. PICK end \in {"half", "gone"} : peer' = [peer EXCEPT ![c][s] = end]
      BY <2>4 DEF PeerEnds
    <3>2. /\ Alive(c, s) /\ UNCHANGED <<fromHost, broken>>
          /\ UNCHANGED <<listening, handler, forwarder, held, reads, toHost, shut, sent, got>>
      BY <2>4 DEF PeerEnds, streams, sockets
    <3>3. QED BY <3>1, <3>2, PeerGoesStep
  <2>5. QED BY <1>4, <2>1, <2>2, <2>3, <2>4 DEF Network, Peer
<1>5. CASE UNCHANGED vars
  <2>1. /\ UNCHANGED <<handler, forwarder, held, peers, streams, sockets>>
        /\ UNCHANGED <<listener, arg, tuns, ready, new, backlog>>
    BY <1>5 DEF vars, listening
  <2>2. Typed'
    BY <2>1 DEF Inv, Typed, peers, streams, sockets
  <2>3. Accepting'
    BY <2>1 DEF Inv, Accepting, OneTunnelPerPort, ReportedAreThere, WaitOnce, NewAreUnhandled,
                HandledHaveConnected, peers
  <2>4. QED BY <2>1, <2>2, <2>3, ConnectionsKept DEF Inv
<1>6. QED BY <1>1, <1>2, <1>3, <1>4, <1>5 DEF Next

\* The invariant always holds.
LEMMA InvAlways == Spec => []Inv
BY InvInit, InvStep, PTL DEF Spec

\* A run that ends within what a side may send is a sequence of its bytes.
LEMMA RunIsBytes ==
  ASSUME NEW c \in Clients, NEW s \in Sides, NEW b \in Nat, NEW n \in Nat,
         b + n <= ToSend[c][s]
  PROVE  Run(b, n) \in ByteSeqs(c, s)
<1> DEFINE m == ToSend[c][s]
<1>1. m \in Nat
  BY ToSendIsNat
<1> HIDE DEF m
<1>2. b + n <= m
  BY DEF m
<1>3. n \in 0..m
  BY <1>1, <1>2
<1>4. \A i \in 1..n : b + i \in 1..m
  BY <1>1, <1>2
<1>5. Run(b, n) \in [1..n -> 1..m]
  BY <1>4 DEF Run
<1>6. QED BY <1>3, <1>5 DEF ByteSeqs, m

\* Every variable has its type; the bytes in every buffer were sent, and no
\* buffer holds more than its size, whatever the sizes.
THEOREM TypeCorrect == Spec => []TypeOK
<1>1. Inv => TypeOK
  <2> SUFFICES ASSUME Inv PROVE TypeOK
    OBVIOUS
  <2>0. Typed /\ Flowing
    BY DEF Inv
  <2>1. ASSUME NEW c \in Clients, NEW s \in Sides
        PROVE  /\ held[c][s] \in ByteSeqs(c, s) /\ Len(held[c][s]) <= NetBufSize
               /\ toHost[c][s] \in ByteSeqs(c, s)
               /\ fromHost[c][Other(s)] \in ByteSeqs(c, s)
               /\ Len(fromHost[c][Other(s)]) <= Cap
    <3>1. PICK g, f, b, h, t \in 0..ToSend[c][s] : Flow(c, s, g, f, b, h, t)
      BY <2>0 DEF Flowing, FlowsAt
    <3>2. /\ g \in Nat /\ f \in Nat /\ b \in Nat /\ h \in Nat /\ t \in Nat
          /\ b + h \in Nat /\ sent[c][s] \in Nat /\ ToSend[c][s] \in Nat
      BY <2>0, ToSendIsNat DEF Typed
    <3>3. /\ held[c][s] = Run(b, h) /\ toHost[c][s] = Run(b + h, t)
          /\ fromHost[c][Other(s)] = Run(g, f) /\ h <= NetBufSize /\ f <= Cap
          /\ g + f <= b /\ b + h + t <= sent[c][s] /\ sent[c][s] <= ToSend[c][s]
      BY <3>1 DEF Flow
    <3>4. b + h <= ToSend[c][s] /\ b + h + t <= ToSend[c][s] /\ g + f <= ToSend[c][s]
      BY <3>2, <3>3
    <3>5. Len(held[c][s]) = h /\ Len(fromHost[c][Other(s)]) = f
      <4>1. Len(Run(b, h)) = h /\ Len(Run(g, f)) = f
        BY <3>2, RunIsSeq
      <4>2. QED BY <3>3, <4>1
    <3>6. /\ Run(b, h) \in ByteSeqs(c, s) /\ Run(b + h, t) \in ByteSeqs(c, s)
          /\ Run(g, f) \in ByteSeqs(c, s)
      BY <3>2, <3>4, RunIsBytes
    <3>7. QED BY <3>3, <3>5, <3>6
  <2>2. ASSUME NEW c \in Clients, NEW s \in Sides
        PROVE  fromHost[c][s] \in ByteSeqs(c, Other(s)) /\ Len(fromHost[c][s]) <= Cap
    <3>1. Other(s) \in Sides /\ Other(Other(s)) = s
      BY OtherSide
    <3>2. QED BY <2>1, <3>1
  <2>3. QED BY <2>0, <2>1, <2>2 DEF Typed, TypeOK, FState, PState, HState
<1>2. QED BY <1>1, InvAlways, PTL

\* The run from the first byte is all that was sent.
LEMMA RunIsNumbered ==
  ASSUME NEW n \in Nat
  PROVE  Run(0, n) = Numbered(n)
BY DEF Run, Numbered

\* A sum and a concatenation under names that the solver does not expand, so
\* that it can match the next two lemmas.
IsSum(z, x, y) == z = x + y
Joined(p, q) == p \o q

\* RunsJoin, with the sums named.
LEMMA RunsJoinAt ==
  \A a, n, m, d, e \in Nat :
    IsSum(d, a, n) /\ IsSum(e, n, m) => Joined(Run(a, n), Run(d, m)) = Run(a, e)
<1> TAKE a, n, m, d, e \in Nat
<1> HAVE IsSum(d, a, n) /\ IsSum(e, n, m)
<1>1. Run(a, n) \o Run(a + n, m) = Run(a, n + m)
  BY RunsJoin
<1>2. QED BY <1>1 DEF IsSum, Joined

\* The sums of four runs in a row, under one name for the same reason.
AreSums(g, f, b, h, d, t, n) ==
  /\ g \in Nat /\ f \in Nat /\ b \in Nat /\ h \in Nat /\ d \in Nat /\ t \in Nat /\ n \in Nat
  /\ IsSum(b, g, f) /\ IsSum(d, b, h) /\ IsSum(n, d, t)

\* Four runs in a row.
LEMMA FourRuns ==
  ASSUME NEW g, NEW f, NEW b, NEW h, NEW d, NEW t, NEW n, AreSums(g, f, b, h, d, t, n)
  PROVE  Joined(Run(0, g), Joined(Joined(Run(g, f), Run(b, h)), Run(d, t))) = Numbered(n)
<1> DEFINE k == f + h
           m == f + h + t
<1>0. /\ g \in Nat /\ f \in Nat /\ b \in Nat /\ h \in Nat /\ d \in Nat /\ t \in Nat /\ n \in Nat
      /\ IsSum(b, g, f) /\ IsSum(d, b, h) /\ IsSum(n, d, t)
  BY DEF AreSums
<1>1. /\ k \in Nat /\ m \in Nat /\ 0 \in Nat
      /\ IsSum(k, f, h) /\ IsSum(d, g, k) /\ IsSum(m, k, t) /\ IsSum(n, g, m) /\ IsSum(g, 0, g)
  BY <1>0 DEF IsSum
<1> HIDE DEF k, m
<1>2. Joined(Run(g, f), Run(b, h)) = Run(g, k)
  BY <1>0, <1>1, RunsJoinAt, SMTT(30)
<1>3. Joined(Run(g, k), Run(d, t)) = Run(g, m)
  BY <1>0, <1>1, RunsJoinAt
<1>4. Joined(Run(0, g), Run(g, m)) = Run(0, n)
  BY <1>0, <1>1, RunsJoinAt
<1>5. Run(0, n) = Numbered(n)
  BY <1>0, RunIsNumbered
<1>6. QED BY <1>2, <1>3, <1>4, <1>5

\* Whatever is shut, reset or killed at whatever moment: what a side reads is a
\* beginning of what the other has sent; while neither has ended nothing is
\* lost; and when one has ended and the other is told, nothing is still to come.
THEOREM BytesAlwaysInOrder == Spec => []BytesInOrder
<1>1. Inv => ReadInOrder
  <2> SUFFICES ASSUME Inv, NEW c \in Clients, NEW s \in Sides
               PROVE  /\ Len(got[c][Other(s)]) <= sent[c][s]
                      /\ got[c][Other(s)] = Numbered(Len(got[c][Other(s)]))
    BY DEF ReadInOrder
  <2>1. PICK g, f, b, h, t \in 0..ToSend[c][s] : Flow(c, s, g, f, b, h, t)
    BY DEF Inv, Flowing, FlowsAt
  <2>2. /\ g \in Nat /\ f \in Nat /\ b \in Nat /\ h \in Nat /\ t \in Nat /\ sent[c][s] \in Nat
    BY ToSendIsNat DEF Inv, Typed
  <2>3. got[c][Other(s)] = Run(0, g) /\ g + f <= b /\ b + h + t <= sent[c][s]
    BY <2>1 DEF Flow
  <2>4. g <= sent[c][s]
    BY <2>2, <2>3
  <2>5. Len(got[c][Other(s)]) = g
    BY <2>2, <2>3, RunIsSeq
  <2>6. QED BY <2>2, <2>3, <2>4, <2>5, RunIsNumbered
<1>2. Inv => NothingLostWhileOpen
  <2> SUFFICES ASSUME Inv, NEW c \in Clients, \A z \in Sides : peer[c][z] = "open", ~Closed(c),
                      NEW s \in Sides
               PROVE  got[c][Other(s)] \o OnTheWay(c, s) = Numbered(sent[c][s])
    BY DEF NothingLostWhileOpen
  <2>1. PICK g, f, b, h, t \in 0..ToSend[c][s] : Flow(c, s, g, f, b, h, t)
    BY DEF Inv, Flowing, FlowsAt
  <2>2. /\ g \in Nat /\ f \in Nat /\ b \in Nat /\ h \in Nat /\ t \in Nat
    BY ToSendIsNat
  <2>3. Other(s) \in Sides
    BY OtherSide
  <2>4. \A z \in Sides : Fresh(c, z)
    BY DEF Fresh
  <2>5. ~shut[c][s] /\ ~shut[c][Other(s)] /\ broken[c][Other(s)] = "no"
    BY <2>3, <2>4 DEF Inv, Endings, Fresh
  <2>6. Passable(c, Other(s)) /\ ~Told(c, s)
    BY <2>3, <2>5 DEF Passable, Told
  <2>7. /\ got[c][Other(s)] = Run(0, g) /\ fromHost[c][Other(s)] = Run(g, f)
        /\ held[c][s] = Run(b, h) /\ toHost[c][s] = Run(b + h, t)
        /\ b = g + f /\ b + h + t = sent[c][s]
    BY <2>1, <2>6 DEF Flow
  <2>8. PICK d, n : d = b + h /\ n = sent[c][s]
    OBVIOUS
  <2>9. AreSums(g, f, b, h, d, t, n)
    BY <2>2, <2>7, <2>8 DEF Inv, Typed, IsSum, AreSums
  <2>10. Joined(Run(0, g), Joined(Joined(Run(g, f), Run(b, h)), Run(d, t))) = Numbered(n)
    BY <2>9, FourRuns
  <2>11. QED BY <2>7, <2>8, <2>10 DEF OnTheWay, Joined
<1>3. Inv => EndAfterBytes
  <2> SUFFICES ASSUME Inv, NEW c \in Clients, NEW s \in Sides, Ended(c, s),
                      peer[c][Other(s)] = "open", Told(c, Other(s)),
                      forwarder[c][s] # "missing", forwarder[c][Other(s)] # "missing"
               PROVE  got[c][Other(s)] \o fromHost[c][Other(s)] = Numbered(sent[c][s])
    BY DEF EndAfterBytes
  <2> DEFINE o == Other(s)
  <2>1. o \in Sides /\ Other(o) = s /\ (\A z \in Sides : z = s \/ z = o)
    BY OtherSide
  <2>2. Fresh(c, o)
    BY DEF Fresh
  <2>3. forwarder[c][s] = "failed" \/ Leaving(c, s)
    <3>1. CASE shut[c][o]
      BY <2>1, <2>2, <3>1 DEF Inv, Endings, Leaving
    <3>2. CASE Closed(c)
      <4>1. handler[c] \in {"done", "dropped"} /\ ~Running(c, s)
        BY <3>2 DEF Closed, Sides
      <4>2. peer[c]["device"] \notin {"none", "refused"}
        BY <2>1 DEF Ended, Sides
      <4>3. forwarder[c][s] # "none"
        BY <4>1, <4>2 DEF Inv, Handling
      <4>4. forwarder[c][s] # "killed"
        BY <2>2 DEF Inv, Endings
      <4>5. forwarder[c][s] \in FState
        BY DEF Inv, Typed
      <4>6. QED BY <4>1, <4>3, <4>4, <4>5 DEF FState, Running, Leaving
    <3>3. QED BY <3>1, <3>2 DEF Told
  <2>4. PICK g, f, b, h, t \in 0..ToSend[c][s] : Flow(c, s, g, f, b, h, t)
    BY DEF Inv, Flowing, FlowsAt
  <2>5. /\ g \in Nat /\ f \in Nat /\ g + f \in Nat /\ 0 \in Nat /\ 0 + g = g
    BY ToSendIsNat
  <2>6. got[c][o] = Run(0, g) /\ fromHost[c][o] = Run(g, f) /\ g + f = sent[c][s]
    BY <2>2, <2>3, <2>4 DEF Flow
  <2>7. Run(0, g) \o Run(0 + g, f) = Run(0, g + f)
    BY <2>5, RunsJoin
  <2>8. QED BY <2>5, <2>6, <2>7, RunIsNumbered
<1>4. Inv => BytesInOrder
  BY <1>1, <1>2, <1>3 DEF BytesInOrder
<1>5. QED BY <1>4, InvAlways, PTL
=============================================================================
