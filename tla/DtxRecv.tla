------------------------------ MODULE DtxRecv ------------------------------
(***************************************************************************)
(* channel__recv_withid (channel.c): one call reads frames from the        *)
(* service connection until it has the last fragment of a message, and     *)
(* returns the fragments' bodies glued together.                           *)
(*                                                                         *)
(* The connection is a log of units, the device appending and the calls    *)
(* consuming.  The 32-byte frame header is two units, "magic" and "rest",  *)
(* so that a read can stop inside it; every byte of a body is a unit that  *)
(* names the message, the fragment and the offset it comes from.           *)
(***************************************************************************)
EXTENDS Integers, Sequences

CONSTANTS
  Channels,      \* the channel objects whose calls share the connection
  Messages,      \* the messages the device may send
  MaxMsgs,       \* bound: messages sent in a behaviour
  U32,           \* 2^w for the width w of the uint32_t counter `received`
  SplitHeaders,  \* may a read find only the first part of a header?
  Breaks         \* how the connection may end: a subset of {"eof", "err"}

Message == [id: Nat, conv: Nat, count: Nat \ {0}, len: Nat \ {0}]

ASSUME ConstantsAssumption ==
  /\ Channels # {}
  /\ Messages \subseteq Message
  /\ MaxMsgs \in Nat
  /\ U32 \in Nat \ {0}
  /\ \A m \in Messages : m.len < U32
  /\ SplitHeaders \in BOOLEAN
  /\ Breaks \subseteq {"eof", "err"}

VARIABLES
  sent,       \* the messages the device has begun to send
  wire,       \* the units the device has written
  link,       \* "up", closed by the device ("eof"), broken ("err"), or broken
              \* with the error already reported ("gone")
  rd,         \* how many units have been read
  pc,         \* where the call is: "idle", "header" or "body"
  chan,       \* the channel object of the call
  id,         \* local `id`: taken from fragment 0 only
  chunks,     \* local `payloadb`: the bodies appended so far
  hdr,        \* local `msg`: the frame header last read
  block,      \* local `dataBlock`
  received,   \* local `received`
  nextMsgId,  \* per channel object, its message counter
  delivered   \* history: what the calls that returned 1 produced

peerVars == <<sent, wire, link>>
callVars == <<pc, chan, id, chunks, hdr, block, received>>
vars == <<sent, wire, link, rd, pc, chan, id, chunks, hdr, block, received,
          nextMsgId, delivered>>

Units == [part: {"magic", "rest", "body"}, msg: Nat \ {0}, frag: Nat, off: Nat]

\* A byte of a malloc'ed block that nothing was read into.
Junk == [part |-> "junk", msg |-> 0, frag |-> 0, off |-> 0]

Unit(part, k, g, o) == [part |-> part, msg |-> k, frag |-> g, off |-> o]
Header(k, g) == <<Unit("magic", k, g, 0), Unit("rest", k, g, 0)>>

\* Fragment 0 of a message in several fragments is a header without a body.
HasBody(k, g) == g # 0 \/ sent[k].count = 1
LastFrag(k, g) == g = sent[k].count - 1

\* Unit u is the last one of its frame; the last one of its message.
EndsFrame(u) ==
  IF HasBody(u.msg, u.frag) THEN u.part = "body" /\ u.off = sent[u.msg].len
                            ELSE u.part = "rest"
EndsMessage(u) == EndsFrame(u) /\ LastFrag(u.msg, u.frag)

Least(a, b) == IF a <= b THEN a ELSE b

\* What can be read: what was not read is lost when the connection breaks.
Avail == IF link \in {"up", "eof"} THEN Len(wire) - rd ELSE 0

-----------------------------------------------------------------------------
(* The device, one write at a time. *)

NothingPending == IF wire = <<>> THEN TRUE ELSE EndsMessage(wire[Len(wire)])

\* A header leaves in one piece, or in two that a read may fall between.
WriteHeader(k, g) ==
  \/ wire' = wire \o Header(k, g)
  \/ SplitHeaders /\ wire' = Append(wire, Unit("magic", k, g, 0))

DeviceBegins ==
  /\ link = "up" /\ Len(sent) < MaxMsgs /\ NothingPending
  /\ \E m \in Messages : sent' = Append(sent, m)
  /\ WriteHeader(Len(sent) + 1, 0)
  /\ UNCHANGED <<link, rd, nextMsgId, delivered>> /\ UNCHANGED callVars

DeviceContinues ==
  /\ link = "up" /\ ~NothingPending
  /\ LET u == wire[Len(wire)]
     IN CASE EndsFrame(u)      -> WriteHeader(u.msg, u.frag + 1)
          [] u.part = "magic"  -> wire' = Append(wire, [u EXCEPT !.part = "rest"])
          [] OTHER             -> wire' = Append(wire,
                                            Unit("body", u.msg, u.frag, u.off + 1))
  /\ UNCHANGED <<sent, link, rd, nextMsgId, delivered>> /\ UNCHANGED callVars

\* The device closes or the connection breaks.
LinkEnds ==
  /\ link = "up" /\ link' \in Breaks
  /\ UNCHANGED <<sent, wire, rd, nextMsgId, delivered>> /\ UNCHANGED callVars

\* What a failing read leaves behind: the error is reported once or for ever.
AfterReadError == IF link = "err" THEN link' \in {"err", "gone"} ELSE link' = link

-----------------------------------------------------------------------------
(* The call. *)

\* Mutant: the caller's buffer is not fresh.
CallKeepsPayload(c) ==
  /\ pc = "idle"
  /\ pc' = "header" /\ chan' = c /\ id' = 0
  /\ UNCHANGED <<chunks, hdr, block, received, rd, nextMsgId, delivered>>
  /\ UNCHANGED peerVars

Call(c) ==
  /\ pc = "idle"
  /\ pc' = "header" /\ chan' = c /\ id' = 0 /\ chunks' = <<>>
  /\ UNCHANGED <<hdr, block, received, rd, nextMsgId, delivered>>
  /\ UNCHANGED peerVars

\* read() returned something else than 32: zero or -1, or half a header.
ReadHeaderFails ==
  /\ pc = "header" /\ Avail < 2
  /\ Avail = 0 => link # "up"
  /\ rd' = rd + Avail /\ AfterReadError
  /\ pc' = "idle"
  /\ UNCHANGED <<sent, wire, chan, id, chunks, hdr, block, received, nextMsgId,
                 delivered>>

ReadHeaderBadMagic ==
  /\ pc = "header" /\ Avail >= 2 /\ wire[rd + 1].part # "magic"
  /\ rd' = rd + 2 /\ pc' = "idle"
  /\ UNCHANGED <<chan, id, chunks, hdr, block, received, nextMsgId, delivered>>
  /\ UNCHANGED peerVars

\* Mutant: the counter moves by one, whatever the device's id.
FastForwardByOne(m) ==
  nextMsgId' = IF m.conv = 0 /\ m.id > nextMsgId[chan]
                 THEN [nextMsgId EXCEPT ![chan] = @ + 1] ELSE nextMsgId

FastForward(m) ==
  nextMsgId' = IF m.conv = 0 /\ m.id > nextMsgId[chan]
                 THEN [nextMsgId EXCEPT ![chan] = m.id + 1] ELSE nextMsgId

ReadHeader ==
  /\ pc = "header" /\ Avail >= 2 /\ wire[rd + 1].part = "magic"
  /\ LET u == wire[rd + 1]
         m == sent[u.msg]
     IN /\ hdr' = [msg |-> u.msg, frag |-> u.frag]
        /\ FastForward(m)
        /\ id' = IF u.frag = 0 THEN m.id ELSE id
        /\ IF HasBody(u.msg, u.frag)
             THEN /\ pc' = "body" /\ received' = 0
                  /\ block' = [o \in 1 .. m.len |-> Junk]
             ELSE UNCHANGED <<pc, block, received>>
  /\ rd' = rd + 2
  /\ UNCHANGED <<chan, chunks, delivered>> /\ UNCHANGED peerVars

BodyLen == sent[hdr.msg].len

\* Mutant: one read() is trusted to fill the block.
ReadBodyOnce ==
  /\ pc = "body" /\ received < BodyLen
  /\ Avail > 0 \/ link \in {"eof", "gone"}
  /\ LET part == Least(BodyLen, Avail)
     IN /\ block' = [o \in DOMAIN block |-> IF o <= part THEN wire[rd + o] ELSE block[o]]
        /\ rd' = rd + part
  /\ received' = BodyLen
  /\ UNCHANGED <<pc, chan, id, chunks, hdr, nextMsgId, delivered>>
  /\ UNCHANGED peerVars

\* One read() of the body loop.  Its result is tested through nrecv, the
\* header's count, so that 0 (nothing more will come) and -1 are added to
\* `received` like any other count.
ReadBody ==
  /\ pc = "body" /\ received < BodyLen
  /\ Avail > 0 \/ link \in {"eof", "gone"}
  /\ LET part == Least(BodyLen - received, Avail)
     IN /\ block' = [o \in DOMAIN block |->
                       IF o \in received + 1 .. received + part
                         THEN wire[rd + o - received] ELSE block[o]]
        /\ rd' = rd + part
        /\ received' = received + part
  /\ UNCHANGED <<pc, chan, id, chunks, hdr, nextMsgId, delivered>>
  /\ UNCHANGED peerVars

\* Mutant: -1 is added to a counter without a width.
ReadBodyErrorSigned ==
  /\ pc = "body" /\ received < BodyLen
  /\ Avail = 0 /\ link = "err" /\ AfterReadError
  /\ received' = received - 1
  /\ UNCHANGED <<sent, wire, rd, pc, chan, id, chunks, hdr, block, nextMsgId,
                 delivered>>

ReadBodyError ==
  /\ pc = "body" /\ received < BodyLen
  /\ Avail = 0 /\ link = "err" /\ AfterReadError
  /\ received' = (received + U32 - 1) % U32
  /\ UNCHANGED <<sent, wire, rd, pc, chan, id, chunks, hdr, block, nextMsgId,
                 delivered>>

\* Mutant: the last fragment is looked for one too far.
EndFragmentLate ==
  /\ pc = "body" /\ received >= BodyLen
  /\ chunks' = Append(chunks, block)
  /\ IF hdr.frag = sent[hdr.msg].count
       THEN /\ pc' = "idle"
            /\ delivered' = Append(delivered,
                              [chan |-> chan, id |-> id, chunks |-> chunks'])
       ELSE pc' = "header" /\ UNCHANGED delivered
  /\ UNCHANGED <<rd, chan, id, hdr, block, received, nextMsgId>>
  /\ UNCHANGED peerVars

EndFragment ==
  /\ pc = "body" /\ received >= BodyLen
  /\ chunks' = Append(chunks, block)
  /\ IF LastFrag(hdr.msg, hdr.frag)
       THEN /\ pc' = "idle"
            /\ delivered' = Append(delivered,
                              [chan |-> chan, id |-> id, chunks |-> chunks'])
       ELSE pc' = "header" /\ UNCHANGED delivered
  /\ UNCHANGED <<rd, chan, id, hdr, block, received, nextMsgId>>
  /\ UNCHANGED peerVars

-----------------------------------------------------------------------------
Init ==
  /\ sent = <<>> /\ wire = <<>> /\ link = "up"
  /\ rd = 0 /\ pc = "idle" /\ chan \in Channels /\ id = 0 /\ chunks = <<>>
  /\ hdr = [msg |-> 0, frag |-> 0] /\ block = <<>> /\ received = 0
  /\ nextMsgId = [c \in Channels |-> 0]
  /\ delivered = <<>>

Device == DeviceBegins \/ DeviceContinues

Reader == ReadHeaderFails \/ ReadHeaderBadMagic \/ ReadHeader
            \/ ReadBody \/ ReadBodyError \/ EndFragment

Next == Device \/ LinkEnds \/ Reader \/ \E c \in Channels : Call(c)

Spec == Init /\ [][Next]_vars

\* The reading process runs, and its caller receives in a loop, as runTail,
\* runNotices, watchWda and the waiting loops of launchTest do.
FairSpec == Spec /\ WF_vars(Reader) /\ WF_vars(\E c \in Channels : Call(c))
-----------------------------------------------------------------------------
(* Properties. *)

\* Every variable has the type of the C variable it stands for; `received`
\* stays a uint32_t and at most one call is in progress on a connection.
TypeOK ==
  /\ sent \in Seq(Messages) /\ wire \in Seq(Units)
  /\ link \in {"up", "eof", "err", "gone"}
  /\ rd \in 0 .. Len(wire)
  /\ pc \in {"idle", "header", "body"}
  /\ chan \in Channels /\ id \in Nat
  /\ chunks \in Seq(Seq(Units \cup {Junk})) /\ block \in Seq(Units \cup {Junk})
  /\ hdr \in [msg: Nat, frag: Nat]
  /\ received \in 0 .. U32 - 1
  /\ nextMsgId \in [Channels -> Nat]
  /\ delivered \in Seq([chan: Channels, id: Nat,
                         chunks: Seq(Seq(Units \cup {Junk}))])

\* The body of a fragment, the bodies of a message, and what a call that
\* received message k must return.
Whole(k, g) == [o \in 1 .. sent[k].len |-> Unit("body", k, g, o)]
Bodies(k) == IF sent[k].count = 1 THEN <<Whole(k, 0)>>
               ELSE [g \in 1 .. sent[k].count - 1 |-> Whole(k, g)]
Expected(k) == [id |-> sent[k].id, chunks |-> Bodies(k)]

\* The number of messages that are completely on the wire.
Completed == IF NothingPending THEN Len(sent) ELSE Len(sent) - 1

\* A result with bytes that nobody read, and the results before one.
Damaged(j) ==
  \E g \in DOMAIN delivered[j].chunks :
    \E o \in DOMAIN delivered[j].chunks[g] : delivered[j].chunks[g][o] = Junk
Intact ==
  LET n == Len(delivered)
  IN IF delivered # <<>> /\ Damaged(n) THEN n - 1 ELSE n

Stream == INSTANCE DtxMessages WITH
  posted <- [k \in 1 .. Completed |-> Expected(k)],
  got <- [j \in 1 .. Intact |->
            [id |-> delivered[j].id, chunks |-> delivered[j].chunks]]

\* As long as headers are read whole channel__recv_withid returns whole
\* messages, each once, in order and with their own id, except perhaps for a
\* last result.
ImplementsMessages == Stream!Spec

\* That one is damaged only by a connection that broke, and nothing is
\* returned after it.
OnlyLastDamaged ==
  \A j \in DOMAIN delivered :
    Damaged(j) => j = Len(delivered) /\ link \in {"err", "gone"}

\* A caller that keeps receiving gets every message that is completely on the
\* wire, also after the device has closed, unless the connection breaks.
EveryMessageReturned ==
  \A k \in 1 .. MaxMsgs :
    Completed >= k ~> Len(delivered) >= k \/ link \in {"err", "gone"}

\* The message a result comes from.
Source(j) == delivered[j].chunks[1][1].msg

\* The result is the last bodies of one message, with that message's id or none.
TailOfOneMessage ==
  \A j \in DOMAIN delivered :
    \E k \in DOMAIN sent :
      LET n == Len(delivered[j].chunks)
          all == Bodies(k)
      IN /\ n \in 1 .. Len(all)
         /\ delivered[j].chunks = SubSeq(all, Len(all) - n + 1, Len(all))
         /\ delivered[j].id \in {0, sent[k].id}

OldestFirst ==
  \A i, j \in DOMAIN delivered : i < j => Source(i) < Source(j)

\* A read that finds half a header fails with the rest of the frame still to
\* come (channel.c:240), yet later calls never glue bodies of two messages
\* together: each result is the tail of one message, and whatever was lost in
\* between, results come in the order of sending and none twice.
TailsInOrder == TailOfOneMessage /\ OldestFirst

\* The counter of the channel object that received a message starting a
\* conversation is not behind that message's id ("fast forward").
CounterNotBehind ==
  \A j \in 1 .. Intact :
    sent[Source(j)].conv = 0 => nextMsgId[delivered[j].chan] >= sent[Source(j)].id

\* "read error" ... return 0 (channel.c:290): a call that is reading when the
\* connection ends gives up and returns to its caller.
GivesUpAtEnd == link # "up" ~> pc = "idle"
=============================================================================
