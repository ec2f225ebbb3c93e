--------------------------- MODULE DtxRecvProofs ---------------------------
(***************************************************************************)
(* What channel__recv_withid returns, for any messages, any counter width  *)
(* and any connection: results are tails of single messages, in the order  *)
(* of sending, and damaged at most at the end; and where headers are read  *)
(* whole, the calls implement DtxMessages.                                  *)
(*                                                                         *)
(* The invariant has three parts.  Formed: the units on the wire follow    *)
(* one another as frames and messages do.  Reading: what the call holds is *)
(* what the units it has read of one message say, or the connection is     *)
(* broken.  Returned: what the results are.  Where headers are read whole, *)
(* Punctual adds that the call is at the message after the last result.     *)
(***************************************************************************)
EXTENDS DtxRecv, SequenceTheorems, TLAPS

-----------------------------------------------------------------------------
(* The types.                                                               *)

\* Frames name messages that were sent, and the block of the body being read
\* has the length its frame announces.
Linked ==
  /\ \A i \in 1 .. Len(wire) : wire[i].msg \in 1 .. Len(sent)
  /\ pc = "body" =>
       /\ hdr.msg \in 1 .. Len(sent)
       /\ block \in [1 .. sent[hdr.msg].len -> Units \cup {Junk}]

TypeInv == TypeOK /\ Linked

\* The lengths, indices and lookups of a well-typed state.
LEMMA Basics ==
  ASSUME TypeInv
  PROVE  /\ Len(sent) \in Nat
         /\ \A k \in 1 .. Len(sent) : /\ sent[k] \in Message
                                      /\ sent[k].id \in Nat /\ sent[k].conv \in Nat
                                      /\ sent[k].count \in Nat \ {0}
                                      /\ sent[k].len \in Nat \ {0}
                                      /\ sent[k].len < U32
         /\ Len(wire) \in Nat
         /\ \A i \in 1 .. Len(wire) : /\ wire[i] \in Units
                                      /\ wire[i].msg \in 1 .. Len(sent)
                                      /\ wire[i].frag \in Nat /\ wire[i].off \in Nat
         /\ rd \in Nat /\ rd <= Len(wire)
         /\ received \in Nat /\ received < U32 /\ U32 \in Nat \ {0}
<1>1. /\ Len(sent) \in Nat /\ Len(wire) \in Nat
      /\ \A i \in 1 .. Len(wire) : wire[i] \in Units
      /\ \A k \in 1 .. Len(sent) : sent[k] \in Messages
  BY LenProperties, ElementOfSeq DEF TypeInv, TypeOK
<1>2. \A k \in 1 .. Len(sent) : sent[k] \in Message /\ sent[k].len < U32
  BY <1>1, ConstantsAssumption
<1>3. \A k \in 1 .. Len(sent) : /\ sent[k].id \in Nat /\ sent[k].conv \in Nat
                               /\ sent[k].count \in Nat \ {0}
                               /\ sent[k].len \in Nat \ {0}
  BY <1>2 DEF Message
<1>4. \A i \in 1 .. Len(wire) : /\ wire[i].msg \in 1 .. Len(sent)
                               /\ wire[i].frag \in Nat /\ wire[i].off \in Nat
  BY <1>1 DEF Units, TypeInv, Linked
<1>5. U32 \in Nat \ {0} /\ rd \in 0 .. Len(wire) /\ received \in 0 .. U32 - 1
  BY ConstantsAssumption DEF TypeInv, TypeOK
<1>6. rd \in Nat /\ rd <= Len(wire) /\ received \in Nat /\ received < U32
  BY <1>1, <1>5
<1>7. QED
  BY <1>1, <1>2, <1>3, <1>4, <1>5, <1>6

\* A function on 1 .. n is a sequence.
LEMMA FunctionIsSeq ==
  ASSUME NEW S, NEW n \in Nat, NEW f \in [1 .. n -> S]
  PROVE  f \in Seq(S)
BY SeqDef

\* What Unit builds is a unit.
LEMMA UnitType ==
  ASSUME NEW p \in {"magic", "rest", "body"}, NEW k \in Nat \ {0},
         NEW g \in Nat, NEW o \in Nat
  PROVE  Unit(p, k, g, o) \in Units
BY DEF Unit, Units

\* What the device writes are units of a message it has begun.
LEMMA WriteHeaderType ==
  ASSUME wire \in Seq(Units), NEW k \in Nat \ {0}, NEW g \in Nat,
         WriteHeader(k, g)
  PROVE  /\ wire' \in Seq(Units)
         /\ Len(wire) <= Len(wire')
         /\ \A i \in 1 .. Len(wire') :
              wire'[i].msg = IF i <= Len(wire) THEN wire[i].msg ELSE k
<1> DEFINE h == Header(k, g)
<1>1. h \in Seq(Units) /\ Len(h) = 2 /\ h[1].msg = k /\ h[2].msg = k
  BY DEF Header, Unit, Units
<1>2. Len(wire) \in Nat
  BY LenProperties
<1>3. CASE wire' = wire \o h
  <2>1. /\ wire \o h \in Seq(Units) /\ Len(wire \o h) = Len(wire) + 2
        /\ \A i \in 1 .. Len(wire) + 2 :
             (wire \o h)[i] = IF i <= Len(wire) THEN wire[i] ELSE h[i - Len(wire)]
    <3> HIDE DEF h
    <3>1. h \in Seq(Units) /\ Len(h) = 2
      BY <1>1
    <3>2. /\ wire \o h \in Seq(Units) /\ Len(wire \o h) = Len(wire) + Len(h)
          /\ \A i \in 1 .. Len(wire) + Len(h) :
               (wire \o h)[i] = IF i <= Len(wire) THEN wire[i] ELSE h[i - Len(wire)]
      BY <3>1, ConcatProperties, Zenon
    <3>3. QED BY <3>1, <3>2
  <2>2. ASSUME NEW i \in 1 .. Len(wire) + 2, ~(i <= Len(wire))
        PROVE  i - Len(wire) = 1 \/ i - Len(wire) = 2
    BY <2>2, <1>2
  <2>3. QED BY <1>1, <1>2, <1>3, <2>1, <2>2
<1>4. CASE wire' = Append(wire, Unit("magic", k, g, 0))
  <2>1. Unit("magic", k, g, 0) \in Units /\ Unit("magic", k, g, 0).msg = k
    BY UnitType DEF Unit
  <2>2. QED BY <1>2, <1>4, <2>1, AppendProperties
<1>5. QED BY <1>3, <1>4 DEF WriteHeader

\* One more unit of the same message.
LEMMA AppendOne ==
  ASSUME wire \in Seq(Units), NEW v \in Units, wire' = Append(wire, v), NEW n,
         v.msg \in 1 .. n, \A i \in 1 .. Len(wire) : wire[i].msg \in 1 .. n
  PROVE  /\ wire' \in Seq(Units) /\ Len(wire) <= Len(wire')
         /\ \A i \in 1 .. Len(wire') : wire'[i].msg \in 1 .. n
<1>1. /\ wire' \in Seq(Units) /\ Len(wire') = Len(wire) + 1
      /\ \A i \in 1 .. Len(wire) : wire'[i] = wire[i]
      /\ wire'[Len(wire) + 1] = v
  BY AppendProperties
<1>2. Len(wire) \in Nat
  BY LenProperties
<1>3. \A i \in 1 .. Len(wire) + 1 : i \in 1 .. Len(wire) \/ i = Len(wire) + 1
  BY <1>2
<1>4. Len(wire) <= Len(wire')
  BY <1>1, <1>2
<1>5. \A i \in 1 .. Len(wire') : wire'[i].msg \in 1 .. n
  BY <1>1, <1>3
<1>6. QED BY <1>1, <1>4, <1>5

\* Every step of the device and of the call keeps the types.
LEMMA TypeStep == TypeInv /\ [Next]_vars => TypeInv'
<1> SUFFICES ASSUME TypeInv, [Next]_vars PROVE TypeInv'
  OBVIOUS
<1>0. TypeOK /\ Linked
  BY DEF TypeInv
<1> USE ConstantsAssumption DEF TypeInv
<1>1. CASE DeviceBegins
  <2>1. PICK m \in Messages : sent' = Append(sent, m)
    BY <1>1 DEF DeviceBegins
  <2>2. sent' \in Seq(Messages) /\ Len(sent') = Len(sent) + 1
        /\ \A k \in 1 .. Len(sent) : sent'[k] = sent[k]
    BY <2>1, <1>0, AppendProperties DEF TypeOK
  <2>3. /\ wire' \in Seq(Units) /\ Len(wire) <= Len(wire')
        /\ \A i \in 1 .. Len(wire') : wire'[i].msg \in 1 .. Len(sent')
    <3>1. WriteHeader(Len(sent) + 1, 0) /\ Len(sent) + 1 \in Nat \ {0}
      BY <1>1 DEF DeviceBegins, TypeOK
    <3>2. /\ wire' \in Seq(Units) /\ Len(wire) <= Len(wire')
          /\ \A i \in 1 .. Len(wire') :
               wire'[i].msg = IF i <= Len(wire) THEN wire[i].msg ELSE Len(sent) + 1
      BY <3>1, WriteHeaderType DEF TypeOK
    <3>3. \A i \in 1 .. Len(wire) : wire[i].msg \in 1 .. Len(sent)
      BY DEF Linked
    <3>4. \A i \in 1 .. Len(wire') : i <= Len(wire) => i \in 1 .. Len(wire)
      BY <3>2, Basics
    <3>5. \A k \in 1 .. Len(sent) : k \in 1 .. Len(sent')
      BY <2>2, Basics
    <3>6. Len(sent) + 1 \in 1 .. Len(sent')
      BY <2>2, Basics
    <3>7. QED BY <3>2, <3>3, <3>4, <3>5, <3>6
  <2>4. UNCHANGED <<link, rd, pc, chan, id, chunks, hdr, block, received,
                    nextMsgId, delivered>>
    BY <1>1 DEF DeviceBegins, callVars
  <2>5. TypeOK'
    BY <2>2, <2>3, <2>4 DEF TypeOK
  <2>6. Linked'
    BY <2>2, <2>3, <2>4 DEF TypeOK, Linked
  <2>7. QED BY <2>5, <2>6
<1>2. CASE DeviceContinues
  <2> DEFINE u == wire[Len(wire)]
  <2>1. Len(wire) \in 1 .. Len(wire) /\ u \in Units /\ u.msg \in 1 .. Len(sent)
    <3>1. wire # <<>>
      BY <1>2 DEF DeviceContinues, NothingPending
    <3>2. Len(wire) # 0
      BY <3>1, EmptySeq DEF TypeOK
    <3>3. QED BY <3>2, Basics
  <2>2. /\ wire' \in Seq(Units) /\ Len(wire) <= Len(wire')
        /\ \A i \in 1 .. Len(wire') : wire'[i].msg \in 1 .. Len(sent)
    <3>0. wire \in Seq(Units) /\ \A i \in 1 .. Len(wire) : wire[i].msg \in 1 .. Len(sent)
      BY DEF TypeOK, Linked
    <3>1. CASE WriteHeader(u.msg, u.frag + 1)
      <4>1. u.msg \in Nat \ {0} /\ u.frag + 1 \in Nat
        BY <2>1 DEF Units
      <4>2. /\ wire' \in Seq(Units) /\ Len(wire) <= Len(wire')
            /\ \A i \in 1 .. Len(wire') :
                 wire'[i].msg = IF i <= Len(wire) THEN wire[i].msg ELSE u.msg
        BY <3>1, <4>1, WriteHeaderType DEF TypeOK
      <4>3. QED BY <4>2, <2>1, Basics
    <3>2. CASE wire' = Append(wire, [u EXCEPT !.part = "rest"])
      <4> DEFINE v == [u EXCEPT !.part = "rest"]
      <4>1. v \in Units /\ v.msg \in 1 .. Len(sent)
        BY <2>1 DEF Units
      <4>2. wire' = Append(wire, v)
        BY <3>2
      <4> HIDE DEF v
      <4>3. QED BY <4>1, <4>2, <3>0, AppendOne
    <3>3. CASE wire' = Append(wire, Unit("body", u.msg, u.frag, u.off + 1))
      <4> DEFINE v == Unit("body", u.msg, u.frag, u.off + 1)
      <4>1. u.msg \in Nat \ {0} /\ u.frag \in Nat /\ u.off + 1 \in Nat
        BY <2>1 DEF Units
      <4>2. v \in Units
        BY <4>1, UnitType
      <4>3. v.msg \in 1 .. Len(sent)
        BY <2>1 DEF Unit
      <4>4. wire' = Append(wire, v)
        BY <3>3
      <4> HIDE DEF v
      <4>5. QED BY <4>2, <4>3, <4>4, <3>0, AppendOne
    <3>4. QED BY <1>2, <3>1, <3>2, <3>3 DEF DeviceContinues
  <2>3. UNCHANGED <<sent, link, rd, pc, chan, id, chunks, hdr, block, received,
                    nextMsgId, delivered>>
    BY <1>2 DEF DeviceContinues, callVars
  <2>4. TypeOK'
    BY <2>2, <2>3 DEF TypeOK
  <2>5. Linked'
    BY <2>2, <2>3 DEF TypeOK, Linked
  <2>6. QED BY <2>4, <2>5
<1>3. CASE LinkEnds
  <2>1. /\ UNCHANGED <<sent, wire, rd, pc, chan, id, chunks, hdr, block, received,
                       nextMsgId, delivered>>
        /\ link' \in {"up", "eof", "err", "gone"}
    BY <1>3, ConstantsAssumption DEF LinkEnds, callVars
  <2>2. QED BY <2>1 DEF TypeOK, Linked
<1>4. CASE ReadHeaderFails
  <2>1. rd + Avail \in 0 .. Len(wire)
    BY Basics DEF Avail
  <2>2. QED BY <1>4, <2>1 DEF ReadHeaderFails, AfterReadError, TypeOK, Linked
<1>5. CASE ReadHeaderBadMagic
  <2>1. rd + 2 \in 0 .. Len(wire)
    BY <1>5, Basics DEF ReadHeaderBadMagic, Avail
  <2>2. QED BY <1>5, <2>1 DEF ReadHeaderBadMagic, peerVars, TypeOK, Linked
<1>6. CASE ReadHeader
  <2> DEFINE u == wire[rd + 1]
             m == sent[u.msg]
  <2>1. rd + 1 \in 1 .. Len(wire) /\ u \in Units /\ u.msg \in 1 .. Len(sent)
        /\ m \in Message /\ m.len < U32
    <3>1. Len(wire) - rd >= 2
      BY <1>6 DEF ReadHeader, Avail
    <3>2. rd + 1 \in 1 .. Len(wire)
      BY <3>1, Basics
    <3>3. u \in Units /\ u.msg \in 1 .. Len(sent)
      BY <3>2, Basics
    <3>4. QED BY <3>2, <3>3, Basics
  <2>2. /\ UNCHANGED <<sent, wire, link, chan, chunks, delivered>>
        /\ hdr' = [msg |-> u.msg, frag |-> u.frag]
        /\ id' = IF u.frag = 0 THEN m.id ELSE id
        /\ rd' = rd + 2 /\ rd' \in 0 .. Len(wire)
    <3>1. /\ UNCHANGED <<sent, wire, link, chan, chunks, delivered>>
          /\ hdr' = [msg |-> u.msg, frag |-> u.frag]
          /\ id' = IF u.frag = 0 THEN m.id ELSE id
          /\ rd' = rd + 2 /\ Len(wire) - rd >= 2
      BY <1>6 DEF ReadHeader, peerVars, Avail
    <3>2. QED BY <3>1, Basics
  <2>3. nextMsgId' \in [Channels -> Nat]
    <3>1. m.id + 1 \in Nat /\ nextMsgId \in [Channels -> Nat]
      <4>1. m.id \in Nat
        BY <2>1, Basics
      <4>2. nextMsgId \in [Channels -> Nat]
        BY <1>0 DEF TypeOK
      <4> HIDE DEF m
      <4>3. QED BY <4>1, <4>2
    <3>2. nextMsgId' = nextMsgId \/ nextMsgId' = [nextMsgId EXCEPT ![chan] = m.id + 1]
      BY <1>6 DEF ReadHeader, FastForward
    <3>3. QED BY <3>1, <3>2
  <2>4. \/ pc' = "body" /\ received' = 0 /\ block' = [o \in 1 .. m.len |-> Junk]
        \/ pc' = "header" /\ UNCHANGED <<block, received>>
    BY <1>6 DEF ReadHeader
  <2>5. TypeOK'
    <3>1. id' \in Nat /\ hdr' \in [msg: Nat, frag: Nat]
      BY <2>1, <2>2 DEF TypeOK, Units, Message
    <3>2. block' \in Seq(Units \cup {Junk}) /\ received' \in 0 .. U32 - 1
          /\ pc' \in {"idle", "header", "body"}
      <4>1. m.len \in Nat
        BY <2>1, Basics
      <4>2. [o \in 1 .. m.len |-> Junk] \in Seq(Units \cup {Junk})
        BY <4>1, FunctionIsSeq
      <4>3. 0 \in 0 .. U32 - 1
        BY Basics
      <4>4. QED BY <2>4, <4>2, <4>3, <1>0 DEF TypeOK
    <3>3. QED BY <2>2, <2>3, <3>1, <3>2 DEF TypeOK
  <2>6. Linked'
    BY <2>1, <2>2, <2>4 DEF Linked, TypeOK, Message
  <2>7. QED BY <2>5, <2>6
<1>7. CASE ReadBody
  <2> DEFINE part == Least(BodyLen - received, Avail)
             n == sent[hdr.msg].len
  <2>1. /\ n \in Nat \ {0} /\ n < U32 /\ BodyLen = n /\ received < n
        /\ pc = "body" /\ block \in [1 .. n -> Units \cup {Junk}]
    BY <1>7, Basics DEF ReadBody, BodyLen, Linked
  <2>2. /\ part \in 0 .. n - received /\ part <= Len(wire) - rd
    <3>1. n - received \in Nat /\ Avail \in Nat /\ Avail <= Len(wire) - rd
      <4>1. n \in Nat /\ received \in Nat /\ received < n
        BY <2>1, Basics
      <4>2. n - received \in Nat
        BY <4>1
      <4>3. Avail \in Nat /\ Avail <= Len(wire) - rd
        BY Basics DEF Avail
      <4>4. QED BY <4>2, <4>3
    <3>2. part = Least(n - received, Avail)
      BY <2>1
    <3> HIDE DEF part, n
    <3>3. QED BY <3>1, <3>2, Basics DEF Least
  <2>3. /\ UNCHANGED <<sent, wire, link, pc, chan, id, chunks, hdr, nextMsgId,
                       delivered>>
        /\ rd' = rd + part /\ received' = received + part
        /\ block' = [o \in DOMAIN block |->
                       IF o \in received + 1 .. received + part
                         THEN wire[rd + o - received] ELSE block[o]]
    BY <1>7 DEF ReadBody, peerVars
  <2>4. block' \in [1 .. n -> Units \cup {Junk}]
    <3>1. DOMAIN block = 1 .. n
      BY <2>1
    <3>2. ASSUME NEW o \in 1 .. n, o \in received + 1 .. received + part
          PROVE  wire[rd + o - received] \in Units
      <4>1. part \in Nat /\ n \in Nat
        BY <2>1, <2>2, Basics
      <4>2. part <= Len(wire) - rd
        BY <2>2
      <4> HIDE DEF part, n
      <4>3. rd + o - received \in 1 .. Len(wire)
        BY <3>2, <4>1, <4>2, Basics
      <4>4. QED BY <4>3, Basics
    <3>3. \A o \in 1 .. n : block[o] \in Units \cup {Junk}
      BY <2>1
    <3>4. \A o \in 1 .. n :
            (IF o \in received + 1 .. received + part
               THEN wire[rd + o - received] ELSE block[o]) \in Units \cup {Junk}
      BY <3>2, <3>3
    <3> HIDE DEF part, n
    <3>5. QED BY <2>3, <3>1, <3>4
  <2>5. received' \in 0 .. U32 - 1 /\ rd' \in 0 .. Len(wire)
    <3>1. /\ n \in Nat /\ n < U32 /\ U32 \in Nat /\ received \in Nat /\ rd \in Nat
          /\ Len(wire) \in Nat /\ part \in 0 .. n - received
          /\ part <= Len(wire) - rd /\ rd' = rd + part /\ received' = received + part
      BY <2>1, <2>2, <2>3, Basics
    <3> HIDE DEF part, n
    <3>2. QED BY <3>1
  <2>6. block' \in Seq(Units \cup {Junk})
    BY <2>1, <2>4, FunctionIsSeq
  <2>7. TypeOK'
    BY <2>3, <2>5, <2>6 DEF TypeOK
  <2>8. Linked'
    BY <2>1, <2>3, <2>4 DEF Linked
  <2>9. QED BY <2>7, <2>8
<1>8. CASE ReadBodyError
  <2>1. (received + U32 - 1) % U32 \in 0 .. U32 - 1
    BY DEF TypeOK
  <2>2. QED BY <1>8, <2>1 DEF ReadBodyError, AfterReadError, TypeOK, Linked
<1>9. CASE EndFragment
  <2>1. /\ UNCHANGED <<sent, wire, link, rd, chan, id, hdr, block, received,
                       nextMsgId>>
        /\ chunks' = Append(chunks, block)
        /\ \/ /\ pc' = "idle"
              /\ delivered' = Append(delivered,
                                [chan |-> chan, id |-> id, chunks |-> chunks'])
           \/ pc' = "header" /\ UNCHANGED delivered
    BY <1>9 DEF EndFragment, peerVars
  <2>2. chunks' \in Seq(Seq(Units \cup {Junk}))
    BY <1>0, <2>1, AppendProperties DEF TypeOK
  <2>3. [chan |-> chan, id |-> id, chunks |-> chunks'] \in
          [chan: Channels, id: Nat, chunks: Seq(Seq(Units \cup {Junk}))]
    BY <2>2 DEF TypeOK
  <2>4. delivered' \in Seq([chan: Channels, id: Nat,
                            chunks: Seq(Seq(Units \cup {Junk}))])
    <3> DEFINE R == [chan: Channels, id: Nat, chunks: Seq(Seq(Units \cup {Junk}))]
               r == [chan |-> chan, id |-> id, chunks |-> chunks']
    <3>1. delivered \in Seq(R) /\ r \in R
          /\ (delivered' = Append(delivered, r) \/ delivered' = delivered)
      BY <1>0, <2>1, <2>3 DEF TypeOK
    <3>2. delivered' \in Seq(R)
      <4> HIDE DEF R, r
      <4>1. QED BY <3>1, AppendProperties
    <3>3. QED BY <3>2
  <2>5. TypeOK'
    BY <2>1, <2>2, <2>4 DEF TypeOK
  <2>6. Linked'
    BY <2>1 DEF Linked
  <2>7. QED BY <2>5, <2>6
<1>10. ASSUME NEW c \in Channels, Call(c) PROVE TypeInv'
  BY <1>10 DEF Call, peerVars, TypeOK, Linked
<1>11. CASE UNCHANGED vars
  BY <1>11 DEF vars, TypeOK, Linked
<1>12. QED
  BY <1>1, <1>2, <1>3, <1>4, <1>5, <1>6, <1>7, <1>8, <1>9, <1>10, <1>11
     DEF Next, Device, Reader

\* The values of every run of channel__recv_withid have the declared types;
\* `received` in particular never leaves its 32 bits, and no read asks for
\* bytes beyond the block.
THEOREM TypeCorrect == Spec => []TypeOK
<1>1. Init => TypeInv
  BY ConstantsAssumption DEF Init, TypeInv, TypeOK, Linked
<1>2. TypeInv /\ [Next]_vars => TypeInv'
  BY TypeStep
<1>3. TypeInv => TypeOK
  BY DEF TypeInv
<1>4. QED BY <1>1, <1>2, <1>3, PTL DEF Spec

-----------------------------------------------------------------------------
(* The wire, for any units w and messages s.                                *)

\* HasBody, EndsFrame and EndsMessage, for any messages.
Bodied(s, k, g) == g # 0 \/ s[k].count = 1
Final(s, u) == u.frag = s[u.msg].count - 1
Stops(s, u) ==
  IF Bodied(s, u.msg, u.frag) THEN u.part = "body" /\ u.off = s[u.msg].len
                              ELSE u.part = "rest"
Closes(s, u) == Stops(s, u) /\ Final(s, u)

\* A unit of one of the messages.
Fits(s, u) ==
  /\ u \in Units /\ u.msg \in 1 .. Len(s) /\ u.frag < s[u.msg].count
  /\ IF u.part = "body" THEN Bodied(s, u.msg, u.frag) /\ u.off \in 1 .. s[u.msg].len
                        ELSE u.off = 0

\* The unit that comes after another one.
After(s, u) ==
  IF Stops(s, u)
    THEN IF Final(s, u) THEN Unit("magic", u.msg + 1, 0, 0)
                        ELSE Unit("magic", u.msg, u.frag + 1, 0)
    ELSE IF u.part = "magic" THEN Unit("rest", u.msg, u.frag, 0)
                             ELSE Unit("body", u.msg, u.frag, u.off + 1)

AllFit(w, s) == \A i \in 1 .. Len(w) : Fits(s, w[i])
Starts(w) == Len(w) >= 1 => w[1] = Unit("magic", 1, 0, 0)
Follow(w, s) == \A i \in 1 .. Len(w) : i + 1 <= Len(w) => w[i + 1] = After(s, w[i])
BodiesFollow(w, s) ==
  \A i \in 1 .. Len(w) :
    w[i].part = "rest" /\ Bodied(s, w[i].msg, w[i].frag) =>
      \A o \in 1 .. s[w[i].msg].len :
        i + o <= Len(w) => w[i + o] = Unit("body", w[i].msg, w[i].frag, o)
LaterIsLater(w, s) ==
  \A i, j \in 1 .. Len(w) : i < j /\ Closes(s, w[i]) => w[i].msg < w[j].msg
LastIsLast(w, s) ==
  /\ Len(w) = 0 => Len(s) = 0
  /\ Len(w) # 0 => w[Len(w)].msg = Len(s)

Chained(w, s) ==
  /\ AllFit(w, s) /\ Starts(w) /\ Follow(w, s) /\ BodiesFollow(w, s)
  /\ LaterIsLater(w, s)
Formed == Chained(wire, sent) /\ LastIsLast(wire, sent)

-----------------------------------------------------------------------------
(* The call and the results. *)

Broken == link \in {"err", "gone"}

\* The body of a fragment, and the first fragment that has one, for any messages.
WholeOf(s, k, g) == [o \in 1 .. s[k].len |-> Unit("body", k, g, o)]
Low(s, k) == IF s[k].count = 1 THEN 0 ELSE 1

\* The bodies c are the last ones of message k up to fragment g; n is the
\* message's id or none; counter x[c] is not behind it; the first p units hold
\* its end.
TailOf(s, c, k, g) ==
  /\ Len(c) <= g + 1 - Low(s, k)
  /\ \A i \in 1 .. Len(c) : c[i] = WholeOf(s, k, g - Len(c) + i)
NamedFor(s, n, k) == n \in {0, s[k].id}
Counted(s, x, c, k) == s[k].conv = 0 => x[c] >= s[k].id
Past(s, w, p, k) == \E e \in 1 .. p : Closes(s, w[e]) /\ w[e].msg = k

\* Result j is the last bodies of one message.
Good(j) ==
  LET r == delivered[j]
      k == Source(j)
  IN /\ k \in 1 .. Len(sent) /\ Len(r.chunks) >= 1
     /\ TailOf(sent, r.chunks, k, sent[k].count - 1)
     /\ NamedFor(sent, r.id, k) /\ Counted(sent, nextMsgId, r.chan, k)
     /\ Past(sent, wire, rd, k)

\* The block holds the bytes read so far, or the connection broke before its end.
Filled ==
  LET k == hdr.msg
      g == hdr.frag
  IN /\ received <= sent[k].len /\ rd - received >= 1
     /\ wire[rd - received] = Unit("rest", k, g, 0)
     /\ \A o \in 1 .. sent[k].len :
          block[o] = IF o <= received THEN Unit("body", k, g, o) ELSE Junk
Spoiled == Broken /\ block[sent[hdr.msg].len] = Junk

\* The call is reading the body of fragment hdr.frag of message hdr.msg.
AllBefore(k) == \A j \in DOMAIN delivered : Good(j) /\ Source(j) < k
InBody ==
  LET k == hdr.msg
      g == hdr.frag
  IN /\ k \in 1 .. Len(sent) /\ g < sent[k].count /\ Bodied(sent, k, g)
     /\ TailOf(sent, chunks, k, g - 1) /\ NamedFor(sent, id, k)
     /\ Counted(sent, nextMsgId, chan, k) /\ AllBefore(k)
     /\ Filled \/ Spoiled

\* The call is at the start, or between two frames of one message.
Fresh == chunks = <<>> /\ id = 0
Between ==
  LET u == wire[rd]
  IN /\ rd >= 1 /\ Stops(sent, u) /\ ~Final(sent, u)
     /\ TailOf(sent, chunks, u.msg, u.frag) /\ NamedFor(sent, id, u.msg)
Reading ==
  /\ pc = "header" => Fresh \/ Between \/ Broken
  /\ pc = "body" => InBody

\* Only the last result can be anything but the tail of a message, when the
\* connection has broken; the others are tails of later and later messages.
GoodOrLast(j) == Good(j) \/ (Damaged(j) /\ j = Len(delivered) /\ Broken)
Returned ==
  /\ \A j \in DOMAIN delivered : GoodOrLast(j)
  /\ \A i, j \in DOMAIN delivered : i < j /\ ~Damaged(j) => Source(i) < Source(j)

IInv == TypeInv /\ Formed /\ Reading /\ Returned

-----------------------------------------------------------------------------
(* Where headers are read whole. *)

Dead == link # "up" /\ Avail = 0
AtStart ==
  IF rd = 0 THEN delivered = <<>>
            ELSE Closes(sent, wire[rd]) /\ wire[rd].msg = Len(delivered)

\* All the bodies of message k up to fragment g, and its id.
Exactly(k, g) == Len(chunks) = g + 1 - Low(sent, k) /\ id = sent[k].id

WholeHeaders == Len(wire) # 0 => wire[Len(wire)].part # "magic"
InTurn ==
  /\ pc = "idle" => Dead \/ AtStart
  /\ pc = "header" =>
       \/ Dead
       \/ Fresh /\ AtStart
       \/ /\ Between /\ wire[rd].msg = Len(delivered) + 1
          /\ Exactly(wire[rd].msg, wire[rd].frag)
  /\ pc = "body" => hdr.msg = Len(delivered) + 1 /\ Exactly(hdr.msg, hdr.frag - 1)
Complete ==
  \A j \in DOMAIN delivered :
    ~Damaged(j) => /\ Source(j) = j /\ delivered[j].id = sent[j].id
                   /\ Len(delivered[j].chunks) = sent[j].count - Low(sent, j)
Punctual == WholeHeaders /\ InTurn /\ Complete

-----------------------------------------------------------------------------
(* The device keeps the wire in order. *)

\* What is known of a list of messages.
Numbers(s) ==
  /\ Len(s) \in Nat
  /\ \A k \in 1 .. Len(s) : s[k].count \in Nat \ {0} /\ s[k].len \in Nat \ {0}

\* The fields of a unit that belongs to a message.
LEMMA FitsFields ==
  ASSUME NEW s, Numbers(s), NEW u, Fits(s, u)
  PROVE  /\ u \in Units /\ u.msg \in 1 .. Len(s) /\ u.msg \in Nat \ {0}
         /\ u.frag \in Nat /\ u.off \in Nat /\ u.part \in {"magic", "rest", "body"}
         /\ s[u.msg].len \in Nat \ {0} /\ s[u.msg].count \in Nat \ {0}
         /\ u.frag < s[u.msg].count
         /\ u.part # "body" => u.off = 0
         /\ u.part = "body" => /\ Bodied(s, u.msg, u.frag)
                               /\ u.off >= 1 /\ u.off <= s[u.msg].len
<1>1. /\ u \in Units /\ u.msg \in 1 .. Len(s) /\ u.frag < s[u.msg].count
      /\ u.part # "body" => u.off = 0
  BY DEF Fits
<1>2. u.part = "body" => Bodied(s, u.msg, u.frag) /\ u.off \in 1 .. s[u.msg].len
  BY DEF Fits
<1>3. /\ u.msg \in Nat \ {0} /\ u.frag \in Nat /\ u.off \in Nat
      /\ u.part \in {"magic", "rest", "body"}
  BY <1>1 DEF Units
<1>4. s[u.msg].len \in Nat \ {0} /\ s[u.msg].count \in Nat \ {0}
  BY <1>1 DEF Numbers
<1>5. QED BY <1>1, <1>2, <1>3, <1>4

\* A unit determines its fields.
LEMMA UnitFields ==
  ASSUME NEW p, NEW k, NEW g, NEW o
  PROVE  /\ Unit(p, k, g, o).part = p /\ Unit(p, k, g, o).msg = k
         /\ Unit(p, k, g, o).frag = g /\ Unit(p, k, g, o).off = o
BY DEF Unit

\* Past the rest of a header with a body, and past a byte that is not the last
\* one, comes the next byte of the body.
LEMMA AfterIsBody ==
  ASSUME NEW s, Numbers(s), NEW u, Fits(s, u), Bodied(s, u.msg, u.frag),
         u.part = "rest" \/ (u.part = "body" /\ u.off # s[u.msg].len)
  PROVE  After(s, u) = Unit("body", u.msg, u.frag, u.off + 1)
<1>1. ~Stops(s, u)
  BY DEF Stops
<1>2. u.part # "magic"
  OBVIOUS
<1>3. QED BY <1>1, <1>2 DEF After

\* Unit v is the one that comes next on the wire.
ComesNext(w, s, v) ==
  /\ Fits(s, v) /\ v.msg = Len(s)
  /\ Len(w) = 0 => v = Unit("magic", 1, 0, 0)
  /\ Len(w) # 0 => v = After(s, w[Len(w)])
  /\ \A i \in 1 .. Len(w) : Closes(s, w[i]) => w[i].msg < v.msg

\* List x is w and after it unit v.
Extends(w, x, v) ==
  /\ x \in Seq(Units) /\ Len(x) = Len(w) + 1 /\ x[Len(w) + 1] = v
  /\ \A i \in 1 .. Len(w) : x[i] = w[i]

\* One more unit, the one that comes next.
LEMMA OneUnit ==
  ASSUME NEW w \in Seq(Units), NEW s, Numbers(s), Chained(w, s),
         NEW v, ComesNext(w, s, v), NEW x, x = Append(w, v)
  PROVE  Extends(w, x, v) /\ Chained(x, s) /\ LastIsLast(x, s)
<1>0. /\ Fits(s, v) /\ v.msg = Len(s)
      /\ Len(w) = 0 => v = Unit("magic", 1, 0, 0)
      /\ Len(w) # 0 => v = After(s, w[Len(w)])
      /\ \A i \in 1 .. Len(w) : Closes(s, w[i]) => w[i].msg < v.msg
  BY DEF ComesNext
<1>1. v \in Units
  BY <1>0 DEF Fits
<1>2. /\ x \in Seq(Units) /\ Len(x) = Len(w) + 1 /\ x[Len(w) + 1] = v
      /\ \A i \in 1 .. Len(w) : x[i] = w[i]
  BY <1>1, AppendProperties
<1>3. Len(w) \in Nat
  BY LenProperties
<1> DEFINE N == Len(w)
<1>4. \A i \in 1 .. Len(x) : i \in 1 .. N \/ i = N + 1
  BY <1>2, <1>3
<1>5. AllFit(x, s)
  <2>1. \A i \in 1 .. N : Fits(s, w[i])
    BY DEF Chained, AllFit
  <2>2. QED BY <1>0, <1>2, <1>4, <2>1 DEF AllFit
<1>6. Starts(x)
  <2>1. CASE N = 0
    <3>1. x[1] = v
      BY <1>2, <2>1
    <3>2. QED BY <1>0, <2>1, <3>1 DEF Starts
  <2>2. CASE N # 0
    <3>1. 1 \in 1 .. N /\ N >= 1
      BY <1>3, <2>2
    <3>2. w[1] = Unit("magic", 1, 0, 0)
      BY <3>1 DEF Chained, Starts
    <3>3. QED BY <1>2, <3>1, <3>2 DEF Starts
  <2>3. QED BY <2>1, <2>2
<1>7. Follow(x, s)
  <2> SUFFICES ASSUME NEW i \in 1 .. Len(x), i + 1 <= Len(x)
               PROVE  x[i + 1] = After(s, x[i])
    BY DEF Follow
  <2>1. i \in 1 .. N
    BY <1>2, <1>3
  <2>2. CASE i = N
    <3>1. N # 0 /\ x[i + 1] = v /\ x[i] = w[N]
      BY <1>2, <1>3, <2>1, <2>2
    <3>2. QED BY <1>0, <3>1
  <2>3. CASE i # N
    <3>1. i + 1 \in 1 .. N /\ i + 1 <= N
      BY <1>3, <2>1, <2>3
    <3>2. w[i + 1] = After(s, w[i])
      BY <2>1, <3>1 DEF Chained, Follow
    <3>3. QED BY <1>2, <2>1, <3>1, <3>2
  <2>4. QED BY <2>2, <2>3
<1>8. BodiesFollow(x, s)
  <2> SUFFICES ASSUME NEW i \in 1 .. Len(x), x[i].part = "rest",
                      Bodied(s, x[i].msg, x[i].frag),
                      NEW o \in 1 .. s[x[i].msg].len, i + o <= Len(x)
               PROVE  x[i + o] = Unit("body", x[i].msg, x[i].frag, o)
    BY DEF BodiesFollow
  <2> DEFINE u == x[i]
  <2>0. Fits(s, u)
    BY <1>5 DEF AllFit
  <2>1. o \in Nat /\ o >= 1 /\ o <= s[u.msg].len /\ s[u.msg].len \in Nat
    BY <2>0, FitsFields
  <2>2. i \in 1 .. N /\ u = w[i]
    BY <1>2, <1>3, <2>1
  <2>3. CASE i + o <= N
    <3>1. w[i + o] = Unit("body", u.msg, u.frag, o)
      BY <2>2, <2>3 DEF Chained, BodiesFollow
    <3>2. i + o \in 1 .. N
      BY <1>3, <2>1, <2>2, <2>3
    <3>3. QED BY <1>2, <3>1, <3>2
  <2>4. CASE i + o = N + 1
    <3>0. x[i + o] = After(s, w[N])
      <4>1. N # 0
        BY <2>2
      <4>2. QED BY <1>0, <1>2, <2>4, <4>1
    <3>1. CASE o = 1
      <4>1. i = N
        BY <1>3, <2>2, <2>4, <3>1
      <4>2. u = w[N] /\ u.off = 0
        BY <4>1, <2>0, <2>2, FitsFields
      <4>3. After(s, u) = Unit("body", u.msg, u.frag, u.off + 1)
        BY <2>0, AfterIsBody
      <4>4. QED BY <3>0, <3>1, <4>2, <4>3
    <3>2. CASE o > 1
      <4>0. PICK n \in Nat : n = s[u.msg].len
        BY <2>1
      <4>1. i + (o - 1) = N /\ o - 1 \in 1 .. s[u.msg].len /\ N \in 1 .. N
        <5>1. i + (o - 1) = N /\ N \in 1 .. N
          <6>1. N \in Nat /\ i \in 1 .. N /\ o \in Nat /\ i + o = N + 1
            BY <1>3, <2>1, <2>2, <2>4
          <6> HIDE DEF N
          <6>2. QED BY <6>1
        <5>2. o - 1 \in 1 .. n
          <6>1. o <= n
            BY <2>1, <4>0
          <6>2. QED BY <2>1, <3>2, <6>1
        <5>3. QED BY <4>0, <5>1, <5>2
      <4>2. w[i + (o - 1)] = Unit("body", u.msg, u.frag, o - 1)
        <5>1. i + (o - 1) <= Len(w)
          BY <1>3, <4>1
        <5>2. /\ w[i].part = "rest" /\ Bodied(s, w[i].msg, w[i].frag)
              /\ o - 1 \in 1 .. s[w[i].msg].len
          BY <2>2, <4>1
        <5>3. w[i + (o - 1)] = Unit("body", w[i].msg, w[i].frag, o - 1)
          BY <2>2, <5>1, <5>2 DEF Chained, BodiesFollow
        <5>4. QED BY <2>2, <5>3
      <4> DEFINE b == w[N]
      <4>3. b = Unit("body", u.msg, u.frag, o - 1)
        BY <4>1, <4>2
      <4>4. b.part = "body" /\ b.msg = u.msg /\ b.frag = u.frag /\ b.off = o - 1
        BY <4>3, UnitFields
      <4>5. Fits(s, b)
        BY <4>1 DEF Chained, AllFit
      <4>6. b.off # s[b.msg].len /\ b.off + 1 = o
        BY <2>1, <4>4
      <4>7. Bodied(s, b.msg, b.frag)
        BY <4>4
      <4>8. After(s, b) = Unit("body", b.msg, b.frag, b.off + 1)
        <5> HIDE DEF b
        <5>1. QED BY <4>4, <4>5, <4>6, <4>7, AfterIsBody
      <4>9. QED BY <3>0, <4>4, <4>6, <4>8
    <3>3. QED BY <2>1, <3>1, <3>2
  <2>5. i + o <= N \/ i + o = N + 1
    BY <1>2, <1>3, <2>1, <2>2
  <2>6. QED BY <2>3, <2>4, <2>5
<1>9. LaterIsLater(x, s)
  <2> SUFFICES ASSUME NEW i \in 1 .. Len(x), NEW j \in 1 .. Len(x), i < j,
                      Closes(s, x[i])
               PROVE  x[i].msg < x[j].msg
    BY DEF LaterIsLater
  <2>1. i \in 1 .. N
    BY <1>2, <1>3
  <2>2. CASE j = N + 1
    BY <1>0, <1>2, <2>1, <2>2
  <2>3. CASE j \in 1 .. N
    BY <1>2, <2>1, <2>3 DEF Chained, LaterIsLater
  <2>4. QED BY <1>4, <2>2, <2>3
<1>10. LastIsLast(x, s)
  <2>1. Len(x) # 0 /\ x[Len(x)] = v
    BY <1>2, <1>3
  <2>2. QED BY <1>0, <2>1 DEF LastIsLast
<1>11. Extends(w, x, v)
  BY <1>2 DEF Extends
<1>12. QED BY <1>5, <1>6, <1>7, <1>8, <1>9, <1>10, <1>11 DEF Chained

\* Units of messages that were there before mean the same when there are more.
LEMMA SameUnit ==
  ASSUME NEW s, NEW t, NEW u, t[u.msg] = s[u.msg]
  PROVE  /\ Stops(t, u) = Stops(s, u) /\ Final(t, u) = Final(s, u)
         /\ Closes(t, u) = Closes(s, u) /\ After(t, u) = After(s, u)
<1>1. \A g : Bodied(t, u.msg, g) = Bodied(s, u.msg, g)
  BY DEF Bodied
<1>2. Stops(t, u) = Stops(s, u) /\ Final(t, u) = Final(s, u)
  BY <1>1 DEF Stops, Final
<1>3. QED BY <1>2 DEF Closes, After

\* A new message does not change what is on the wire.
LEMMA MoreMessages ==
  ASSUME NEW w \in Seq(Units), NEW s, Numbers(s), NEW t, Numbers(t),
         Len(s) <= Len(t), \A k \in 1 .. Len(s) : t[k] = s[k], Chained(w, s)
  PROVE  /\ Chained(w, t)
         /\ \A i \in 1 .. Len(w) : Closes(t, w[i]) => Closes(s, w[i])
<1>1. \A i \in 1 .. Len(w) : w[i].msg \in 1 .. Len(s) /\ t[w[i].msg] = s[w[i].msg]
  BY DEF Chained, AllFit, Fits
<1>2. ASSUME NEW i \in 1 .. Len(w)
      PROVE  /\ Stops(t, w[i]) = Stops(s, w[i]) /\ Final(t, w[i]) = Final(s, w[i])
             /\ Closes(t, w[i]) = Closes(s, w[i]) /\ After(t, w[i]) = After(s, w[i])
             /\ Bodied(t, w[i].msg, w[i].frag) = Bodied(s, w[i].msg, w[i].frag)
             /\ Fits(t, w[i])
  <2>1. t[w[i].msg] = s[w[i].msg]
    BY <1>1
  <2>2. Bodied(t, w[i].msg, w[i].frag) = Bodied(s, w[i].msg, w[i].frag)
    BY <2>1 DEF Bodied
  <2>3. Fits(t, w[i])
    <3>1. w[i].msg \in 1 .. Len(t)
      BY <1>1 DEF Numbers
    <3>2. Fits(s, w[i])
      BY DEF Chained, AllFit
    <3>3. QED BY <2>1, <2>2, <3>1, <3>2 DEF Fits
  <2>4. QED BY <2>1, <2>2, <2>3, SameUnit
<1>3. AllFit(w, t)
  BY <1>2 DEF AllFit
<1>4. Starts(w)
  BY DEF Chained
<1>5. Follow(w, t)
  BY <1>2 DEF Chained, Follow
<1>6. BodiesFollow(w, t)
  BY <1>1, <1>2 DEF Chained, BodiesFollow
<1>7. LaterIsLater(w, t)
  BY <1>2 DEF Chained, LaterIsLater
<1>8. QED BY <1>2, <1>3, <1>4, <1>5, <1>6, <1>7 DEF Chained

\* Two units at once are one after the other.
LEMMA TwoUnits ==
  ASSUME NEW w \in Seq(Units), NEW a \in Units, NEW b \in Units
  PROVE  w \o <<a, b>> = Append(Append(w, a), b)
<1> DEFINE h == <<a, b>>
           x == Append(w, a)
           y == Append(x, b)
<1>1. h \in Seq(Units) /\ Len(h) = 2 /\ h[1] = a /\ h[2] = b
  OBVIOUS
<1>2. Len(w) \in Nat
  BY LenProperties
<1>3. /\ x \in Seq(Units) /\ Len(x) = Len(w) + 1 /\ x[Len(w) + 1] = a
      /\ \A i \in 1 .. Len(w) : x[i] = w[i]
  BY AppendProperties
<1> HIDE DEF h, x
<1>4. /\ y \in Seq(Units) /\ Len(y) = Len(x) + 1 /\ y[Len(x) + 1] = b
      /\ \A i \in 1 .. Len(x) : y[i] = x[i]
  BY <1>3, AppendProperties
<1>5. /\ w \o h \in Seq(Units) /\ Len(w \o h) = Len(w) + Len(h)
      /\ \A i \in 1 .. Len(w) + Len(h) :
           (w \o h)[i] = IF i <= Len(w) THEN w[i] ELSE h[i - Len(w)]
  BY <1>1, ConcatProperties
<1> DEFINE z == w \o h
<1> HIDE DEF y, z
<1>6. z \in Seq(Units) /\ Len(z) = Len(w) + 2
      /\ \A i \in 1 .. Len(w) + 2 :
           z[i] = IF i <= Len(w) THEN w[i] ELSE h[i - Len(w)]
  BY <1>1, <1>5 DEF z
<1>7. Len(y) = Len(w) + 2
  BY <1>2, <1>3, <1>4
<1>8. ASSUME NEW i \in 1 .. Len(z) PROVE z[i] = y[i]
  <2>1. CASE i <= Len(w)
    <3>1. i \in 1 .. Len(w) /\ i \in 1 .. Len(x)
      BY <1>2, <1>3, <1>6, <2>1
    <3>2. QED BY <1>3, <1>4, <1>6, <2>1, <3>1
  <2>2. CASE i = Len(w) + 1
    <3>1. i - Len(w) = 1 /\ ~(i <= Len(w)) /\ i \in 1 .. Len(x)
      BY <1>2, <1>3, <2>2
    <3>2. QED BY <1>1, <1>3, <1>4, <1>6, <2>2, <3>1
  <2>3. CASE i = Len(w) + 2
    <3>1. i - Len(w) = 2 /\ ~(i <= Len(w)) /\ i = Len(x) + 1
      BY <1>2, <1>3, <2>3
    <3>2. QED BY <1>1, <1>4, <1>6, <3>1
  <2>4. QED BY <1>2, <1>6, <2>1, <2>2, <2>3
<1>9. z = y
  BY <1>4, <1>6, <1>7, <1>8, SeqEqual
<1>10. QED BY <1>9 DEF h, x, y, z

\* The first part of a header does not end anything; the second part follows it.
LEMMA AfterMagic ==
  ASSUME NEW s, NEW k, NEW g, NEW u, u = Unit("magic", k, g, 0)
  PROVE  /\ ~Stops(s, u) /\ ~Closes(s, u) /\ After(s, u) = Unit("rest", k, g, 0)
<1>1. u.part = "magic" /\ u.msg = k /\ u.frag = g
  BY UnitFields
<1>2. ~Stops(s, u)
  BY <1>1 DEF Stops
<1>3. QED BY <1>1, <1>2 DEF Closes, After

\* A header written where one comes next.
LEMMA HeaderWritten ==
  ASSUME wire \in Seq(Units), NEW s, Numbers(s), Chained(wire, s),
         NEW k, NEW g \in Nat, k = Len(s), k # 0, g < s[k].count, WriteHeader(k, g),
         Len(wire) = 0 => k = 1 /\ g = 0,
         Len(wire) # 0 => Unit("magic", k, g, 0) = After(s, wire[Len(wire)]),
         \A i \in 1 .. Len(wire) : Closes(s, wire[i]) => wire[i].msg < k
  PROVE  /\ wire' \in Seq(Units) /\ Len(wire) <= Len(wire')
         /\ \A i \in 1 .. Len(wire) : wire'[i] = wire[i]
         /\ Chained(wire', s) /\ LastIsLast(wire', s)
         /\ Len(wire') # 0 /\ ~Closes(s, wire'[Len(wire')])
         /\ ~SplitHeaders => wire'[Len(wire')].part = "rest"
<1>1. k \in Nat \ {0} /\ k \in 1 .. Len(s) /\ Len(wire) \in Nat
  BY LenProperties DEF Numbers
<1>2. PICK a : a = Unit("magic", k, g, 0)
  OBVIOUS
<1>3. PICK b : b = Unit("rest", k, g, 0)
  OBVIOUS
<1>4. /\ a.part = "magic" /\ a.msg = k /\ a.frag = g /\ a.off = 0
      /\ b.part = "rest" /\ b.msg = k /\ b.frag = g /\ b.off = 0
  BY <1>2, <1>3, UnitFields
<1>5. a \in Units /\ b \in Units
  BY <1>1, <1>2, <1>3, UnitType
<1>6. Fits(s, a) /\ Fits(s, b)
  BY <1>1, <1>4, <1>5 DEF Fits
<1>7. ~Closes(s, a) /\ After(s, a) = b
  BY <1>2, <1>3, AfterMagic
<1>8. PICK x : x = Append(wire, a)
  OBVIOUS
<1>9. /\ x \in Seq(Units) /\ Len(x) = Len(wire) + 1 /\ x[Len(wire) + 1] = a
      /\ \A i \in 1 .. Len(wire) : x[i] = wire[i]
      /\ Chained(x, s) /\ LastIsLast(x, s)
  <2>1. ComesNext(wire, s, a)
    BY <1>2, <1>4, <1>6 DEF ComesNext
  <2>2. Extends(wire, x, a) /\ Chained(x, s) /\ LastIsLast(x, s)
    BY <1>8, <2>1, OneUnit
  <2>3. QED BY <2>2 DEF Extends
<1>10. Len(x) # 0 /\ x[Len(x)] = a
  BY <1>1, <1>9
<1>11. CASE wire' = wire \o Header(k, g)
  <2>1. wire' = Append(x, b)
    <3>1. Header(k, g) = <<a, b>>
      BY <1>2, <1>3 DEF Header
    <3>2. QED BY <1>5, <1>8, <1>11, <3>1, TwoUnits
  <2>2. ASSUME NEW i \in 1 .. Len(x), Closes(s, x[i]) PROVE x[i].msg < b.msg
    <3>1. i \in 1 .. Len(wire)
      BY <1>1, <1>7, <1>9, <2>2
    <3>2. QED BY <1>4, <1>9, <2>2, <3>1
  <2>3. ComesNext(x, s, b)
    BY <1>4, <1>6, <1>7, <1>10, <2>2 DEF ComesNext
  <2>4. /\ wire' \in Seq(Units) /\ Len(wire') = Len(x) + 1 /\ wire'[Len(x) + 1] = b
        /\ \A i \in 1 .. Len(x) : wire'[i] = x[i]
        /\ Chained(wire', s) /\ LastIsLast(wire', s)
    <3>1. PICK y : y = wire'
      OBVIOUS
    <3>2. y = Append(x, b)
      BY <2>1, <3>1
    <3>3. Extends(x, y, b) /\ Chained(y, s) /\ LastIsLast(y, s)
      BY <1>9, <2>3, <3>2, OneUnit
    <3>4. QED BY <3>1, <3>3 DEF Extends
  <2>5. Len(wire') = Len(wire) + 2 /\ wire'[Len(wire')] = b /\ Len(wire') # 0
    BY <1>1, <1>9, <2>4
  <2>6. \A i \in 1 .. Len(wire) : wire'[i] = wire[i]
    <3>1. \A i \in 1 .. Len(wire) : i \in 1 .. Len(x)
      BY <1>1, <1>9
    <3>2. QED BY <1>9, <2>4, <3>1
  <2>7. ~Closes(s, b)
    <3>1. SUFFICES ASSUME Stops(s, b), Final(s, b) PROVE FALSE
      BY DEF Closes
    <3>2. ~Bodied(s, k, g)
      BY <1>4, <3>1 DEF Stops
    <3>3. g = 0 /\ s[k].count # 1
      BY <3>2 DEF Bodied
    <3>4. g = s[k].count - 1 /\ s[k].count \in Nat
      BY <1>1, <1>4, <3>1 DEF Final, Numbers
    <3>5. QED BY <3>3, <3>4
  <2>8. QED BY <1>1, <1>4, <2>4, <2>5, <2>6, <2>7
<1>12. CASE wire' = x
  <2>1. SplitHeaders \/ wire' = wire \o Header(k, g)
    BY DEF WriteHeader
  <2>2. CASE SplitHeaders
    <3>1. Len(wire) <= Len(x)
      BY <1>1, <1>9
    <3>2. QED BY <1>7, <1>9, <1>10, <1>12, <2>2, <3>1
  <2>3. CASE wire' = wire \o Header(k, g)
    BY <1>11, <2>3
  <2>4. QED BY <2>1, <2>2, <2>3
<1>13. QED
  BY <1>2, <1>8, <1>11, <1>12 DEF WriteHeader

\* Any list of messages the device may send.
LEMMA MessagesHaveNumbers ==
  ASSUME NEW s \in Seq(Messages)
  PROVE  Numbers(s)
<1>1. Len(s) \in Nat /\ \A k \in 1 .. Len(s) : s[k] \in Messages
  BY LenProperties, ElementOfSeq
<1>2. \A k \in 1 .. Len(s) : s[k] \in Message
  BY <1>1, ConstantsAssumption
<1>3. QED BY <1>1, <1>2 DEF Numbers, Message

\* The code's words for where a unit is.
LEMMA SameWords ==
  ASSUME NEW u
  PROVE  /\ HasBody(u.msg, u.frag) = Bodied(sent, u.msg, u.frag)
         /\ LastFrag(u.msg, u.frag) = Final(sent, u)
         /\ EndsFrame(u) = Stops(sent, u) /\ EndsMessage(u) = Closes(sent, u)
<1>1. HasBody(u.msg, u.frag) = Bodied(sent, u.msg, u.frag)
  BY DEF HasBody, Bodied
<1>2. LastFrag(u.msg, u.frag) = Final(sent, u)
  BY DEF LastFrag, Final
<1>3. EndsFrame(u) = Stops(sent, u)
  BY <1>1 DEF EndsFrame, Stops
<1>4. QED BY <1>1, <1>2, <1>3 DEF EndsMessage, Closes

\* What was there stays, and what is written comes after it.
Onward ==
  /\ Len(sent) <= Len(sent') /\ \A k \in 1 .. Len(sent) : sent'[k] = sent[k]
  /\ Len(wire) <= Len(wire') /\ \A i \in 1 .. Len(wire) : wire'[i] = wire[i]

\* A new message is the next one, and nothing of it ends at its first header.
LEMMA BeginsEffect ==
  ASSUME TypeInv, Formed, DeviceBegins
  PROVE  /\ Onward /\ Formed' /\ (~SplitHeaders => WholeHeaders')
         /\ Len(sent') = Len(sent) + 1
         /\ Len(wire') # 0 /\ ~Closes(sent', wire'[Len(wire')])
<1>1. PICK m \in Messages : sent' = Append(sent, m)
  BY DEF DeviceBegins
<1>2. sent \in Seq(Messages) /\ wire \in Seq(Units)
  BY DEF TypeInv, TypeOK
<1>3. /\ sent' \in Seq(Messages) /\ Len(sent') = Len(sent) + 1
      /\ \A k \in 1 .. Len(sent) : sent'[k] = sent[k]
  BY <1>1, <1>2, AppendProperties
<1>4. Len(sent) \in Nat /\ Len(wire) \in Nat /\ Len(sent) <= Len(sent')
  BY <1>3, Basics
<1>5. Numbers(sent) /\ Numbers(sent')
  BY <1>2, <1>3, MessagesHaveNumbers
<1>6. PICK t : t = sent'
  OBVIOUS
<1>7. /\ Chained(wire, t)
      /\ \A i \in 1 .. Len(wire) : Closes(t, wire[i]) => Closes(sent, wire[i])
  <2>1. /\ Numbers(t) /\ Len(sent) <= Len(t) /\ Chained(wire, sent)
        /\ \A k \in 1 .. Len(sent) : t[k] = sent[k]
    BY <1>3, <1>4, <1>5, <1>6 DEF Formed
  <2>2. QED BY <1>2, <1>5, <2>1, MoreMessages
<1>8. PICK k : k = Len(t)
  OBVIOUS
<1>9. /\ k = Len(sent) + 1 /\ k # 0 /\ 0 < t[k].count /\ WriteHeader(k, 0)
  <2>1. k = Len(sent) + 1 /\ k # 0 /\ k \in 1 .. Len(t)
    BY <1>3, <1>4, <1>6, <1>8
  <2>2. t[k].count \in Nat \ {0}
    BY <1>5, <1>6, <2>1 DEF Numbers
  <2>3. WriteHeader(k, 0)
    BY <2>1 DEF DeviceBegins
  <2>4. QED BY <2>1, <2>2, <2>3
<1>10. Len(wire) = 0 => k = 1
  BY <1>9 DEF Formed, LastIsLast
<1>11. Len(wire) # 0 => Unit("magic", k, 0, 0) = After(t, wire[Len(wire)])
  <2> SUFFICES ASSUME Len(wire) # 0
               PROVE  Unit("magic", k, 0, 0) = After(t, wire[Len(wire)])
    OBVIOUS
  <2>0. PICK u : u = wire[Len(wire)]
    OBVIOUS
  <2>1. wire # <<>> /\ Len(wire) \in 1 .. Len(wire)
    BY <1>4
  <2>2. EndsMessage(u)
    BY <2>0, <2>1 DEF DeviceBegins, NothingPending
  <2>3. Closes(sent, u)
    BY <2>2, SameWords
  <2>4. u.msg = Len(sent)
    BY <2>0 DEF Formed, LastIsLast
  <2>5. t[u.msg] = sent[u.msg]
    <3>1. u.msg \in 1 .. Len(sent)
      BY <2>0, <2>1, Basics
    <3>2. QED BY <1>3, <1>6, <3>1
  <2>6. Closes(t, u)
    BY <2>3, <2>5, SameUnit
  <2>7. After(t, u) = Unit("magic", u.msg + 1, 0, 0)
    BY <2>6 DEF After, Closes
  <2>8. QED BY <1>9, <2>0, <2>4, <2>7
<1>12. \A i \in 1 .. Len(wire) : Closes(t, wire[i]) => wire[i].msg < k
  <2>1. \A i \in 1 .. Len(wire) : wire[i].msg \in 1 .. Len(sent)
    BY Basics
  <2>2. QED BY <1>4, <1>9, <2>1
<1>13. /\ wire' \in Seq(Units) /\ Len(wire) <= Len(wire')
       /\ \A i \in 1 .. Len(wire) : wire'[i] = wire[i]
       /\ Chained(wire', t) /\ LastIsLast(wire', t)
       /\ Len(wire') # 0 /\ ~Closes(t, wire'[Len(wire')])
       /\ ~SplitHeaders => wire'[Len(wire')].part = "rest"
  BY <1>2, <1>5, <1>6, <1>7, <1>8, <1>9, <1>10, <1>11, <1>12, HeaderWritten
<1>14. Onward
  BY <1>3, <1>4, <1>13 DEF Onward
<1>15. Formed'
  BY <1>6, <1>13 DEF Formed
<1>16. ~SplitHeaders => WholeHeaders'
  BY <1>13 DEF WholeHeaders
<1>17. QED BY <1>3, <1>6, <1>13, <1>14, <1>15, <1>16

\* The next write of a message goes on where the last one ended.
LEMMA ContinuesEffect ==
  ASSUME TypeInv, Formed, DeviceContinues
  PROVE  /\ Onward /\ Formed' /\ sent' = sent
         /\ ~SplitHeaders /\ WholeHeaders => WholeHeaders'
         /\ Len(wire) # 0 /\ ~Closes(sent, wire[Len(wire)])
<1>1. PICK u : u = wire[Len(wire)]
  OBVIOUS
<1>2. wire \in Seq(Units) /\ sent \in Seq(Messages) /\ sent' = sent
  BY DEF TypeInv, TypeOK, DeviceContinues
<1>3. Numbers(sent) /\ Chained(wire, sent)
  BY <1>2, MessagesHaveNumbers DEF Formed
<1>4. wire # <<>> /\ ~EndsMessage(u)
  BY <1>1 DEF DeviceContinues, NothingPending
<1>5. Len(wire) # 0 /\ Len(wire) \in Nat /\ Len(wire) \in 1 .. Len(wire)
  BY <1>2, <1>4, EmptySeq, Basics
<1>6. Fits(sent, u) /\ u.msg = Len(sent)
  BY <1>1, <1>3, <1>5 DEF Chained, AllFit, Formed, LastIsLast
<1>7. ~Closes(sent, u)
  BY <1>4, SameWords
<1>8. \A i \in 1 .. Len(wire) : Closes(sent, wire[i]) => wire[i].msg < u.msg
  <2> SUFFICES ASSUME NEW i \in 1 .. Len(wire), Closes(sent, wire[i])
               PROVE  wire[i].msg < u.msg
    OBVIOUS
  <2>1. i # Len(wire)
    BY <1>1, <1>7
  <2>2. i < Len(wire)
    BY <1>5, <2>1
  <2>3. QED BY <1>1, <1>3, <1>5, <2>2 DEF Chained, LaterIsLater
<1>9. ASSUME NEW v, wire' = Append(wire, v), Fits(sent, v), v.msg = u.msg,
             v = After(sent, u), v.part # "magic"
      PROVE  Onward /\ Formed' /\ WholeHeaders'
  <2>1. ComesNext(wire, sent, v)
    BY <1>1, <1>5, <1>6, <1>8, <1>9 DEF ComesNext
  <2>2. PICK x : x = wire'
    OBVIOUS
  <2>3. Extends(wire, x, v) /\ Chained(x, sent) /\ LastIsLast(x, sent)
    BY <1>2, <1>3, <1>9, <2>1, <2>2, OneUnit
  <2>4. Onward
    <3>1. Len(wire) <= Len(x)
      BY <1>5, <2>3 DEF Extends
    <3>2. Len(sent) <= Len(sent')
      BY <1>2, Basics
    <3>3. QED BY <1>2, <2>2, <2>3, <3>1, <3>2 DEF Onward, Extends
  <2>5. Formed'
    BY <1>2, <2>2, <2>3 DEF Formed
  <2>6. WholeHeaders'
    BY <1>9, <2>2, <2>3 DEF Extends, WholeHeaders
  <2>7. QED BY <2>4, <2>5, <2>6
<1>10. /\ u \in Units /\ u.msg \in Nat \ {0} /\ u.frag \in Nat /\ u.off \in Nat
       /\ u.part \in {"magic", "rest", "body"} /\ u.msg \in 1 .. Len(sent)
       /\ u.frag < sent[u.msg].count /\ sent[u.msg].count \in Nat
       /\ sent[u.msg].len \in Nat \ {0}
       /\ u.part # "body" => u.off = 0
       /\ u.part = "body" => /\ Bodied(sent, u.msg, u.frag)
                             /\ u.off >= 1 /\ u.off <= sent[u.msg].len
  BY <1>3, <1>6, FitsFields
<1>11. CASE Stops(sent, u)
  <2>1. WriteHeader(u.msg, u.frag + 1)
    <3>1. EndsFrame(u)
      BY <1>11, SameWords
    <3>2. u.part # "magic"
      BY <1>11 DEF Stops
    <3>3. QED BY <1>1, <3>1, <3>2 DEF DeviceContinues, EndsFrame
  <2>2. ~Final(sent, u)
    BY <1>7, <1>11 DEF Closes
  <2>3. PICK k, g : k = u.msg /\ g = u.frag + 1
    OBVIOUS
  <2>4. g \in Nat /\ g < sent[k].count
    <3>1. u.frag # sent[u.msg].count - 1
      BY <2>2 DEF Final
    <3>2. PICK n \in Nat : n = sent[u.msg].count
      BY <1>10
    <3>3. g < n
      BY <1>10, <2>3, <3>1, <3>2
    <3>4. QED BY <1>10, <2>3, <3>2, <3>3
  <2>5. Unit("magic", k, g, 0) = After(sent, wire[Len(wire)])
    BY <1>1, <1>11, <2>2, <2>3 DEF After
  <2>6. /\ k = Len(sent) /\ k # 0 /\ WriteHeader(k, g)
        /\ \A i \in 1 .. Len(wire) : Closes(sent, wire[i]) => wire[i].msg < k
    BY <1>6, <1>8, <1>10, <2>1, <2>3
  <2>7. /\ wire' \in Seq(Units) /\ Len(wire) <= Len(wire')
        /\ \A i \in 1 .. Len(wire) : wire'[i] = wire[i]
        /\ Chained(wire', sent) /\ LastIsLast(wire', sent)
        /\ Len(wire') # 0 /\ ~Closes(sent, wire'[Len(wire')])
        /\ ~SplitHeaders => wire'[Len(wire')].part = "rest"
    BY <1>2, <1>3, <1>5, <2>4, <2>5, <2>6, HeaderWritten
  <2>8. Onward /\ Formed' /\ (~SplitHeaders => WholeHeaders')
    <3>1. Len(sent) <= Len(sent')
      BY <1>2, Basics
    <3>2. QED BY <1>2, <2>7, <3>1 DEF Onward, Formed, WholeHeaders
  <2>9. QED BY <1>1, <1>2, <1>5, <1>7, <2>8
<1>12. CASE ~Stops(sent, u) /\ u.part = "magic"
  <2>1. PICK v : v = Unit("rest", u.msg, u.frag, 0)
    OBVIOUS
  <2>2. ~EndsFrame(u)
    BY <1>12, SameWords
  <2>3. wire' = Append(wire, [u EXCEPT !.part = "rest"])
    BY <1>1, <1>12, <2>2 DEF DeviceContinues
  <2>4. [u EXCEPT !.part = "rest"] = v
    BY <1>10, <1>12, <2>1 DEF Units, Unit
  <2>5. v = After(sent, u)
    BY <1>12, <2>1 DEF After
  <2>6. v.part = "rest" /\ v.msg = u.msg /\ v.frag = u.frag /\ v.off = 0
    BY <2>1, UnitFields
  <2>7. Fits(sent, v)
    <3>1. v \in Units
      BY <1>10, <2>1, UnitType
    <3>2. QED BY <1>10, <2>6, <3>1 DEF Fits
  <2>8. wire' = Append(wire, v)
    BY <2>3, <2>4
  <2>9. QED BY <1>1, <1>2, <1>5, <1>7, <1>9, <2>5, <2>6, <2>7, <2>8
<1>13. CASE ~Stops(sent, u) /\ u.part # "magic"
  <2>1. PICK v : v = Unit("body", u.msg, u.frag, u.off + 1)
    OBVIOUS
  <2>2. ~EndsFrame(u)
    BY <1>13, SameWords
  <2>3. wire' = Append(wire, v)
    BY <1>1, <1>13, <2>1, <2>2 DEF DeviceContinues
  <2>4. v = After(sent, u)
    BY <1>13, <2>1 DEF After
  <2>5. v.part = "body" /\ v.msg = u.msg /\ v.frag = u.frag /\ v.off = u.off + 1
    BY <2>1, UnitFields
  <2>6. Bodied(sent, u.msg, u.frag) /\ u.off # sent[u.msg].len
    <3>1. CASE u.part = "body"
      BY <1>10, <1>13, <3>1 DEF Stops
    <3>2. CASE u.part = "rest"
      <4>1. u.off = 0
        BY <1>10, <3>2
      <4>2. QED BY <1>10, <1>13, <3>2, <4>1 DEF Stops
    <3>3. QED BY <1>10, <1>13, <3>1, <3>2
  <2>7. Fits(sent, v)
    <3>1. v \in Units
      BY <1>10, <2>1, UnitType
    <3>2. PICK n \in Nat : n = sent[u.msg].len /\ n # 0
      BY <1>10
    <3>3. u.off <= n /\ u.off # n
      BY <1>10, <2>6, <3>2
    <3>4. u.off + 1 \in 1 .. n
      BY <1>10, <3>2, <3>3
    <3>5. QED BY <1>10, <2>5, <2>6, <3>1, <3>2, <3>4 DEF Fits
  <2>8. QED BY <1>1, <1>2, <1>5, <1>7, <1>9, <2>3, <2>4, <2>5, <2>7
<1>14. QED BY <1>11, <1>12, <1>13

-----------------------------------------------------------------------------
(* Bodies and results. *)

\* What is said of a message stays true when there are more messages.
LEMMA SameTail ==
  ASSUME NEW s, NEW t, NEW k, t[k] = s[k], NEW c, NEW g, TailOf(s, c, k, g)
  PROVE  TailOf(t, c, k, g)
<1>1. \A h : WholeOf(t, k, h) = WholeOf(s, k, h)
  BY DEF WholeOf
<1>2. Low(t, k) = Low(s, k)
  BY DEF Low
<1>3. QED BY <1>1, <1>2 DEF TailOf

\* A byte of a body is a byte of its message, and not junk.
LEMMA WholeBytes ==
  ASSUME NEW s, NEW k, NEW g, NEW o \in 1 .. s[k].len
  PROVE  /\ DOMAIN WholeOf(s, k, g) = 1 .. s[k].len
         /\ WholeOf(s, k, g)[o] = Unit("body", k, g, o)
         /\ WholeOf(s, k, g)[o].msg = k /\ WholeOf(s, k, g)[o] # Junk
<1>1. WholeOf(s, k, g)[o] = Unit("body", k, g, o)
  BY DEF WholeOf
<1>2. Unit("body", k, g, o).msg = k /\ Unit("body", k, g, o).part = "body"
  BY UnitFields
<1>3. Junk.part = "junk"
  BY DEF Junk
<1>4. Unit("body", k, g, o) # Junk
  BY <1>2, <1>3
<1>5. QED BY <1>1, <1>2, <1>4 DEF WholeOf

\* The first byte of the first of some bodies names their message.
LEMMA TailSource ==
  ASSUME NEW s, Numbers(s), NEW k \in 1 .. Len(s), NEW c, Len(c) \in Nat, Len(c) >= 1,
         NEW g, TailOf(s, c, k, g)
  PROVE  c[1][1].msg = k
<1>1. 1 \in 1 .. Len(c)
  OBVIOUS
<1>2. c[1] = WholeOf(s, k, g - Len(c) + 1)
  BY <1>1 DEF TailOf
<1>3. 1 \in 1 .. s[k].len
  BY DEF Numbers
<1>4. QED BY <1>2, <1>3, WholeBytes

\* One body more.
LEMMA OneBody ==
  ASSUME NEW s, NEW k, NEW c, NEW T, c \in Seq(T), NEW g \in Nat, NEW b \in T,
         TailOf(s, c, k, g - 1), b = WholeOf(s, k, g), Low(s, k) \in {0, 1},
         NEW d, d = Append(c, b)
  PROVE  d \in Seq(T) /\ Len(d) = Len(c) + 1 /\ Len(d) >= 1 /\ TailOf(s, d, k, g)
<1>1. /\ d \in Seq(T) /\ Len(d) = Len(c) + 1 /\ d[Len(c) + 1] = b
      /\ \A i \in 1 .. Len(c) : d[i] = c[i]
  BY AppendProperties
<1>2. Len(c) \in Nat
  BY LenProperties
<1>3. Len(c) <= g - 1 + 1 - Low(s, k)
      /\ \A i \in 1 .. Len(c) : c[i] = WholeOf(s, k, g - 1 - Len(c) + i)
  BY DEF TailOf
<1>4. Len(d) <= g + 1 - Low(s, k)
  BY <1>1, <1>2, <1>3
<1>5. ASSUME NEW i \in 1 .. Len(d) PROVE d[i] = WholeOf(s, k, g - Len(d) + i)
  <2>1. CASE i \in 1 .. Len(c)
    <3>1. g - Len(d) + i = g - 1 - Len(c) + i
      BY <1>1, <1>2, <2>1
    <3>2. QED BY <1>1, <1>3, <2>1, <3>1
  <2>2. CASE i = Len(c) + 1
    <3>1. g - Len(d) + i = g
      BY <1>1, <1>2, <2>2
    <3>2. QED BY <1>1, <2>2, <3>1
  <2>3. QED BY <1>1, <1>2, <2>1, <2>2
<1>6. Len(d) >= 1
  BY <1>1, <1>2
<1>7. QED BY <1>1, <1>4, <1>5, <1>6 DEF TailOf

\* The first fragment with a body is fragment 0 or 1.
LEMMA LowIs ==
  ASSUME NEW s, NEW k
  PROVE  /\ Low(s, k) \in {0, 1}
         /\ \A g \in Nat : Bodied(s, k, g) => Low(s, k) <= g
         /\ s[k].count # 1 => Low(s, k) = 1
BY DEF Low, Bodied

-----------------------------------------------------------------------------
(* Every step leaves what was sent, written and read where it is. *)

Later ==
  /\ Onward /\ rd <= rd' /\ (Broken => Broken')
  /\ \A c \in Channels : nextMsgId[c] <= nextMsgId'[c]

\* The device goes on, the reader goes on, a counter is only pushed forward,
\* and a broken connection stays broken.
LEMMA StepGoesOn ==
  ASSUME TypeInv, Formed, [Next]_vars
  PROVE  Later /\ Formed'
<1>0. /\ nextMsgId \in [Channels -> Nat] /\ chan \in Channels
      /\ sent \in Seq(Messages) /\ rd \in Nat /\ Len(sent) \in Nat /\ Len(wire) \in Nat
  BY Basics DEF TypeInv, TypeOK
<1>1. \A c \in Channels : nextMsgId[c] \in Nat
  BY <1>0
<1>2. ASSUME sent' = sent, wire' = wire, rd <= rd', Broken => Broken',
             \A c \in Channels : nextMsgId[c] <= nextMsgId'[c]
      PROVE  Later /\ Formed'
  <2>1. Onward
    BY <1>0, <1>2 DEF Onward
  <2>2. Formed'
    BY <1>2 DEF Formed
  <2>3. QED BY <1>2, <2>1, <2>2 DEF Later
<1>3. ASSUME Onward, Formed', UNCHANGED <<link, rd, nextMsgId>>
      PROVE  Later /\ Formed'
  BY <1>0, <1>1, <1>3 DEF Later, Broken
<1>4. ASSUME UNCHANGED nextMsgId
      PROVE  \A c \in Channels : nextMsgId[c] <= nextMsgId'[c]
  BY <1>1, <1>4
<1>5. CASE DeviceBegins
  <2>1. UNCHANGED <<link, rd, nextMsgId>>
    BY <1>5 DEF DeviceBegins
  <2>2. QED BY <1>3, <1>5, <2>1, BeginsEffect
<1>6. CASE DeviceContinues
  <2>1. UNCHANGED <<link, rd, nextMsgId>>
    BY <1>6 DEF DeviceContinues
  <2>2. QED BY <1>3, <1>6, <2>1, ContinuesEffect
<1>7. CASE LinkEnds
  <2>1. sent' = sent /\ wire' = wire /\ rd' = rd /\ nextMsgId' = nextMsgId /\ ~Broken
    BY <1>7 DEF LinkEnds, Broken
  <2>2. QED BY <1>0, <1>2, <1>4, <2>1
<1>8. CASE ReadHeaderFails
  <2>1. sent' = sent /\ wire' = wire /\ rd' = rd + Avail /\ nextMsgId' = nextMsgId
    BY <1>8 DEF ReadHeaderFails
  <2>2. Avail \in Nat
    BY Basics DEF Avail
  <2>3. rd <= rd'
    BY <1>0, <2>1, <2>2
  <2>4. Broken => Broken'
    BY <1>8 DEF ReadHeaderFails, AfterReadError, Broken
  <2>5. QED BY <1>2, <1>4, <2>1, <2>3, <2>4
<1>9. CASE ReadHeaderBadMagic
  <2>1. sent' = sent /\ wire' = wire /\ link' = link /\ rd' = rd + 2
        /\ nextMsgId' = nextMsgId
    BY <1>9 DEF ReadHeaderBadMagic, peerVars
  <2>2. rd <= rd'
    BY <1>0, <2>1
  <2>3. QED BY <1>2, <1>4, <2>1, <2>2 DEF Broken
<1>10. CASE ReadHeader
  <2>1. sent' = sent /\ wire' = wire /\ link' = link /\ rd' = rd + 2
        /\ FastForward(sent[wire[rd + 1].msg]) /\ Avail >= 2
    BY <1>10 DEF ReadHeader, peerVars
  <2>2. PICK m : m = sent[wire[rd + 1].msg]
    OBVIOUS
  <2>3. m.id \in Nat
    <3>1. Len(wire) - rd >= 2
      BY <2>1 DEF Avail
    <3>2. rd + 1 \in 1 .. Len(wire)
      BY <1>0, <3>1
    <3>3. QED BY <2>2, <3>2, Basics
  <2>4. \A c \in Channels : nextMsgId[c] <= nextMsgId'[c]
    <3>1. CASE m.conv = 0 /\ m.id > nextMsgId[chan]
      <4>1. nextMsgId' = [nextMsgId EXCEPT ![chan] = m.id + 1]
        BY <2>1, <2>2, <3>1 DEF FastForward
      <4>2. nextMsgId[chan] <= m.id + 1
        BY <1>0, <1>1, <2>3, <3>1
      <4>3. QED BY <1>0, <1>1, <4>1, <4>2
    <3>2. CASE ~(m.conv = 0 /\ m.id > nextMsgId[chan])
      <4>1. nextMsgId' = nextMsgId
        BY <2>1, <2>2, <3>2 DEF FastForward
      <4>2. QED BY <1>4, <4>1
    <3>3. QED BY <3>1, <3>2
  <2>5. rd <= rd'
    BY <1>0, <2>1
  <2>6. QED BY <1>2, <2>1, <2>4, <2>5 DEF Broken
<1>11. CASE ReadBody
  <2>1. /\ sent' = sent /\ wire' = wire /\ link' = link /\ nextMsgId' = nextMsgId
        /\ rd' = rd + Least(BodyLen - received, Avail)
    BY <1>11 DEF ReadBody, peerVars
  <2>2. Least(BodyLen - received, Avail) \in Nat
    <3>1. BodyLen \in Nat /\ received \in Nat /\ received < BodyLen /\ Avail \in Nat
      BY <1>11, Basics, SMTT(30) DEF ReadBody, BodyLen, Avail, TypeInv, Linked
    <3>2. QED BY <3>1 DEF Least
  <2>3. rd <= rd'
    BY <1>0, <2>1, <2>2
  <2>4. QED BY <1>2, <1>4, <2>1, <2>3 DEF Broken
<1>12. CASE ReadBodyError
  <2>1. sent' = sent /\ wire' = wire /\ rd' = rd /\ nextMsgId' = nextMsgId
    BY <1>12 DEF ReadBodyError
  <2>2. Broken => Broken'
    BY <1>12 DEF ReadBodyError, AfterReadError, Broken
  <2>3. QED BY <1>0, <1>2, <1>4, <2>1, <2>2
<1>13. CASE EndFragment
  <2>1. sent' = sent /\ wire' = wire /\ link' = link /\ rd' = rd /\ nextMsgId' = nextMsgId
    BY <1>13 DEF EndFragment, peerVars
  <2>2. QED BY <1>0, <1>2, <1>4, <2>1 DEF Broken
<1>14. ASSUME NEW c \in Channels, Call(c) PROVE Later /\ Formed'
  <2>1. sent' = sent /\ wire' = wire /\ link' = link /\ rd' = rd /\ nextMsgId' = nextMsgId
    BY <1>14 DEF Call, peerVars
  <2>2. QED BY <1>0, <1>2, <1>4, <2>1 DEF Broken
<1>15. CASE UNCHANGED vars
  <2>1. sent' = sent /\ wire' = wire /\ link' = link /\ rd' = rd /\ nextMsgId' = nextMsgId
    BY <1>15 DEF vars
  <2>2. QED BY <1>0, <1>2, <1>4, <2>1 DEF Broken
<1>16. QED
  BY <1>5, <1>6, <1>7, <1>8, <1>9, <1>10, <1>11, <1>12, <1>13, <1>14, <1>15
     DEF Next, Device, Reader

\* The types of what was returned.
LEMMA ResultType ==
  ASSUME TypeInv
  PROVE  /\ Len(delivered) \in Nat /\ DOMAIN delivered = 1 .. Len(delivered)
         /\ \A j \in DOMAIN delivered :
              /\ delivered[j].chan \in Channels /\ delivered[j].id \in Nat
              /\ delivered[j].chunks \in Seq(Seq(Units \cup {Junk}))
<1> DEFINE R == [chan: Channels, id: Nat, chunks: Seq(Seq(Units \cup {Junk}))]
<1>1. delivered \in Seq(R)
  BY DEF TypeInv, TypeOK
<1> HIDE DEF R
<1>2. Len(delivered) \in Nat /\ DOMAIN delivered = 1 .. Len(delivered)
  BY <1>1, LenProperties
<1>3. \A j \in DOMAIN delivered : delivered[j] \in R
  BY <1>1, <1>2, ElementOfSeq
<1>4. QED BY <1>2, <1>3 DEF R

\* A good result stays good.
LEMMA GoodStays ==
  ASSUME TypeInv, TypeInv', Later, NEW j \in DOMAIN delivered,
         delivered'[j] = delivered[j], Good(j)
  PROVE  Good(j)' /\ Source(j)' = Source(j)
<1> DEFINE r == delivered[j]
<1>1. PICK k : k = Source(j)
  OBVIOUS
<1>2. Source(j)' = k
  BY <1>1 DEF Source
<1>3. /\ k \in 1 .. Len(sent) /\ Len(r.chunks) >= 1
      /\ TailOf(sent, r.chunks, k, sent[k].count - 1)
      /\ NamedFor(sent, r.id, k) /\ Counted(sent, nextMsgId, r.chan, k)
      /\ Past(sent, wire, rd, k)
  BY <1>1 DEF Good
<1>4. /\ Len(sent) <= Len(sent') /\ sent'[k] = sent[k] /\ rd <= rd'
      /\ \A i \in 1 .. Len(wire) : wire'[i] = wire[i]
      /\ \A c \in Channels : nextMsgId[c] <= nextMsgId'[c]
  BY <1>3 DEF Later, Onward
<1>5. k \in 1 .. Len(sent')
  <2>1. Len(sent) \in Nat /\ Len(sent') \in Nat
    BY LenProperties DEF TypeInv, TypeOK
  <2>2. QED BY <1>3, <1>4, <2>1
<1>6. TailOf(sent', r.chunks, k, sent'[k].count - 1)
  BY <1>3, <1>4, SameTail
<1>7. NamedFor(sent', r.id, k)
  BY <1>3, <1>4 DEF NamedFor
<1>8. Counted(sent', nextMsgId', r.chan, k)
  <2>1. r.chan \in Channels
    BY ResultType
  <2>2. nextMsgId[r.chan] \in Nat /\ nextMsgId'[r.chan] \in Nat
    BY <2>1 DEF TypeInv, TypeOK
  <2>3. sent[k].id \in Nat
    BY <1>3, Basics
  <2>4. nextMsgId[r.chan] <= nextMsgId'[r.chan]
    BY <1>4, <2>1
  <2>5. SUFFICES ASSUME sent'[k].conv = 0 PROVE nextMsgId'[r.chan] >= sent'[k].id
    BY DEF Counted
  <2>6. nextMsgId[r.chan] >= sent[k].id
    BY <1>3, <1>4, <2>5 DEF Counted
  <2>7. PICK x, y, n : x = nextMsgId[r.chan] /\ y = nextMsgId'[r.chan] /\ n = sent[k].id
    OBVIOUS
  <2>8. y >= n
    BY <2>2, <2>3, <2>4, <2>6, <2>7
  <2>9. QED BY <1>4, <2>7, <2>8
<1>9. Past(sent', wire', rd', k)
  <2>1. PICK e \in 1 .. rd : Closes(sent, wire[e]) /\ wire[e].msg = k
    BY <1>3 DEF Past
  <2>2. rd \in Nat /\ rd' \in Nat /\ rd <= Len(wire) /\ Len(wire) \in Nat
    <3>1. rd' \in 0 .. Len(wire') /\ Len(wire') \in Nat
      BY LenProperties DEF TypeInv, TypeOK
    <3>2. QED BY <3>1, Basics
  <2>3. e \in 1 .. Len(wire) /\ e \in 1 .. rd'
    BY <1>4, <2>2
  <2>4. wire'[e] = wire[e]
    BY <1>4, <2>3
  <2>5. Closes(sent', wire[e])
    BY <1>4, <2>1, SameUnit, SMTT(30)
  <2>6. QED BY <2>1, <2>3, <2>4, <2>5 DEF Past
<1>10. Good(j)'
  BY <1>2, <1>3, <1>5, <1>6, <1>7, <1>8, <1>9 DEF Good
<1>11. QED BY <1>1, <1>2, <1>10

\* Bodies of a message hold no junk.
LEMMA TailIsWhole ==
  ASSUME NEW s, NEW c, NEW k, NEW h, TailOf(s, c, k, h), NEW g \in 1 .. Len(c),
         NEW o \in DOMAIN c[g]
  PROVE  c[g][o] # Junk
<1>1. PICK f : c[g] = WholeOf(s, k, f)
  BY DEF TailOf
<1>2. o \in 1 .. s[k].len
  BY <1>1 DEF WholeOf
<1>3. QED BY <1>1, <1>2, WholeBytes

\* A good result holds no junk.
LEMMA GoodIsWhole ==
  ASSUME TypeInv, NEW j \in DOMAIN delivered, Good(j)
  PROVE  ~Damaged(j)
<1> DEFINE c == delivered[j].chunks
           k == Source(j)
<1>1. TailOf(sent, c, k, sent[k].count - 1)
  BY DEF Good
<1>2. DOMAIN c = 1 .. Len(c)
  <2>1. c \in Seq(Seq(Units \cup {Junk}))
    BY ResultType
  <2> HIDE DEF c
  <2>2. QED BY <2>1, LenProperties
<1>3. ASSUME NEW g \in DOMAIN c, NEW o \in DOMAIN c[g] PROVE c[g][o] # Junk
  <2> HIDE DEF c, k
  <2>1. QED BY <1>1, <1>2, TailIsWhole
<1>4. QED BY <1>3 DEF Damaged

\* Results that stay are what they were.
LEMMA ReturnedStays ==
  ASSUME TypeInv, TypeInv', Later, Returned, delivered' = delivered
  PROVE  Returned'
<1>1. ASSUME NEW j \in DOMAIN delivered' PROVE GoodOrLast(j)'
  <2>1. CASE Good(j)
    BY <1>1, <2>1, GoodStays DEF GoodOrLast
  <2>2. CASE ~Good(j)
    <3>1. Damaged(j) /\ j = Len(delivered) /\ Broken
      BY <1>1, <2>2 DEF Returned, GoodOrLast
    <3>2. Damaged(j)' /\ j = Len(delivered') /\ Broken'
      BY <3>1 DEF Damaged, Later
    <3>3. QED BY <3>2 DEF GoodOrLast
  <2>3. QED BY <2>1, <2>2
<1>2. ASSUME NEW i \in DOMAIN delivered', NEW j \in DOMAIN delivered', i < j, ~Damaged(j)'
      PROVE  Source(i)' < Source(j)'
  <2>1. ~Damaged(j) /\ Source(i)' = Source(i) /\ Source(j)' = Source(j)
    BY <1>2 DEF Damaged, Source
  <2>2. Source(i) < Source(j)
    BY <1>2, <2>1 DEF Returned
  <2>3. QED BY <2>1, <2>2
<1>3. QED BY <1>1, <1>2 DEF Returned

\* A unit that was sent ends what it ended.
LEMMA UnitStays ==
  ASSUME TypeInv, Onward, NEW i \in 1 .. Len(wire)
  PROVE  /\ wire'[i] = wire[i] /\ sent'[wire[i].msg] = sent[wire[i].msg]
         /\ Stops(sent', wire[i]) = Stops(sent, wire[i])
         /\ Final(sent', wire[i]) = Final(sent, wire[i])
         /\ Closes(sent', wire[i]) = Closes(sent, wire[i])
<1>1. wire'[i] = wire[i] /\ wire[i].msg \in 1 .. Len(sent)
  BY Basics DEF Onward
<1>2. sent'[wire[i].msg] = sent[wire[i].msg]
  BY <1>1 DEF Onward
<1>3. QED BY <1>1, <1>2, SameUnit

\* A step that is not the call's leaves it between the same two frames.
LEMMA BetweenStays ==
  ASSUME TypeInv, Onward, UNCHANGED <<rd, chunks, id>>, Between
  PROVE  Between' /\ wire'[rd'] = wire[rd] /\ rd \in 1 .. Len(wire)
<1>0. PICK u : u = wire[rd]
  OBVIOUS
<1>1. rd \in 1 .. Len(wire)
  <2>1. rd \in Nat /\ rd <= Len(wire) /\ Len(wire) \in Nat
    BY Basics
  <2>2. QED BY <2>1 DEF Between
<1>2. /\ wire'[rd] = u /\ sent'[u.msg] = sent[u.msg]
      /\ Stops(sent', u) = Stops(sent, u) /\ Final(sent', u) = Final(sent, u)
  BY <1>0, <1>1, UnitStays
<1>3. /\ rd >= 1 /\ Stops(sent, u) /\ ~Final(sent, u)
      /\ TailOf(sent, chunks, u.msg, u.frag) /\ NamedFor(sent, id, u.msg)
  BY <1>0 DEF Between
<1>4. TailOf(sent', chunks, u.msg, u.frag) /\ NamedFor(sent', id, u.msg)
  BY <1>2, <1>3, SameTail DEF NamedFor
<1>5. Between'
  BY <1>2, <1>3, <1>4 DEF Between
<1>6. QED BY <1>0, <1>1, <1>2, <1>5

\* A step that is not the call's leaves the call where it is.
LEMMA CallStays ==
  ASSUME TypeInv, TypeInv', Later, Reading,
         UNCHANGED <<rd, pc, chan, id, chunks, hdr, block, received, nextMsgId, delivered>>
  PROVE  Reading'
<1>0. Onward /\ rd \in Nat /\ rd <= Len(wire) /\ Len(wire) \in Nat
  BY Basics DEF Later
<1>1. ASSUME pc = "header", Between PROVE Between'
  BY <1>0, <1>1, BetweenStays
<1>2. ASSUME pc = "body", InBody PROVE InBody'
  <2>0. PICK k, g : k = hdr.msg /\ g = hdr.frag
    OBVIOUS
  <2>1. /\ k \in 1 .. Len(sent) /\ g < sent[k].count /\ Bodied(sent, k, g)
        /\ TailOf(sent, chunks, k, g - 1) /\ NamedFor(sent, id, k)
        /\ Counted(sent, nextMsgId, chan, k) /\ AllBefore(k)
        /\ Filled \/ Spoiled
    BY <1>2, <2>0 DEF InBody
  <2>2. sent'[k] = sent[k] /\ k \in 1 .. Len(sent')
    <3>1. Len(sent) <= Len(sent') /\ sent'[k] = sent[k]
      BY <1>0, <2>1 DEF Onward
    <3>2. Len(sent) \in Nat /\ Len(sent') \in Nat
      BY LenProperties DEF TypeInv, TypeOK
    <3>3. QED BY <2>1, <3>1, <3>2
  <2>3. TailOf(sent', chunks, k, g - 1)
    BY <2>1, <2>2, SameTail
  <2>4. /\ g < sent'[k].count /\ Bodied(sent', k, g) /\ NamedFor(sent', id, k)
        /\ Counted(sent', nextMsgId, chan, k)
    BY <2>1, <2>2 DEF Bodied, NamedFor, Counted
  <2>5. AllBefore(k)'
    <3>1. ASSUME NEW j \in DOMAIN delivered PROVE Good(j)' /\ Source(j)' < k
      BY <2>1, GoodStays DEF AllBefore
    <3>2. QED BY <3>1 DEF AllBefore
  <2>6. Filled => Filled'
    <3> SUFFICES ASSUME Filled PROVE Filled'
      OBVIOUS
    <3>1. received \in Nat /\ rd - received \in 1 .. Len(wire)
      BY <1>0, Basics DEF Filled
    <3>2. wire'[rd - received] = wire[rd - received]
      BY <1>0, <3>1 DEF Onward
    <3>3. QED BY <2>0, <2>2, <3>2 DEF Filled
  <2>7. Spoiled => Spoiled'
    BY <2>0, <2>2 DEF Spoiled, Later
  <2>8. hdr' = hdr /\ chunks' = chunks /\ id' = id /\ nextMsgId' = nextMsgId /\ chan' = chan
    OBVIOUS
  <2>9. QED BY <2>0, <2>1, <2>2, <2>3, <2>4, <2>5, <2>6, <2>7, <2>8 DEF InBody
<1>3. CASE pc = "header"
  <2>1. Fresh \/ Between \/ Broken
    BY <1>3 DEF Reading
  <2>2. Fresh' \/ Between' \/ Broken'
    BY <1>1, <1>3, <2>1 DEF Fresh, Later
  <2>3. QED BY <1>3, <2>2 DEF Reading
<1>4. CASE pc = "body"
  BY <1>2, <1>4 DEF Reading
<1>5. CASE pc # "header" /\ pc # "body"
  BY <1>5 DEF Reading
<1>6. QED BY <1>3, <1>4, <1>5

-----------------------------------------------------------------------------
(* The call. *)

\* The second part of a header follows the first; nothing ends in between.
LEMMA AfterMagicPart ==
  ASSUME NEW s, NEW u, u.part = "magic"
  PROVE  ~Stops(s, u) /\ After(s, u) = Unit("rest", u.msg, u.frag, 0)
<1>1. ~Stops(s, u)
  BY DEF Stops
<1>2. QED BY <1>1 DEF After

\* What a header that is found says of the units around it.
LEMMA HeaderFound ==
  ASSUME TypeInv, Formed, ReadHeader, NEW u, u = wire[rd + 1]
  PROVE  /\ ~Broken /\ rd + 1 \in 1 .. Len(wire) /\ rd + 2 \in 1 .. Len(wire)
         /\ u.part = "magic" /\ Fits(sent, u)
         /\ wire[rd + 2] = Unit("rest", u.msg, u.frag, 0)
         /\ rd >= 1 => wire[rd + 1] = After(sent, wire[rd])
<1>1. Avail >= 2 /\ u.part = "magic"
  BY DEF ReadHeader
<1>2. link \in {"up", "eof"} /\ Len(wire) - rd >= 2
  BY <1>1 DEF Avail
<1>3. ~Broken
  BY <1>2 DEF Broken
<1>4. rd \in Nat /\ Len(wire) \in Nat
  BY Basics
<1>5. rd + 1 \in 1 .. Len(wire) /\ rd + 2 \in 1 .. Len(wire) /\ rd + 1 + 1 = rd + 2
  BY <1>2, <1>4
<1>6. Fits(sent, u)
  BY <1>5 DEF Formed, Chained, AllFit
<1>7. wire[rd + 2] = After(sent, u)
  <2>1. rd + 1 + 1 <= Len(wire)
    BY <1>4, <1>5
  <2>2. wire[rd + 1 + 1] = After(sent, wire[rd + 1])
    BY <1>5, <2>1 DEF Formed, Chained, Follow
  <2>3. QED BY <1>5, <2>2
<1>8. wire[rd + 2] = Unit("rest", u.msg, u.frag, 0)
  BY <1>1, <1>7, AfterMagicPart
<1>9. rd >= 1 => wire[rd + 1] = After(sent, wire[rd])
  <2> SUFFICES ASSUME rd >= 1 PROVE wire[rd + 1] = After(sent, wire[rd])
    OBVIOUS
  <2>1. rd \in 1 .. Len(wire) /\ rd + 1 <= Len(wire)
    BY <1>4, <1>5
  <2>2. QED BY <2>1 DEF Formed, Chained, Follow
<1>10. QED BY <1>1, <1>3, <1>5, <1>6, <1>8, <1>9

\* What the call holds when it has read a header: the bodies before that
\* fragment, or nothing where the message begins.
LEMMA HeaderFits ==
  ASSUME TypeInv, Formed, Reading, ReadHeader, NEW u, u = wire[rd + 1]
  PROVE  /\ Bodied(sent, u.msg, u.frag) => TailOf(sent, chunks, u.msg, u.frag - 1)
         /\ ~Bodied(sent, u.msg, u.frag) => /\ TailOf(sent, chunks, u.msg, u.frag)
                                            /\ u.frag = 0 /\ sent[u.msg].count # 1
         /\ NamedFor(sent, id', u.msg)
<1> DEFINE k == u.msg
           g == u.frag
<1>1. /\ ~Broken /\ Fits(sent, u) /\ u.part = "magic"
      /\ rd >= 1 => wire[rd + 1] = After(sent, wire[rd])
  BY HeaderFound
<1>2. id' = IF g = 0 THEN sent[k].id ELSE id
  BY DEF ReadHeader
<1>3. g \in Nat
  BY <1>1 DEF Fits, Units
<1>4. ~Bodied(sent, k, g) => g = 0 /\ sent[k].count # 1
  BY DEF Bodied
<1>5. Fresh \/ Between
  BY <1>1 DEF Reading, ReadHeader
<1>6. CASE Fresh
  <2>1. Len(chunks) = 0 /\ chunks = <<>> /\ id = 0
    BY <1>6 DEF Fresh
  <2>2. NamedFor(sent, id', k)
    BY <1>2, <2>1 DEF NamedFor
  <2>3. Low(sent, k) \in {0, 1} /\ (Bodied(sent, k, g) => Low(sent, k) <= g)
        /\ (sent[k].count # 1 => Low(sent, k) = 1)
    BY <1>3, LowIs
  <2> HIDE DEF k, g
  <2>4. Bodied(sent, k, g) => TailOf(sent, chunks, k, g - 1)
    <3> SUFFICES ASSUME Bodied(sent, k, g) PROVE TailOf(sent, chunks, k, g - 1)
      OBVIOUS
    <3>1. Len(chunks) <= g - 1 + 1 - Low(sent, k)
      BY <1>3, <2>1, <2>3
    <3>2. \A i \in 1 .. Len(chunks) : FALSE
      BY <2>1
    <3>3. QED BY <3>1, <3>2 DEF TailOf
  <2>5. ~Bodied(sent, k, g) => TailOf(sent, chunks, k, g)
    <3> SUFFICES ASSUME ~Bodied(sent, k, g) PROVE TailOf(sent, chunks, k, g)
      OBVIOUS
    <3>1. Len(chunks) <= g + 1 - Low(sent, k)
      BY <1>4, <2>1, <2>3
    <3>2. \A i \in 1 .. Len(chunks) : FALSE
      BY <2>1
    <3>3. QED BY <3>1, <3>2 DEF TailOf
  <2>6. QED BY <1>4, <2>2, <2>4, <2>5 DEF k, g
<1>7. CASE Between
  <2>1. PICK p : p = wire[rd]
    OBVIOUS
  <2>2. /\ rd >= 1 /\ Stops(sent, p) /\ ~Final(sent, p)
        /\ TailOf(sent, chunks, p.msg, p.frag) /\ NamedFor(sent, id, p.msg)
    BY <1>7, <2>1 DEF Between
  <2>3. u = Unit("magic", p.msg, p.frag + 1, 0)
    BY <1>1, <2>1, <2>2 DEF After
  <2>4. k = p.msg /\ g = p.frag + 1
    BY <2>3, UnitFields
  <2>5. p.frag \in Nat
    <3>1. rd \in 1 .. Len(wire)
      BY <2>2, Basics
    <3>2. QED BY <2>1, <3>1, Basics
  <2>6. g # 0 /\ g - 1 = p.frag
    BY <2>4, <2>5
  <2>7. Bodied(sent, k, g) /\ id' = id
    BY <1>2, <2>6 DEF Bodied
  <2>8. TailOf(sent, chunks, k, g - 1) /\ NamedFor(sent, id', k)
    BY <2>2, <2>4, <2>6, <2>7
  <2>9. QED BY <2>7, <2>8
<1>8. QED BY <1>5, <1>6, <1>7

\* Every result is of a message before the one whose header is found.
LEMMA HeaderIsLater ==
  ASSUME TypeInv, TypeInv', Formed, Later, Returned, ReadHeader,
         NEW u, u = wire[rd + 1]
  PROVE  AllBefore(u.msg)'
<1>1. /\ ~Broken /\ rd + 1 \in 1 .. Len(wire) /\ delivered' = delivered
  BY HeaderFound DEF ReadHeader
<1>2. ASSUME NEW j \in DOMAIN delivered
      PROVE  Good(j)' /\ Source(j)' < u.msg
  <2>1. Good(j)
    BY <1>1 DEF Returned, GoodOrLast
  <2>2. Good(j)' /\ Source(j)' = Source(j)
    BY <1>1, <2>1, GoodStays
  <2>3. PICK e \in 1 .. rd : Closes(sent, wire[e]) /\ wire[e].msg = Source(j)
    BY <2>1 DEF Good, Past
  <2>4. e \in 1 .. Len(wire) /\ e < rd + 1
    BY <1>1, Basics
  <2>5. wire[e].msg < wire[rd + 1].msg
    BY <1>1, <2>3, <2>4 DEF Formed, Chained, LaterIsLater
  <2>6. QED BY <2>2, <2>3, <2>5
<1>3. QED BY <1>1, <1>2 DEF AllBefore

\* The counter is not behind the message whose header was read.
LEMMA HeaderIsCounted ==
  ASSUME TypeInv, Formed, ReadHeader, NEW u, u = wire[rd + 1]
  PROVE  Counted(sent, nextMsgId', chan, u.msg)
<1>1. PICK m : m = sent[u.msg]
  OBVIOUS
<1>2. FastForward(m)
  BY <1>1 DEF ReadHeader
<1>3. u.msg \in 1 .. Len(sent)
  BY HeaderFound DEF Fits
<1>4. m.id \in Nat
  BY <1>1, <1>3, Basics
<1>5. nextMsgId \in [Channels -> Nat] /\ chan \in Channels
  BY DEF TypeInv, TypeOK
<1>6. PICK n : n = m.id
  OBVIOUS
<1>7. ASSUME m.conv = 0 PROVE nextMsgId'[chan] >= n
  <2>1. CASE n > nextMsgId[chan]
    <3>1. nextMsgId' = [nextMsgId EXCEPT ![chan] = n + 1]
      BY <1>2, <1>6, <1>7, <2>1 DEF FastForward
    <3>2. nextMsgId'[chan] = n + 1
      BY <1>5, <3>1
    <3>3. QED BY <1>4, <1>6, <3>2
  <2>2. CASE ~(n > nextMsgId[chan])
    <3>1. nextMsgId' = nextMsgId
      BY <1>2, <1>6, <2>2 DEF FastForward
    <3>2. nextMsgId[chan] \in Nat
      BY <1>5
    <3>3. QED BY <1>4, <1>6, <2>2, <3>1, <3>2
  <2>3. QED BY <2>1, <2>2
<1>8. QED BY <1>1, <1>6, <1>7 DEF Counted

\* A header leads into its body, or past itself to the next fragment's.
LEMMA ReadHeaderKeeps ==
  ASSUME TypeInv, TypeInv', Formed, Later, Reading, Returned, ReadHeader
  PROVE  Reading' /\ (pc' = "header" => Between')
<1>1. PICK u : u = wire[rd + 1]
  OBVIOUS
<1>2. PICK k, g : k = u.msg /\ g = u.frag
  OBVIOUS
<1>3. /\ ~Broken /\ rd + 1 \in 1 .. Len(wire) /\ rd + 2 \in 1 .. Len(wire)
      /\ Fits(sent, u) /\ wire[rd + 2] = Unit("rest", k, g, 0)
  BY <1>1, <1>2, HeaderFound
<1>4. /\ Bodied(sent, k, g) => TailOf(sent, chunks, k, g - 1)
      /\ ~Bodied(sent, k, g) => /\ TailOf(sent, chunks, k, g)
                                /\ g = 0 /\ sent[k].count # 1
      /\ NamedFor(sent, id', k)
  BY <1>1, <1>2, HeaderFits
<1>5. AllBefore(k)' /\ Counted(sent, nextMsgId', chan, k)
  <2>1. AllBefore(u.msg)'
    BY <1>1, HeaderIsLater
  <2>2. Counted(sent, nextMsgId', chan, u.msg)
    BY <1>1, HeaderIsCounted
  <2>3. QED BY <1>2, <2>1, <2>2
<1>6. /\ k \in 1 .. Len(sent) /\ g < sent[k].count /\ sent[k].len \in Nat \ {0}
      /\ sent[k].count \in Nat \ {0}
  <2>1. k \in 1 .. Len(sent) /\ g < sent[k].count
    BY <1>2, <1>3 DEF Fits
  <2>2. QED BY <2>1, Basics
<1>7. /\ sent' = sent /\ wire' = wire /\ rd' = rd + 2 /\ chan' = chan /\ chunks' = chunks
      /\ hdr' = [msg |-> k, frag |-> g] /\ delivered' = delivered
  BY <1>1, <1>2 DEF ReadHeader, peerVars
<1>8. CASE Bodied(sent, k, g)
  <2>1. /\ pc' = "body" /\ received' = 0
        /\ block' = [o \in 1 .. sent[k].len |-> Junk]
    <3>1. HasBody(u.msg, u.frag)
      BY <1>2, <1>8, SameWords
    <3>2. QED BY <1>1, <1>2, <3>1 DEF ReadHeader
  <2>2. hdr'.msg = k /\ hdr'.frag = g
    BY <1>7
  <2>3. Filled'
    <3>1. received' <= sent'[k].len
      BY <1>6, <1>7, <2>1
    <3>2. rd' - received' = rd + 2 /\ rd + 2 >= 1
      BY <1>7, <2>1, Basics
    <3>3. ASSUME NEW o \in 1 .. sent'[k].len
          PROVE  block'[o] = IF o <= received' THEN Unit("body", k, g, o) ELSE Junk
      <4>1. ~(o <= received')
        BY <2>1
      <4>2. QED BY <1>7, <2>1, <4>1
    <3>4. QED BY <1>3, <1>7, <2>2, <3>1, <3>2, <3>3 DEF Filled
  <2>4. InBody'
    BY <1>4, <1>5, <1>6, <1>7, <1>8, <2>2, <2>3 DEF InBody
  <2>5. QED BY <2>1, <2>4 DEF Reading
<1>9. CASE ~Bodied(sent, k, g)
  <2>1. pc' = "header"
    <3>1. ~HasBody(u.msg, u.frag)
      BY <1>2, <1>9, SameWords
    <3>2. QED BY <1>1, <1>2, <3>1 DEF ReadHeader
  <2>2. PICK v : v = wire[rd + 2]
    OBVIOUS
  <2>3. v.part = "rest" /\ v.msg = k /\ v.frag = g
    BY <1>3, <2>2, UnitFields
  <2>4. Stops(sent, v)
    BY <1>9, <2>3 DEF Stops
  <2>5. ~Final(sent, v)
    <3>1. PICK n \in Nat : n = sent[k].count
      BY <1>6
    <3>2. g # n - 1
      BY <1>4, <1>9, <3>1
    <3>3. QED BY <2>3, <3>1, <3>2 DEF Final
  <2>6. rd' >= 1 /\ wire'[rd'] = v
    BY <1>7, <2>2, Basics
  <2>7. Between'
    BY <1>4, <1>7, <1>9, <2>3, <2>4, <2>5, <2>6 DEF Between
  <2>8. QED BY <2>1, <2>7 DEF Reading
<1>10. QED BY <1>8, <1>9

\* Where the call is in a body, in short.
LEMMA BodyFacts ==
  ASSUME TypeInv, Reading, pc = "body", NEW k, k = hdr.msg, NEW g, g = hdr.frag,
         NEW n, n = sent[hdr.msg].len
  PROVE  /\ k \in 1 .. Len(sent) /\ g \in Nat /\ g < sent[k].count /\ Bodied(sent, k, g)
         /\ TailOf(sent, chunks, k, g - 1) /\ NamedFor(sent, id, k)
         /\ Counted(sent, nextMsgId, chan, k) /\ AllBefore(k)
         /\ Filled \/ Spoiled
         /\ n \in Nat \ {0} /\ n < U32 /\ BodyLen = n
         /\ block \in [1 .. n -> Units \cup {Junk}]
         /\ rd \in Nat /\ rd <= Len(wire) /\ received \in Nat /\ Len(wire) \in Nat
<1>1. /\ k \in 1 .. Len(sent) /\ g < sent[k].count /\ Bodied(sent, k, g)
      /\ TailOf(sent, chunks, k, g - 1) /\ NamedFor(sent, id, k)
      /\ Counted(sent, nextMsgId, chan, k) /\ AllBefore(k) /\ (Filled \/ Spoiled)
  BY DEF Reading, InBody
<1>2. g \in Nat
  BY DEF TypeInv, TypeOK
<1>3. n \in Nat \ {0} /\ n < U32 /\ BodyLen = n
  BY <1>1, Basics DEF BodyLen
<1>4. block \in [1 .. n -> Units \cup {Junk}]
  BY DEF TypeInv, Linked
<1>5. QED BY <1>1, <1>2, <1>3, <1>4, Basics

\* What is read into the block is what follows the header.
LEMMA ReadBodyFills ==
  ASSUME TypeInv, Formed, Reading, ReadBody, Filled
  PROVE  Filled'
<1>0. PICK k, g, n : k = hdr.msg /\ g = hdr.frag /\ n = sent[hdr.msg].len
  OBVIOUS
<1>1. /\ k \in 1 .. Len(sent) /\ Bodied(sent, k, g) /\ n \in Nat /\ BodyLen = n
      /\ block \in [1 .. n -> Units \cup {Junk}]
      /\ rd \in Nat /\ rd <= Len(wire) /\ received \in Nat /\ Len(wire) \in Nat
  BY <1>0, BodyFacts DEF ReadBody
<1>2. PICK part : part = Least(BodyLen - received, Avail)
  OBVIOUS
<1>3. /\ received < n /\ rd' = rd + part /\ received' = received + part
      /\ block' = [o \in DOMAIN block |->
                     IF o \in received + 1 .. received + part
                       THEN wire[rd + o - received] ELSE block[o]]
      /\ sent' = sent /\ wire' = wire /\ hdr' = hdr
  BY <1>1, <1>2 DEF ReadBody, peerVars
<1>4. part \in Nat /\ part <= n - received /\ part <= Len(wire) - rd
  <2>1. Avail \in Nat /\ Avail <= Len(wire) - rd
    BY <1>1 DEF Avail
  <2>2. n - received \in Nat
    BY <1>1, <1>3
  <2>3. QED BY <1>1, <1>2, <2>1, <2>2 DEF Least
<1>5. PICK b : b = rd - received
  OBVIOUS
<1>6. /\ received <= n /\ b >= 1 /\ wire[b] = Unit("rest", k, g, 0)
      /\ \A o \in 1 .. n :
           block[o] = IF o <= received THEN Unit("body", k, g, o) ELSE Junk
  BY <1>0, <1>5 DEF Filled
<1>7. b \in 1 .. Len(wire) /\ rd' - received' = b /\ received' <= n
  BY <1>1, <1>3, <1>4, <1>5, <1>6
<1>8. ASSUME NEW o \in 1 .. n
      PROVE  block'[o] = IF o <= received' THEN Unit("body", k, g, o) ELSE Junk
  <2>0. o \in DOMAIN block /\ o \in Nat
    BY <1>1
  <2>1. CASE o \in received + 1 .. received + part
    <3>1. block'[o] = wire[rd + o - received]
      BY <1>3, <2>0, <2>1
    <3>2. rd + o - received = b + o /\ b + o <= Len(wire) /\ o <= received'
      BY <1>1, <1>3, <1>4, <1>5, <2>0, <2>1
    <3>3. wire[b].part = "rest" /\ wire[b].msg = k /\ wire[b].frag = g
      BY <1>6, UnitFields
    <3>4. wire[b + o] = Unit("body", wire[b].msg, wire[b].frag, o)
      <4>1. Bodied(sent, wire[b].msg, wire[b].frag) /\ o \in 1 .. sent[wire[b].msg].len
        BY <1>0, <1>1, <3>3
      <4>2. QED BY <1>7, <3>2, <3>3, <4>1 DEF Formed, Chained, BodiesFollow
    <3>5. QED BY <3>1, <3>2, <3>3, <3>4
  <2>2. CASE ~(o \in received + 1 .. received + part)
    <3>1. block'[o] = block[o]
      BY <1>3, <2>0, <2>2
    <3>2. o <= received' <=> o <= received
      BY <1>1, <1>3, <1>4, <2>0, <2>2
    <3>3. QED BY <1>6, <3>1, <3>2
  <2>3. QED BY <2>1, <2>2
<1>9. hdr'.msg = k /\ hdr'.frag = g /\ sent'[k].len = n
  BY <1>0, <1>3
<1>10. wire'[rd' - received'] = Unit("rest", k, g, 0) /\ rd' - received' >= 1
  BY <1>3, <1>6, <1>7
<1>11. QED BY <1>7, <1>8, <1>9, <1>10 DEF Filled

\* When nothing can be read any more the block stays as it is.
LEMMA ReadBodySpoiled ==
  ASSUME TypeInv, Reading, ReadBody, Spoiled
  PROVE  Spoiled'
<1>0. PICK n : n = sent[hdr.msg].len
  OBVIOUS
<1>1. n \in Nat \ {0} /\ BodyLen = n /\ block \in [1 .. n -> Units \cup {Junk}]
      /\ received \in Nat
  BY <1>0, BodyFacts DEF ReadBody
<1>2. Avail = 0 /\ block[n] = Junk /\ Broken
  BY <1>0 DEF Spoiled, Broken, Avail
<1>3. received < n /\ Least(BodyLen - received, Avail) = 0
  BY <1>1, <1>2 DEF ReadBody, Least
<1>4. /\ block' = [o \in DOMAIN block |->
                     IF o \in received + 1 .. received + 0
                       THEN wire[rd + o - received] ELSE block[o]]
      /\ sent' = sent /\ link' = link /\ hdr' = hdr
  BY <1>3 DEF ReadBody, peerVars
<1>5. n \in DOMAIN block /\ ~(n \in received + 1 .. received + 0)
  BY <1>1
<1>6. block'[n] = Junk
  BY <1>2, <1>4, <1>5
<1>7. QED BY <1>0, <1>2, <1>4, <1>6 DEF Spoiled, Broken

\* In a body that goes on everything but the block stays.
LEMMA BodyGoesOn ==
  ASSUME TypeInv, TypeInv', Later, Reading, pc = "body",
         UNCHANGED <<sent, pc, chan, id, chunks, hdr, nextMsgId, delivered>>,
         Filled' \/ Spoiled'
  PROVE  Reading'
<1>0. PICK k, g, n : k = hdr.msg /\ g = hdr.frag /\ n = sent[hdr.msg].len
  OBVIOUS
<1>1. /\ k \in 1 .. Len(sent) /\ g < sent[k].count /\ Bodied(sent, k, g)
      /\ TailOf(sent, chunks, k, g - 1) /\ NamedFor(sent, id, k)
      /\ Counted(sent, nextMsgId, chan, k) /\ AllBefore(k)
  BY <1>0, BodyFacts
<1>2. AllBefore(k)'
  <2>1. ASSUME NEW j \in DOMAIN delivered PROVE Good(j)' /\ Source(j)' < k
    BY <1>1, GoodStays DEF AllBefore
  <2>2. QED BY <2>1 DEF AllBefore
<1>3. InBody'
  BY <1>0, <1>1, <1>2 DEF InBody
<1>4. QED BY <1>3 DEF Reading

\* A read error leaves the end of the block as it was allocated.
LEMMA ErrorSpoils ==
  ASSUME TypeInv, Reading, ReadBodyError
  PROVE  Spoiled'
<1>0. PICK n : n = sent[hdr.msg].len
  OBVIOUS
<1>1. /\ n \in Nat \ {0} /\ BodyLen = n /\ received \in Nat /\ (Filled \/ Spoiled)
      /\ received < n
  BY <1>0, BodyFacts DEF ReadBodyError
<1>2. block[n] = Junk
  <2>1. CASE Filled
    <3>1. n \in 1 .. n /\ ~(n <= received)
      BY <1>1
    <3>2. QED BY <1>0, <2>1, <3>1 DEF Filled
  <2>2. CASE Spoiled
    BY <1>0, <2>2 DEF Spoiled
  <2>3. QED BY <1>1, <2>1, <2>2
<1>3. Broken' /\ sent' = sent /\ hdr' = hdr /\ block' = block
  BY DEF ReadBodyError, AfterReadError, Broken
<1>4. QED BY <1>0, <1>2, <1>3 DEF Spoiled

\* A result more leaves the others what they were.
LEMMA ResultAdded ==
  ASSUME TypeInv, TypeInv', Later, \A j \in DOMAIN delivered : Good(j),
         NEW r, delivered' = Append(delivered, r),
         r \in [chan: Channels, id: Nat, chunks: Seq(Seq(Units \cup {Junk}))]
  PROVE  /\ Len(delivered) \in Nat /\ Len(delivered') = Len(delivered) + 1
         /\ DOMAIN delivered = 1 .. Len(delivered)
         /\ DOMAIN delivered' = 1 .. Len(delivered) + 1
         /\ delivered'[Len(delivered) + 1] = r
         /\ \A j \in DOMAIN delivered :
              Good(j)' /\ Source(j)' = Source(j) /\ delivered'[j] = delivered[j]
<1> DEFINE R == [chan: Channels, id: Nat, chunks: Seq(Seq(Units \cup {Junk}))]
<1>1. delivered \in Seq(R) /\ r \in R
  BY DEF TypeInv, TypeOK
<1> HIDE DEF R
<1>2. /\ Len(delivered') = Len(delivered) + 1 /\ delivered'[Len(delivered) + 1] = r
      /\ delivered' \in Seq(R) /\ \A j \in 1 .. Len(delivered) : delivered'[j] = delivered[j]
  BY <1>1, AppendProperties
<1>3. /\ Len(delivered) \in Nat /\ DOMAIN delivered = 1 .. Len(delivered)
      /\ DOMAIN delivered' = 1 .. Len(delivered')
  BY <1>1, <1>2, LenProperties
<1>4. ASSUME NEW j \in DOMAIN delivered
      PROVE  Good(j)' /\ Source(j)' = Source(j) /\ delivered'[j] = delivered[j]
  <2>1. Good(j) /\ delivered'[j] = delivered[j]
    BY <1>2, <1>3
  <2>2. QED BY <2>1, GoodStays
<1>5. QED BY <1>2, <1>3, <1>4

\* A fragment read to its end is added to the bodies of its message.
LEMMA FragmentWhole ==
  ASSUME TypeInv, Formed, Reading, EndFragment, Filled
  PROVE  /\ Len(chunks') \in Nat /\ Len(chunks') >= 1 /\ Len(chunks') = Len(chunks) + 1
         /\ TailOf(sent, chunks', hdr.msg, hdr.frag)
         /\ rd >= 1 /\ Stops(sent, wire[rd])
         /\ wire[rd] = Unit("body", hdr.msg, hdr.frag, sent[hdr.msg].len)
<1>0. PICK k, g, n : k = hdr.msg /\ g = hdr.frag /\ n = sent[hdr.msg].len
  OBVIOUS
<1>1. /\ k \in 1 .. Len(sent) /\ g \in Nat /\ Bodied(sent, k, g)
      /\ TailOf(sent, chunks, k, g - 1) /\ n \in Nat \ {0} /\ BodyLen = n
      /\ block \in [1 .. n -> Units \cup {Junk}]
      /\ rd \in Nat /\ rd <= Len(wire) /\ received \in Nat /\ Len(wire) \in Nat
  BY <1>0, BodyFacts DEF EndFragment
<1>2. PICK b : b = rd - received
  OBVIOUS
<1>3. /\ received <= n /\ b >= 1 /\ wire[b] = Unit("rest", k, g, 0)
      /\ \A o \in 1 .. n :
           block[o] = IF o <= received THEN Unit("body", k, g, o) ELSE Junk
  BY <1>0, <1>2 DEF Filled
<1>4. received = n
  BY <1>1, <1>3 DEF EndFragment
<1>5. block = WholeOf(sent, k, g)
  <2>1. \A o \in 1 .. n : block[o] = Unit("body", k, g, o)
    BY <1>1, <1>3, <1>4
  <2>2. block = [o \in 1 .. n |-> Unit("body", k, g, o)]
    BY <1>1, <2>1
  <2>3. QED BY <1>0, <2>2 DEF WholeOf
<1>6. /\ chunks' = Append(chunks, block) /\ chunks \in Seq(Seq(Units \cup {Junk}))
      /\ block \in Seq(Units \cup {Junk})
  BY DEF EndFragment, TypeInv, TypeOK
<1>7. /\ Len(chunks') = Len(chunks) + 1 /\ Len(chunks') >= 1 /\ TailOf(sent, chunks', k, g)
      /\ Len(chunks') \in Nat
  <2>0. PICK T : T = Seq(Units \cup {Junk})
    OBVIOUS
  <2>1. PICK d : d = chunks'
    OBVIOUS
  <2>2. Low(sent, k) \in {0, 1}
    BY LowIs
  <2>3. /\ chunks \in Seq(T) /\ block \in T /\ d = Append(chunks, block) /\ g \in Nat
        /\ TailOf(sent, chunks, k, g - 1) /\ block = WholeOf(sent, k, g)
    BY <1>1, <1>5, <1>6, <2>0, <2>1
  <2>4. TailOf(sent, d, k, g)
    BY <2>2, <2>3, OneBody
  <2>5. d \in Seq(T) /\ Len(d) = Len(chunks) + 1
    BY <2>3, AppendProperties
  <2>6. Len(d) \in Nat /\ Len(d) >= 1
    <3>1. Len(chunks) \in Nat
      BY <2>3, LenProperties
    <3>2. QED BY <2>5, <3>1
  <2>7. QED BY <2>1, <2>4, <2>5, <2>6
<1>8. b \in 1 .. Len(wire) /\ b + n = rd /\ b + n <= Len(wire) /\ n \in 1 .. n /\ rd >= 1
  BY <1>1, <1>2, <1>3, <1>4
<1>9. wire[b].part = "rest" /\ wire[b].msg = k /\ wire[b].frag = g
  BY <1>3, UnitFields
<1>10. wire[rd] = Unit("body", k, g, n)
  <2>1. Bodied(sent, wire[b].msg, wire[b].frag) /\ n \in 1 .. sent[wire[b].msg].len
    BY <1>0, <1>1, <1>8, <1>9
  <2>2. wire[b + n] = Unit("body", wire[b].msg, wire[b].frag, n)
    BY <1>8, <1>9, <2>1 DEF Formed, Chained, BodiesFollow
  <2>3. QED BY <1>8, <1>9, <2>2
<1>11. Stops(sent, wire[rd])
  <2>1. PICK u : u = wire[rd]
    OBVIOUS
  <2>2. u.part = "body" /\ u.msg = k /\ u.frag = g /\ u.off = n
    BY <1>10, <2>1, UnitFields
  <2>3. QED BY <1>0, <1>1, <2>1, <2>2 DEF Stops
<1>12. QED BY <1>0, <1>7, <1>8, <1>10, <1>11

\* What the end of a fragment does, by whether it is the last one.
LEMMA EndFragmentCases ==
  ASSUME TypeInv, TypeInv', EndFragment, NEW k, k = hdr.msg, NEW g, g = hdr.frag,
         NEW r, r = [chan |-> chan, id |-> id, chunks |-> chunks']
  PROVE  /\ pc = "body" /\ chunks' = Append(chunks, block)
         /\ sent' = sent /\ wire' = wire /\ link' = link /\ rd' = rd /\ id' = id
         /\ nextMsgId' = nextMsgId
         /\ r \in [chan: Channels, id: Nat, chunks: Seq(Seq(Units \cup {Junk}))]
         /\ g = sent[k].count - 1 => pc' = "idle" /\ delivered' = Append(delivered, r)
         /\ g # sent[k].count - 1 => pc' = "header" /\ delivered' = delivered
<1>1. chunks' \in Seq(Seq(Units \cup {Junk})) /\ chan \in Channels /\ id \in Nat
  BY DEF TypeInv, TypeOK
<1>2. QED BY <1>1 DEF EndFragment, peerVars, LastFrag

\* A result that was read to its end is the tail of a message later than all others'.
LEMMA WholeResult ==
  ASSUME TypeInv, TypeInv', Formed, Later, Reading, Returned, EndFragment, Filled,
         hdr.frag = sent[hdr.msg].count - 1, NEW N, N = Len(delivered) + 1
  PROVE  Returned' /\ Good(N)' /\ Source(N)' = hdr.msg
<1>0. PICK k, g : k = hdr.msg /\ g = hdr.frag
  OBVIOUS
<1>1. PICK r : r = [chan |-> chan, id |-> id, chunks |-> chunks']
  OBVIOUS
<1>2. /\ pc = "body" /\ sent' = sent /\ wire' = wire /\ rd' = rd /\ nextMsgId' = nextMsgId
      /\ delivered' = Append(delivered, r)
      /\ r \in [chan: Channels, id: Nat, chunks: Seq(Seq(Units \cup {Junk}))]
  BY <1>0, <1>1, EndFragmentCases
<1>3. /\ k \in 1 .. Len(sent) /\ NamedFor(sent, id, k) /\ Counted(sent, nextMsgId, chan, k)
      /\ AllBefore(k)
  BY <1>0, <1>2, BodyFacts
<1>4. /\ Len(chunks') \in Nat /\ Len(chunks') >= 1 /\ TailOf(sent, chunks', k, g)
      /\ rd >= 1 /\ wire[rd] = Unit("body", k, g, sent[k].len) /\ Stops(sent, wire[rd])
  BY <1>0, FragmentWhole
<1>5. /\ Len(delivered) \in Nat /\ Len(delivered') = N
      /\ DOMAIN delivered = 1 .. Len(delivered) /\ DOMAIN delivered' = 1 .. N
      /\ delivered'[N] = r
      /\ \A j \in DOMAIN delivered : Good(j)' /\ Source(j)' = Source(j)
                                     /\ delivered'[j] = delivered[j]
  BY <1>0, <1>2, <1>3, ResultAdded DEF AllBefore
<1>6. r.chan = chan /\ r.id = id /\ r.chunks = chunks'
  BY <1>1
<1>7. Source(N)' = k
  <2>1. Numbers(sent)
    BY MessagesHaveNumbers DEF TypeInv, TypeOK
  <2>2. chunks'[1][1].msg = k
    BY <1>3, <1>4, <2>1, TailSource
  <2>3. QED BY <1>5, <1>6, <2>2 DEF Source
<1>8. Good(N)'
  <2>1. g = sent[k].count - 1
    BY <1>0
  <2>2. Past(sent, wire, rd, k)
    <3>1. PICK u : u = wire[rd]
      OBVIOUS
    <3>2. u.msg = k /\ u.frag = g
      BY <1>4, <3>1, UnitFields
    <3>3. Closes(sent, u)
      BY <1>4, <2>1, <3>1, <3>2 DEF Closes, Final
    <3>4. rd \in 1 .. rd
      BY <1>4, Basics
    <3>5. QED BY <3>1, <3>2, <3>3, <3>4 DEF Past
  <2>3. QED BY <1>2, <1>3, <1>4, <1>5, <1>6, <1>7, <2>1, <2>2 DEF Good
<1>9. ASSUME NEW j \in DOMAIN delivered' PROVE GoodOrLast(j)'
  <2>1. j = N \/ j \in DOMAIN delivered
    BY <1>0, <1>5
  <2>2. QED BY <1>5, <1>8, <2>1 DEF GoodOrLast
<1>10. ASSUME NEW i \in DOMAIN delivered', NEW j \in DOMAIN delivered', i < j, ~Damaged(j)'
       PROVE  Source(i)' < Source(j)'
  <2>1. i \in DOMAIN delivered
    BY <1>0, <1>5, <1>10
  <2>2. CASE j = N
    BY <1>3, <1>5, <1>7, <2>1, <2>2 DEF AllBefore
  <2>3. CASE j \in DOMAIN delivered
    <3>1. ~Damaged(j)
      BY <1>5, <1>10, <2>3 DEF Damaged
    <3>2. Source(i) < Source(j)
      BY <1>10, <2>1, <2>3, <3>1 DEF Returned
    <3>3. QED BY <1>5, <2>1, <2>3, <3>2
  <2>4. QED BY <1>0, <1>5, <2>2, <2>3
<1>11. Returned'
  BY <1>9, <1>10 DEF Returned
<1>12. QED BY <1>0, <1>7, <1>8, <1>11

\* One that was not is damaged, and the connection is broken.
LEMMA DamagedResult ==
  ASSUME TypeInv, TypeInv', Later, Reading, Returned, EndFragment, Spoiled,
         hdr.frag = sent[hdr.msg].count - 1, NEW N, N = Len(delivered) + 1
  PROVE  Returned' /\ Damaged(N)'
<1>0. PICK k, g, n : k = hdr.msg /\ g = hdr.frag /\ n = sent[hdr.msg].len
  OBVIOUS
<1>1. PICK r : r = [chan |-> chan, id |-> id, chunks |-> chunks']
  OBVIOUS
<1>2. /\ pc = "body" /\ sent' = sent /\ chunks' = Append(chunks, block)
      /\ delivered' = Append(delivered, r)
      /\ r \in [chan: Channels, id: Nat, chunks: Seq(Seq(Units \cup {Junk}))]
  BY <1>0, <1>1, EndFragmentCases
<1>3. /\ n \in Nat \ {0} /\ AllBefore(k) /\ block \in [1 .. n -> Units \cup {Junk}]
  BY <1>0, <1>2, BodyFacts
<1>4. /\ Len(delivered) \in Nat /\ Len(delivered') = N
      /\ DOMAIN delivered = 1 .. Len(delivered) /\ DOMAIN delivered' = 1 .. N
      /\ delivered'[N] = r
      /\ \A j \in DOMAIN delivered : Good(j)' /\ Source(j)' = Source(j)
                                     /\ delivered'[j] = delivered[j]
  BY <1>0, <1>2, <1>3, ResultAdded DEF AllBefore
<1>5. Damaged(N)'
  <2>1. PICK c : c = chunks'
    OBVIOUS
  <2>2. PICK T : T = Seq(Units \cup {Junk})
    OBVIOUS
  <2>3. chunks \in Seq(T) /\ block \in T
    BY <2>2 DEF TypeInv, TypeOK
  <2>4. /\ c \in Seq(T) /\ Len(c) = Len(chunks) + 1 /\ c[Len(chunks) + 1] = block
    BY <1>2, <2>1, <2>3, AppendProperties
  <2>5. Len(chunks) + 1 \in DOMAIN c
    <3>1. Len(chunks) \in Nat /\ DOMAIN c = 1 .. Len(c)
      BY <2>3, <2>4, LenProperties
    <3>2. QED BY <2>4, <3>1
  <2>6. n \in DOMAIN block /\ block[n] = Junk
    BY <1>0, <1>3 DEF Spoiled
  <2>7. delivered'[N].chunks = c
    BY <1>1, <1>4, <2>1
  <2>8. PICK x : x = Len(chunks) + 1
    OBVIOUS
  <2>9. /\ x \in DOMAIN delivered'[N].chunks /\ n \in DOMAIN delivered'[N].chunks[x]
        /\ delivered'[N].chunks[x][n] = Junk
    BY <2>4, <2>5, <2>6, <2>7, <2>8
  <2>10. QED BY <2>9 DEF Damaged
<1>6. ASSUME NEW j \in DOMAIN delivered' PROVE GoodOrLast(j)'
  <2>1. CASE j = N
    <3>1. Broken'
      BY DEF Spoiled, Later
    <3>2. QED BY <1>4, <1>5, <2>1, <3>1 DEF GoodOrLast
  <2>2. CASE j \in DOMAIN delivered
    BY <1>4, <2>2 DEF GoodOrLast
  <2>3. QED BY <1>0, <1>4, <2>1, <2>2
<1>7. ASSUME NEW i \in DOMAIN delivered', NEW j \in DOMAIN delivered', i < j, ~Damaged(j)'
      PROVE  Source(i)' < Source(j)'
  <2>1. i \in DOMAIN delivered /\ j # N
    BY <1>0, <1>4, <1>5, <1>7
  <2>2. j \in DOMAIN delivered
    BY <1>0, <1>4, <2>1
  <2>3. ~Damaged(j)
    BY <1>4, <1>7, <2>2 DEF Damaged
  <2>4. Source(i) < Source(j)
    BY <1>7, <2>1, <2>2, <2>3 DEF Returned
  <2>5. QED BY <1>4, <2>1, <2>2, <2>4
<1>8. Returned'
  BY <1>6, <1>7 DEF Returned
<1>9. QED BY <1>0, <1>5, <1>8

\* After a fragment that is not the last one the call is between two frames.
LEMMA FragmentGoesOn ==
  ASSUME TypeInv, TypeInv', Formed, Reading, EndFragment, Filled,
         hdr.frag # sent[hdr.msg].count - 1
  PROVE  Between' /\ wire[rd].msg = hdr.msg /\ wire[rd].frag = hdr.frag
<1>0. PICK k, g : k = hdr.msg /\ g = hdr.frag
  OBVIOUS
<1>1. PICK r : r = [chan |-> chan, id |-> id, chunks |-> chunks']
  OBVIOUS
<1>2. /\ pc = "body" /\ sent' = sent /\ wire' = wire /\ rd' = rd /\ id' = id
  BY <1>0, <1>1, EndFragmentCases
<1>3. NamedFor(sent, id, k)
  BY <1>0, <1>2, BodyFacts
<1>4. /\ TailOf(sent, chunks', k, g) /\ rd >= 1 /\ Stops(sent, wire[rd])
      /\ wire[rd] = Unit("body", k, g, sent[k].len)
  BY <1>0, FragmentWhole
<1>5. PICK u : u = wire[rd]
  OBVIOUS
<1>6. u.msg = k /\ u.frag = g
  BY <1>4, <1>5, UnitFields
<1>7. Stops(sent, u) /\ ~Final(sent, u)
  BY <1>0, <1>4, <1>5, <1>6 DEF Final
<1>8. Between'
  BY <1>2, <1>3, <1>4, <1>5, <1>6, <1>7 DEF Between
<1>9. QED BY <1>0, <1>5, <1>6, <1>8

\* The end of a fragment returns a message's tail, or a damaged one, or goes on.
LEMMA EndFragmentKeeps ==
  ASSUME TypeInv, TypeInv', Formed, Later, Reading, Returned, EndFragment
  PROVE  Reading' /\ Returned'
<1>0. PICK k, g : k = hdr.msg /\ g = hdr.frag
  OBVIOUS
<1>1. PICK r : r = [chan |-> chan, id |-> id, chunks |-> chunks']
  OBVIOUS
<1>2. /\ pc = "body" /\ sent' = sent /\ wire' = wire /\ link' = link /\ rd' = rd
      /\ id' = id
      /\ g = sent[k].count - 1 => pc' = "idle" /\ delivered' = Append(delivered, r)
      /\ g # sent[k].count - 1 => pc' = "header" /\ delivered' = delivered
  BY <1>0, <1>1, EndFragmentCases
<1>3. NamedFor(sent, id, k) /\ (Filled \/ Spoiled)
  BY <1>0, <1>2, BodyFacts
<1>4. CASE g = sent[k].count - 1
  <2>1. Returned'
    <3>1. hdr.frag = sent[hdr.msg].count - 1
      BY <1>0, <1>4
    <3>2. PICK N : N = Len(delivered) + 1
      OBVIOUS
    <3>3. CASE Filled
      BY <3>1, <3>2, <3>3, WholeResult
    <3>4. CASE Spoiled
      BY <3>1, <3>2, <3>4, DamagedResult
    <3>5. QED BY <1>3, <3>3, <3>4
  <2>2. Reading'
    BY <1>2, <1>4 DEF Reading
  <2>3. QED BY <2>1, <2>2
<1>5. CASE g # sent[k].count - 1
  <2>1. pc' = "header" /\ delivered' = delivered
    BY <1>2, <1>5
  <2>2. Returned'
    BY <2>1, ReturnedStays
  <2>3. CASE Spoiled
    <3>1. Broken'
      BY <2>3 DEF Spoiled, Later
    <3>2. QED BY <2>1, <2>2, <3>1 DEF Reading
  <2>4. CASE Filled
    <3>1. Between'
      BY <1>0, <1>5, <2>4, FragmentGoesOn
    <3>2. QED BY <2>1, <2>2, <3>1 DEF Reading
  <2>5. QED BY <1>3, <2>3, <2>4
<1>6. QED BY <1>4, <1>5

\* Every step keeps what is known of the wire, the call and the results.
LEMMA InvStep == IInv /\ [Next]_vars => IInv'
<1> SUFFICES ASSUME IInv, [Next]_vars PROVE IInv'
  OBVIOUS
<1>1. TypeInv /\ Formed /\ Reading /\ Returned
  BY DEF IInv
<1>2. TypeInv'
  BY <1>1, TypeStep
<1>3. Later /\ Formed'
  BY <1>1, StepGoesOn
<1>4. ASSUME Reading', Returned' PROVE IInv'
  BY <1>2, <1>3, <1>4 DEF IInv
<1>5. ASSUME UNCHANGED <<rd, pc, chan, id, chunks, hdr, block, received, nextMsgId,
                         delivered>>
      PROVE  IInv'
  BY <1>1, <1>2, <1>3, <1>4, <1>5, CallStays, ReturnedStays
<1>6. CASE DeviceBegins
  BY <1>5, <1>6 DEF DeviceBegins, callVars
<1>7. CASE DeviceContinues
  BY <1>5, <1>7 DEF DeviceContinues, callVars
<1>8. CASE LinkEnds
  BY <1>5, <1>8 DEF LinkEnds, callVars
<1>9. CASE ReadHeaderFails
  <2>1. pc' = "idle" /\ delivered' = delivered
    BY <1>9 DEF ReadHeaderFails
  <2>2. Reading'
    BY <2>1 DEF Reading
  <2>3. QED BY <1>1, <1>2, <1>3, <1>4, <2>1, <2>2, ReturnedStays
<1>10. CASE ReadHeaderBadMagic
  <2>1. pc' = "idle" /\ delivered' = delivered
    BY <1>10 DEF ReadHeaderBadMagic
  <2>2. Reading'
    BY <2>1 DEF Reading
  <2>3. QED BY <1>1, <1>2, <1>3, <1>4, <2>1, <2>2, ReturnedStays
<1>11. CASE ReadHeader
  <2>1. delivered' = delivered
    BY <1>11 DEF ReadHeader
  <2>2. Reading'
    BY <1>1, <1>2, <1>3, <1>11, ReadHeaderKeeps
  <2>3. QED BY <1>1, <1>2, <1>3, <1>4, <2>1, <2>2, ReturnedStays
<1>12. CASE ReadBody
  <2>1. /\ pc = "body"
        /\ UNCHANGED <<sent, pc, chan, id, chunks, hdr, nextMsgId, delivered>>
    BY <1>12 DEF ReadBody, peerVars
  <2>2. Filled \/ Spoiled
    BY <1>1, <2>1 DEF Reading, InBody
  <2>3. Filled' \/ Spoiled'
    BY <1>1, <1>12, <2>2, ReadBodyFills, ReadBodySpoiled
  <2>4. Reading'
    BY <1>1, <1>2, <1>3, <2>1, <2>3, BodyGoesOn
  <2>5. QED BY <1>1, <1>2, <1>3, <1>4, <2>1, <2>4, ReturnedStays
<1>13. CASE ReadBodyError
  <2>1. /\ pc = "body"
        /\ UNCHANGED <<sent, pc, chan, id, chunks, hdr, nextMsgId, delivered>>
    BY <1>13 DEF ReadBodyError
  <2>2. Spoiled'
    BY <1>1, <1>13, ErrorSpoils
  <2>3. Reading'
    BY <1>1, <1>2, <1>3, <2>1, <2>2, BodyGoesOn
  <2>4. QED BY <1>1, <1>2, <1>3, <1>4, <2>1, <2>3, ReturnedStays
<1>14. CASE EndFragment
  BY <1>1, <1>2, <1>3, <1>4, <1>14, EndFragmentKeeps
<1>15. ASSUME NEW c \in Channels, Call(c) PROVE IInv'
  <2>1. pc' = "header" /\ chunks' = <<>> /\ id' = 0 /\ delivered' = delivered
    BY <1>15 DEF Call
  <2>2. Reading'
    BY <2>1 DEF Reading, Fresh
  <2>3. QED BY <1>1, <1>2, <1>3, <1>4, <2>1, <2>2, ReturnedStays
<1>16. CASE UNCHANGED vars
  BY <1>5, <1>16 DEF vars
<1>17. QED
  BY <1>6, <1>7, <1>8, <1>9, <1>10, <1>11, <1>12, <1>13, <1>14, <1>15, <1>16
     DEF Next, Device, Reader

\* A connection on which nothing was sent.
LEMMA InvInit == Init => IInv
<1> SUFFICES ASSUME Init PROVE IInv
  OBVIOUS
<1>1. TypeInv
  BY ConstantsAssumption DEF Init, TypeInv, TypeOK, Linked
<1>2. Formed
  <2>1. Len(wire) = 0 /\ Len(sent) = 0
    BY DEF Init
  <2>2. \A i \in 1 .. Len(wire) : FALSE
    BY <2>1
  <2>3. Chained(wire, sent)
    BY <2>1, <2>2
       DEF Chained, AllFit, Starts, Follow, BodiesFollow, LaterIsLater
  <2>4. QED BY <2>1, <2>3 DEF Formed, LastIsLast
<1>3. Reading /\ Returned
  <2>1. pc = "idle" /\ DOMAIN delivered = {}
    BY DEF Init
  <2>2. QED BY <2>1 DEF Reading, Returned
<1>4. QED BY <1>1, <1>2, <1>3 DEF IInv

\* What is known of the wire, the call and the results is so in every state.
THEOREM AlwaysIInv == Spec => []IInv
<1>1. Init => IInv
  BY InvInit
<1>2. IInv /\ [Next]_vars => IInv'
  BY InvStep
<1>3. QED BY <1>1, <1>2, PTL DEF Spec

\* A result with bytes that nobody read is the last one, after the connection
\* has broken: the -1 that the body loop takes for progress (channel.c:290)
\* does no more harm than that, wherever the frames are cut.
THEOREM DamageIsLast == Spec => []OnlyLastDamaged
<1>1. IInv => OnlyLastDamaged
  <2> SUFFICES ASSUME IInv, NEW j \in DOMAIN delivered, Damaged(j)
               PROVE  j = Len(delivered) /\ link \in {"err", "gone"}
    BY DEF OnlyLastDamaged
  <2>1. GoodOrLast(j) /\ TypeInv
    BY DEF IInv, Returned
  <2>2. ~Good(j)
    BY <2>1, GoodIsWhole
  <2>3. QED BY <2>1, <2>2 DEF GoodOrLast, Broken
<1>2. QED BY <1>1, AlwaysIInv, PTL

\* The results before Intact are those that are not damaged.
LEMMA IntactAreGood ==
  ASSUME IInv, NEW j \in 1 .. Intact
  PROVE  j \in DOMAIN delivered /\ Good(j)
<1>1. TypeInv /\ Returned
  BY DEF IInv
<1>2. Len(delivered) \in Nat /\ DOMAIN delivered = 1 .. Len(delivered)
  BY <1>1, ResultType
<1>3. CASE delivered # <<>> /\ Damaged(Len(delivered))
  <2>1. j \in 1 .. Len(delivered) - 1
    BY <1>3 DEF Intact
  <2>2. j \in DOMAIN delivered /\ j # Len(delivered)
    <3>1. PICK n \in Nat : n = Len(delivered)
      BY <1>2
    <3>2. j \in 1 .. n /\ j # n
      BY <2>1, <3>1
    <3>3. QED BY <1>2, <3>1, <3>2
  <2>3. QED BY <1>1, <2>2 DEF Returned, GoodOrLast
<1>4. CASE ~(delivered # <<>> /\ Damaged(Len(delivered)))
  <2>1. j \in 1 .. Len(delivered)
    BY <1>4 DEF Intact
  <2>2. j \in DOMAIN delivered /\ delivered # <<>>
    BY <1>2, <2>1
  <2>3. GoodOrLast(j)
    BY <1>1, <2>2 DEF Returned
  <2>4. QED BY <1>4, <2>2, <2>3 DEF GoodOrLast
<1>5. QED BY <1>3, <1>4

\* The counter of a channel object is not behind any message that a call on it
\* returned and that starts a conversation ("fast forward", channel.c:254):
\* what is sent next has a number the device has not used.
THEOREM CounterAlwaysAhead == Spec => []CounterNotBehind
<1>1. IInv => CounterNotBehind
  <2> SUFFICES ASSUME IInv, NEW j \in 1 .. Intact, sent[Source(j)].conv = 0
               PROVE  nextMsgId[delivered[j].chan] >= sent[Source(j)].id
    BY DEF CounterNotBehind
  <2>1. Good(j)
    BY IntactAreGood
  <2>2. QED BY <2>1 DEF Good, Counted
<1>2. QED BY <1>1, AlwaysIInv, PTL

-----------------------------------------------------------------------------
(* What a caller is given, in the words of DtxRecv.                         *)

\* The body of a fragment is a list of bytes.
LEMMA WholeType ==
  ASSUME NEW s, Numbers(s), NEW k \in 1 .. Len(s), NEW g \in Nat
  PROVE  WholeOf(s, k, g) \in Seq(Units \cup {Junk})
<1>1. PICK n \in Nat : n = s[k].len
  BY DEF Numbers
<1>2. k \in Nat \ {0}
  BY DEF Numbers
<1>3. \A o \in 1 .. n : Unit("body", k, g, o) \in Units \cup {Junk}
  BY <1>2, UnitType
<1>4. WholeOf(s, k, g) \in [1 .. n -> Units \cup {Junk}]
  BY <1>1, <1>3 DEF WholeOf
<1>5. QED BY <1>1, <1>4, FunctionIsSeq

\* The bodies of message k, counted from its first fragment that has one.
LEMMA BodiesAre ==
  ASSUME TypeInv, NEW k \in 1 .. Len(sent), NEW S, S = Seq(Units \cup {Junk}),
         NEW low, low = Low(sent, k), NEW n, n = sent[k].count
  PROVE  /\ n \in Nat /\ low \in Nat /\ low <= 1 /\ n - low >= 1
         /\ Bodies(k) \in Seq(S) /\ Len(Bodies(k)) = n - low
         /\ \A i \in 1 .. n - low : Bodies(k)[i] = WholeOf(sent, k, low + i - 1)
<1>1. Numbers(sent) /\ n \in Nat \ {0}
  BY MessagesHaveNumbers, Basics DEF TypeInv, TypeOK
<1>2. \A g : Whole(k, g) = WholeOf(sent, k, g)
  BY DEF Whole, WholeOf
<1>3. CASE n = 1
  <2>1. low = 0
    BY <1>3 DEF Low
  <2>2. PICK b : b = Whole(k, 0)
    OBVIOUS
  <2>3. b \in S
    BY <1>1, <1>2, <2>2, WholeType
  <2>4. Bodies(k) = <<b>>
    BY <1>3, <2>2 DEF Bodies
  <2>5. <<b>> \in Seq(S) /\ Len(<<b>>) = 1 /\ <<b>>[1] = b
    BY <2>3
  <2>6. \A i \in 1 .. 1 : i = 1 /\ 0 + i - 1 = 0
    OBVIOUS
  <2>7. \A i \in 1 .. 1 : Bodies(k)[i] = WholeOf(sent, k, 0 + i - 1)
    BY <1>2, <2>2, <2>4, <2>5, <2>6
  <2>8. QED BY <1>3, <2>1, <2>4, <2>5, <2>7
<1>4. CASE n # 1
  <2>1. low = 1
    BY <1>4 DEF Low
  <2>2. PICK m \in Nat : m = n - 1
    BY <1>1
  <2>3. Bodies(k) = [g \in 1 .. m |-> Whole(k, g)]
    BY <1>4, <2>2 DEF Bodies
  <2>4. \A g \in 1 .. m : Whole(k, g) \in S
    BY <1>1, <1>2, WholeType
  <2>5. PICK a : a = Bodies(k)
    OBVIOUS
  <2>6. a \in [1 .. m -> S]
    BY <2>3, <2>4, <2>5
  <2>7. a \in Seq(S)
    BY <2>6, FunctionIsSeq
  <2>8. Len(a) = m
    BY <2>6, <2>7, LenProperties
  <2>9. \A i \in 1 .. m : a[i] = WholeOf(sent, k, i)
    BY <1>2, <2>3, <2>5
  <2>10. \A i \in 1 .. m : 1 + i - 1 = i
    OBVIOUS
  <2>11. m >= 1
    BY <1>1, <1>4, <2>2
  <2>12. QED BY <1>1, <2>1, <2>2, <2>5, <2>7, <2>8, <2>9, <2>10, <2>11
<1>5. QED BY <1>3, <1>4

\* Result j is the last bodies of a message, with that message's id or none.
TailResult(j) ==
  \E k \in DOMAIN sent :
    LET n == Len(delivered[j].chunks)
        all == Bodies(k)
    IN /\ n \in 1 .. Len(all)
       /\ delivered[j].chunks = SubSeq(all, Len(all) - n + 1, Len(all))
       /\ delivered[j].id \in {0, sent[k].id}

\* A good result is the tail of one message, in so many words.
LEMMA GoodIsTail ==
  ASSUME TypeInv, NEW j \in DOMAIN delivered, Good(j)
  PROVE  TailResult(j)
<1>0. PICK k, c : k = Source(j) /\ c = delivered[j].chunks
  OBVIOUS
<1>1. /\ k \in 1 .. Len(sent) /\ Len(c) >= 1 /\ TailOf(sent, c, k, sent[k].count - 1)
      /\ delivered[j].id \in {0, sent[k].id}
  BY <1>0 DEF Good, NamedFor
<1>2. PICK S : S = Seq(Units \cup {Junk})
  OBVIOUS
<1>3. PICK low, n : low = Low(sent, k) /\ n = sent[k].count
  OBVIOUS
<1>4. PICK all : all = Bodies(k)
  OBVIOUS
<1>5. /\ n \in Nat /\ low \in Nat /\ low <= 1 /\ n - low >= 1
      /\ all \in Seq(S) /\ Len(all) = n - low
      /\ \A i \in 1 .. n - low : all[i] = WholeOf(sent, k, low + i - 1)
  <2>1. /\ n \in Nat /\ low \in Nat /\ low <= 1 /\ n - low >= 1
        /\ Bodies(k) \in Seq(S) /\ Len(Bodies(k)) = n - low
        /\ \A i \in 1 .. n - low : Bodies(k)[i] = WholeOf(sent, k, low + i - 1)
    <3>1. k \in 1 .. Len(sent)
      BY <1>1
    <3>2. QED BY <1>2, <1>3, <3>1, BodiesAre, SMTT(30)
  <2>2. QED BY <1>4, <2>1
<1>6. c \in Seq(S)
  BY <1>0, <1>2, ResultType
<1>7. PICK l \in Nat : l = Len(c)
  BY <1>6, LenProperties
<1>8. /\ l <= n - 1 + 1 - low
      /\ \A i \in 1 .. l : c[i] = WholeOf(sent, k, n - 1 - l + i)
  BY <1>1, <1>3, <1>7 DEF TailOf
<1>9. PICK m \in Nat : m = n - low
  BY <1>5
<1>10. l >= 1 /\ l <= m
  BY <1>1, <1>5, <1>7, <1>8, <1>9
<1>11. PICK t : t = SubSeq(all, m - l + 1, m)
  OBVIOUS
<1>12. /\ t \in Seq(S) /\ Len(t) = l
       /\ \A i \in 1 .. l : t[i] = all[m - l + 1 + i - 1]
  <2>1. \A i \in m - l + 1 .. m : all[i] \in S
    <3>1. \A i \in m - l + 1 .. m : i \in 1 .. Len(all)
      BY <1>5, <1>9, <1>10
    <3>2. QED BY <1>5, <3>1, ElementOfSeq
  <2>2. m - l + 1 \in Int /\ m \in Int /\ m - l + 1 <= m /\ m - (m - l + 1) + 1 = l
    BY <1>10
  <2>3. QED BY <1>11, <2>1, <2>2, SubSeqProperties
<1>13. ASSUME NEW i \in 1 .. l PROVE c[i] = t[i]
  <2>1. m - l + 1 + i - 1 = m - l + i /\ m - l + i \in 1 .. m
    BY <1>10
  <2>2. t[i] = all[m - l + i]
    BY <1>12, <2>1
  <2>3. all[m - l + i] = WholeOf(sent, k, low + (m - l + i) - 1)
    BY <1>5, <1>9, <2>1
  <2>4. low + (m - l + i) - 1 = n - 1 - l + i
    BY <1>5, <1>9
  <2>5. QED BY <1>8, <2>2, <2>3, <2>4
<1>14. c = t
  BY <1>6, <1>7, <1>12, <1>13, SeqEqual
<1>15. k \in DOMAIN sent
  <2>1. sent \in Seq(Messages)
    BY DEF TypeInv, TypeOK
  <2>2. QED BY <1>1, <2>1, LenProperties
<1>16. Len(c) \in 1 .. Len(all) /\ c = SubSeq(all, Len(all) - Len(c) + 1, Len(all))
  <2>1. Len(all) = m /\ Len(c) = l /\ l \in 1 .. m
    BY <1>5, <1>7, <1>9, <1>10
  <2>2. QED BY <1>11, <1>14, <2>1
<1>17. QED BY <1>0, <1>1, <1>4, <1>15, <1>16 DEF TailResult

Unbroken == link \in {"up", "eof"}

\* A connection that cannot break is open or closed by the device.
LEMMA NeverBroken ==
  ASSUME "err" \notin Breaks
  PROVE  Spec => []Unbroken
<1>1. Init => Unbroken
  BY DEF Init, Unbroken
<1>2. Unbroken /\ [Next]_vars => Unbroken'
  <2> SUFFICES ASSUME link \in {"up", "eof"}, [Next]_vars
               PROVE  link' \in {"up", "eof"}
    BY DEF Unbroken
  <2>1. CASE LinkEnds
    BY <2>1, ConstantsAssumption DEF LinkEnds
  <2>2. CASE ReadHeaderFails
    BY <2>2 DEF ReadHeaderFails, AfterReadError
  <2>3. CASE ReadBodyError
    BY <2>3 DEF ReadBodyError
  <2>4. CASE ~LinkEnds /\ ~ReadHeaderFails /\ ~ReadBodyError
    <3>1. link' = link
      BY <2>4
         DEF Next, Device, DeviceBegins, DeviceContinues, Reader, ReadHeaderBadMagic,
             ReadHeader, ReadBody, EndFragment, Call, peerVars, vars
    <3>2. QED BY <3>1
  <2>5. QED BY <2>1, <2>2, <2>3, <2>4
<1>3. QED BY <1>1, <1>2, PTL DEF Spec

\* Wherever the frames are cut, a result that is not damaged is the end of one
\* message, and of a later message than every result before it.
TailUnlessDamaged ==
  \A j \in DOMAIN delivered :
    ~Damaged(j) => /\ TailResult(j)
                   /\ \A i \in DOMAIN delivered : i < j => Source(i) < Source(j)

\* A call never glues bodies of two messages together, however headers are cut
\* and however the connection ends (channel.c:240): what is not damaged is the
\* tail of one message, and results come in the order of sending.
THEOREM AlwaysTailUnlessDamaged == Spec => []TailUnlessDamaged
<1>1. IInv => TailUnlessDamaged
  <2> SUFFICES ASSUME IInv, NEW j \in DOMAIN delivered, ~Damaged(j)
               PROVE  /\ TailResult(j)
                      /\ \A i \in DOMAIN delivered : i < j => Source(i) < Source(j)
    BY DEF TailUnlessDamaged
  <2>1. TypeInv /\ GoodOrLast(j)
    BY DEF IInv, Returned
  <2>2. TailResult(j)
    BY <2>1, GoodIsTail DEF GoodOrLast
  <2>3. \A i \in DOMAIN delivered : i < j => Source(i) < Source(j)
    BY DEF IInv, Returned
  <2>4. QED BY <2>2, <2>3
<1>2. QED BY <1>1, AlwaysIInv, PTL

\* On a connection that may be closed but does not break, every result is the
\* tail of one message, in the order of sending and none twice, whether a read
\* of a header finds all of it or not (channel.c:240).
THEOREM AlwaysTailsInOrder ==
  ASSUME "err" \notin Breaks
  PROVE  Spec => []TailsInOrder
<1>1. TailUnlessDamaged /\ OnlyLastDamaged /\ Unbroken => TailsInOrder
  <2> SUFFICES ASSUME TailUnlessDamaged, OnlyLastDamaged, link \in {"up", "eof"}
               PROVE  TailsInOrder
    BY DEF Unbroken
  <2>1. \A j \in DOMAIN delivered : ~Damaged(j)
    BY DEF OnlyLastDamaged
  <2>2. TailOfOneMessage
    BY <2>1 DEF TailUnlessDamaged, TailResult, TailOfOneMessage
  <2>3. OldestFirst
    BY <2>1 DEF TailUnlessDamaged, OldestFirst
  <2>4. QED BY <2>2, <2>3 DEF TailsInOrder
<1>2. QED BY <1>1, AlwaysTailUnlessDamaged, DamageIsLast, NeverBroken, PTL

-----------------------------------------------------------------------------
(* Where headers are read whole the calls keep up with the messages.        *)

\* A connection with nothing to read stays one.
LEMMA DeadStays ==
  ASSUME TypeInv, Dead, [Next]_vars
  PROVE  Dead'
<1>0. link # "up" /\ Avail = 0 /\ rd \in Nat /\ Len(wire) \in Nat /\ received \in Nat
  BY Basics DEF Dead
<1>1. ASSUME wire' = wire, rd' = rd, link' = link PROVE Dead'
  BY <1>0, <1>1 DEF Dead, Avail
<1>2. ASSUME wire' = wire, rd' = rd, AfterReadError PROVE Dead'
  <2>1. CASE link = "err"
    <3>1. link' \in {"err", "gone"}
      BY <1>2, <2>1 DEF AfterReadError
    <3>2. QED BY <3>1 DEF Dead, Avail
  <2>2. CASE link # "err"
    BY <1>1, <1>2, <2>2 DEF AfterReadError
  <2>3. QED BY <2>1, <2>2
<1>3. CASE ReadHeaderFails
  <2>1. wire' = wire /\ rd' = rd + 0 /\ AfterReadError
    BY <1>0, <1>3 DEF ReadHeaderFails
  <2>2. rd' = rd
    BY <1>0, <2>1
  <2>3. QED BY <1>2, <2>1, <2>2
<1>4. CASE ReadBody
  <2>1. BodyLen \in Nat
    BY <1>4, Basics DEF ReadBody, BodyLen, TypeInv, Linked
  <2>2. Least(BodyLen - received, Avail) = 0
    BY <1>0, <1>4, <2>1 DEF ReadBody, Least
  <2>3. wire' = wire /\ link' = link /\ rd' = rd + 0
    BY <1>4, <2>2 DEF ReadBody, peerVars
  <2>4. rd' = rd
    BY <1>0, <2>3
  <2>5. QED BY <1>1, <2>3, <2>4
<1>5. CASE ReadBodyError
  BY <1>2, <1>5 DEF ReadBodyError
<1>6. ~Device /\ ~LinkEnds /\ ~ReadHeaderBadMagic /\ ~ReadHeader
  BY <1>0 DEF Device, DeviceBegins, DeviceContinues, LinkEnds, ReadHeaderBadMagic, ReadHeader
<1>7. CASE EndFragment
  BY <1>1, <1>7 DEF EndFragment, peerVars
<1>8. ASSUME NEW c \in Channels, Call(c) PROVE Dead'
  BY <1>1, <1>8 DEF Call, peerVars
<1>9. CASE UNCHANGED vars
  BY <1>1, <1>9 DEF vars
<1>10. QED
  BY <1>3, <1>4, <1>5, <1>6, <1>7, <1>8, <1>9 DEF Next, Reader

\* Between two messages the call stays between them while it reads nothing.
LEMMA AtStartStays ==
  ASSUME TypeInv, Onward, UNCHANGED <<rd, delivered>>, AtStart
  PROVE  AtStart'
<1>1. CASE rd = 0
  BY <1>1 DEF AtStart
<1>2. CASE rd # 0
  <2>1. rd \in Nat /\ rd <= Len(wire) /\ Len(wire) \in Nat
    BY Basics
  <2>2. rd \in 1 .. Len(wire)
    BY <1>2, <2>1
  <2>3. wire'[rd] = wire[rd] /\ Closes(sent', wire[rd]) = Closes(sent, wire[rd])
    BY <2>2, UnitStays
  <2>4. Closes(sent, wire[rd]) /\ wire[rd].msg = Len(delivered)
    BY <1>2 DEF AtStart
  <2>5. QED BY <1>2, <2>3, <2>4 DEF AtStart
<1>3. QED BY <1>1, <1>2

\* Results that stay are still complete.
LEMMA CompleteStays ==
  ASSUME TypeInv, Returned, Complete, Onward, delivered' = delivered
  PROVE  Complete'
<1> SUFFICES ASSUME NEW j \in DOMAIN delivered, ~Damaged(j)'
             PROVE  /\ Source(j)' = j /\ delivered'[j].id = sent'[j].id
                    /\ Len(delivered'[j].chunks) = sent'[j].count - Low(sent', j)
  BY DEF Complete
<1>1. ~Damaged(j) /\ Source(j)' = Source(j)
  BY DEF Damaged, Source
<1>2. /\ Source(j) = j /\ delivered[j].id = sent[j].id
      /\ Len(delivered[j].chunks) = sent[j].count - Low(sent, j)
  BY <1>1 DEF Complete
<1>3. Good(j)
  BY <1>1 DEF Returned, GoodOrLast
<1>4. j \in 1 .. Len(sent)
  BY <1>2, <1>3 DEF Good
<1>5. sent'[j] = sent[j]
  BY <1>4 DEF Onward
<1>6. Low(sent', j) = Low(sent, j)
  BY <1>5 DEF Low
<1>7. QED BY <1>1, <1>2, <1>5, <1>6

\* What the next header is, in a call that waits for one.
AtBegin == Fresh /\ AtStart /\ wire[rd + 1] = Unit("magic", Len(delivered) + 1, 0, 0)
AtNext ==
  /\ Between /\ wire[rd].msg = Len(delivered) + 1
  /\ Exactly(wire[rd].msg, wire[rd].frag)
  /\ wire[rd + 1] = Unit("magic", wire[rd].msg, wire[rd].frag + 1, 0)

\* What a call waits for is the header that comes next on the wire.
LEMMA HeaderIsNext ==
  ASSUME TypeInv, Formed, InTurn, pc = "header", Avail >= 1
  PROVE  (AtBegin \/ AtNext) /\ wire[rd + 1].part = "magic"
<1>0. rd \in Nat /\ Len(wire) \in Nat
  BY Basics
<1>1. ~Dead /\ Len(wire) - rd >= 1
  BY DEF Dead, Avail
<1>2. rd + 1 \in 1 .. Len(wire)
  BY <1>0, <1>1
<1>3. rd # 0 => rd \in 1 .. Len(wire) /\ wire[rd + 1] = After(sent, wire[rd])
  <2> SUFFICES ASSUME rd # 0
               PROVE  rd \in 1 .. Len(wire) /\ wire[rd + 1] = After(sent, wire[rd])
    OBVIOUS
  <2>1. rd \in 1 .. Len(wire) /\ rd + 1 <= Len(wire)
    BY <1>0, <1>2
  <2>2. QED BY <2>1 DEF Formed, Chained, Follow
<1>4. CASE Fresh /\ AtStart
  <2>1. wire[rd + 1] = Unit("magic", Len(delivered) + 1, 0, 0)
    <3>1. CASE rd = 0
      <4>1. delivered = <<>>
        BY <1>4, <3>1 DEF AtStart
      <4>2. Len(delivered) + 1 = 1
        BY <4>1
      <4>3. wire[1] = Unit("magic", 1, 0, 0)
        BY <1>0, <1>2, <3>1 DEF Formed, Chained, Starts
      <4>4. QED BY <3>1, <4>2, <4>3
    <3>2. CASE rd # 0
      <4>1. Closes(sent, wire[rd]) /\ wire[rd].msg = Len(delivered)
        BY <1>4, <3>2 DEF AtStart
      <4>2. QED BY <1>3, <3>2, <4>1 DEF After, Closes
    <3>3. QED BY <3>1, <3>2
  <2>2. wire[rd + 1].part = "magic"
    BY <2>1, UnitFields
  <2>3. QED BY <1>4, <2>1, <2>2 DEF AtBegin
<1>5. CASE /\ Between /\ wire[rd].msg = Len(delivered) + 1
           /\ Exactly(wire[rd].msg, wire[rd].frag)
  <2>1. PICK u : u = wire[rd]
    OBVIOUS
  <2>2. rd # 0 /\ Stops(sent, u) /\ ~Final(sent, u)
    BY <1>5, <2>1 DEF Between
  <2>3. wire[rd + 1] = Unit("magic", u.msg, u.frag + 1, 0)
    BY <1>3, <2>1, <2>2 DEF After
  <2>4. wire[rd + 1].part = "magic"
    BY <2>3, UnitFields
  <2>5. QED BY <1>5, <2>1, <2>3, <2>4 DEF AtNext
<1>6. QED BY <1>1, <1>4, <1>5 DEF InTurn

\* A step in which the call does nothing leaves it at the same message.
LEMMA TurnStays ==
  ASSUME IInv, InTurn, Onward, [Next]_vars,
         UNCHANGED <<rd, pc, id, chunks, hdr, delivered>>
  PROVE  InTurn'
<1>1. TypeInv /\ Reading
  BY DEF IInv
<1>2. Dead => Dead'
  BY <1>1, DeadStays
<1>3. AtStart => AtStart'
  BY <1>1, AtStartStays
<1>4. Fresh => Fresh'
  BY DEF Fresh
<1>5. ASSUME NEW k \in 1 .. Len(sent), NEW g, Exactly(k, g)
      PROVE  Len(chunks') = g + 1 - Low(sent', k) /\ id' = sent'[k].id
  <2>1. sent'[k] = sent[k]
    BY DEF Onward
  <2>2. QED BY <1>5, <2>1 DEF Exactly, Low
<1>6. ASSUME Between, wire[rd].msg = Len(delivered) + 1,
             Exactly(wire[rd].msg, wire[rd].frag)
      PROVE  /\ Between' /\ wire'[rd'].msg = Len(delivered') + 1
             /\ Exactly(wire[rd].msg, wire[rd].frag)'
  <2>1. PICK u : u = wire[rd]
    OBVIOUS
  <2>2. Between' /\ wire'[rd'] = u /\ rd \in 1 .. Len(wire)
    BY <1>1, <1>6, <2>1, BetweenStays
  <2>3. u.msg \in 1 .. Len(sent)
    BY <1>1, <2>1, <2>2, Basics
  <2>4. Len(chunks') = u.frag + 1 - Low(sent', u.msg) /\ id' = sent'[u.msg].id
    BY <1>5, <1>6, <2>1, <2>3
  <2>5. QED BY <1>6, <2>1, <2>2, <2>4 DEF Exactly
<1>7. pc = "body" => hdr.msg \in 1 .. Len(sent)
  BY <1>1 DEF TypeInv, Linked
<1>8. pc = "body" => Exactly(hdr.msg, hdr.frag - 1)'
  <2> SUFFICES ASSUME pc = "body" PROVE Exactly(hdr.msg, hdr.frag - 1)'
    OBVIOUS
  <2>1. PICK k, g : k = hdr.msg /\ g = hdr.frag - 1
    OBVIOUS
  <2>2. k \in 1 .. Len(sent) /\ Exactly(k, g)
    BY <1>7, <2>1 DEF InTurn
  <2>3. Len(chunks') = g + 1 - Low(sent', k) /\ id' = sent'[k].id
    BY <1>5, <2>2
  <2>4. hdr'.msg = k /\ hdr'.frag - 1 = g
    BY <2>1
  <2>5. QED BY <2>3, <2>4 DEF Exactly
<1>9. pc' = "idle" => Dead' \/ AtStart'
  BY <1>2, <1>3 DEF InTurn
<1>10. pc' = "header" =>
         \/ Dead'
         \/ Fresh' /\ AtStart'
         \/ /\ Between' /\ wire'[rd'].msg = Len(delivered') + 1
            /\ Exactly(wire[rd].msg, wire[rd].frag)'
  BY <1>2, <1>3, <1>4, <1>6 DEF InTurn
<1>11. pc' = "body" => hdr'.msg = Len(delivered') + 1 /\ Exactly(hdr.msg, hdr.frag - 1)'
  BY <1>8 DEF InTurn
<1>12. QED BY <1>9, <1>10, <1>11 DEF InTurn

\* Half a header is never all there is to read.
LEMMA NoHalfHeader ==
  ASSUME TypeInv, Formed, WholeHeaders, InTurn, pc = "header"
  PROVE  Avail # 1
<1> SUFFICES ASSUME Avail = 1 PROVE FALSE
  OBVIOUS
<1>1. rd \in Nat /\ Len(wire) \in Nat
  BY Basics
<1>2. Len(wire) - rd = 1
  BY DEF Avail
<1>3. rd + 1 = Len(wire) /\ Len(wire) # 0
  BY <1>1, <1>2
<1>4. wire[rd + 1].part = "magic"
  BY HeaderIsNext
<1>5. QED BY <1>3, <1>4 DEF WholeHeaders

\* A header that is read is of the message after the last result.
LEMMA HeaderInTurn ==
  ASSUME IInv, IInv', Later, InTurn, ReadHeader
  PROVE  InTurn'
<1>0. TypeInv /\ TypeInv' /\ Formed /\ Reading /\ Returned
  BY DEF IInv
<1>1. PICK u : u = wire[rd + 1]
  OBVIOUS
<1>2. PICK k, g : k = u.msg /\ g = u.frag
  OBVIOUS
<1>3. /\ Fits(sent, u) /\ wire[rd + 2] = Unit("rest", k, g, 0)
      /\ rd + 2 \in 1 .. Len(wire)
  BY <1>0, <1>1, <1>2, HeaderFound
<1>4. AtBegin \/ AtNext
  <2>1. rd \in Nat /\ rd <= Len(wire) /\ Len(wire) \in Nat
    BY <1>0, Basics
  <2>2. pc = "header" /\ Avail >= 2 /\ Avail \in Nat
    BY <2>1 DEF ReadHeader, Avail
  <2>3. Avail >= 1
    BY <2>2
  <2>4. QED BY <1>0, <2>2, <2>3, HeaderIsNext
<1>5. /\ sent' = sent /\ wire' = wire /\ rd' = rd + 2 /\ chunks' = chunks
      /\ hdr' = [msg |-> k, frag |-> g] /\ delivered' = delivered
      /\ id' = IF g = 0 THEN sent[k].id ELSE id
      /\ Bodied(sent, k, g) => pc' = "body"
      /\ ~Bodied(sent, k, g) => pc' = "header"
  <2>1. HasBody(k, g) = Bodied(sent, k, g)
    BY <1>2, SameWords
  <2>2. QED BY <1>0, <1>1, <1>2, <2>1 DEF ReadHeader, peerVars
<1>6. Reading' /\ (pc' = "header" => Between')
  BY <1>0, ReadHeaderKeeps
<1>7. /\ k = Len(delivered) + 1 /\ id' = sent[k].id
      /\ Bodied(sent, k, g) => Len(chunks) = g - Low(sent, k)
      /\ ~Bodied(sent, k, g) => g = 0 /\ Len(chunks) = 0 /\ Low(sent, k) = 1
  <2>1. CASE AtBegin
    <3>1. k = Len(delivered) + 1 /\ g = 0
      BY <1>1, <1>2, <2>1, UnitFields DEF AtBegin
    <3>2. Len(chunks) = 0
      BY <2>1 DEF AtBegin, Fresh
    <3>3. /\ Bodied(sent, k, g) => Low(sent, k) = 0
          /\ ~Bodied(sent, k, g) => Low(sent, k) = 1
      BY <3>1 DEF Bodied, Low
    <3>4. QED BY <1>5, <3>1, <3>2, <3>3
  <2>2. CASE AtNext
    <3>1. PICK p : p = wire[rd]
      OBVIOUS
    <3>2. /\ rd >= 1 /\ p.msg = Len(delivered) + 1
          /\ Len(chunks) = p.frag + 1 - Low(sent, p.msg) /\ id = sent[p.msg].id
          /\ u = Unit("magic", p.msg, p.frag + 1, 0)
      BY <1>1, <2>2, <3>1 DEF AtNext, Between, Exactly
    <3>3. k = p.msg /\ g = p.frag + 1
      BY <1>2, <3>2, UnitFields
    <3>4. p.frag \in Nat
      <4>1. rd \in 1 .. Len(wire)
        <5>1. rd \in Nat /\ rd <= Len(wire) /\ Len(wire) \in Nat
          BY <1>0, Basics
        <5>2. QED BY <3>2, <5>1
      <4>2. QED BY <1>0, <3>1, <4>1, Basics
    <3>5. g # 0
      BY <3>3, <3>4
    <3>6. Bodied(sent, k, g)
      BY <3>5 DEF Bodied
    <3>7. Len(chunks) = g - Low(sent, k)
      <4>1. Len(chunks) = p.frag + 1 - Low(sent, k)
        BY <3>2, <3>3
      <4>2. p.frag + 1 = g
        BY <3>3
      <4>3. Low(sent, k) \in {0, 1}
        BY LowIs
      <4>4. QED BY <3>4, <4>1, <4>2, <4>3
    <3>8. k = Len(delivered) + 1 /\ id' = sent[k].id
      BY <1>5, <3>2, <3>3, <3>5
    <3>9. QED BY <3>6, <3>7, <3>8
  <2>3. QED BY <1>4, <2>1, <2>2
<1>8. g \in Nat /\ Low(sent, k) \in {0, 1}
  <2>1. g \in Nat
    BY <1>2, <1>3 DEF Fits, Units
  <2>2. QED BY <2>1, LowIs
<1>9. CASE Bodied(sent, k, g)
  <2>1. hdr'.msg = k /\ hdr'.frag = g
    BY <1>5
  <2>2. Len(chunks') = g - 1 + 1 - Low(sent', k) /\ id' = sent'[k].id
    BY <1>5, <1>7, <1>8, <1>9
  <2>3. Exactly(hdr.msg, hdr.frag - 1)'
    BY <2>1, <2>2 DEF Exactly
  <2>4. QED BY <1>5, <1>7, <1>9, <2>1, <2>3 DEF InTurn
<1>10. CASE ~Bodied(sent, k, g)
  <2>1. PICK v : v = wire[rd + 2]
    OBVIOUS
  <2>2. v.msg = k /\ v.frag = g
    BY <1>3, <2>1, UnitFields
  <2>3. wire'[rd'] = v
    BY <1>5, <2>1
  <2>4. Len(chunks') = g + 1 - Low(sent', k) /\ id' = sent'[k].id
    BY <1>5, <1>7, <1>10
  <2>5. Exactly(wire[rd].msg, wire[rd].frag)'
    BY <2>2, <2>3, <2>4 DEF Exactly
  <2>6. pc' = "header" /\ Between'
    BY <1>5, <1>6, <1>10
  <2>7. QED BY <1>5, <1>7, <2>2, <2>3, <2>5, <2>6 DEF InTurn
<1>11. QED BY <1>9, <1>10

\* Result j is all of message j, with its id.
GivenWhole(j) ==
  /\ ~Damaged(j) /\ Source(j) = j /\ delivered[j].id = sent[j].id
  /\ TailOf(sent, delivered[j].chunks, j, sent[j].count - 1)
  /\ Len(delivered[j].chunks) = sent[j].count - Low(sent, j)

\* The last fragment returns the message in turn, whole, or leaves nothing to read.
LEMMA LastInTurn ==
  ASSUME IInv, IInv', Later, InTurn, EndFragment,
         hdr.frag = sent[hdr.msg].count - 1, NEW N, N = Len(delivered) + 1
  PROVE  /\ InTurn' /\ hdr.msg = N /\ (Filled \/ Spoiled)
         /\ Filled => GivenWhole(N)'
         /\ Spoiled => Damaged(N)'
<1>0. TypeInv /\ TypeInv' /\ Formed /\ Reading /\ Returned
  BY DEF IInv
<1>1. PICK k, g : k = hdr.msg /\ g = hdr.frag
  OBVIOUS
<1>2. PICK r : r = [chan |-> chan, id |-> id, chunks |-> chunks']
  OBVIOUS
<1>3. /\ pc = "body" /\ sent' = sent /\ wire' = wire /\ link' = link /\ rd' = rd
      /\ pc' = "idle" /\ delivered' = Append(delivered, r)
      /\ r \in [chan: Channels, id: Nat, chunks: Seq(Seq(Units \cup {Junk}))]
  BY <1>0, <1>1, <1>2, EndFragmentCases
<1>4. /\ k \in 1 .. Len(sent) /\ g \in Nat /\ AllBefore(k) /\ (Filled \/ Spoiled)
  BY <1>0, <1>1, <1>3, BodyFacts
<1>5. k = N /\ Len(chunks) = g - 1 + 1 - Low(sent, k) /\ id = sent[k].id
  BY <1>1, <1>3 DEF InTurn, Exactly
<1>6. Len(delivered') = N /\ delivered'[N] = r
  BY <1>0, <1>3, <1>4, ResultAdded DEF AllBefore
<1>7. r.id = id /\ r.chunks = chunks'
  BY <1>2
<1>8. ASSUME Filled PROVE InTurn' /\ GivenWhole(N)'
  <2>1. /\ Len(chunks') = Len(chunks) + 1 /\ TailOf(sent, chunks', k, g)
        /\ rd >= 1 /\ Stops(sent, wire[rd])
        /\ wire[rd] = Unit("body", k, g, sent[k].len)
    BY <1>0, <1>1, <1>8, FragmentWhole
  <2>2. Source(N)' = k
    BY <1>0, <1>1, <1>8, WholeResult
  <2>3. ~Damaged(N)'
    <3>1. PICK c : c = chunks'
      OBVIOUS
    <3>2. DOMAIN c = 1 .. Len(c)
      <4>1. c \in Seq(Seq(Units \cup {Junk}))
        BY <1>0, <3>1 DEF TypeInv, TypeOK
      <4>2. QED BY <4>1, LenProperties
    <3>3. ASSUME NEW i \in DOMAIN c, NEW o \in DOMAIN c[i] PROVE c[i][o] # Junk
      BY <2>1, <3>1, <3>2, TailIsWhole
    <3>4. delivered'[N].chunks = c
      BY <1>6, <1>7, <3>1
    <3>5. QED BY <3>3, <3>4 DEF Damaged
  <2>4. Len(chunks') = sent[k].count - Low(sent, k)
    <3>1. Low(sent, k) \in {0, 1}
      BY LowIs
    <3>2. PICK n \in Nat : n = sent[k].count
      BY <1>0, <1>4, Basics
    <3>3. g = n - 1
      BY <1>1, <3>2
    <3>4. QED BY <1>5, <2>1, <3>1, <3>2, <3>3
  <2>5. AtStart'
    <3>1. PICK u : u = wire[rd]
      OBVIOUS
    <3>2. u.msg = k /\ u.frag = g
      BY <2>1, <3>1, UnitFields
    <3>3. Closes(sent, u)
      BY <1>1, <2>1, <3>1, <3>2 DEF Closes, Final
    <3>4. rd # 0
      BY <1>0, <2>1, Basics
    <3>5. QED BY <1>3, <1>5, <1>6, <3>1, <3>2, <3>3, <3>4 DEF AtStart
  <2>6. InTurn'
    BY <1>3, <2>5 DEF InTurn
  <2>7. TailOf(sent, delivered'[N].chunks, N, sent[N].count - 1)
    BY <1>1, <1>5, <1>6, <1>7, <2>1
  <2>8. delivered'[N].id = sent[N].id /\ Source(N)' = N
        /\ Len(delivered'[N].chunks) = sent[N].count - Low(sent, N)
    BY <1>5, <1>6, <1>7, <2>2, <2>4
  <2>9. /\ TailOf(sent', delivered'[N].chunks, N, sent'[N].count - 1)
        /\ delivered'[N].id = sent'[N].id
        /\ Len(delivered'[N].chunks) = sent'[N].count - Low(sent', N)
    BY <1>3, <2>7, <2>8
  <2>10. GivenWhole(N)'
    BY <2>3, <2>8, <2>9 DEF GivenWhole
  <2>11. QED BY <2>6, <2>10
<1>9. ASSUME Spoiled PROVE InTurn' /\ Damaged(N)'
  <2>1. Damaged(N)'
    BY <1>0, <1>1, <1>9, DamagedResult
  <2>2. Dead
    BY <1>9 DEF Spoiled, Broken, Dead, Avail
  <2>3. Dead'
    BY <1>3, <2>2 DEF Dead, Avail
  <2>4. InTurn'
    BY <1>3, <2>3 DEF InTurn
  <2>5. QED BY <2>1, <2>4
<1>10. QED BY <1>1, <1>4, <1>5, <1>8, <1>9

\* Result N added to complete ones.
LEMMA CompleteGrows ==
  ASSUME IInv, IInv', Later, Complete, InTurn, EndFragment,
         hdr.frag = sent[hdr.msg].count - 1
  PROVE  Complete'
<1>0. TypeInv /\ TypeInv' /\ Reading /\ Returned
  BY DEF IInv
<1>1. PICK k, g : k = hdr.msg /\ g = hdr.frag
  OBVIOUS
<1>2. PICK r : r = [chan |-> chan, id |-> id, chunks |-> chunks']
  OBVIOUS
<1>3. PICK N : N = Len(delivered) + 1
  OBVIOUS
<1>4. /\ pc = "body" /\ sent' = sent /\ delivered' = Append(delivered, r)
      /\ r \in [chan: Channels, id: Nat, chunks: Seq(Seq(Units \cup {Junk}))]
  BY <1>0, <1>1, <1>2, EndFragmentCases
<1>5. AllBefore(k)
  BY <1>0, <1>1, <1>4, BodyFacts
<1>6. /\ Len(delivered) \in Nat /\ DOMAIN delivered = 1 .. Len(delivered)
      /\ DOMAIN delivered' = 1 .. N
      /\ \A j \in DOMAIN delivered : delivered'[j] = delivered[j]
  BY <1>0, <1>3, <1>4, <1>5, ResultAdded DEF AllBefore
<1>7. (Filled \/ Spoiled) /\ (Filled => GivenWhole(N)') /\ (Spoiled => Damaged(N)')
  BY <1>3, LastInTurn
<1> SUFFICES ASSUME NEW j \in DOMAIN delivered', ~Damaged(j)'
             PROVE  /\ Source(j)' = j /\ delivered'[j].id = sent'[j].id
                    /\ Len(delivered'[j].chunks) = sent'[j].count - Low(sent', j)
  BY DEF Complete
<1>8. CASE j = N
  <2>1. GivenWhole(N)'
    BY <1>7, <1>8
  <2>2. QED BY <1>8, <2>1 DEF GivenWhole
<1>9. CASE j \in DOMAIN delivered
  <2>1. delivered'[j] = delivered[j]
    BY <1>6, <1>9
  <2>2. ~Damaged(j) /\ Source(j)' = Source(j)
    BY <2>1 DEF Damaged, Source
  <2>3. /\ Source(j) = j /\ delivered[j].id = sent[j].id
        /\ Len(delivered[j].chunks) = sent[j].count - Low(sent, j)
    BY <1>9, <2>2 DEF Complete
  <2>4. QED BY <1>4, <2>1, <2>2, <2>3
<1>10. QED BY <1>3, <1>6, <1>8, <1>9

\* The end of a fragment that is not the last leaves the call in the same message.
LEMMA FragmentInTurn ==
  ASSUME IInv, IInv', Later, InTurn, EndFragment,
         hdr.frag # sent[hdr.msg].count - 1
  PROVE  InTurn' /\ delivered' = delivered
<1>0. TypeInv /\ TypeInv' /\ Formed /\ Reading
  BY DEF IInv
<1>1. PICK k, g : k = hdr.msg /\ g = hdr.frag
  OBVIOUS
<1>2. PICK r : r = [chan |-> chan, id |-> id, chunks |-> chunks']
  OBVIOUS
<1>3. /\ pc = "body" /\ sent' = sent /\ wire' = wire /\ link' = link /\ rd' = rd
      /\ id' = id /\ pc' = "header" /\ delivered' = delivered
  BY <1>0, <1>1, <1>2, EndFragmentCases
<1>4. g \in Nat /\ (Filled \/ Spoiled)
  BY <1>0, <1>1, <1>3, BodyFacts
<1>5. k = Len(delivered) + 1 /\ Len(chunks) = g - 1 + 1 - Low(sent, k) /\ id = sent[k].id
  BY <1>1, <1>3 DEF InTurn, Exactly
<1>6. CASE Filled
  <2>1. Between' /\ wire[rd].msg = k /\ wire[rd].frag = g
    BY <1>0, <1>1, <1>6, FragmentGoesOn
  <2>2. Len(chunks') = Len(chunks) + 1
    BY <1>0, <1>6, FragmentWhole
  <2>3. Low(sent, k) \in {0, 1}
    BY LowIs
  <2>4. Len(chunks') = g + 1 - Low(sent', k) /\ id' = sent'[k].id
    BY <1>3, <1>4, <1>5, <2>2, <2>3
  <2>5. Exactly(wire[rd].msg, wire[rd].frag)'
    BY <1>3, <2>1, <2>4 DEF Exactly
  <2>6. InTurn'
    BY <1>3, <1>5, <2>1, <2>5 DEF InTurn
  <2>7. QED BY <1>3, <2>6
<1>7. CASE Spoiled
  <2>1. Dead'
    BY <1>3, <1>7 DEF Spoiled, Broken, Dead, Avail
  <2>2. QED BY <1>3, <2>1 DEF InTurn
<1>8. QED BY <1>4, <1>6, <1>7

\* Where headers are read whole every step keeps the call in turn.
LEMMA PunctualStep ==
  ASSUME ~SplitHeaders, IInv, IInv', Punctual, [Next]_vars
  PROVE  Punctual'
<1>0. /\ TypeInv /\ TypeInv' /\ Formed /\ Reading /\ Returned
      /\ WholeHeaders /\ InTurn /\ Complete
  BY DEF IInv, Punctual
<1>1. Later /\ Onward
  BY <1>0, StepGoesOn DEF Later
<1>2. WholeHeaders'
  <2>1. CASE DeviceBegins
    BY <1>0, <2>1, BeginsEffect
  <2>2. CASE DeviceContinues
    BY <1>0, <2>2, ContinuesEffect
  <2>3. CASE ~DeviceBegins /\ ~DeviceContinues
    <3>1. wire' = wire
      BY <2>3
         DEF Next, Device, LinkEnds, Reader, ReadHeaderFails, ReadHeaderBadMagic,
             ReadHeader, ReadBody, ReadBodyError, EndFragment, Call, peerVars, vars
    <3>2. QED BY <1>0, <3>1 DEF WholeHeaders
  <2>4. QED BY <2>1, <2>2, <2>3
<1>3. ASSUME UNCHANGED <<rd, pc, id, chunks, hdr, delivered>>
      PROVE  InTurn' /\ Complete'
  BY <1>0, <1>1, <1>3, TurnStays, CompleteStays
<1>4. ASSUME Device \/ LinkEnds PROVE InTurn' /\ Complete'
  BY <1>3, <1>4 DEF Device, DeviceBegins, DeviceContinues, LinkEnds, callVars
<1>5. ASSUME ReadHeaderFails PROVE InTurn' /\ Complete'
  <2>1. pc = "header" /\ pc' = "idle" /\ delivered' = delivered
        /\ Avail < 2 /\ (Avail = 0 => link # "up")
    BY <1>5 DEF ReadHeaderFails
  <2>2. Avail \in Nat /\ Avail # 1
    <3>1. rd \in Nat /\ rd <= Len(wire) /\ Len(wire) \in Nat
      BY <1>0, Basics
    <3>2. QED BY <1>0, <2>1, <3>1, NoHalfHeader DEF Avail
  <2>3. Dead
    BY <2>1, <2>2 DEF Dead
  <2>4. Dead'
    BY <1>0, <2>3, DeadStays
  <2>5. InTurn'
    BY <2>1, <2>4 DEF InTurn
  <2>6. QED BY <1>0, <1>1, <2>1, <2>5, CompleteStays
<1>6. ASSUME ReadHeaderBadMagic PROVE InTurn' /\ Complete'
  <2>1. pc = "header" /\ Avail >= 2 /\ wire[rd + 1].part # "magic"
    BY <1>6 DEF ReadHeaderBadMagic
  <2>2. Avail >= 1
    <3>1. rd \in Nat /\ rd <= Len(wire) /\ Len(wire) \in Nat
      BY <1>0, Basics
    <3>2. Avail \in Nat
      BY <3>1 DEF Avail
    <3>3. QED BY <2>1, <3>2
  <2>3. QED BY <1>0, <2>1, <2>2, HeaderIsNext
<1>7. ASSUME ReadHeader PROVE InTurn' /\ Complete'
  <2>1. delivered' = delivered
    BY <1>7 DEF ReadHeader
  <2>2. QED BY <1>0, <1>1, <1>7, <2>1, HeaderInTurn, CompleteStays
<1>8. ASSUME ReadBody \/ ReadBodyError PROVE InTurn' /\ Complete'
  <2>1. /\ pc = "body" /\ pc' = "body" /\ sent' = sent /\ hdr' = hdr /\ chunks' = chunks
        /\ id' = id /\ delivered' = delivered
    BY <1>8 DEF ReadBody, ReadBodyError, peerVars
  <2>2. hdr.msg = Len(delivered) + 1 /\ Exactly(hdr.msg, hdr.frag - 1)
    BY <1>0, <2>1 DEF InTurn
  <2>3. Exactly(hdr.msg, hdr.frag - 1)'
    BY <2>1, <2>2 DEF Exactly
  <2>4. InTurn'
    BY <2>1, <2>2, <2>3 DEF InTurn
  <2>5. QED BY <1>0, <1>1, <2>1, <2>4, CompleteStays
<1>9. ASSUME EndFragment PROVE InTurn' /\ Complete'
  <2>1. CASE hdr.frag = sent[hdr.msg].count - 1
    <3>1. Complete'
      BY <1>0, <1>1, <1>9, <2>1, CompleteGrows
    <3>2. PICK N : N = Len(delivered) + 1
      OBVIOUS
    <3>3. InTurn'
      BY <1>0, <1>1, <1>9, <2>1, <3>2, LastInTurn
    <3>4. QED BY <3>1, <3>3
  <2>2. CASE hdr.frag # sent[hdr.msg].count - 1
    <3>1. InTurn' /\ delivered' = delivered
      BY <1>0, <1>1, <1>9, <2>2, FragmentInTurn
    <3>2. QED BY <1>0, <1>1, <3>1, CompleteStays
  <2>3. QED BY <2>1, <2>2
<1>10. ASSUME NEW c \in Channels, Call(c) PROVE InTurn' /\ Complete'
  <2>1. /\ pc = "idle" /\ pc' = "header" /\ id' = 0 /\ chunks' = <<>> /\ rd' = rd
        /\ delivered' = delivered
    BY <1>10 DEF Call
  <2>2. Fresh'
    BY <2>1 DEF Fresh
  <2>3. Dead' \/ AtStart'
    BY <1>0, <1>1, <2>1, DeadStays, AtStartStays DEF InTurn
  <2>4. InTurn'
    BY <2>1, <2>2, <2>3 DEF InTurn
  <2>5. QED BY <1>0, <1>1, <2>1, <2>4, CompleteStays
<1>11. ASSUME UNCHANGED vars PROVE InTurn' /\ Complete'
  BY <1>3, <1>11 DEF vars
<1>12. InTurn' /\ Complete'
  BY <1>4, <1>5, <1>6, <1>7, <1>8, <1>9, <1>10, <1>11 DEF Next, Reader
<1>13. QED BY <1>2, <1>12 DEF Punctual

-----------------------------------------------------------------------------
(* The calls implement DtxMessages.                                         *)

\* What is completely on the wire and what was returned undamaged, as
\* DtxMessages sees them.
Posted == [k \in 1 .. Completed |-> Expected(k)]
Got == [j \in 1 .. Intact |->
          [id |-> delivered[j].id, chunks |-> delivered[j].chunks]]

\* A list with one more element.
LEMMA OneMore ==
  ASSUME NEW S, NEW n \in Nat, NEW p \in [1 .. n -> S], NEW q \in [1 .. n + 1 -> S],
         \A i \in 1 .. n : q[i] = p[i]
  PROVE  /\ Len(p) = n /\ Len(q) = Len(p) + 1
         /\ p = SubSeq(q, 1, Len(p)) /\ q = Append(p, q[n + 1])
<1>1. p \in Seq(S) /\ q \in Seq(S)
  BY FunctionIsSeq
<1>2. Len(p) = n /\ Len(q) = n + 1
  BY <1>1, LenProperties
<1>3. p = SubSeq(q, 1, n)
  <2>1. PICK t : t = SubSeq(q, 1, n)
    OBVIOUS
  <2>2. \A i \in 1 .. n : i \in 1 .. n + 1 /\ q[i] \in S
    OBVIOUS
  <2>3. 1 \in Int /\ n \in Int /\ (1 <= n => n - 1 + 1 = n) /\ n - 1 + 1 = n
    OBVIOUS
  <2>4. /\ t \in Seq(S) /\ Len(t) = n
        /\ \A i \in 1 .. n : t[i] = q[1 + i - 1]
    BY <2>1, <2>2, <2>3, SubSeqProperties
  <2>5. \A i \in 1 .. n : 1 + i - 1 = i
    OBVIOUS
  <2>6. \A i \in 1 .. n : p[i] = t[i]
    BY <2>4, <2>5
  <2>7. QED BY <1>1, <1>2, <2>1, <2>4, <2>6, SeqEqual
<1>4. q = Append(p, q[n + 1])
  <2>1. PICK e \in S : e = q[n + 1]
    OBVIOUS
  <2>2. PICK t : t = Append(p, e)
    OBVIOUS
  <2>3. /\ t \in Seq(S) /\ Len(t) = n + 1 /\ t[n + 1] = e
        /\ \A i \in 1 .. n : t[i] = p[i]
    BY <1>1, <1>2, <2>2, AppendProperties
  <2>4. \A i \in 1 .. n + 1 : i \in 1 .. n \/ i = n + 1
    OBVIOUS
  <2>5. \A i \in 1 .. n + 1 : q[i] = t[i]
    BY <2>1, <2>3, <2>4
  <2>6. QED BY <1>1, <1>2, <2>1, <2>2, <2>3, <2>5, SeqEqual
<1>5. QED BY <1>2, <1>3, <1>4

\* The number of complete messages, where the wire's last unit is looked at.
LEMMA CompletedIs ==
  ASSUME TypeInv, Formed
  PROVE  /\ Completed \in Nat /\ Completed <= Len(sent)
         /\ NothingPending => Completed = Len(sent)
         /\ ~NothingPending => /\ Completed = Len(sent) - 1 /\ Len(wire) # 0
                               /\ ~Closes(sent, wire[Len(wire)])
<1>1. Len(sent) \in Nat /\ Len(wire) \in Nat /\ wire \in Seq(Units)
  BY Basics DEF TypeInv, TypeOK
<1>2. CASE NothingPending
  BY <1>1, <1>2 DEF Completed
<1>3. CASE ~NothingPending
  <2>1. wire # <<>> /\ ~EndsMessage(wire[Len(wire)])
    BY <1>3 DEF NothingPending
  <2>2. Len(wire) # 0
    BY <1>1, <2>1, EmptySeq
  <2>3. ~Closes(sent, wire[Len(wire)])
    BY <2>1, SameWords
  <2>4. Len(wire) \in 1 .. Len(wire)
    BY <1>1, <2>2
  <2>5. wire[Len(wire)].msg \in 1 .. Len(sent)
    BY <2>4, Basics
  <2>6. Len(sent) >= 1
    BY <1>1, <2>5
  <2>7. QED BY <1>1, <1>3, <2>2, <2>3, <2>6 DEF Completed
<1>4. QED BY <1>2, <1>3

\* A message of which the last unit was read is completely on the wire.
LEMMA ReadIsCompleted ==
  ASSUME TypeInv, Formed, rd >= 1, Closes(sent, wire[rd])
  PROVE  wire[rd].msg <= Completed
<1>1. /\ rd \in Nat /\ rd <= Len(wire) /\ Len(wire) \in Nat /\ Len(sent) \in Nat
  BY Basics
<1>2. rd \in 1 .. Len(wire) /\ Len(wire) \in 1 .. Len(wire)
  BY <1>1
<1>3. wire[rd].msg \in Nat /\ wire[rd].msg <= Len(sent)
  BY <1>1, <1>2, Basics
<1>4. CASE NothingPending
  BY <1>3, <1>4, CompletedIs
<1>5. CASE ~NothingPending
  <2>1. Completed = Len(sent) - 1 /\ Len(wire) # 0 /\ ~Closes(sent, wire[Len(wire)])
    BY <1>5, CompletedIs
  <2>2. rd # Len(wire)
    BY <2>1
  <2>3. rd < Len(wire)
    BY <1>1, <2>2
  <2>4. wire[rd].msg < wire[Len(wire)].msg
    BY <1>2, <2>3 DEF Formed, Chained, LaterIsLater
  <2>5. wire[Len(wire)].msg = Len(sent)
    BY <2>1 DEF Formed, LastIsLast
  <2>6. QED BY <1>1, <1>3, <2>1, <2>4, <2>5
<1>6. QED BY <1>4, <1>5

\* What a message must arrive as does not depend on the messages after it.
LEMMA SameExpected ==
  ASSUME NEW k, sent'[k] = sent[k]
  PROVE  Expected(k)' = Expected(k)
<1>1. Bodies(k)' = Bodies(k)
  BY DEF Bodies, Whole
<1>2. QED BY <1>1 DEF Expected

\* Nothing is posted where as many messages are complete as before.
LEMMA PostedStays ==
  ASSUME TypeInv, Formed, Onward, Completed' = Completed
  PROVE  Posted' = Posted
<1>1. Completed \in Nat /\ Completed <= Len(sent) /\ Len(sent) \in Nat
  BY CompletedIs, Basics
<1>2. PICK n \in Nat : n = Completed
  BY <1>1
<1>3. \A k \in 1 .. n : k \in 1 .. Len(sent)
  BY <1>1, <1>2
<1>4. \A k \in 1 .. n : Expected(k)' = Expected(k)
  BY <1>3, SameExpected DEF Onward
<1>5. QED BY <1>2, <1>4 DEF Posted

\* Nothing is returned where the results are the same.
LEMMA GotStays ==
  ASSUME delivered' = delivered
  PROVE  Got' = Got
BY DEF Got, Intact, Damaged

\* A message that begins is not complete with its first header.
LEMMA BeginsPostsNothing ==
  ASSUME TypeInv, Formed, DeviceBegins
  PROVE  Posted' = Posted
<1>1. /\ Onward /\ Len(sent') = Len(sent) + 1 /\ Len(wire') # 0
      /\ ~Closes(sent', wire'[Len(wire')])
  BY BeginsEffect
<1>2. NothingPending /\ Len(sent) \in Nat
  BY Basics DEF DeviceBegins
<1>3. Completed = Len(sent)
  BY <1>2, CompletedIs
<1>4. ~NothingPending'
  <2>1. wire' # <<>>
    BY <1>1
  <2>2. PICK v : v = wire'[Len(wire')]
    OBVIOUS
  <2>3. ~EndsMessage(wire[Len(wire)])'
    BY <1>1, <2>2
       DEF EndsMessage, EndsFrame, HasBody, LastFrag, Closes, Stops, Final, Bodied
  <2>4. QED BY <2>1, <2>3 DEF NothingPending
<1>5. Completed' = Len(sent') - 1
  BY <1>4 DEF Completed
<1>6. Completed' = Completed
  BY <1>1, <1>2, <1>3, <1>5
<1>7. QED BY <1>1, <1>6, PostedStays

\* One more message is complete, or none.
OnePosted ==
  /\ Len(Posted') = Len(Posted) + 1
  /\ Posted = SubSeq(Posted', 1, Len(Posted))

\* A write completes at most one message.
LEMMA ContinuesPosts ==
  ASSUME TypeInv, Formed, DeviceContinues
  PROVE  Posted' = Posted \/ OnePosted
<1>1. Onward /\ sent' = sent
  BY ContinuesEffect
<1>2. PICK n : n = Completed
  OBVIOUS
<1>3. n \in Nat /\ n = Len(sent) - 1 /\ Len(sent) \in Nat
  BY <1>2, CompletedIs, Basics DEF DeviceContinues
<1>4. Completed' = Len(sent) \/ Completed' = Len(sent) - 1
  BY <1>1 DEF Completed
<1>5. CASE Completed' = Len(sent) - 1
  BY <1>1, <1>2, <1>3, <1>5, PostedStays
<1>6. CASE Completed' = Len(sent)
  <2>1. Completed' = n + 1
    BY <1>3, <1>6
  <2>2. \A k \in 1 .. n + 1 : Expected(k)' = Expected(k)
    BY <1>1, SameExpected
  <2>3. PICK p : p = Posted
    OBVIOUS
  <2>4. PICK q : q = Posted'
    OBVIOUS
  <2>5. p = [k \in 1 .. n |-> Expected(k)]
    BY <1>2, <2>3 DEF Posted
  <2>6. q = [k \in 1 .. n + 1 |-> Expected(k)]
    <3>1. q = [k \in 1 .. n + 1 |-> Expected(k)']
      BY <2>1, <2>4 DEF Posted
    <3>2. QED BY <2>2, <3>1
  <2>7. PICK S : S = {Expected(k) : k \in 1 .. n + 1}
    OBVIOUS
  <2>8. \A k \in 1 .. n : k \in 1 .. n + 1
    BY <1>3
  <2>9. p \in [1 .. n -> S] /\ q \in [1 .. n + 1 -> S] /\ \A i \in 1 .. n : q[i] = p[i]
    BY <2>5, <2>6, <2>7, <2>8
  <2>10. Len(q) = Len(p) + 1 /\ p = SubSeq(q, 1, Len(p))
    BY <1>3, <2>9, OneMore
  <2>11. QED BY <2>3, <2>4, <2>10 DEF OnePosted
<1>7. QED BY <1>4, <1>5, <1>6

\* As many bodies of a message as it has are all of them.
LEMMA AllBodies ==
  ASSUME TypeInv, NEW k \in 1 .. Len(sent), NEW c,
         c \in Seq(Seq(Units \cup {Junk})), TailOf(sent, c, k, sent[k].count - 1),
         Len(c) = sent[k].count - Low(sent, k)
  PROVE  c = Bodies(k)
<1>1. PICK S : S = Seq(Units \cup {Junk})
  OBVIOUS
<1>2. PICK low, n : low = Low(sent, k) /\ n = sent[k].count
  OBVIOUS
<1>3. PICK all : all = Bodies(k)
  OBVIOUS
<1>4. /\ n \in Nat /\ low \in Nat /\ low <= 1 /\ n - low >= 1
      /\ all \in Seq(S) /\ Len(all) = n - low
      /\ \A i \in 1 .. n - low : all[i] = WholeOf(sent, k, low + i - 1)
  <2>1. /\ n \in Nat /\ low \in Nat /\ low <= 1 /\ n - low >= 1
        /\ Bodies(k) \in Seq(S) /\ Len(Bodies(k)) = n - low
        /\ \A i \in 1 .. n - low : Bodies(k)[i] = WholeOf(sent, k, low + i - 1)
    BY <1>1, <1>2, BodiesAre, SMTT(30)
  <2>2. QED BY <1>3, <2>1
<1>5. PICK m : m = Len(c)
  OBVIOUS
<1>6. m = n - low /\ \A i \in 1 .. m : c[i] = WholeOf(sent, k, n - 1 - m + i)
  BY <1>2, <1>5 DEF TailOf
<1>7. \A i \in 1 .. m : n - 1 - m + i = low + i - 1
  BY <1>4, <1>6
<1>8. \A i \in 1 .. m : c[i] = all[i]
  BY <1>4, <1>6, <1>7
<1>9. Len(c) = Len(all) /\ c \in Seq(S)
  BY <1>1, <1>4, <1>5, <1>6
<1>10. QED BY <1>3, <1>4, <1>5, <1>8, <1>9, SeqEqual

\* The last fragment returns the message that nobody was given, or nothing.
LEMMA LastReturns ==
  ASSUME IInv, IInv', Later, InTurn, EndFragment,
         hdr.frag = sent[hdr.msg].count - 1
  PROVE  \/ Got' = Got
         \/ Len(Got) < Len(Posted) /\ Got' = Append(Got, Posted[Len(Got) + 1])
<1>0. TypeInv /\ TypeInv' /\ Formed /\ Reading
  BY DEF IInv
<1>1. PICK k, g : k = hdr.msg /\ g = hdr.frag
  OBVIOUS
<1>2. PICK r : r = [chan |-> chan, id |-> id, chunks |-> chunks']
  OBVIOUS
<1>3. PICK N : N = Len(delivered) + 1
  OBVIOUS
<1>4. /\ pc = "body" /\ sent' = sent /\ delivered' = Append(delivered, r)
      /\ r \in [chan: Channels, id: Nat, chunks: Seq(Seq(Units \cup {Junk}))]
  BY <1>0, <1>1, <1>2, EndFragmentCases
<1>5. AllBefore(k) /\ k \in 1 .. Len(sent)
  BY <1>0, <1>1, <1>4, BodyFacts
<1>6. PICK n \in Nat : n = Len(delivered)
  BY <1>0, ResultType
<1>7. /\ DOMAIN delivered = 1 .. n /\ N = n + 1 /\ Len(delivered') = N
      /\ \A j \in 1 .. n : delivered'[j] = delivered[j]
  BY <1>0, <1>3, <1>4, <1>5, <1>6, ResultAdded DEF AllBefore
<1>8. /\ (Filled \/ Spoiled) /\ (Filled => GivenWhole(N)') /\ (Spoiled => Damaged(N)')
      /\ k = N
  BY <1>1, <1>3, LastInTurn
<1>9. Intact = n
  <2>1. delivered # <<>> => n \in 1 .. n
    <3>1. delivered # <<>> => n # 0
      <4>1. delivered \in Seq([chan: Channels, id: Nat,
                               chunks: Seq(Seq(Units \cup {Junk}))])
        BY <1>0 DEF TypeInv, TypeOK
      <4>2. QED BY <1>6, <4>1, EmptySeq
    <3>2. QED BY <3>1
  <2>2. \A j \in 1 .. n : ~Damaged(j)
    BY <1>0, <1>5, <1>7, GoodIsWhole DEF AllBefore
  <2>3. ~(delivered # <<>> /\ Damaged(n))
    BY <2>1, <2>2
  <2>4. QED BY <1>6, <2>3 DEF Intact
<1>10. PICK p : p = Got
  OBVIOUS
<1>11. PICK q : q = Got'
  OBVIOUS
<1>12. p = [j \in 1 .. n |-> [id |-> delivered[j].id, chunks |-> delivered[j].chunks]]
  BY <1>9, <1>10 DEF Got
<1>13. delivered' # <<>>
  BY <1>6, <1>7
<1>14. CASE Spoiled
  <2>1. Intact' = n
    <3>1. Damaged(Len(delivered))'
      BY <1>7, <1>8, <1>14
    <3>2. Intact' = Len(delivered') - 1
      BY <1>13, <3>1 DEF Intact
    <3>3. QED BY <1>6, <1>7, <3>2
  <2>2. q = [j \in 1 .. n |-> [id |-> delivered'[j].id, chunks |-> delivered'[j].chunks]]
    BY <1>11, <2>1 DEF Got
  <2>3. p = q
    BY <1>7, <1>12, <2>2
  <2>4. QED BY <1>10, <1>11, <2>3
<1>15. CASE Filled
  <2>1. GivenWhole(N)'
    BY <1>8, <1>15
  <2>2. Intact' = n + 1
    <3>1. ~Damaged(Len(delivered))'
      BY <1>7, <2>1 DEF GivenWhole
    <3>2. Intact' = Len(delivered')
      BY <3>1 DEF Intact
    <3>3. QED BY <1>7, <3>2
  <2>3. q = [j \in 1 .. n + 1 |->
               [id |-> delivered'[j].id, chunks |-> delivered'[j].chunks]]
    BY <1>11, <2>2 DEF Got
  <2>4. PICK S : S = {[id |-> delivered'[j].id, chunks |-> delivered'[j].chunks]
                        : j \in 1 .. n + 1}
    OBVIOUS
  <2>5. \A j \in 1 .. n : j \in 1 .. n + 1
    BY <1>6
  <2>6. p \in [1 .. n -> S] /\ q \in [1 .. n + 1 -> S] /\ \A i \in 1 .. n : q[i] = p[i]
    BY <1>7, <1>12, <2>3, <2>4, <2>5
  <2>7. Len(p) = n /\ q = Append(p, q[n + 1])
    BY <1>6, <2>6, OneMore
  <2>8. PICK c : c = delivered'[N].chunks
    OBVIOUS
  <2>9. /\ delivered'[N].id = sent[N].id /\ TailOf(sent, c, N, sent[N].count - 1)
        /\ Len(c) = sent[N].count - Low(sent, N)
    BY <1>4, <2>1, <2>8 DEF GivenWhole
  <2>10. c \in Seq(Seq(Units \cup {Junk}))
    <3>1. chunks' \in Seq(Seq(Units \cup {Junk}))
      BY <1>0 DEF TypeInv, TypeOK
    <3>2. delivered'[N] = r
      BY <1>0, <1>3, <1>4, <1>5, ResultAdded DEF AllBefore
    <3>3. QED BY <1>2, <2>8, <3>1, <3>2
  <2>11. c = Bodies(N)
    BY <1>0, <1>5, <1>8, <2>9, <2>10, AllBodies
  <2>12. q[n + 1] = Expected(N)
    <3>1. n + 1 \in 1 .. n + 1
      BY <1>6
    <3>2. q[n + 1] = [id |-> delivered'[N].id, chunks |-> c]
      BY <1>7, <2>3, <2>8, <3>1
    <3>3. QED BY <2>9, <2>11, <3>2 DEF Expected
  <2>13. N <= Completed
    <3>1. /\ rd >= 1 /\ Stops(sent, wire[rd])
          /\ wire[rd] = Unit("body", k, g, sent[k].len)
      BY <1>0, <1>1, <1>15, FragmentWhole
    <3>2. PICK u : u = wire[rd]
      OBVIOUS
    <3>3. u.msg = k /\ u.frag = g
      BY <3>1, <3>2, UnitFields
    <3>4. Closes(sent, u)
      BY <1>1, <3>1, <3>2, <3>3 DEF Closes, Final
    <3>5. u.msg <= Completed
      BY <1>0, <3>1, <3>2, <3>4, ReadIsCompleted
    <3>6. QED BY <1>8, <3>3, <3>5
  <2>14. Len(Posted) = Completed /\ Posted[N] = Expected(N) /\ n < Completed
    <3>1. PICK m \in Nat : m = Completed
      BY <1>0, CompletedIs
    <3>2. Posted = [i \in 1 .. m |-> Expected(i)]
      BY <3>1 DEF Posted
    <3>3. PICK T : T = {Expected(i) : i \in 1 .. m}
      OBVIOUS
    <3>4. PICK x : x = Posted
      OBVIOUS
    <3>5. x \in [1 .. m -> T]
      BY <3>2, <3>3, <3>4
    <3>6. x \in Seq(T)
      BY <3>5, FunctionIsSeq
    <3>7. Len(x) = m
      BY <3>5, <3>6, LenProperties
    <3>8. N \in 1 .. m /\ n < m
      BY <1>6, <1>7, <2>13, <3>1
    <3>9. QED BY <3>1, <3>2, <3>4, <3>7, <3>8
  <2>15. QED BY <1>7, <1>10, <1>11, <2>7, <2>12, <2>14
<1>16. QED BY <1>8, <1>14, <1>15

\* What DtxMessages sees of the first state.
LEMMA StartsEmpty == Init => Stream!Init
<1> SUFFICES ASSUME Init PROVE Posted = <<>> /\ Got = <<>>
  BY DEF Stream!Init, Posted, Got
<1>1. Completed = 0 /\ Intact = 0
  BY DEF Init, Completed, NothingPending, Intact
<1>2. 1 .. 0 = {}
  OBVIOUS
<1>3. QED BY <1>1, <1>2 DEF Posted, Got

\* Every step is one of DtxMessages, or none.
LEMMA StepRefines ==
  ASSUME ~SplitHeaders
  PROVE  IInv /\ IInv' /\ Punctual /\ [Next]_vars => [Stream!Next]_(Stream!vars)
<1> SUFFICES ASSUME IInv, IInv', Punctual, [Next]_vars
             PROVE  \/ Posted' = Posted /\ Got' = Got
                    \/ OnePosted /\ Got' = Got
                    \/ /\ Len(Got) < Len(Posted) /\ Posted' = Posted
                       /\ Got' = Append(Got, Posted[Len(Got) + 1])
  BY DEF Stream!Next, Stream!Post, Stream!Return, Stream!vars, Posted, Got, OnePosted
<1>0. TypeInv /\ Formed /\ InTurn
  BY DEF IInv, Punctual
<1>1. Later /\ Onward
  BY <1>0, StepGoesOn DEF Later
<1>2. ASSUME wire' = wire, sent' = sent PROVE Posted' = Posted
  <2>1. Completed' = Completed
    BY <1>2 DEF Completed, NothingPending, EndsMessage, EndsFrame, HasBody, LastFrag
  <2>2. QED BY <1>0, <1>1, <2>1, PostedStays
<1>3. CASE DeviceBegins
  <2>1. delivered' = delivered
    BY <1>3 DEF DeviceBegins
  <2>2. QED BY <1>0, <1>3, <2>1, BeginsPostsNothing, GotStays
<1>4. CASE DeviceContinues
  <2>1. delivered' = delivered
    BY <1>4 DEF DeviceContinues
  <2>2. QED BY <1>0, <1>4, <2>1, ContinuesPosts, GotStays
<1>5. CASE EndFragment
  <2>1. Posted' = Posted
    BY <1>2, <1>5 DEF EndFragment, peerVars
  <2>2. CASE hdr.frag = sent[hdr.msg].count - 1
    BY <1>0, <1>1, <1>5, <2>1, <2>2, LastReturns
  <2>3. CASE hdr.frag # sent[hdr.msg].count - 1
    <3>1. delivered' = delivered
      BY <1>0, <1>1, <1>5, <2>3, FragmentInTurn
    <3>2. QED BY <2>1, <3>1, GotStays
  <2>4. QED BY <2>2, <2>3
<1>6. CASE ~DeviceBegins /\ ~DeviceContinues /\ ~EndFragment
  <2>1. wire' = wire /\ sent' = sent /\ delivered' = delivered
    BY <1>6
       DEF Next, Device, LinkEnds, Reader, ReadHeaderFails, ReadHeaderBadMagic,
           ReadHeader, ReadBody, ReadBodyError, Call, peerVars, vars
  <2>2. QED BY <1>2, <2>1, GotStays
<1>7. QED BY <1>3, <1>4, <1>5, <1>6

\* On a connection on which nothing was sent the call is in turn.
LEMMA PunctualInit == Init => Punctual
<1> SUFFICES ASSUME Init PROVE Punctual
  OBVIOUS
<1>1. WholeHeaders
  BY DEF Init, WholeHeaders
<1>2. InTurn
  BY DEF Init, InTurn, AtStart
<1>3. Complete
  BY DEF Init, Complete
<1>4. QED BY <1>1, <1>2, <1>3 DEF Punctual

\* Where headers are read whole the calls return the device's messages, whole,
\* each once, in the order sent and with their own numbers, however the frames'
\* bodies are cut and however the connection ends, but for a last result that a
\* broken connection damages (channel__recv_withid, channel.c:223).
THEOREM MessagesRefined ==
  ASSUME ~SplitHeaders
  PROVE  Spec => ImplementsMessages
<1>1. IInv /\ IInv' /\ Punctual /\ [Next]_vars => Punctual'
  BY PunctualStep
<1>2. Init /\ [][Next]_vars /\ []IInv => []Punctual
  BY <1>1, PunctualInit, PTL
<1>3. IInv /\ IInv' /\ Punctual /\ [Next]_vars => [Stream!Next]_(Stream!vars)
  BY StepRefines
<1>4. QED
  BY <1>2, <1>3, AlwaysIInv, StartsEmpty, PTL DEF Spec, ImplementsMessages, Stream!Spec
=============================================================================
