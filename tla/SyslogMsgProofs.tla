--------------------------- MODULE SyslogMsgProofs ---------------------------
(* Theorems about SyslogMsg, for every value of its constants. *)
EXTENDS SyslogMsg, SequenceTheorems, WellFoundedInduction, TLAPS

\* The block never gets smaller than the first one, and msg__append only goes
\* looking for a larger one when `maxsize` is exceeded.
BlockGrows ==
  /\ cap >= BufSize + 1
  /\ pc = "grow" => Size + Len(buf) > BufSize

IInv == TypeOK /\ BlockGrows /\ FitsBlock

\* The numbers and lengths of a well-typed state.
LEMMA Basics ==
  ASSUME TypeOK
  PROVE  /\ BufSize \in Nat /\ BufSize >= 2 /\ U16 \in Nat /\ BufSize < U16
         /\ Len(stream) \in Nat /\ rd \in Nat /\ rd <= Len(stream)
         /\ Size \in Nat /\ Len(buf) \in Nat
         /\ cap \in Nat /\ newsize \in 0 .. U16 - 1 /\ newsize \in Nat
<1>1. Len(stream) \in Nat /\ Len(data) \in Nat /\ Len(buf) \in Nat
  BY LenProperties DEF TypeOK
<1>2. BufSize \in Nat /\ BufSize >= 2 /\ U16 \in Nat /\ BufSize < U16
  BY ConstantsAssumption
<1>3. QED BY <1>1, <1>2 DEF TypeOK, Size

\* What a receive hands out, with and without its first byte, are bytes.
LEMMA ChunkType ==
  ASSUME TypeOK, NEW n \in 1 .. BufSize - 1, Receivable(n)
  PROVE  /\ Chunk(n) \in Seq(Byte) /\ Tail(Chunk(n)) \in Seq(Byte)
         /\ Len(Chunk(n)) = n
         /\ rd + n \in 0 .. Len(stream)
<1>1. n \in Nat /\ n >= 1 /\ rd + n <= Len(stream)
  BY Basics DEF Receivable
<1>2. rd + 1 \in Int /\ rd + n \in Int /\ rd + 1 <= rd + n
      /\ (rd + n) - (rd + 1) + 1 = n /\ rd + n \in 0 .. Len(stream)
  <2>1. rd \in Nat /\ Len(stream) \in Nat
    BY Basics
  <2>2. QED BY <1>1, <2>1
<1>3. \A i \in rd + 1 .. rd + n : stream[i] \in Byte
  <2>1. \A i \in rd + 1 .. rd + n : i \in 1 .. Len(stream)
    BY <1>1, Basics
  <2>2. QED BY <2>1 DEF TypeOK
<1>4. SubSeq(stream, rd + 1, rd + n) \in Seq(Byte)
      /\ Len(SubSeq(stream, rd + 1, rd + n)) = n
  BY <1>2, <1>3, SubSeqProperties
<1>5. Chunk(n) # <<>>
  <2>1. Len(Chunk(n)) # 0
    BY <1>1, <1>4 DEF Chunk
  <2>2. QED BY <2>1
<1>6. QED BY <1>2, <1>4, <1>5, HeadTailProperties DEF Chunk

\* What was opened so far was opened before what comes next.
LEMMA OpenedType ==
  ASSUME TypeOK, NEW r \in Nat, rd <= r
  PROVE  opened \in Seq(1 .. r)
<1>1. opened \in Seq(1 .. rd) /\ rd \in Nat
  BY Basics DEF TypeOK
<1>2. opened \in [1 .. Len(opened) -> 1 .. rd] /\ Len(opened) \in Nat
  BY <1>1, LenProperties
<1>3. 1 .. rd \subseteq 1 .. r
  BY <1>1
<1>4. \A i \in 1 .. Len(opened) : opened[i] \in 1 .. r
  BY <1>2, <1>3
<1>5. opened = [i \in 1 .. Len(opened) |-> opened[i]]
  BY <1>2
<1>6. [i \in 1 .. Len(opened) |-> opened[i]] \in Seq(1 .. r)
  BY <1>2, <1>4, IsASeq
<1>7. QED BY <1>5, <1>6

-----------------------------------------------------------------------------
(* What "%.*s" prints. *)

\* A set of numbers that is not empty has a least one.
LEMMA LeastNumber ==
  ASSUME NEW S \in SUBSET Nat, S # {}
  PROVE  \E x \in S : \A y \in S : x <= y
<1>1. PICK x \in S : \A y \in S : ~(<<y, x>> \in OpToRel(<, Nat))
  BY NatLessThanWellFounded, WFMin
<1>2. \A y \in S : ~(y < x)
  BY <1>1 DEF OpToRel
<1>3. \A y \in S : x <= y
  BY <1>2
<1>4. QED BY <1>3

\* Bytes can be cut at one place,
LEMMA CutExists ==
  ASSUME NEW s \in Seq(Byte)
  PROVE  \E k \in 0 .. Len(s) : IsCut(s, k)
<1>0. Len(s) \in Nat
  BY LenProperties
<1> DEFINE S == {k \in Nat : k <= Len(s) /\ (k < Len(s) => s[k + 1] = Nul)}
<1>1. Len(s) \in S
  BY <1>0
<1>2. PICK k \in S : \A j \in S : k <= j
  <2>1. S \in SUBSET Nat /\ S # {}
    BY <1>1
  <2> HIDE DEF S
  <2>2. QED BY <2>1, LeastNumber
<1>3. k \in Nat /\ k \in 0 .. Len(s) /\ (k < Len(s) => s[k + 1] = Nul)
  BY <1>0, <1>2
<1>4. \A i \in 1 .. k : s[i] # Nul
  <2> SUFFICES ASSUME NEW i \in 1 .. k, s[i] = Nul PROVE FALSE
    OBVIOUS
  <2>1. i - 1 \in Nat /\ i - 1 <= Len(s) /\ (i - 1) + 1 = i /\ i - 1 < k
    BY <1>0, <1>3
  <2>2. i - 1 \in S
    <3>1. s[(i - 1) + 1] = Nul
      BY <2>1
    <3>2. QED BY <2>1, <3>1
  <2>3. k <= i - 1
    <3> HIDE DEF S
    <3>1. QED BY <1>2, <2>2
  <2>4. QED BY <1>3, <2>1, <2>3
<1>5. IsCut(s, k)
  BY <1>3, <1>4 DEF IsCut
<1>6. QED BY <1>3, <1>5

\* and what is printed is what is before it.
LEMMA PrintableIs ==
  ASSUME NEW s \in Seq(Byte), NEW k \in 0 .. Len(s), IsCut(s, k)
  PROVE  Printable(s) = SubSeq(s, 1, k) /\ Printable(s) \in Seq(Byte)
<1>0. Len(s) \in Nat
  BY LenProperties
<1>1. ASSUME NEW j \in 0 .. Len(s), IsCut(s, j) PROVE j = k
  <2>1. CASE j < k
    <3>1. j + 1 \in 1 .. k /\ j < Len(s)
      BY <1>0, <2>1
    <3>2. QED BY <1>1, <3>1 DEF IsCut
  <2>2. CASE k < j
    <3>1. k + 1 \in 1 .. j /\ k < Len(s)
      BY <1>0, <2>2
    <3>2. QED BY <1>1, <3>1 DEF IsCut
  <2>3. QED BY <1>0, <2>1, <2>2
<1>2. PICK n : n = CHOOSE j \in 0 .. Len(s) : IsCut(s, j)
  OBVIOUS
<1>3. n \in 0 .. Len(s) /\ IsCut(s, n)
  BY <1>2, Zenon
<1>4. n = k
  BY <1>1, <1>3
<1>5. Printable(s) = SubSeq(s, 1, k)
  BY <1>2, <1>4, Zenon DEF Printable
<1>6. SubSeq(s, 1, k) \in Seq(Byte)
  <2>1. \A i \in 1 .. k : s[i] \in Byte
    BY <1>0, ElementOfSeq DEF IsCut
  <2>2. QED BY <2>1, SubSeqProperties
<1>7. QED BY <1>5, <1>6

-----------------------------------------------------------------------------
(* The block. *)

\* The first half of msg__append, whichever way it goes.
LEMMA AppendToKeeps ==
  ASSUME IInv, pc = "receive",
         NEW old \in Seq(Byte), NEW new \in Seq(Byte),
         Len(old) <= cap, AppendTo(old, new), cap' = cap
  PROVE  /\ data' \in Seq(Byte) /\ buf' \in Seq(Byte)
         /\ newsize' \in 0 .. U16 - 1
         /\ pc' \in {"receive", "grow"}
         /\ Len(data') <= cap
         /\ pc' = "grow" => Len(data') + Len(buf') > BufSize
<1>1. Len(old) \in Nat /\ Len(new) \in Nat
  BY LenProperties
<1>2. CASE Len(old) + Len(new) > BufSize
  <2>1. pc' = "grow" /\ buf' = new /\ data' = old
        /\ newsize' = (Len(old) * 2) % U16
    BY <1>2 DEF AppendTo, MaxSize
  <2>2. (Len(old) * 2) % U16 \in 0 .. U16 - 1
    <3>1. Len(old) * 2 \in Nat /\ U16 \in Nat \ {0}
      BY <1>1, Basics DEF IInv
    <3>2. QED BY <3>1
  <2>3. QED BY <1>2, <2>1, <2>2
<1>3. CASE ~(Len(old) + Len(new) > BufSize)
  <2>1. data' = old \o new /\ pc' = pc /\ buf' = buf /\ newsize' = newsize
    BY <1>3 DEF AppendTo, MaxSize
  <2>2. old \o new \in Seq(Byte) /\ Len(old \o new) = Len(old) + Len(new)
    BY ConcatProperties
  <2>3. Len(old) + Len(new) <= cap
    BY <1>1, <1>3, Basics DEF IInv, BlockGrows
  <2>4. QED BY <2>1, <2>2, <2>3 DEF IInv, TypeOK
<1>4. QED BY <1>2, <1>3

\* Every step of the relay and of runSysLog keeps the invariant.
LEMMA Step == IInv /\ [Next]_vars => IInv'
<1> SUFFICES ASSUME IInv, [Next]_vars PROVE IInv'
  OBVIOUS
<1>0. TypeOK /\ BlockGrows /\ FitsBlock
  BY DEF IInv
<1>1. CASE DeviceBegins
  <2>1. stream' \in Seq(Byte) /\ Len(stream) <= Len(stream')
    <3> DEFINE s == <<Nul, Begun + 1>>
    <3>1. MaxRecords \in Nat
      BY ConstantsAssumption
    <3>2. Begun \in Nat
      <4>1. CASE stream = <<>>
        BY <4>1 DEF Begun
      <4>2. CASE stream # <<>>
        <5>1. Len(stream) # 0
          BY <4>2, <1>0, EmptySeq DEF TypeOK
        <5>2. Len(stream) \in 1 .. Len(stream)
          BY <5>1, <1>0, Basics
        <5>3. stream[Len(stream)] \in Byte
          BY <5>2, <1>0 DEF TypeOK
        <5>4. QED BY <3>1, <4>2, <5>3 DEF Begun, Byte
      <4>3. QED BY <4>1, <4>2
    <3>3. Begun + 1 \in Byte /\ Nul \in Byte
      BY <1>1, <3>1, <3>2 DEF DeviceBegins, Byte, Nul
    <3>4. s \in Seq(Byte) /\ Len(s) = 2
      BY <3>3
    <3>5. stream' = stream \o s
      BY <1>1 DEF DeviceBegins
    <3> HIDE DEF s
    <3>6. stream \o s \in Seq(Byte) /\ Len(stream \o s) = Len(stream) + Len(s)
      BY <3>4, <1>0, ConcatProperties DEF TypeOK
    <3>7. QED BY <3>4, <3>5, <3>6, <1>0, Basics
  <2>2. UNCHANGED <<rd, pc, buf, data, cap, newsize, printed, opened>>
    BY <1>1 DEF DeviceBegins, history
  <2>3. rd \in 0 .. Len(stream')
    <3>1. Len(stream') \in Nat
      BY <2>1, LenProperties
    <3>2. QED BY <2>1, <3>1, <1>0, Basics
  <2>4. QED BY <1>0, <2>1, <2>2, <2>3 DEF IInv, TypeOK, BlockGrows, FitsBlock, Size
<1>2. CASE DeviceContinues
  <2>1. stream' \in Seq(Byte) /\ Len(stream') = Len(stream) + 1
    <3>1. stream # <<>>
      BY <1>2 DEF DeviceContinues, Begun
    <3>2. Len(stream) # 0
      BY <3>1, <1>0, EmptySeq DEF TypeOK
    <3>3. Len(stream) \in 1 .. Len(stream)
      BY <3>2, <1>0, Basics
    <3>4. Begun \in Byte
      BY <3>1, <3>3, <1>0 DEF Begun, TypeOK
    <3>5. QED BY <1>2, <3>4, <1>0, AppendProperties DEF DeviceContinues, TypeOK
  <2>2. UNCHANGED <<rd, pc, buf, data, cap, newsize, printed, opened>>
    BY <1>2 DEF DeviceContinues, history
  <2>3. rd \in 0 .. Len(stream')
    BY <2>1, <1>0, Basics
  <2>4. QED BY <1>0, <2>1, <2>2, <2>3 DEF IInv, TypeOK, BlockGrows, FitsBlock, Size
<1>3. CASE ReceiveMore
  <2>1. PICK n \in 1 .. BufSize - 1 :
          Receivable(n) /\ AppendTo(data, Chunk(n)) /\ rd' = rd + n
    BY <1>3 DEF ReceiveMore
  <2>2. UNCHANGED <<stream, cap, printed, opened>> /\ pc = "receive"
    BY <1>3 DEF ReceiveMore, history
  <2>3. Chunk(n) \in Seq(Byte) /\ rd' \in 0 .. Len(stream) /\ opened \in Seq(1 .. rd')
    <3>1. rd' \in Nat /\ rd <= rd'
      BY <2>1, <1>0, Basics
    <3>2. QED BY <2>1, <3>1, <1>0, ChunkType, OpenedType
  <2>4. data \in Seq(Byte) /\ Len(data) <= cap /\ cap' = cap
    BY <2>2, <1>0 DEF TypeOK, FitsBlock, Size
  <2>5. /\ data' \in Seq(Byte) /\ buf' \in Seq(Byte)
        /\ newsize' \in 0 .. U16 - 1 /\ pc' \in {"receive", "grow"}
        /\ Len(data') <= cap
        /\ pc' = "grow" => Len(data') + Len(buf') > BufSize
    BY <2>1, <2>2, <2>3, <2>4, AppendToKeeps
  <2>6. QED BY <1>0, <2>2, <2>3, <2>5 DEF IInv, TypeOK, BlockGrows, FitsBlock, Size
<1>4. CASE ReceiveNext
  <2>1. PICK n \in 1 .. BufSize - 1 :
          Receivable(n) /\ AppendTo(<<>>, Tail(Chunk(n))) /\ rd' = rd + n
    BY <1>4 DEF ReceiveNext
  <2>2. /\ UNCHANGED <<stream, cap>> /\ pc = "receive"
        /\ printed' = IF Size > 0 THEN Append(printed, Printable(data)) ELSE printed
        /\ opened' = Append(opened, rd + 1)
    BY <1>4 DEF ReceiveNext, Output
  <2>3. Tail(Chunk(n)) \in Seq(Byte) /\ rd' \in 0 .. Len(stream)
        /\ opened \in Seq(1 .. rd') /\ rd + 1 \in 1 .. rd'
    BY <2>1, <1>0, ChunkType, OpenedType, Basics
  <2>4. <<>> \in Seq(Byte) /\ Len(<<>>) <= cap /\ cap' = cap
    BY <2>2, <1>0, Basics
  <2>5. /\ data' \in Seq(Byte) /\ buf' \in Seq(Byte)
        /\ newsize' \in 0 .. U16 - 1 /\ pc' \in {"receive", "grow"}
        /\ Len(data') <= cap
        /\ pc' = "grow" => Len(data') + Len(buf') > BufSize
    BY <2>1, <2>2, <2>3, <2>4, AppendToKeeps
  <2>6. printed' \in Seq(Seq(Byte)) /\ opened' \in Seq(1 .. rd')
    <3>1. Size > 0 => Printable(data) \in Seq(Byte)
      <4>1. data \in Seq(Byte)
        BY <1>0 DEF TypeOK
      <4>2. \E e \in 0 .. Len(data) : IsCut(data, e)
        BY <4>1, CutExists
      <4>3. QED BY <4>1, <4>2, PrintableIs
    <3>2. opened' \in Seq(1 .. rd')
      BY <2>2, <2>3, AppendProperties
    <3>3. QED BY <2>2, <3>1, <3>2, <1>0, AppendProperties DEF TypeOK
  <2>7. QED BY <1>0, <2>2, <2>3, <2>5, <2>6
            DEF IInv, TypeOK, BlockGrows, FitsBlock, Size
<1>5. CASE ReceiveFails
  BY <1>0, <1>5 DEF ReceiveFails, history, IInv, TypeOK, BlockGrows, FitsBlock, Size
<1>6. CASE Double
  <2>1. (newsize * 2) % U16 \in 0 .. U16 - 1
    <3>1. newsize * 2 \in Nat /\ U16 \in Nat \ {0}
      BY <1>0, Basics
    <3>2. QED BY <3>1
  <2>2. /\ newsize' \in 0 .. U16 - 1
        /\ UNCHANGED <<stream, rd, pc, buf, data, cap, printed, opened>>
    BY <1>6, <2>1 DEF Double, history
  <2>3. QED BY <1>0, <2>2 DEF IInv, TypeOK, BlockGrows, FitsBlock, Size
<1>7. CASE Grown
  <2>1. /\ cap' = newsize /\ data' = data \o buf /\ pc' = "receive"
        /\ newsize >= Size + Len(buf) /\ pc = "grow"
        /\ UNCHANGED <<stream, rd, buf, newsize, printed, opened>>
    BY <1>7 DEF Grown, history
  <2>2. data \o buf \in Seq(Byte) /\ Len(data \o buf) = Size + Len(buf)
    BY <1>0, ConcatProperties DEF TypeOK, Size
  <2>3. newsize >= BufSize + 1 /\ newsize \in 1 .. U16 - 1
    BY <2>1, <1>0, Basics DEF BlockGrows
  <2>4. QED BY <1>0, <2>1, <2>2, <2>3 DEF IInv, TypeOK, BlockGrows, FitsBlock, Size
<1>8. CASE UNCHANGED vars
  BY <1>0, <1>8 DEF vars, IInv, TypeOK, BlockGrows, FitsBlock, Size
<1>9. QED BY <1>1, <1>2, <1>3, <1>4, <1>5, <1>6, <1>7, <1>8
          DEF Next, Device, Program

\* The invariant holds when the program starts and ever after.
LEMMA Invariant == Spec => []IInv
<1>1. Init => IInv
  <2> SUFFICES ASSUME Init PROVE IInv
    OBVIOUS
  <2>1. BufSize \in Nat /\ BufSize < U16 /\ U16 \in Nat /\ BufSize >= 2
    BY ConstantsAssumption
  <2>2. QED BY <2>1 DEF Init, IInv, TypeOK, BlockGrows, FitsBlock, Size
<1>2. QED BY <1>1, Step, PTL DEF Spec

\* Types: the uint16_t arithmetic of msg__append stays in its 16 bits.
THEOREM TypeCorrect == Spec => []TypeOK
<1>1. IInv => TypeOK
  BY DEF IInv
<1>2. QED BY <1>1, Invariant, PTL

\* msg__append never writes behind its block, whatever the lengths of records
\* and chunks, although doubling wraps around and `maxsize` is never updated.
THEOREM BlockIsLargeEnough == Spec => []FitsBlock
<1>1. IInv => FitsBlock
  BY DEF IInv
<1>2. QED BY <1>1, Invariant, PTL

-----------------------------------------------------------------------------
(* Every record in its line. *)

\* The relay's stream: a Nul, and something before the next one.
Alternate ==
  /\ stream # <<>> => stream[1] = Nul /\ stream[Len(stream)] # Nul
  /\ \A i \in 1 .. Len(stream) - 1 : stream[i] = Nul => stream[i + 1] # Nul

\* The first chunk begins with a Nul.
FirstOpens == opened = <<>> => rd = 0 /\ pc # "grow" /\ data = <<>>

LineInv == IInv /\ Alternate /\ FirstOpens /\ RecordsStayWhole

LEMMA NulIsByte == Nul \in Byte /\ MaxRecords \in Nat
<1>1. MaxRecords \in Nat
  BY ConstantsAssumption
<1>2. QED BY <1>1 DEF Nul, Byte

\* One line more.
LEMMA LineAdded ==
  ASSUME NEW p \in Seq(Seq(Byte)), NEW m \in Nat, NEW f, f[m + 1] \in Seq(Byte),
         p = [i \in 1 .. m |-> f[i]]
  PROVE  Append(p, f[m + 1]) = [i \in 1 .. m + 1 |-> f[i]]
<1>1. p \in [1 .. Len(p) -> Seq(Byte)] /\ Len(p) \in Nat
  BY LenProperties
<1>2. PICK l \in Nat : l = Len(p) /\ 1 .. l = 1 .. m
  BY <1>1
<1>3. l = m
  <2>1. l >= 1 => l \in 1 .. m
    BY <1>2
  <2>2. m >= 1 => m \in 1 .. l
    BY <1>2
  <2>3. QED BY <2>1, <2>2
<1>4. PICK q : q = Append(p, f[m + 1])
  OBVIOUS
<1>5. /\ q \in [1 .. Len(q) -> Seq(Byte)] /\ Len(q) = m + 1
      /\ \A i \in 1 .. m : q[i] = p[i]
      /\ q[m + 1] = f[m + 1]
  <2>1. PICK x : x = f[m + 1]
    OBVIOUS
  <2>2. /\ q \in Seq(Seq(Byte)) /\ Len(q) = Len(p) + 1 /\ q[Len(p) + 1] = x
        /\ \A i \in 1 .. Len(p) : q[i] = p[i]
    <3>1. x \in Seq(Byte) /\ q = Append(p, x)
      BY <1>4, <2>1
    <3>2. QED BY <3>1, AppendProperties
  <2>3. q \in [1 .. Len(q) -> Seq(Byte)]
    BY <2>2, LenProperties
  <2>4. QED BY <1>2, <1>3, <2>1, <2>2, <2>3
<1>6. \A i \in 1 .. m + 1 : q[i] = f[i]
  <2> SUFFICES ASSUME NEW i \in 1 .. m + 1 PROVE q[i] = f[i]
    OBVIOUS
  <2>1. i \in 1 .. m \/ i = m + 1
    OBVIOUS
  <2>2. \A j \in 1 .. m : p[j] = f[j]
    OBVIOUS
  <2>3. QED BY <1>5, <2>1, <2>2
<1>7. q = [i \in 1 .. m + 1 |-> q[i]]
  BY <1>5
<1>8. QED BY <1>4, <1>6, <1>7

\* Stretches of the same bytes are the same.
LEMMA SameStretch ==
  ASSUME NEW u \in Seq(Byte), NEW v \in Seq(Byte), NEW a \in Nat, NEW b \in Nat,
         a >= 1, b <= Len(u), b <= Len(v), \A i \in a .. b : u[i] = v[i]
  PROVE  SubSeq(u, a, b) = SubSeq(v, a, b)
<1>1. Len(u) \in Nat /\ Len(v) \in Nat
  BY LenProperties
<1>2. \A i \in a .. b : u[i] \in Byte /\ v[i] \in Byte
  <2>1. \A i \in a .. b : i \in 1 .. Len(u) /\ i \in 1 .. Len(v)
    BY <1>1
  <2>2. QED BY <2>1, ElementOfSeq
<1>3. PICK x, y : x = SubSeq(u, a, b) /\ y = SubSeq(v, a, b)
  OBVIOUS
<1>4. /\ x \in Seq(Byte) /\ Len(x) = IF a <= b THEN b - a + 1 ELSE 0
      /\ \A i \in 1 .. b - a + 1 : x[i] = u[a + i - 1]
  BY <1>2, <1>3, SubSeqProperties
<1>5. /\ y \in Seq(Byte) /\ Len(y) = IF a <= b THEN b - a + 1 ELSE 0
      /\ \A i \in 1 .. b - a + 1 : y[i] = v[a + i - 1]
  BY <1>2, <1>3, SubSeqProperties
<1>6. \A i \in 1 .. Len(x) : x[i] = y[i]
  <2> SUFFICES ASSUME NEW i \in 1 .. Len(x) PROVE x[i] = y[i]
    OBVIOUS
  <2>1. i \in 1 .. b - a + 1 /\ a + i - 1 \in a .. b
    BY <1>4
  <2>2. QED BY <1>4, <1>5, <2>1
<1>7. x = y
  BY <1>4, <1>5, <1>6, SeqEqual
<1>8. QED BY <1>3, <1>7

\* Behind p, the first Nul at or before q.
LEMMA NextNul ==
  ASSUME NEW w, NEW p \in Nat, NEW q \in Nat, p < q, w[q] = Nul
  PROVE  \E e \in p + 1 .. q : w[e] = Nul /\ \A i \in p + 1 .. e - 1 : w[i] # Nul
<1> DEFINE S == {i \in p + 1 .. q : w[i] = Nul}
<1>1. S \in SUBSET Nat /\ S # {}
  <2>1. q \in S
    OBVIOUS
  <2>2. QED BY <2>1
<1>2. PICK e \in S : \A i \in S : e <= i
  <2> HIDE DEF S
  <2>1. QED BY <1>1, LeastNumber
<1>3. e \in p + 1 .. q /\ w[e] = Nul
  OBVIOUS
<1>4. \A i \in p + 1 .. e - 1 : w[i] # Nul
  <2> SUFFICES ASSUME NEW i \in p + 1 .. e - 1, w[i] = Nul PROVE FALSE
    OBVIOUS
  <2>1. i \in p + 1 .. q /\ ~(e <= i)
    BY <1>3
  <2>2. i \in S
    BY <2>1
  <2>3. e <= i
    <3> HIDE DEF S
    <3>1. QED BY <1>2, <2>2
  <2>4. QED BY <2>1, <2>3
<1>5. QED BY <1>3, <1>4

\* The first Nul of w behind p is at e, and the stretch up to m ends there, or beyond it.
FirstNul(w, p, e, m) ==
  /\ w \in Seq(Byte) /\ p \in Nat /\ e \in Nat /\ m \in Nat
  /\ p < e /\ e <= m + 1 /\ e <= Len(w) /\ m <= Len(w)
  /\ w[e] = Nul /\ \A i \in p + 1 .. e - 1 : w[i] # Nul

\* What is printed of such a stretch.
LEMMA PrintedUpTo ==
  ASSUME NEW w, NEW p, NEW e, NEW m, FirstNul(w, p, e, m)
  PROVE  /\ Printable(SubSeq(w, p + 1, m)) = SubSeq(w, p + 1, e - 1)
         /\ SubSeq(w, p + 1, e - 1) \in Seq(Byte)
<1> SUFFICES ASSUME w \in Seq(Byte), p \in Nat, e \in Nat, m \in Nat,
                    p < e, e <= m + 1, e <= Len(w), m <= Len(w), w[e] = Nul,
                    \A i \in p + 1 .. e - 1 : w[i] # Nul
             PROVE  /\ Printable(SubSeq(w, p + 1, m)) = SubSeq(w, p + 1, e - 1)
                    /\ SubSeq(w, p + 1, e - 1) \in Seq(Byte)
  BY DEF FirstNul
<1>0. Len(w) \in Nat
  BY LenProperties
<1>1. \A i \in p + 1 .. m : w[i] \in Byte
  <2>1. \A i \in p + 1 .. m : i \in 1 .. Len(w)
    BY <1>0
  <2>2. QED BY <2>1, ElementOfSeq
<1>2. PICK s : s = SubSeq(w, p + 1, m)
  OBVIOUS
<1>3. /\ s \in Seq(Byte) /\ Len(s) = m - p
      /\ \A i \in 1 .. m - p : s[i] = w[p + i]
  <2>1. /\ s \in Seq(Byte) /\ Len(s) = IF p + 1 <= m THEN m - (p + 1) + 1 ELSE 0
        /\ \A i \in 1 .. m - (p + 1) + 1 : s[i] = w[(p + 1) + i - 1]
    BY <1>1, <1>2, SubSeqProperties
  <2>2. Len(s) = m - p
    BY <2>1
  <2>3. \A i \in 1 .. m - p : s[i] = w[p + i]
    <3> SUFFICES ASSUME NEW i \in 1 .. m - p PROVE s[i] = w[p + i]
      OBVIOUS
    <3>1. i \in 1 .. m - (p + 1) + 1 /\ (p + 1) + i - 1 = p + i
      OBVIOUS
    <3>2. QED BY <2>1, <3>1
  <2>4. QED BY <2>1, <2>2, <2>3
<1>4. PICK k : k = (e - 1) - p
  OBVIOUS
<1>5. k \in 0 .. Len(s) /\ k \in Nat
  BY <1>3, <1>4
<1>6. IsCut(s, k)
  <2>1. \A i \in 1 .. k : s[i] # Nul
    <3> SUFFICES ASSUME NEW i \in 1 .. k PROVE s[i] # Nul
      OBVIOUS
    <3>1. i \in 1 .. m - p /\ p + i \in p + 1 .. e - 1
      BY <1>4, <1>5
    <3>2. QED BY <1>3, <3>1
  <2>2. k < Len(s) => s[k + 1] = Nul
    <3> SUFFICES ASSUME k < Len(s) PROVE s[k + 1] = Nul
      OBVIOUS
    <3>1. k + 1 \in 1 .. m - p /\ p + (k + 1) = e
      BY <1>3, <1>4, <1>5
    <3>2. QED BY <1>3, <3>1
  <2>3. QED BY <2>1, <2>2 DEF IsCut
<1>7. Printable(s) = SubSeq(s, 1, k) /\ Printable(s) \in Seq(Byte)
  BY <1>3, <1>5, <1>6, PrintableIs
<1>8. SubSeq(s, 1, k) = SubSeq(w, p + 1, e - 1) /\ SubSeq(w, p + 1, e - 1) \in Seq(Byte)
  <2>1. PICK x, y : x = SubSeq(s, 1, k) /\ y = SubSeq(w, p + 1, e - 1)
    OBVIOUS
  <2>2. /\ x \in Seq(Byte) /\ Len(x) = k /\ \A i \in 1 .. k : x[i] = s[i]
    <3>1. \A i \in 1 .. k : s[i] \in Byte
      BY <1>3, <1>5, ElementOfSeq
    <3>2. /\ x \in Seq(Byte) /\ Len(x) = IF 1 <= k THEN k - 1 + 1 ELSE 0
          /\ \A i \in 1 .. k - 1 + 1 : x[i] = s[1 + i - 1]
      BY <1>5, <2>1, <3>1, SubSeqProperties
    <3>3. Len(x) = k
      BY <1>5, <3>2
    <3>4. \A i \in 1 .. k : i \in 1 .. k - 1 + 1 /\ 1 + i - 1 = i
      BY <1>5
    <3>5. QED BY <3>2, <3>3, <3>4
  <2>3. /\ y \in Seq(Byte) /\ Len(y) = k /\ \A i \in 1 .. k : y[i] = w[p + i]
    <3>1. \A i \in p + 1 .. e - 1 : w[i] \in Byte
      BY <1>1
    <3>2. /\ y \in Seq(Byte)
          /\ Len(y) = IF p + 1 <= e - 1 THEN (e - 1) - (p + 1) + 1 ELSE 0
          /\ \A i \in 1 .. (e - 1) - (p + 1) + 1 : y[i] = w[(p + 1) + i - 1]
      BY <2>1, <3>1, SubSeqProperties
    <3>3. Len(y) = k
      BY <1>4, <1>5, <3>2
    <3>4. \A i \in 1 .. k : /\ i \in 1 .. (e - 1) - (p + 1) + 1
                            /\ (p + 1) + i - 1 = p + i
      BY <1>4, <1>5
    <3>5. QED BY <3>2, <3>3, <3>4
  <2>4. \A i \in 1 .. k : i \in 1 .. m - p
    BY <1>3, <1>5
  <2>5. \A i \in 1 .. Len(x) : x[i] = y[i]
    BY <1>3, <2>2, <2>3, <2>4
  <2>6. x = y
    BY <2>2, <2>3, <2>5, SeqEqual
  <2>7. QED BY <2>1, <2>3, <2>6
<1>9. QED BY <1>2, <1>7, <1>8

\* The numbers of a state of the invariant.
LEMMA LineBasics ==
  ASSUME LineInv
  PROVE  /\ TypeOK /\ stream \in Seq(Byte) /\ data \in Seq(Byte) /\ buf \in Seq(Byte)
         /\ printed \in Seq(Seq(Byte)) /\ opened \in Seq(1 .. rd)
         /\ rd \in Nat /\ Len(stream) \in Nat /\ rd <= Len(stream)
         /\ Len(opened) \in Nat
         /\ \A i \in 1 .. Len(opened) : opened[i] \in 1 .. rd /\ opened[i] \in Nat
         /\ opened # <<>> => Len(opened) \in 1 .. Len(opened)
         /\ DOMAIN opened = 1 .. Len(opened)
<1>1. /\ TypeOK /\ stream \in Seq(Byte) /\ data \in Seq(Byte) /\ buf \in Seq(Byte)
      /\ printed \in Seq(Seq(Byte)) /\ opened \in Seq(1 .. rd)
  BY DEF LineInv, IInv, TypeOK
<1>2. rd \in Nat /\ Len(stream) \in Nat /\ rd <= Len(stream)
  BY <1>1, Basics
<1>3. Len(opened) \in Nat /\ DOMAIN opened = 1 .. Len(opened)
  BY <1>1, LenProperties
<1>4. \A i \in 1 .. Len(opened) : opened[i] \in 1 .. rd /\ opened[i] \in Nat
  BY <1>1, <1>2, ElementOfSeq
<1>5. opened # <<>> => Len(opened) \in 1 .. Len(opened)
  BY <1>1, <1>3, EmptySeq
<1>6. QED BY <1>1, <1>2, <1>3, <1>4, <1>5

\* A record between two of the Nuls stays what it is when the relay writes.
LEMMA RecordStays ==
  ASSUME NEW p \in Nat, NEW q \in Nat, p < q, q <= Len(stream), stream[q] = Nul,
         stream \in Seq(Byte), stream' \in Seq(Byte), Len(stream) <= Len(stream'),
         \A i \in 1 .. Len(stream) : stream'[i] = stream[i]
  PROVE  RecordAt(p)' = RecordAt(p)
<1>0. PICK w, v, l, m : w = stream /\ v = stream' /\ l = Len(w) /\ m = Len(v)
  OBVIOUS
<1>1. /\ w \in Seq(Byte) /\ v \in Seq(Byte) /\ l \in Nat /\ m \in Nat /\ l <= m
      /\ \A i \in 1 .. l : v[i] = w[i]
      /\ q <= l /\ w[q] = Nul
  BY <1>0, LenProperties
<1>2. PICK e \in p + 1 .. q : w[e] = Nul /\ \A i \in p + 1 .. e - 1 : w[i] # Nul
  BY <1>1, NextNul
<1>3. e \in Nat /\ p < e /\ e <= l /\ \A i \in p + 1 .. e - 1 : i \in 1 .. l
  BY <1>1, <1>2
<1>4. Printable(SubSeq(w, p + 1, l)) = SubSeq(w, p + 1, e - 1)
  <2>1. FirstNul(w, p, e, l)
    BY <1>0, <1>1, <1>2, <1>3 DEF FirstNul
  <2>2. QED BY <2>1, PrintedUpTo
<1>5. Printable(SubSeq(v, p + 1, m)) = SubSeq(v, p + 1, e - 1)
  <2>1. /\ v \in Seq(Byte) /\ m \in Nat /\ e \in Nat /\ p < e
        /\ e <= m + 1 /\ m <= Len(v) /\ e <= Len(v) /\ v[e] = Nul
    BY <1>0, <1>1, <1>2, <1>3
  <2>2. \A i \in p + 1 .. e - 1 : v[i] # Nul
    BY <1>1, <1>2, <1>3
  <2>3. FirstNul(v, p, e, m)
    BY <2>1, <2>2 DEF FirstNul
  <2>4. QED BY <2>3, PrintedUpTo
<1>6. SubSeq(v, p + 1, e - 1) = SubSeq(w, p + 1, e - 1)
  <2>1. p + 1 \in Nat /\ e - 1 \in Nat /\ p + 1 >= 1
    BY <1>3
  <2>2. e - 1 <= Len(v) /\ e - 1 <= Len(w) /\ \A i \in p + 1 .. e - 1 : v[i] = w[i]
    BY <1>0, <1>1, <1>3
  <2>3. QED BY <1>1, <2>1, <2>2, SameStretch
<1>7. RecordAt(p) = Printable(SubSeq(w, p + 1, l))
      /\ RecordAt(p)' = Printable(SubSeq(v, p + 1, m))
  BY <1>0 DEF RecordAt, Printable, IsCut
<1>8. QED BY <1>4, <1>5, <1>6, <1>7

\* Nothing changes for what was received when the relay writes.
LEMMA StreamGrows ==
  ASSUME LineInv, NEW s \in Seq(Byte), s # <<>>, stream' = stream \o s,
         UNCHANGED <<rd, pc, buf, data, cap, newsize, printed, opened>>,
         s[Len(s)] # Nul,
         \A i \in 1 .. Len(s) - 1 : s[i] = Nul => s[i + 1] # Nul,
         IF stream = <<>> THEN s[1] = Nul ELSE TRUE
  PROVE  Alternate' /\ FirstOpens' /\ RecordsStayWhole'
<1>0. PICK w, l, m : w = stream' /\ l = Len(stream) /\ m = Len(s)
  OBVIOUS
<1>1. /\ TypeOK /\ stream \in Seq(Byte) /\ l \in Nat /\ m \in Nat /\ m > 0
      /\ rd \in Nat /\ rd <= l
  <2>1. TypeOK /\ stream \in Seq(Byte) /\ rd \in Nat /\ l \in Nat /\ rd <= l
    BY <1>0, LineBasics
  <2>2. m \in Nat \ {0}
    BY <1>0, EmptySeq
  <2>3. QED BY <2>1, <2>2
<1>2. /\ w \in Seq(Byte) /\ Len(w) = l + m
      /\ \A i \in 1 .. l : w[i] = stream[i]
      /\ \A i \in l + 1 .. l + m : w[i] = s[i - l]
  <2>1. /\ w \in Seq(Byte) /\ Len(w) = l + m
        /\ \A i \in 1 .. l + m : w[i] = IF i <= l THEN stream[i] ELSE s[i - l]
    BY <1>0, <1>1, ConcatProperties
  <2>2. QED BY <1>1, <2>1
<1>3. w[Len(w)] # Nul
  <2>1. l + m \in l + 1 .. l + m /\ (l + m) - l = m
    BY <1>1
  <2>2. QED BY <1>0, <1>2, <2>1
<1>4. stream # <<>> => l > 0 /\ stream[1] = Nul /\ stream[l] # Nul
  <2>1. stream # <<>> => l \in Nat \ {0}
    BY <1>0, <1>1, EmptySeq
  <2>2. QED BY <1>0, <2>1 DEF LineInv, Alternate
<1>5. l > 0 => stream # <<>>
  BY <1>0
<1>6. w[1] = Nul
  <2>1. CASE l > 0
    <3>1. 1 \in 1 .. l
      BY <1>1, <2>1
    <3>2. QED BY <1>2, <1>4, <1>5, <2>1, <3>1
  <2>2. CASE l = 0
    <3>1. stream = <<>> /\ 1 \in l + 1 .. l + m /\ 1 - l = 1
      BY <1>1, <1>4, <2>2
    <3>2. QED BY <1>2, <3>1
  <2>3. QED BY <1>1, <2>1, <2>2
<1>7. \A i \in 1 .. l + m - 1 : w[i] = Nul => w[i + 1] # Nul
  <2> SUFFICES ASSUME NEW i \in 1 .. l + m - 1, w[i] = Nul PROVE w[i + 1] # Nul
    OBVIOUS
  <2>1. CASE i < l
    <3>1. i \in 1 .. l - 1 /\ i \in 1 .. l /\ i + 1 \in 1 .. l
      BY <1>1, <2>1
    <3>2. stream[i] = Nul => stream[i + 1] # Nul
      BY <1>0, <3>1 DEF LineInv, Alternate
    <3>3. QED BY <1>2, <3>1, <3>2
  <2>2. CASE i = l
    <3>1. l > 0 /\ l \in 1 .. l
      BY <1>1, <2>2
    <3>2. QED BY <1>2, <1>4, <1>5, <2>2, <3>1
  <2>3. CASE i > l
    <3>1. /\ i \in l + 1 .. l + m /\ i + 1 \in l + 1 .. l + m
          /\ i - l \in 1 .. m - 1 /\ (i + 1) - l = (i - l) + 1
      BY <1>1, <2>3
    <3>2. w[i] = s[i - l] /\ w[i + 1] = s[(i + 1) - l]
      BY <1>2, <3>1
    <3>3. s[i - l] = Nul => s[(i - l) + 1] # Nul
      BY <1>0, <3>1
    <3>4. QED BY <3>1, <3>2, <3>3
  <2>4. QED BY <1>1, <2>1, <2>2, <2>3
<1>8. Alternate'
  BY <1>0, <1>2, <1>3, <1>6, <1>7 DEF Alternate
<1>9. FirstOpens'
  BY DEF LineInv, FirstOpens
<1>10. LinesAreRecords'
  <2>1. ASSUME NEW i \in 1 .. Len(opened) - 1
        PROVE  RecordAt(opened[i])' = RecordAt(opened[i])
    <3>1. i \in 1 .. Len(opened) /\ i + 1 \in 1 .. Len(opened) /\ i < i + 1
      BY LineBasics
    <3>2. PICK p \in Nat, q \in Nat : p = opened[i] /\ q = opened[i + 1] /\ q <= rd
      BY <3>1, LineBasics
    <3>3. p < q /\ stream[q] = Nul
      BY <3>1, <3>2, LineBasics DEF LineInv, RecordsStayWhole, LinesAreRecords
    <3>4. q <= Len(stream) /\ Len(stream) <= Len(stream')
      BY <1>0, <1>1, <1>2, <3>2
    <3>5. RecordAt(p)' = RecordAt(p)
      BY <1>0, <1>1, <1>2, <3>3, <3>4, RecordStays
    <3>6. RecordAt(opened[i])' = RecordAt(p)'
      BY <3>2 DEF RecordAt
    <3>7. QED BY <3>2, <3>5, <3>6
  <2>2. printed' = [i \in 1 .. Len(opened) - 1 |-> RecordAt(opened[i])]'
    <3>1. printed = [i \in 1 .. Len(opened) - 1 |-> RecordAt(opened[i])]
      BY DEF LineInv, RecordsStayWhole, LinesAreRecords
    <3>2. printed' = printed /\ opened' = opened
      OBVIOUS
    <3>3. QED BY <2>1, <3>1, <3>2
  <2>3. \A i \in DOMAIN opened : stream'[opened[i]] = Nul
    <3>1. \A i \in 1 .. Len(opened) : opened[i] \in 1 .. l /\ stream[opened[i]] = Nul
      BY <1>1, LineBasics DEF LineInv, RecordsStayWhole, LinesAreRecords
    <3>2. QED BY <1>0, <1>2, <3>1, LineBasics
  <2>4. QED BY <2>2, <2>3 DEF LineInv, RecordsStayWhole, LinesAreRecords
<1>11. BlockIsTheRest'
  <2> SUFFICES ASSUME opened # <<>>
               PROVE  data \o Pending = SubSeq(w, opened[Len(opened)] + 1, rd)
    BY <1>0 DEF BlockIsTheRest, Pending
  <2>1. PICK p \in Nat : p = opened[Len(opened)] /\ p <= rd
    BY LineBasics
  <2>2. data \o Pending = SubSeq(stream, p + 1, rd)
    BY <2>1 DEF LineInv, RecordsStayWhole, BlockIsTheRest
  <2>3. \A i \in p + 1 .. rd : i \in 1 .. l
    BY <1>1
  <2>4. SubSeq(w, p + 1, rd) = SubSeq(stream, p + 1, rd)
    <3>1. p + 1 \in Nat /\ p + 1 >= 1 /\ rd <= Len(w) /\ rd <= Len(stream)
      BY <1>0, <1>1, <1>2
    <3>2. \A i \in p + 1 .. rd : w[i] = stream[i]
      BY <1>2, <2>3
    <3>3. QED BY <1>1, <1>2, <3>1, <3>2, SameStretch
  <2>5. QED BY <2>1, <2>2, <2>4
<1>12. QED BY <1>8, <1>9, <1>10, <1>11 DEF RecordsStayWhole

\* The two steps of the relay.
LEMMA RelayKeeps ==
  ASSUME LineInv, Device
  PROVE  Alternate' /\ FirstOpens' /\ RecordsStayWhole'
<1>0. /\ stream \in Seq(Byte) /\ Len(stream) \in Nat
      /\ stream # <<>> => Len(stream) > 0
  <2>1. stream \in Seq(Byte)
    BY LineBasics
  <2>2. QED BY <2>1, LenProperties, EmptySeq
<1>1. CASE DeviceBegins
  <2>1. Begun \in Nat
    <3>1. CASE stream = <<>>
      BY <3>1 DEF Begun
    <3>2. CASE stream # <<>>
      <4>1. stream[Len(stream)] \in Byte
        BY <1>0, <3>2, ElementOfSeq
      <4>2. QED BY <3>2, <4>1, NulIsByte DEF Begun, Byte
    <3>3. QED BY <3>1, <3>2
  <2>2. Begun + 1 \in Byte /\ Begun + 1 # Nul
    BY <1>1, <2>1, NulIsByte DEF DeviceBegins, Byte, Nul
  <2>3. PICK s : s = <<Nul, Begun + 1>>
    OBVIOUS
  <2>4. s \in Seq(Byte) /\ Len(s) = 2 /\ s[1] = Nul /\ s[2] # Nul /\ s # <<>>
    BY <2>2, <2>3, NulIsByte
  <2>5. /\ stream' = stream \o s
        /\ UNCHANGED <<rd, pc, buf, data, cap, newsize, printed, opened>>
    BY <1>1, <2>3 DEF DeviceBegins, history
  <2>6. s[Len(s)] # Nul /\ \A i \in 1 .. Len(s) - 1 : s[i] = Nul => s[i + 1] # Nul
    BY <2>4
  <2>7. QED BY <2>4, <2>5, <2>6, StreamGrows
<1>2. CASE DeviceContinues
  <2>1. stream # <<>> /\ Begun = stream[Len(stream)] /\ Begun > 0
    BY <1>2 DEF DeviceContinues, Begun
  <2>2. Begun \in Byte /\ Begun # Nul
    <3>1. stream[Len(stream)] \in Byte
      BY <1>0, <2>1, ElementOfSeq
    <3>2. QED BY <2>1, <3>1, NulIsByte DEF Byte, Nul
  <2>3. PICK s : s = <<Begun>>
    OBVIOUS
  <2>4. s \in Seq(Byte) /\ Len(s) = 1 /\ s[1] = Begun /\ s # <<>>
    BY <2>2, <2>3
  <2>5. stream' = stream \o s
    BY <1>0, <1>2, <2>2, <2>3, AppendIsConcat DEF DeviceContinues
  <2>6. UNCHANGED <<rd, pc, buf, data, cap, newsize, printed, opened>>
    BY <1>2 DEF DeviceContinues, history
  <2>7. s[Len(s)] # Nul /\ \A i \in 1 .. Len(s) - 1 : s[i] = Nul => s[i + 1] # Nul
    BY <2>2, <2>4
  <2>8. QED BY <2>1, <2>4, <2>5, <2>6, <2>7, StreamGrows
<1>3. QED BY <1>1, <1>2 DEF Device

\* Whether there is room or not, msg__append adds the bytes to the old ones.
LEMMA AppendToAdds ==
  ASSUME pc = "receive", NEW old \in Seq(Byte), NEW new \in Seq(Byte), AppendTo(old, new)
  PROVE  data' \o Pending' = old \o new
<1>1. CASE Len(old) + Len(new) > MaxSize
  BY <1>1 DEF AppendTo, Pending
<1>2. CASE ~(Len(old) + Len(new) > MaxSize)
  <2>1. data' = old \o new /\ pc' = "receive" /\ Pending' = <<>>
    BY <1>2 DEF AppendTo, Pending
  <2>2. old \o new \in Seq(Byte)
    BY ConcatProperties
  <2>3. QED BY <2>1, <2>2, ConcatEmptySeq
<1>3. QED BY <1>1, <1>2

\* The lines stand while the stream and its openings do.
LEMMA LinesStand ==
  ASSUME LinesAreRecords, UNCHANGED <<stream, printed, opened>>
  PROVE  LinesAreRecords'
<1>1. [i \in 1 .. Len(opened) - 1 |-> RecordAt(opened[i])]'
        = [i \in 1 .. Len(opened) - 1 |-> RecordAt(opened[i])]
  BY DEF RecordAt, Printable, IsCut
<1>2. QED BY <1>1 DEF LinesAreRecords

\* A chunk that goes on with the record.
LEMMA MoreKeeps ==
  ASSUME LineInv, ReceiveMore
  PROVE  Alternate' /\ FirstOpens' /\ RecordsStayWhole'
<1>0. /\ TypeOK /\ data \in Seq(Byte) /\ rd \in Nat /\ stream \in Seq(Byte)
      /\ Len(stream) \in Nat
      /\ pc = "receive" /\ UNCHANGED <<stream, cap, printed, opened>>
  BY LineBasics DEF ReceiveMore, history
<1>1. PICK n \in 1 .. BufSize - 1 :
        /\ Receivable(n) /\ stream[rd + 1] # Nul
        /\ AppendTo(data, Chunk(n)) /\ rd' = rd + n
  BY DEF ReceiveMore
<1>2. Chunk(n) \in Seq(Byte) /\ n \in Nat /\ n >= 1 /\ rd + n \in 0 .. Len(stream)
  BY <1>0, <1>1, ChunkType, Basics
<1>3. opened # <<>>
  <2> SUFFICES ASSUME opened = <<>> PROVE FALSE
    OBVIOUS
  <2>1. rd = 0
    BY DEF LineInv, FirstOpens
  <2>2. stream # <<>> /\ rd + 1 = 1
    BY <1>0, <1>2, <2>1
  <2>3. QED BY <1>1, <2>2 DEF LineInv, Alternate
<1>4. Alternate' /\ FirstOpens'
  BY <1>0, <1>3 DEF LineInv, Alternate, FirstOpens
<1>5. LinesAreRecords'
  BY <1>0, LinesStand DEF LineInv, RecordsStayWhole
<1>6. BlockIsTheRest'
  <2>1. PICK p \in Nat : p = opened[Len(opened)] /\ p \in 1 .. rd
    BY <1>3, LineBasics
  <2>2. data = SubSeq(stream, p + 1, rd)
    <3>1. data \o <<>> = SubSeq(stream, p + 1, rd)
      BY <1>0, <1>3, <2>1 DEF LineInv, RecordsStayWhole, BlockIsTheRest, Pending
    <3>2. QED BY <1>0, <3>1, ConcatEmptySeq
  <2>3. SubSeq(stream, p + 1, rd) \o Chunk(n) = SubSeq(stream, p + 1, rd + n)
    <3>1. /\ p + 1 \in 1 .. Len(stream) + 1 /\ rd \in (p + 1) - 1 .. Len(stream)
          /\ rd + n \in rd .. Len(stream)
      BY <1>0, <1>2, <2>1
    <3>2. QED BY <1>0, <3>1, ConcatAdjacentSubSeq DEF Chunk
  <2>4. data' \o Pending' = data \o Chunk(n)
    BY <1>0, <1>1, <1>2, AppendToAdds
  <2>5. QED BY <1>0, <1>1, <2>1, <2>2, <2>3, <2>4 DEF BlockIsTheRest
<1>7. QED BY <1>4, <1>5, <1>6 DEF RecordsStayWhole

\* A chunk that starts with Nul: the record that the block began with is printed.
LEMMA NextKeeps ==
  ASSUME LineInv, ReceiveNext
  PROVE  Alternate' /\ FirstOpens' /\ RecordsStayWhole'
<1>0. /\ TypeOK /\ data \in Seq(Byte) /\ rd \in Nat /\ stream \in Seq(Byte)
      /\ Len(stream) \in Nat /\ printed \in Seq(Seq(Byte)) /\ opened \in Seq(1 .. rd)
      /\ pc = "receive" /\ UNCHANGED <<stream, cap>>
      /\ printed' = IF Size > 0 THEN Append(printed, Printable(data)) ELSE printed
      /\ opened' = Append(opened, rd + 1)
  BY LineBasics DEF ReceiveNext, Output
<1>1. PICK n \in 1 .. BufSize - 1 :
        /\ Receivable(n) /\ stream[rd + 1] = Nul
        /\ AppendTo(<<>>, Tail(Chunk(n))) /\ rd' = rd + n
  BY DEF ReceiveNext
<1>2. /\ Chunk(n) \in Seq(Byte) /\ Tail(Chunk(n)) \in Seq(Byte) /\ n \in Nat /\ n >= 1
      /\ rd + n \in 0 .. Len(stream) /\ rd + 1 \in 1 .. Len(stream)
  <2>1. /\ Chunk(n) \in Seq(Byte) /\ Tail(Chunk(n)) \in Seq(Byte)
        /\ rd + n \in 0 .. Len(stream)
    BY <1>0, <1>1, ChunkType
  <2>2. n \in Nat /\ n >= 1
    BY <1>0, Basics
  <2>3. QED BY <1>0, <2>1, <2>2
<1>3. PICK l \in Nat : l = Len(opened)
  BY LineBasics
<1>4. PICK z : z = opened'
  OBVIOUS
<1>5. /\ Len(z) = l + 1 /\ z[l + 1] = rd + 1 /\ z # <<>>
      /\ \A i \in 1 .. l : z[i] = opened[i]
      /\ DOMAIN z = 1 .. l + 1
  <2>1. PICK r \in Nat : r = rd + 1
    BY <1>0
  <2>2. opened \in Seq(1 .. r) /\ r \in 1 .. r
    BY <1>0, <2>1, OpenedType
  <2>3. /\ z \in Seq(1 .. r) /\ Len(z) = l + 1 /\ z[l + 1] = r /\ z # <<>>
        /\ \A i \in 1 .. l : z[i] = opened[i]
    <3>1. z = Append(opened, r)
      BY <1>0, <1>4, <2>1
    <3>2. QED BY <1>3, <2>2, <3>1, AppendProperties
  <2>4. DOMAIN z = 1 .. l + 1
    BY <2>3, LenProperties
  <2>5. QED BY <2>1, <2>3, <2>4
<1>6. Alternate' /\ FirstOpens'
  BY <1>0, <1>4, <1>5 DEF LineInv, Alternate, FirstOpens
<1>7. \A i \in 1 .. l : /\ opened[i] \in Nat /\ opened[i] \in 1 .. rd
                        /\ stream[opened[i]] = Nul
  BY <1>3, LineBasics DEF LineInv, RecordsStayWhole, LinesAreRecords
<1>8. /\ \A i \in DOMAIN z : stream[z[i]] = Nul
      /\ \A i, j \in DOMAIN z : i < j => z[i] < z[j]
  <2>1. \A i \in 1 .. l : stream[z[i]] = Nul /\ z[i] \in Nat /\ z[i] < rd + 1
    <3> SUFFICES ASSUME NEW i \in 1 .. l
                 PROVE  stream[z[i]] = Nul /\ z[i] \in Nat /\ z[i] < rd + 1
      OBVIOUS
    <3>1. z[i] = opened[i]
      BY <1>5
    <3>2. stream[opened[i]] = Nul /\ opened[i] \in 1 .. rd
      BY <1>7
    <3>3. QED BY <1>0, <3>1, <3>2
  <2>2. stream[z[l + 1]] = Nul
    BY <1>1, <1>5
  <2>3. \A i \in 1 .. l + 1 : i \in 1 .. l \/ i = l + 1
    OBVIOUS
  <2>4. \A i \in DOMAIN z : stream[z[i]] = Nul
    BY <1>5, <2>1, <2>2, <2>3
  <2>5. ASSUME NEW i \in 1 .. l + 1, NEW j \in 1 .. l + 1, i < j PROVE z[i] < z[j]
    <3>1. i \in 1 .. l
      BY <2>5
    <3>2. CASE j = l + 1
      BY <1>5, <2>1, <3>1, <3>2
    <3>3. CASE j \in 1 .. l
      <4>1. opened[i] < opened[j]
        BY <1>3, <2>5, <3>1, <3>3, LineBasics
           DEF LineInv, RecordsStayWhole, LinesAreRecords
      <4>2. QED BY <1>5, <3>1, <3>3, <4>1
    <3>4. QED BY <2>3, <3>2, <3>3
  <2>6. QED BY <1>5, <2>4, <2>5
<1>9. printed' = [i \in 1 .. l |-> RecordAt(z[i])]
  <2>1. printed = [i \in 1 .. l - 1 |-> RecordAt(opened[i])]
    BY <1>3 DEF LineInv, RecordsStayWhole, LinesAreRecords
  <2>2. CASE opened = <<>>
    <3>1. data = <<>>
      BY <2>2 DEF LineInv, FirstOpens
    <3>2. printed' = printed /\ l = 0
      BY <1>0, <1>3, <2>2, <3>1 DEF Size
    <3>3. \A i \in 1 .. l : FALSE
      BY <3>2
    <3>4. 1 .. l = 1 .. l - 1
      BY <3>2
    <3>5. \A i \in 1 .. l : RecordAt(z[i]) = RecordAt(opened[i])
      BY <3>3
    <3>6. printed = [i \in 1 .. l |-> RecordAt(opened[i])]
      BY <2>1, <3>4
    <3>7. QED BY <3>2, <3>5, <3>6
  <2>3. CASE opened # <<>>
    <3>1. PICK p \in Nat : p = opened[l] /\ p \in 1 .. rd /\ l \in 1 .. l
      BY <1>3, <2>3, LineBasics
    <3>2. stream[p] = Nul
      BY <1>7, <3>1
    <3>3. data = SubSeq(stream, p + 1, rd)
      <4>1. data \o <<>> = SubSeq(stream, p + 1, rd)
        BY <1>0, <1>3, <2>3, <3>1
           DEF LineInv, RecordsStayWhole, BlockIsTheRest, Pending
      <4>2. QED BY <1>0, <4>1, ConcatEmptySeq
    <3>4. p < rd
      <4>1. p \in 1 .. Len(stream) - 1
        BY <1>0, <1>2, <3>1
      <4>2. stream[p + 1] # Nul
        BY <3>2, <4>1 DEF LineInv, Alternate
      <4>3. p # rd
        BY <1>1, <4>2
      <4>4. QED BY <1>0, <3>1, <4>3
    <3>5. Size > 0
      <4>1. \A i \in p + 1 .. rd : stream[i] \in Byte
        <5>1. \A i \in p + 1 .. rd : i \in 1 .. Len(stream)
          BY <1>0, <1>2
        <5>2. QED BY <1>0, <5>1, ElementOfSeq
      <4>2. Len(SubSeq(stream, p + 1, rd)) = rd - (p + 1) + 1
        BY <1>0, <3>4, <4>1, SubSeqProperties
      <4>3. QED BY <1>0, <3>3, <3>4, <4>2 DEF Size
    <3>6. PICK e \in p + 1 .. rd + 1 :
            stream[e] = Nul /\ \A i \in p + 1 .. e - 1 : stream[i] # Nul
      <4>1. rd + 1 \in Nat /\ p < rd + 1
        BY <1>0, <3>4
      <4>2. QED BY <1>1, <4>1, NextNul
    <3>7. /\ e \in Nat /\ p < e /\ e <= rd + 1 /\ e <= Len(stream) + 1
          /\ e <= Len(stream) /\ rd <= Len(stream)
      BY <1>0, <1>2, <3>6
    <3>8. /\ Printable(data) = SubSeq(stream, p + 1, e - 1)
          /\ RecordAt(p) = SubSeq(stream, p + 1, e - 1)
          /\ SubSeq(stream, p + 1, e - 1) \in Seq(Byte)
      <4>1. /\ Printable(SubSeq(stream, p + 1, rd)) = SubSeq(stream, p + 1, e - 1)
            /\ SubSeq(stream, p + 1, e - 1) \in Seq(Byte)
        <5>1. FirstNul(stream, p, e, rd)
          BY <1>0, <3>6, <3>7 DEF FirstNul
        <5>2. QED BY <5>1, PrintedUpTo
      <4>2. Printable(SubSeq(stream, p + 1, Len(stream))) = SubSeq(stream, p + 1, e - 1)
        <5>1. FirstNul(stream, p, e, Len(stream))
          BY <1>0, <3>6, <3>7, LenProperties DEF FirstNul
        <5>2. QED BY <5>1, PrintedUpTo
      <4>3. QED BY <3>3, <4>1, <4>2 DEF RecordAt
    <3>9. PICK f : f = [i \in 1 .. l |-> RecordAt(z[i])]
      OBVIOUS
    <3>10. PICK m \in Nat : m = l - 1 /\ m + 1 = l
      BY <3>1
    <3>11. f[m + 1] = Printable(data) /\ f[m + 1] \in Seq(Byte)
      <4>1. z[l] = p
        BY <1>5, <3>1
      <4>2. f[l] = RecordAt(p)
        BY <3>1, <3>9, <4>1
      <4>3. QED BY <3>8, <3>10, <4>2
    <3>12. printed = [i \in 1 .. m |-> f[i]]
      <4>1. ASSUME NEW i \in 1 .. m PROVE RecordAt(opened[i]) = f[i]
        <5>1. i \in 1 .. l
          BY <3>10
        <5>2. z[i] = opened[i] /\ f[i] = RecordAt(z[i])
          BY <1>5, <3>9, <5>1
        <5>3. QED BY <5>2
      <4>2. QED BY <2>1, <3>10, <4>1
    <3>13. Append(printed, f[m + 1]) = [i \in 1 .. m + 1 |-> f[i]]
      BY <1>0, <3>11, <3>12, LineAdded
    <3>14. [i \in 1 .. l |-> f[i]] = f
      BY <3>9
    <3>15. printed' = Append(printed, f[m + 1])
      BY <1>0, <3>5, <3>11
    <3>16. QED BY <3>9, <3>10, <3>13, <3>14, <3>15
  <2>4. QED BY <2>2, <2>3
<1>10. LinesAreRecords'
  <2>1. Len(z) - 1 = l
    BY <1>5
  <2>2. printed' = [i \in 1 .. Len(z) - 1 |-> RecordAt(z[i])]
    BY <1>9, <2>1
  <2>3. [i \in 1 .. Len(opened) - 1 |-> RecordAt(opened[i])]'
          = [i \in 1 .. Len(z) - 1 |-> RecordAt(z[i])]
    BY <1>0, <1>4 DEF RecordAt, Printable, IsCut
  <2>4. QED BY <1>0, <1>4, <1>8, <2>2, <2>3 DEF LinesAreRecords
<1>11. BlockIsTheRest'
  <2>1. data' \o Pending' = Tail(Chunk(n))
    <3>1. <<>> \in Seq(Byte)
      OBVIOUS
    <3>2. data' \o Pending' = <<>> \o Tail(Chunk(n))
      BY <1>0, <1>1, <1>2, <3>1, AppendToAdds
    <3>3. QED BY <1>2, <3>2, ConcatEmptySeq
  <2>2. Tail(Chunk(n)) = SubSeq(stream, (rd + 1) + 1, rd + n)
    <3>1. rd + n \in rd + 1 .. Len(stream)
      BY <1>0, <1>2
    <3>2. QED BY <1>0, <1>2, <3>1, HeadTailOfSubSeq DEF Chunk
  <2>3. z[Len(z)] = rd + 1
    BY <1>5
  <2>4. SubSeq(stream, z[Len(z)] + 1, rd + n) = data' \o Pending'
    BY <2>1, <2>2, <2>3
  <2>5. QED BY <1>0, <1>1, <1>4, <2>4 DEF BlockIsTheRest
<1>12. QED BY <1>6, <1>10, <1>11 DEF RecordsStayWhole

\* The block is replaced, and what was pending goes into it.
LEMMA GrownKeeps ==
  ASSUME LineInv, Grown
  PROVE  Alternate' /\ FirstOpens' /\ RecordsStayWhole'
<1>0. /\ data \in Seq(Byte) /\ buf \in Seq(Byte)
      /\ pc = "grow" /\ pc' = "receive" /\ data' = data \o buf
      /\ UNCHANGED <<stream, rd, buf, newsize, printed, opened>>
  BY LineBasics DEF Grown, history
<1>1. opened # <<>>
  BY <1>0 DEF LineInv, FirstOpens
<1>2. Alternate' /\ FirstOpens'
  BY <1>0, <1>1 DEF LineInv, Alternate, FirstOpens
<1>3. LinesAreRecords'
  BY <1>0, LinesStand DEF LineInv, RecordsStayWhole
<1>4. BlockIsTheRest'
  <2>1. data \o buf \in Seq(Byte)
    BY <1>0, ConcatProperties
  <2>2. data' \o Pending' = data \o Pending
    <3>1. Pending = buf /\ Pending' = <<>>
      BY <1>0 DEF Pending
    <3>2. (data \o buf) \o <<>> = data \o buf
      BY <2>1, ConcatEmptySeq
    <3>3. QED BY <1>0, <3>1, <3>2
  <2>3. data \o Pending = SubSeq(stream, opened[Len(opened)] + 1, rd)
    BY <1>1 DEF LineInv, RecordsStayWhole, BlockIsTheRest
  <2>4. QED BY <1>0, <2>2, <2>3 DEF BlockIsTheRest
<1>5. QED BY <1>2, <1>3, <1>4 DEF RecordsStayWhole

\* Whatever the relay writes and however it is cut into chunks: every line is one
\* record, from its first byte to its last, and these are the records whose Nul
\* began a chunk, once each and in order; and what waits in the block to be
\* printed is what came since the last of these Nuls, whatever it took to make
\* room for it.
THEOREM RecordsAlwaysWhole == Spec => []RecordsStayWhole
<1>1. Init => LineInv
  <2> SUFFICES ASSUME Init PROVE LineInv
    OBVIOUS
  <2>1. IInv
    <3>1. BufSize \in Nat /\ BufSize < U16 /\ U16 \in Nat /\ BufSize >= 2
      BY ConstantsAssumption
    <3>2. QED BY <3>1 DEF Init, IInv, TypeOK, BlockGrows, FitsBlock, Size
  <2>2. LinesAreRecords
    <3>1. printed = <<>> /\ opened = <<>> /\ Len(opened) = 0 /\ DOMAIN opened = {}
      BY DEF Init
    <3>2. \A i \in 1 .. Len(opened) - 1 : FALSE
      BY <3>1
    <3>3. printed = [i \in 1 .. Len(opened) - 1 |-> RecordAt(opened[i])]
      BY <3>1, <3>2
    <3>4. QED BY <3>1, <3>3 DEF LinesAreRecords
  <2>3. QED BY <2>1, <2>2 DEF Init, LineInv, Alternate, FirstOpens, RecordsStayWhole,
                              BlockIsTheRest
<1>2. LineInv /\ [Next]_vars => LineInv'
  <2> SUFFICES ASSUME LineInv, [Next]_vars PROVE LineInv'
    OBVIOUS
  <2>1. IInv'
    BY Step DEF LineInv
  <2>2. Alternate' /\ FirstOpens' /\ RecordsStayWhole'
    <3>1. CASE Device
      BY <3>1, RelayKeeps
    <3>2. CASE ReceiveMore
      BY <3>2, MoreKeeps
    <3>3. CASE ReceiveNext
      BY <3>3, NextKeeps
    <3>4. CASE Grown
      BY <3>4, GrownKeeps
    <3>5. ASSUME UNCHANGED <<stream, rd, buf, data, printed, opened>>,
                 pc' = "grow" <=> pc = "grow"
          PROVE  Alternate' /\ FirstOpens' /\ RecordsStayWhole'
      <4>1. Pending' = Pending
        BY <3>5 DEF Pending
      <4>2. LinesAreRecords'
        BY <3>5, LinesStand DEF LineInv, RecordsStayWhole
      <4>3. BlockIsTheRest'
        BY <3>5, <4>1 DEF LineInv, RecordsStayWhole, BlockIsTheRest
      <4>4. QED BY <3>5, <4>2, <4>3 DEF LineInv, Alternate, FirstOpens, RecordsStayWhole
    <3>6. CASE Double
      BY <3>5, <3>6 DEF Double, history
    <3>7. CASE ReceiveFails
      BY <3>5, <3>7 DEF ReceiveFails, history
    <3>8. CASE UNCHANGED vars
      BY <3>5, <3>8 DEF vars
    <3>9. QED BY <3>1, <3>2, <3>3, <3>4, <3>6, <3>7, <3>8 DEF Next, Program
  <2>3. QED BY <2>1, <2>2 DEF LineInv
<1>3. LineInv => RecordsStayWhole
  BY DEF LineInv
<1>4. QED BY <1>1, <1>2, <1>3, PTL DEF Spec
=============================================================================
