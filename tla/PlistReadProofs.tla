-------------------------- MODULE PlistReadProofs --------------------------
(***************************************************************************)
(* Theorems about PlistRead, for any blocks and any files, however the     *)
(* elements of their containers are shared.                                *)
(*                                                                         *)
(* The inductive invariant names the lists that the pointers of the heap   *)
(* make: L[d][s] is list s of object d.  As long as no object has two      *)
(* places in them, and one behind which another hangs has a place, linking *)
(* an object without a place behind the tail of a list makes that list one *)
(* longer and leaves the others alone.  The numbers taken as elements are  *)
(* what tells pass 2 that an object has no place yet.  The pointer array   *)
(* is followed by c[b], the pointers in the blocks before block b, so that *)
(* pointer i of block b is object c[b] + i.                                *)
(***************************************************************************)
EXTENDS PlistRead, SequenceTheorems, WellFoundedInduction, TLAPS

\* A set that has 0, and with a number the next one, has all numbers.
LEMMA EveryNumber ==
  ASSUME NEW S \in SUBSET Nat, 0 \in S, \A k \in S : k + 1 \in S
  PROVE  S = Nat
<1> SUFFICES ASSUME Nat \ S # {} PROVE FALSE
  OBVIOUS
<1>1. PICK x \in Nat \ S : \A y \in Nat \ S : ~(<<y, x>> \in OpToRel(<, Nat))
  <2>1. Nat \ S \subseteq Nat
    OBVIOUS
  <2>2. QED BY <2>1, NatLessThanWellFounded, WFMin
<1>2. x # 0 /\ x \in Nat
  OBVIOUS
<1>3. x - 1 \in Nat /\ x - 1 < x
  BY <1>2
<1>4. x - 1 \in S
  BY <1>1, <1>2, <1>3 DEF OpToRel
<1>5. QED BY <1>2, <1>3, <1>4

\* A set of numbers that is not empty has a least one.
LEMMA Least ==
  ASSUME NEW S \in SUBSET Nat, S # {}
  PROVE  \E m \in S : \A k \in S : m <= k
<1>1. PICK m \in S : \A y \in S : ~(<<y, m>> \in OpToRel(<, Nat))
  BY NatLessThanWellFounded, WFMin
<1>2. \A k \in S : m <= k
  <2> SUFFICES ASSUME NEW k \in S PROVE m <= k
    OBVIOUS
  <2>1. k \in Nat /\ m \in Nat
    OBVIOUS
  <2>2. ~(k < m)
    BY <1>1, <2>1 DEF OpToRel
  <2>3. QED BY <2>1, <2>2
<1>3. QED BY <1>2

\* One that ends somewhere has a greatest one.
LEMMA Greatest ==
  ASSUME NEW m \in Nat, NEW S \in SUBSET (0 .. m), S # {}
  PROVE  Largest(S) \in S /\ \A k \in S : k <= Largest(S)
<1> DEFINE T == {k \in Nat : \A j \in S : j <= k}
<1>1. m \in T /\ T \in SUBSET Nat
  OBVIOUS
<1>2. PICK g \in T : \A k \in T : g <= k
  BY <1>1, Least
<1>3. g \in Nat /\ \A j \in S : j <= g
  OBVIOUS
<1>4. g \in S
  <2> SUFFICES ASSUME g \notin S PROVE FALSE
    OBVIOUS
  <2>1. PICK x : x \in S
    OBVIOUS
  <2>2. x \in Nat /\ x < g
    BY <1>3, <2>1
  <2>3. g - 1 \in Nat /\ \A j \in S : j <= g - 1
    BY <1>3, <2>2
  <2>4. g - 1 \in T
    BY <2>3
  <2>5. QED BY <1>2, <1>3, <2>4
<1> HIDE DEF T
<1>5. \E x \in S : \A k \in S : k <= x
  BY <1>3, <1>4
<1>6. QED BY <1>5 DEF Largest

-----------------------------------------------------------------------------
(* The pointer array.                                                       *)

\* Blocks with the pointers to the objects 1 to m in order, c[b] of them before block b.
Counted(blocks, c, m) ==
  /\ Len(blocks) \in Nat \ {0} /\ blocks \in Seq(Seq(Nat)) /\ c[1] = 0
  /\ \A b \in 1 .. Len(blocks) :
       /\ c[b] \in Nat /\ Len(blocks[b]) \in 0 .. ChunkMax
       /\ \A i \in 1 .. Len(blocks[b]) : blocks[b][i] = c[b] + i
  /\ \A b \in 1 .. Len(blocks) : b # Len(blocks) => c[b + 1] = c[b] + Len(blocks[b]) /\ Len(blocks[b + 1]) > 0
  /\ m = c[Len(blocks)] + Len(blocks[Len(blocks)])

\* Iterating has come to object k.
Reached(blocks, c, it, k) ==
  /\ it = [block |-> it.block, pos |-> it.pos]
  /\ it.block \in 1 .. Len(blocks) /\ it.pos \in 0 .. Len(blocks[it.block])
  /\ k = c[it.block] + it.pos

\* No pointers are in one empty block.
LEMMA NoneCounted ==
  /\ Counted(<< <<>> >>, [b \in {1} |-> 0], 0)
  /\ Reached(<< <<>> >>, [b \in {1} |-> 0], [block |-> 1, pos |-> 0], 0)
<1> DEFINE one == << <<>> >>
<1>1. Len(one) = 1 /\ one[1] = <<>> /\ Len(one[1]) = 0 /\ one \in Seq(Seq(Nat))
  OBVIOUS
<1>2. [block |-> 1, pos |-> 0].block = 1 /\ [block |-> 1, pos |-> 0].pos = 0
  OBVIOUS
<1> HIDE DEF one
<1>3. Counted(one, [b \in {1} |-> 0], 0)
  BY <1>1, BlocksAssumption DEF Counted
<1>4. Reached(one, [b \in {1} |-> 0], [block |-> 1, pos |-> 0], 0)
  BY <1>1, <1>2 DEF Reached
<1>5. QED BY <1>3, <1>4 DEF one

\* The next pointer goes behind the last one.
LEMMA PushCounted ==
  ASSUME NEW blocks, NEW c, NEW m \in Nat, Counted(blocks, c, m)
  PROVE  \E d : Counted(PushLast(blocks, m + 1), d, m + 1)
<1>1. PICK last : last = Len(blocks) /\ last \in Nat \ {0}
  BY DEF Counted
<1>2. PICK full : full = blocks[last] /\ full \in Seq(Nat) /\ Len(full) \in 0 .. ChunkMax /\ m = c[last] + Len(full)
  BY <1>1 DEF Counted
<1>3. CASE Len(full) = ChunkMax
  <2> DEFINE more == Append(blocks, <<m + 1>>)
             d == [b \in 1 .. last + 1 |-> IF b <= last THEN c[b] ELSE m]
  <2>1. PushLast(blocks, m + 1) = more
    BY <1>1, <1>2, <1>3 DEF PushLast
  <2>2. /\ Len(more) = last + 1 /\ more \in Seq(Seq(Nat)) /\ more[last + 1] = <<m + 1>>
        /\ \A b \in 1 .. last : more[b] = blocks[b]
    BY <1>1 DEF Counted
  <2>3. d[last + 1] = m /\ \A b \in 1 .. last : d[b] = c[b]
    BY <1>1
  <2>4. <<m + 1>>[1] = m + 1 /\ Len(<<m + 1>>) = 1
    OBVIOUS
  <2> HIDE DEF more, d
  <2>5. ASSUME NEW b \in 1 .. last + 1
        PROVE  /\ d[b] \in Nat /\ Len(more[b]) \in 0 .. ChunkMax
               /\ \A i \in 1 .. Len(more[b]) : more[b][i] = d[b] + i
    <3>1. CASE b \in 1 .. last
      <4>1. more[b] = blocks[b] /\ d[b] = c[b] /\ b \in 1 .. Len(blocks)
        BY <1>1, <2>2, <2>3, <3>1
      <4>2. /\ c[b] \in Nat /\ Len(blocks[b]) \in 0 .. ChunkMax
            /\ \A i \in 1 .. Len(blocks[b]) : blocks[b][i] = c[b] + i
        BY <4>1 DEF Counted
      <4>3. QED BY <4>1, <4>2
    <3>2. CASE b = last + 1
      <4>1. more[b] = <<m + 1>> /\ d[b] = m /\ Len(more[b]) = 1 /\ more[b][1] = m + 1
        BY <2>2, <2>3, <2>4, <3>2
      <4>2. 1 \in 0 .. ChunkMax
        BY BlocksAssumption
      <4>3. \A i \in 1 .. 1 : i = 1
        OBVIOUS
      <4>4. QED BY <4>1, <4>2, <4>3
    <3>3. QED BY <1>1, <3>1, <3>2
  <2>6. ASSUME NEW b \in 1 .. last + 1, b # last + 1
        PROVE  d[b + 1] = d[b] + Len(more[b]) /\ Len(more[b + 1]) > 0
    <3>1. CASE b = last
      <4>1. d[b + 1] = m /\ d[b] = c[last] /\ more[b] = full /\ more[b + 1] = <<m + 1>>
        BY <1>1, <1>2, <2>2, <2>3, <3>1
      <4>2. Len(more[b + 1]) = 1
        BY <2>4, <4>1
      <4>3. QED BY <1>2, <4>1, <4>2
    <3>2. CASE b # last
      <4>1. b \in 1 .. last /\ b + 1 \in 1 .. last
        BY <1>1, <2>6, <3>2
      <4>2. QED BY <1>1, <2>2, <2>3, <3>2, <4>1 DEF Counted
    <3>3. QED BY <3>1, <3>2
  <2>7. d[1] = 0
    BY <1>1, <2>3 DEF Counted
  <2>8. m + 1 = d[last + 1] + Len(more[last + 1])
    BY <2>2, <2>3, <2>4
  <2>9. Counted(more, d, m + 1)
    BY <1>1, <2>2, <2>5, <2>6, <2>7, <2>8 DEF Counted
  <2>10. QED BY <2>1, <2>9
<1>4. CASE Len(full) # ChunkMax
  <2> DEFINE more == [blocks EXCEPT ![last] = Append(@, m + 1)]
  <2>1. PushLast(blocks, m + 1) = more
    BY <1>1, <1>2, <1>4 DEF PushLast
  <2>2. Append(full, m + 1) \in Seq(Nat) /\ Len(Append(full, m + 1)) = Len(full) + 1
    BY <1>2
  <2>3. Len(more) = last /\ more \in Seq(Seq(Nat)) /\ more[last] = Append(full, m + 1)
        /\ \A b \in 1 .. last : b # last => more[b] = blocks[b]
    BY <1>1, <1>2, <2>2 DEF Counted
  <2> HIDE DEF more
  <2>4. ASSUME NEW b \in 1 .. last
        PROVE  /\ c[b] \in Nat /\ Len(more[b]) \in 0 .. ChunkMax
               /\ \A i \in 1 .. Len(more[b]) : more[b][i] = c[b] + i
    <3>1. CASE b # last
      BY <1>1, <2>3, <3>1, ZenonT(40) DEF Counted
    <3>2. CASE b = last
      <4>1. c[b] \in Nat /\ Len(more[b]) = Len(full) + 1 /\ Len(full) + 1 <= ChunkMax
        BY <1>1, <1>2, <1>4, <2>2, <2>3, <3>2, BlocksAssumption DEF Counted
      <4>2. ASSUME NEW i \in 1 .. Len(full) + 1 PROVE more[b][i] = c[b] + i
        <5>1. CASE i = Len(full) + 1
          <6>1. more[b] = Append(full, m + 1) /\ c[b] = c[last]
            BY <2>3, <3>2
          <6>2. Append(full, m + 1)[Len(full) + 1] = m + 1
            BY <1>2
          <6>3. more[b][i] = m + 1
            BY <5>1, <6>1, <6>2
          <6>4. m = c[b] + Len(full) /\ Len(full) \in Nat /\ c[b] \in Nat
            BY <1>2, <4>1, <6>1
          <6>5. QED BY <5>1, <6>3, <6>4
        <5>2. CASE i # Len(full) + 1
          <6>1. i \in 1 .. Len(full) /\ more[b][i] = full[i]
            <7>1. more[b] = Append(full, m + 1) /\ i \in 1 .. Len(full)
              <8>1. Len(full) \in Nat
                BY <1>2
              <8>2. i \in 1 .. Len(full)
                BY <5>2, <8>1
              <8>3. QED BY <2>3, <3>2, <8>2
            <7>2. Append(full, m + 1)[i] = full[i]
              BY <1>2, <7>1
            <7>3. QED BY <7>1, <7>2
          <6>2. QED BY <1>1, <1>2, <3>2, <6>1 DEF Counted
        <5>3. QED BY <5>1, <5>2
      <4>3. QED BY <1>2, <4>1, <4>2, BlocksAssumption
    <3>3. QED BY <3>1, <3>2
  <2>5. ASSUME NEW b \in 1 .. last, b # last
        PROVE  c[b + 1] = c[b] + Len(more[b]) /\ Len(more[b + 1]) > 0
    <3>1. c[b + 1] = c[b] + Len(blocks[b]) /\ Len(blocks[b + 1]) > 0 /\ more[b] = blocks[b]
      BY <1>1, <2>3, <2>5 DEF Counted
    <3>2. /\ b + 1 \in 1 .. last
          /\ b + 1 = last => Len(more[b + 1]) = Len(full) + 1
          /\ b + 1 # last => more[b + 1] = blocks[b + 1]
      BY <1>1, <2>2, <2>3, <2>5
    <3>3. QED BY <1>2, <3>1, <3>2
  <2>6. m + 1 = c[last] + Len(more[last])
    <3>1. c[last] \in Nat
      BY <1>1 DEF Counted
    <3>2. QED BY <1>2, <2>2, <2>3, <3>1
  <2>7. c[1] = 0
    BY DEF Counted
  <2>8. Counted(more, c, m + 1)
    BY <1>1, <2>3, <2>4, <2>5, <2>6, <2>7 DEF Counted
  <2>9. QED BY <2>1, <2>8
<1>5. QED BY <1>3, <1>4

\* The pointer at a position is the one to the object of the next number.
LEMMA GetIs ==
  ASSUME NEW blocks, NEW c, NEW m \in Nat, Counted(blocks, c, m), NEW pos \in Nat, pos < m
  PROVE  ptrArr__get(blocks, pos) = pos + 1
<1> DEFINE IsLeft(f) == f = [b \in DOMAIN blocks |-> IF b = 1 THEN pos ELSE f[b - 1] - Len(blocks[b - 1])]
           w == [b \in DOMAIN blocks |-> pos - c[b]]
<1>1. PICK last : last = Len(blocks) /\ last \in Nat \ {0} /\ DOMAIN blocks = 1 .. last
  <2>1. Len(blocks) \in Nat \ {0} /\ blocks \in Seq(Seq(Nat))
    BY DEF Counted
  <2>2. DOMAIN blocks = 1 .. Len(blocks)
    BY <2>1
  <2>3. QED BY <2>1, <2>2
<1>2. /\ c[1] = 0 /\ m = c[last] + Len(blocks[last])
      /\ \A b \in 1 .. last :
           c[b] \in Nat /\ Len(blocks[b]) \in Nat /\ \A i \in 1 .. Len(blocks[b]) : blocks[b][i] = c[b] + i
  BY <1>1, BlocksAssumption DEF Counted
<1>3. \A b \in 1 .. last : b # last => c[b + 1] = c[b] + Len(blocks[b])
  BY <1>1 DEF Counted
<1>4. ASSUME NEW b \in 1 .. last, b # 1
      PROVE  c[b] = c[b - 1] + Len(blocks[b - 1]) /\ b - 1 \in 1 .. last
  <2>1. b - 1 \in 1 .. last /\ b - 1 # last /\ (b - 1) + 1 = b
    BY <1>1, <1>4
  <2>2. QED BY <1>3, <2>1
<1>5. IsLeft(w)
  <2>1. ASSUME NEW b \in 1 .. last
        PROVE  w[b] = IF b = 1 THEN pos ELSE w[b - 1] - Len(blocks[b - 1])
    <3>1. CASE b = 1
      BY <1>1, <1>2, <3>1
    <3>2. CASE b # 1
      <4>1. c[b] = c[b - 1] + Len(blocks[b - 1]) /\ b - 1 \in 1 .. last
        BY <1>4, <3>2
      <4>2. w[b] = pos - c[b] /\ w[b - 1] = pos - c[b - 1]
        BY <1>1, <4>1
      <4>3. c[b - 1] \in Nat /\ Len(blocks[b - 1]) \in Nat
        BY <1>2, <4>1
      <4>4. QED BY <3>2, <4>1, <4>2, <4>3
    <3>3. QED BY <3>1, <3>2
  <2>2. QED BY <1>1, <2>1
<1> DEFINE left == CHOOSE f : IsLeft(f)
<1>6. IsLeft(left)
  BY <1>5
<1> HIDE DEF w
<1>7. \A b \in 1 .. last : left[b] = pos - c[b]
  <2> DEFINE S == {k \in Nat : k + 1 <= last => left[k + 1] = pos - c[k + 1]}
  <2> HIDE DEF left
  <2>1. 0 \in S
    BY <1>1, <1>2, <1>6
  <2>2. ASSUME NEW k \in S PROVE k + 1 \in S
    <3> SUFFICES ASSUME (k + 1) + 1 <= last PROVE left[(k + 1) + 1] = pos - c[(k + 1) + 1]
      OBVIOUS
    <3>1. PICK b : b = (k + 1) + 1
      OBVIOUS
    <3>2. b \in 1 .. last /\ b # 1 /\ b - 1 = k + 1 /\ k \in Nat
      BY <1>1, <3>1
    <3>3. left[b] = left[b - 1] - Len(blocks[b - 1])
      BY <1>1, <1>6, <3>2
    <3>4. left[b - 1] = pos - c[b - 1]
      BY <1>1, <3>2
    <3>5. c[b] = c[b - 1] + Len(blocks[b - 1]) /\ c[b - 1] \in Nat /\ Len(blocks[b - 1]) \in Nat
      BY <1>2, <1>4, <3>2
    <3>6. QED BY <3>1, <3>3, <3>4, <3>5
  <2>3. S \in SUBSET Nat
    OBVIOUS
  <2> HIDE DEF S
  <2>4. S = Nat
    BY <2>1, <2>2, <2>3, EveryNumber
  <2> SUFFICES ASSUME NEW b \in 1 .. last PROVE left[b] = pos - c[b]
    OBVIOUS
  <2>5. b - 1 \in S /\ (b - 1) + 1 = b /\ b <= last
    BY <1>1, <2>4
  <2>6. QED BY <2>5 DEF S
<1> DEFINE Here(b) == left[b] < Len(blocks[b])
<1>8. PICK b \in 1 .. last : Here(b) /\ \A k \in 1 .. b - 1 : ~Here(k)
  <2> DEFINE T == {k \in 1 .. last : Here(k)}
  <2>1. last \in T
    <3>1. last \in 1 .. last /\ left[last] = pos - c[last] /\ c[last] \in Nat /\ Len(blocks[last]) \in Nat
      BY <1>1, <1>2, <1>7
    <3>2. left[last] < Len(blocks[last])
      BY <1>2, <3>1
    <3>3. QED BY <3>1, <3>2
  <2>2. T \in SUBSET Nat /\ T # {}
    <3>1. 1 .. last \subseteq Nat
      BY <1>1
    <3>2. QED BY <2>1, <3>1
  <2>3. PICK b \in T : \A k \in T : b <= k
    BY <2>2, Least
  <2>4. b \in 1 .. last /\ Here(b)
    OBVIOUS
  <2>5. \A k \in 1 .. b - 1 : k \in 1 .. last /\ ~(b <= k)
    BY <1>1, <2>4
  <2>6. \A k \in 1 .. b - 1 : ~Here(k)
    BY <2>3, <2>5
  <2>7. QED BY <2>4, <2>6
<1> DEFINE found == CHOOSE k \in 1 .. last : Here(k) /\ \A j \in 1 .. k - 1 : ~Here(j)
<1>9. found \in 1 .. last /\ Here(found) /\ \A k \in 1 .. found - 1 : ~Here(k)
  BY <1>8
<1>10. ptrArr__get(blocks, pos) = blocks[found][left[found] + 1]
  <2>1. \E k \in DOMAIN blocks : Here(k)
    BY <1>1, <1>8
  <2>2. QED BY <1>1, <2>1 DEF ptrArr__get
<1> HIDE DEF found, left
<1>11. /\ left[found] = pos - c[found] /\ c[found] \in Nat /\ Len(blocks[found]) \in Nat
       /\ left[found] < Len(blocks[found])
  BY <1>2, <1>7, <1>9
<1>12. left[found] >= 0
  <2>1. CASE found = 1
    BY <1>2, <1>11, <2>1
  <2>2. CASE found # 1
    <3>1. c[found] = c[found - 1] + Len(blocks[found - 1]) /\ found - 1 \in 1 .. last
      BY <1>4, <1>9, <2>2
    <3>2. ~Here(found - 1)
      BY <1>1, <1>9, <3>1
    <3>3. left[found - 1] = pos - c[found - 1] /\ c[found - 1] \in Nat /\ Len(blocks[found - 1]) \in Nat
      BY <1>2, <1>7, <3>1
    <3>4. QED BY <1>11, <3>1, <3>2, <3>3
  <2>3. QED BY <2>1, <2>2
<1>13. left[found] + 1 \in 1 .. Len(blocks[found])
  BY <1>11, <1>12
<1>14. blocks[found][left[found] + 1] = c[found] + (left[found] + 1)
  BY <1>2, <1>9, <1>13
<1>15. QED BY <1>10, <1>11, <1>14

\* Iterating gives the objects in order.
LEMMA IterIs ==
  ASSUME NEW blocks, NEW c, NEW m \in Nat, Counted(blocks, c, m),
         NEW it, NEW k \in Nat, Reached(blocks, c, it, k), k < m
  PROVE  /\ Reached(blocks, c, ptrArr__iter(blocks, it).it, k + 1)
         /\ ptrArr__iter(blocks, it).it.pos > 0
<1>1. PICK last : last = Len(blocks) /\ last \in Nat \ {0}
  BY DEF Counted
<1>2. PICK b, p : b = it.block /\ p = it.pos
  OBVIOUS
<1>3. it = [block |-> b, pos |-> p] /\ b \in 1 .. last /\ p \in 0 .. Len(blocks[b]) /\ k = c[b] + p
  BY <1>1, <1>2 DEF Reached
<1>4. c[b] \in Nat /\ Len(blocks[b]) \in Nat /\ p \in Nat /\ p <= Len(blocks[b])
  BY <1>1, <1>3, BlocksAssumption DEF Counted
<1>5. CASE p < Len(blocks[b])
  <2>1. ptrArr__iter(blocks, it).it = [block |-> b, pos |-> p + 1]
    BY <1>2, <1>3, <1>5 DEF ptrArr__iter
  <2>2. [block |-> b, pos |-> p + 1].block = b /\ [block |-> b, pos |-> p + 1].pos = p + 1
    OBVIOUS
  <2>3. p + 1 \in 0 .. Len(blocks[b]) /\ k + 1 = c[b] + (p + 1) /\ p + 1 > 0
    BY <1>3, <1>4, <1>5
  <2>4. QED BY <1>1, <1>3, <2>1, <2>2, <2>3 DEF Reached
<1>6. CASE p = Len(blocks[b])
  <2>1. b # last
    <3> SUFFICES ASSUME b = last PROVE FALSE
      OBVIOUS
    <3>1. m = c[b] + Len(blocks[b])
      BY <1>1 DEF Counted
    <3>2. QED BY <1>3, <1>4, <1>6, <3>1
  <2>2. ptrArr__iter(blocks, it).it = [block |-> b + 1, pos |-> 1]
    BY <1>1, <1>2, <1>4, <1>6, <2>1 DEF ptrArr__iter
  <2>3. [block |-> b + 1, pos |-> 1].block = b + 1 /\ [block |-> b + 1, pos |-> 1].pos = 1
    OBVIOUS
  <2>4. c[b + 1] = c[b] + Len(blocks[b]) /\ Len(blocks[b + 1]) > 0 /\ b + 1 \in 1 .. last
    BY <1>1, <1>3, <2>1 DEF Counted
  <2>5. Len(blocks[b + 1]) \in 0 .. ChunkMax
    BY <1>1, <2>4 DEF Counted
  <2>6. 1 \in 0 .. Len(blocks[b + 1]) /\ k + 1 = c[b + 1] + 1
    BY <1>3, <1>4, <1>6, <2>4, <2>5, BlocksAssumption
  <2>7. QED BY <1>1, <2>2, <2>3, <2>4, <2>6 DEF Reached
<1>7. QED BY <1>4, <1>5, <1>6

\* The object pass 2 is at.
LEMMA PlaceIs ==
  ASSUME NEW blocks, NEW c, NEW m \in Nat, Counted(blocks, c, m),
         NEW it, NEW k, Reached(blocks, c, it, k), it.pos > 0
  PROVE  blocks[it.block][it.pos] = k
<1>1. it.block \in 1 .. Len(blocks) /\ it.pos \in 0 .. Len(blocks[it.block]) /\ k = c[it.block] + it.pos
  BY DEF Reached
<1>2. it.pos \in 1 .. Len(blocks[it.block])
  <2>1. Len(blocks[it.block]) \in Nat
    BY <1>1, BlocksAssumption DEF Counted
  <2>2. QED BY <1>1, <2>1
<1>3. QED BY <1>1, <1>2 DEF Counted

-----------------------------------------------------------------------------
(* The heap and the lists in it.                                            *)

\* An object has every field, and a head and a tail for either side.
IsNode(x) ==
  x = [t |-> x.t, v |-> x.v, next |-> x.next, head |-> [s \in Sides |-> x.head[s]],
       tail |-> [s \in Sides |-> x.tail[s]], shift |-> x.shift]
IsHeap(h) == (\E S : h \in Seq(S)) /\ \A x \in 1 .. Len(h) : IsNode(h[x])

\* What a new object is.
LEMMA NodeIs ==
  ASSUME NEW t, NEW v
  PROVE  /\ IsNode(Node(t, v)) /\ Node(t, v).t = t /\ Node(t, v).v = v /\ Node(t, v).next = 0
         /\ \A s \in Sides : Node(t, v).head[s] = 0 /\ Node(t, v).tail[s] = 0
<1>1. /\ Node(t, v).t = t /\ Node(t, v).v = v /\ Node(t, v).next = 0 /\ Node(t, v).shift = 0
      /\ Node(t, v).head = NoObject /\ Node(t, v).tail = NoObject
      /\ Node(t, v) = [t |-> t, v |-> v, next |-> 0, head |-> NoObject, tail |-> NoObject, shift |-> 0]
  BY DEF Node
<1>2. NoObject = [s \in Sides |-> NoObject[s]] /\ \A s \in Sides : NoObject[s] = 0
  BY DEF NoObject
<1>3. QED BY <1>1, <1>2 DEF IsNode

\* An object with another field, and a heap with another object.
WithNext(x, o) == [x EXCEPT !.next = o]
WithHead(x, side, o) == [x EXCEPT !.head[side] = o]
WithTail(x, side, o) == [x EXCEPT !.tail[side] = o]
WithObject(h, d, y) == [h EXCEPT ![d] = y]
WithNew(h, y) == Append(h, y)

\* What an object is when its next one is set,
LEMMA NextSet ==
  ASSUME NEW x, IsNode(x), NEW o, NEW y, y = WithNext(x, o)
  PROVE  /\ IsNode(y) /\ y.t = x.t /\ y.v = x.v /\ y.next = o
         /\ y.head = x.head /\ y.tail = x.tail
<1>1. PICK t, v, e, a, b, w : x = [t |-> t, v |-> v, next |-> e, head |-> a, tail |-> b, shift |-> w]
  BY DEF IsNode
<1>2. y = [t |-> t, v |-> v, next |-> o, head |-> a, tail |-> b, shift |-> w]
  BY <1>1 DEF WithNext
<1>3. y.t = x.t /\ y.v = x.v /\ y.next = o /\ y.head = x.head /\ y.tail = x.tail /\ y.shift = x.shift
  BY <1>1, <1>2
<1>4. x.head = [s \in Sides |-> x.head[s]] /\ x.tail = [s \in Sides |-> x.tail[s]]
  BY DEF IsNode
<1>5. y = [t |-> y.t, v |-> y.v, next |-> y.next, head |-> y.head, tail |-> y.tail, shift |-> y.shift]
  BY <1>2
<1>6. QED BY <1>3, <1>4, <1>5 DEF IsNode

\* when one of its heads is,
LEMMA HeadSet ==
  ASSUME NEW x, IsNode(x), NEW side \in Sides, NEW o, NEW y, y = WithHead(x, side, o)
  PROVE  /\ IsNode(y) /\ y.t = x.t /\ y.v = x.v /\ y.next = x.next /\ y.tail = x.tail
         /\ y.head[side] = o /\ \A s \in Sides : s # side => y.head[s] = x.head[s]
<1>1. PICK t, v, e, a, b, w : x = [t |-> t, v |-> v, next |-> e, head |-> a, tail |-> b, shift |-> w]
  BY DEF IsNode
<1>2. PICK z : z = [a EXCEPT ![side] = o]
  OBVIOUS
<1>3. y = [t |-> t, v |-> v, next |-> e, head |-> z, tail |-> b, shift |-> w]
  BY <1>1, <1>2 DEF WithHead
<1>4. y.t = x.t /\ y.v = x.v /\ y.next = x.next /\ y.head = z /\ x.head = a /\ y.tail = x.tail /\ y.shift = x.shift
  BY <1>1, <1>3
<1>5. x.head = [s \in Sides |-> x.head[s]] /\ x.tail = [s \in Sides |-> x.tail[s]]
  BY DEF IsNode
<1>6. y = [t |-> y.t, v |-> y.v, next |-> y.next, head |-> y.head, tail |-> y.tail, shift |-> y.shift]
  BY <1>3
<1>7. y.head = [s \in Sides |-> y.head[s]] /\ y.head[side] = o /\ \A s \in Sides : s # side => y.head[s] = x.head[s]
  BY <1>2, <1>4, <1>5
<1>8. QED BY <1>4, <1>5, <1>6, <1>7 DEF IsNode

\* and when one of its tails is.
LEMMA TailSet ==
  ASSUME NEW x, IsNode(x), NEW side \in Sides, NEW o, NEW y, y = WithTail(x, side, o)
  PROVE  /\ IsNode(y) /\ y.t = x.t /\ y.v = x.v /\ y.next = x.next /\ y.head = x.head
         /\ y.tail[side] = o /\ \A s \in Sides : s # side => y.tail[s] = x.tail[s]
<1>1. PICK t, v, e, a, b, w : x = [t |-> t, v |-> v, next |-> e, head |-> a, tail |-> b, shift |-> w]
  BY DEF IsNode
<1>2. PICK z : z = [b EXCEPT ![side] = o]
  OBVIOUS
<1>3. y = [t |-> t, v |-> v, next |-> e, head |-> a, tail |-> z, shift |-> w]
  BY <1>1, <1>2 DEF WithTail
<1>4. y.t = x.t /\ y.v = x.v /\ y.next = x.next /\ y.tail = z /\ x.tail = b /\ y.head = x.head /\ y.shift = x.shift
  BY <1>1, <1>3
<1>5. x.head = [s \in Sides |-> x.head[s]] /\ x.tail = [s \in Sides |-> x.tail[s]]
  BY DEF IsNode
<1>6. y = [t |-> y.t, v |-> y.v, next |-> y.next, head |-> y.head, tail |-> y.tail, shift |-> y.shift]
  BY <1>3
<1>7. y.tail = [s \in Sides |-> y.tail[s]] /\ y.tail[side] = o /\ \A s \in Sides : s # side => y.tail[s] = x.tail[s]
  BY <1>2, <1>4, <1>5
<1>8. QED BY <1>4, <1>5, <1>6, <1>7 DEF IsNode

\* A heap in which an object was changed.
LEMMA ObjectSet ==
  ASSUME NEW h, IsHeap(h), NEW d \in 1 .. Len(h), NEW y, IsNode(y), NEW g, g = WithObject(h, d, y)
  PROVE  IsHeap(g) /\ Len(g) = Len(h) /\ g[d] = y /\ \A x \in 1 .. Len(h) : x # d => g[x] = h[x]
<1>1. PICK S : h \in Seq(S)
  BY DEF IsHeap
<1>2. h \in Seq(S \union {y})
  BY <1>1
<1>3. g \in Seq(S \union {y}) /\ Len(g) = Len(h) /\ g[d] = y /\ \A x \in 1 .. Len(h) : x # d => g[x] = h[x]
  BY <1>2 DEF WithObject
<1>4. \A x \in 1 .. Len(g) : IsNode(g[x])
  BY <1>3 DEF IsHeap
<1>5. QED BY <1>3, <1>4 DEF IsHeap

\* A heap that has one more object.
LEMMA ObjectAdded ==
  ASSUME NEW h, IsHeap(h), NEW y, IsNode(y), NEW g, g = WithNew(h, y)
  PROVE  IsHeap(g) /\ Len(g) = Len(h) + 1 /\ g[Len(h) + 1] = y /\ \A x \in 1 .. Len(h) : g[x] = h[x]
<1>1. PICK S : h \in Seq(S)
  BY DEF IsHeap
<1>2. h \in Seq(S \union {y})
  BY <1>1
<1>3. g \in Seq(S \union {y}) /\ Len(g) = Len(h) + 1 /\ g[Len(h) + 1] = y /\ \A x \in 1 .. Len(h) : g[x] = h[x]
  BY <1>2 DEF WithNew
<1>4. \A x \in 1 .. Len(g) : IsNode(g[x])
  <2>1. Len(h) \in Nat
    BY <1>1
  <2>2. \A x \in 1 .. Len(g) : x = Len(h) + 1 \/ x \in 1 .. Len(h)
    BY <1>3, <2>1
  <2>3. QED BY <1>3, <2>2 DEF IsHeap
<1>5. QED BY <1>3, <1>4 DEF IsHeap

\* What the heap is when an object is linked into a list.
LEMMA LinkIs ==
  ASSUME NEW h, IsHeap(h), NEW d \in 1 .. Len(h), NEW o, NEW side \in Sides,
         h[d].head[side] # 0 => h[d].tail[side] \in 1 .. Len(h),
         NEW g, g = Link(h, d, side, o)
  PROVE  /\ IsHeap(g) /\ Len(g) = Len(h)
         /\ \A x \in 1 .. Len(h) :
              /\ g[x].t = h[x].t /\ g[x].v = h[x].v
              /\ g[x].next = IF h[d].head[side] # 0 /\ x = h[d].tail[side] THEN o ELSE h[x].next
              /\ \A s \in Sides :
                   /\ g[x].head[s] = IF x = d /\ s = side /\ h[d].head[side] = 0 THEN o ELSE h[x].head[s]
                   /\ g[x].tail[s] = IF x = d /\ s = side THEN o ELSE h[x].tail[s]
<1> DEFINE T(k) == /\ IsHeap(k) /\ Len(k) = Len(h)
                   /\ \A x \in 1 .. Len(h) :
                        /\ k[x].t = h[x].t /\ k[x].v = h[x].v
                        /\ k[x].next = IF h[d].head[side] # 0 /\ x = h[d].tail[side] THEN o ELSE h[x].next
                        /\ k[x].tail = h[x].tail
                        /\ \A s \in Sides :
                             k[x].head[s] = IF x = d /\ s = side /\ h[d].head[side] = 0 THEN o ELSE h[x].head[s]
<1>1. PICK k : g = [k EXCEPT ![d].tail[side] = o]
               /\ k = IF h[d].head[side] = 0 THEN [h EXCEPT ![d].head[side] = o]
                                             ELSE [h EXCEPT ![h[d].tail[side]].next = o]
  BY DEF Link
<1>2. T(k)
  <2>1. CASE h[d].head[side] = 0
    <3>1. PICK y : y = WithHead(h[d], side, o) /\ k = WithObject(h, d, y)
      BY <1>1, <2>1 DEF WithHead, WithObject
    <3>2. IsNode(h[d])
      BY DEF IsHeap
    <3>3. /\ IsNode(y) /\ y.t = h[d].t /\ y.v = h[d].v /\ y.next = h[d].next /\ y.tail = h[d].tail
          /\ y.head[side] = o /\ \A s \in Sides : s # side => y.head[s] = h[d].head[s]
      BY <3>1, <3>2, HeadSet
    <3>4. IsHeap(k) /\ Len(k) = Len(h) /\ k[d] = y /\ \A x \in 1 .. Len(h) : x # d => k[x] = h[x]
      BY <3>1, <3>3, ObjectSet
    <3>5. QED BY <2>1, <3>3, <3>4
  <2>2. CASE h[d].head[side] # 0
    <3>1. PICK z \in 1 .. Len(h) : z = h[d].tail[side]
      BY <2>2
    <3>2. PICK y : y = WithNext(h[z], o) /\ k = WithObject(h, z, y)
      BY <1>1, <2>2, <3>1 DEF WithNext, WithObject
    <3>3. IsNode(h[z])
      BY DEF IsHeap
    <3>4. IsNode(y) /\ y.t = h[z].t /\ y.v = h[z].v /\ y.next = o /\ y.head = h[z].head /\ y.tail = h[z].tail
      BY <3>2, <3>3, NextSet
    <3>5. IsHeap(k) /\ Len(k) = Len(h) /\ k[z] = y /\ \A x \in 1 .. Len(h) : x # z => k[x] = h[x]
      BY <3>2, <3>4, ObjectSet
    <3>6. QED BY <2>2, <3>1, <3>4, <3>5
  <2>3. QED BY <2>1, <2>2
<1>3. /\ \E y : y = WithTail(k[d], side, o) /\ g = WithObject(k, d, y)
      /\ d \in 1 .. Len(k) /\ IsHeap(k)
  BY <1>1, <1>2 DEF WithTail, WithObject
<1> PICK y : y = WithTail(k[d], side, o) /\ g = WithObject(k, d, y)
  BY <1>3
<1>4. IsNode(k[d])
  BY <1>3 DEF IsHeap
<1>5. /\ IsNode(y) /\ y.t = k[d].t /\ y.v = k[d].v /\ y.next = k[d].next /\ y.head = k[d].head
      /\ y.tail[side] = o /\ \A s \in Sides : s # side => y.tail[s] = k[d].tail[s]
  BY <1>4, TailSet
<1>6. IsHeap(g) /\ Len(g) = Len(k) /\ g[d] = y /\ \A x \in 1 .. Len(k) : x # d => g[x] = k[x]
  BY <1>3, <1>5, ObjectSet
<1>7. QED BY <1>2, <1>5, <1>6

\* What it is when an object is made.
LEMMA NewIs ==
  ASSUME NEW h, IsHeap(h), NEW t, NEW v, NEW g, g = New(h, t, v).h
  PROVE  /\ Len(h) \in Nat /\ IsHeap(g) /\ Len(g) = Len(h) + 1 /\ New(h, t, v).r = Len(h) + 1
         /\ \A x \in 1 .. Len(h) : g[x] = h[x]
         /\ g[Len(h) + 1].t = t /\ g[Len(h) + 1].v = v /\ g[Len(h) + 1].next = 0
         /\ \A s \in Sides : g[Len(h) + 1].head[s] = 0
<1>1. New(h, t, v).r = Len(h) + 1 /\ \E y : y = Node(t, v) /\ g = WithNew(h, y)
  BY DEF New, WithNew
<1> PICK y : y = Node(t, v) /\ g = WithNew(h, y)
  BY <1>1
<1>2. Len(h) \in Nat
  BY DEF IsHeap
<1>3. IsHeap(g) /\ Len(g) = Len(h) + 1 /\ g[Len(h) + 1] = y /\ \A x \in 1 .. Len(h) : g[x] = h[x]
  <2>1. IsNode(y)
    BY NodeIs
  <2>2. QED BY <2>1, ObjectAdded
<1>4. QED BY <1>1, <1>2, <1>3, NodeIs

-----------------------------------------------------------------------------
(* The lists.                                                               *)

\* The pointers lead from the first object of the list s to the last.
Chained(h, s, first, last) ==
  /\ s \in Seq(1 .. Len(h)) /\ (s = <<>> => first = 0)
  /\ s # <<>> => first = s[1] /\ last = s[Len(s)] /\ h[s[Len(s)]].next = 0
  /\ \A i \in 1 .. Len(s) - 1 : h[s[i]].next = s[i + 1]

\* Object x is at place i of list s of d; it has a place in some list of L.
IsAt(h, L, x, d, s, i) == d \in 1 .. Len(h) /\ s \in Sides /\ i \in 1 .. Len(L[d][s]) /\ L[d][s][i] = x
Placed(h, L, x) == \E d, s, i : IsAt(h, L, x, d, s, i)

\* L are the lists of the heap, and no object has two places in them.
Threaded(h, L) ==
  /\ \A d \in 1 .. Len(h), s \in Sides : Chained(h, L[d][s], h[d].head[s], h[d].tail[s])
  /\ \A x, d, s, i, e, r, j :
       IsAt(h, L, x, d, s, i) /\ IsAt(h, L, x, e, r, j) => d = e /\ s = r /\ i = j
  /\ \A x \in 1 .. Len(h) : h[x].next # 0 => Placed(h, L, x)

\* The lists when object o comes to the end of one.
Longer(h, L, d, side, o) ==
  [x \in 1 .. Len(h) |-> [s \in Sides |-> IF x = d /\ s = side THEN Append(L[d][side], o) ELSE L[x][s]]]

\* The list that starts with the head of an object is the one L says.
LEMMA ListIs ==
  ASSUME NEW h, IsHeap(h), NEW L, Threaded(h, L), NEW d \in 1 .. Len(h), NEW side \in Sides
  PROVE  List(h, h[d].head[side]) = L[d][side]
<1> DEFINE Cat(x, q) == <<x>> \o q
           IsFrom(f) == f = [x \in 0 .. Len(h) |-> IF x = 0 THEN <<>> ELSE Cat(x, f[h[x].next])]
           Rest(a, s, i) == SubSeq(L[a][s], i, Len(L[a][s]))
           At(x, a, s, i) == IsAt(h, L, x, a, s, i)
           Tells(x, q) == \/ x = 0 /\ q = <<>>
                          \/ x # 0 /\ ~Placed(h, L, x) /\ q = <<x>>
                          \/ \E a, s, i : At(x, a, s, i) /\ q = Rest(a, s, i)
           w == [x \in 0 .. Len(h) |-> CHOOSE q : Tells(x, q)]
<1>1. Len(h) \in Nat
  BY DEF IsHeap
<1>2. \A a \in 1 .. Len(h), s \in Sides :
        /\ L[a][s] \in Seq(1 .. Len(h)) /\ Len(L[a][s]) \in Nat
        /\ L[a][s] = <<>> => h[a].head[s] = 0
        /\ L[a][s] # <<>> => h[a].head[s] = L[a][s][1] /\ h[L[a][s][Len(L[a][s])]].next = 0
        /\ \A i \in 1 .. Len(L[a][s]) - 1 : h[L[a][s][i]].next = L[a][s][i + 1]
  BY DEF Threaded, Chained
<1>3. \A x, a, s, i : At(x, a, s, i) => x \in 1 .. Len(h)
  BY <1>2, SMTT(30) DEF IsAt
<1>4. \A x, a, s, i, b, r, j : At(x, a, s, i) /\ At(x, b, r, j) => a = b /\ s = r /\ i = j
  BY DEF Threaded
<1>5. \A x \in 1 .. Len(h) : Placed(h, L, x) <=> \E a, s, i : At(x, a, s, i)
  BY DEF Placed
<1>6. \A x \in 1 .. Len(h) : ~Placed(h, L, x) => h[x].next = 0
  BY DEF Threaded
<1>7. ASSUME NEW x, NEW a, NEW s, NEW i, At(x, a, s, i)
      PROVE  Rest(a, s, i) = Cat(x, Rest(a, s, i + 1))
  <2>1. L[a][s] \in Seq(1 .. Len(h)) /\ i \in 1 .. Len(L[a][s]) /\ Len(L[a][s]) \in Nat
    BY <1>2, <1>7 DEF IsAt
  <2>2. Len(L[a][s]) \in i .. Len(L[a][s])
    BY <2>1
  <2>3. Rest(a, s, i) = <<L[a][s][i]>> \o Rest(a, s, i + 1)
    BY <2>1, <2>2, SubSeqRecursiveFirst
  <2>4. QED BY <1>7, <2>3 DEF IsAt
<1>8. ASSUME NEW x, NEW a, NEW s, NEW i, At(x, a, s, i)
      PROVE  \/ h[x].next = 0 /\ Rest(a, s, i + 1) = <<>>
             \/ At(h[x].next, a, s, i + 1)
  <2>1. i \in 1 .. Len(L[a][s]) /\ Len(L[a][s]) \in Nat
    BY <1>2, <1>8 DEF IsAt
  <2>2. CASE i = Len(L[a][s])
    <3>1. L[a][s] # <<>>
      BY <2>1
    <3>2. h[x].next = 0
      BY <1>2, <1>8, <2>2, <3>1 DEF IsAt
    <3>3. Rest(a, s, i + 1) = <<>>
      BY <2>1, <2>2, SubSeqEmpty
    <3>4. QED BY <3>2, <3>3
  <2>3. CASE i # Len(L[a][s])
    <3>1. i \in 1 .. Len(L[a][s]) - 1 /\ i + 1 \in 1 .. Len(L[a][s])
      BY <2>1, <2>3
    <3>2. h[x].next = L[a][s][i + 1]
      BY <1>2, <1>8, <3>1 DEF IsAt
    <3>3. QED BY <1>8, <3>1, <3>2 DEF IsAt
  <2>4. QED BY <2>2, <2>3
<1> HIDE DEF Rest, At, Cat
<1>9. \A x \in 0 .. Len(h) : \E q : Tells(x, q)
  <2> SUFFICES ASSUME NEW x \in 0 .. Len(h) PROVE \E q : Tells(x, q)
    OBVIOUS
  <2>1. CASE x = 0
    BY <2>1
  <2>2. CASE x # 0
    <3>1. x \in 1 .. Len(h)
      BY <1>1, <2>2
    <3>2. QED BY <1>5, <2>2, <3>1
  <2>3. QED BY <2>1, <2>2
<1>10. \A x, q, u : Tells(x, q) /\ Tells(x, u) => q = u
  <2>1. \A a, s, i : ~At(0, a, s, i)
    BY <1>1, <1>3
  <2>2. \A x, a, s, i : At(x, a, s, i) => Placed(h, L, x)
    BY <1>3, <1>5
  <2>3. QED BY <1>4, <2>1, <2>2
<1> HIDE DEF Tells
<1>11. ASSUME NEW x \in 1 .. Len(h), NEW q, Tells(x, q), NEW u, Tells(h[x].next, u)
       PROVE  q = Cat(x, u) /\ h[x].next \in 0 .. Len(h)
  <2>1. \/ ~Placed(h, L, x) /\ q = <<x>>
        \/ \E a, s, i : At(x, a, s, i) /\ q = Rest(a, s, i)
    BY <1>1, <1>11 DEF Tells
  <2>2. CASE ~Placed(h, L, x) /\ q = <<x>>
    <3>1. h[x].next = 0
      BY <1>6, <2>2
    <3>2. Tells(h[x].next, <<>>)
      BY <3>1 DEF Tells
    <3>3. u = <<>>
      BY <1>10, <1>11, <3>2
    <3>4. Cat(x, <<>>) = <<x>>
      BY ConcatEmptySeq DEF Cat
    <3>5. QED BY <1>1, <2>2, <3>1, <3>3, <3>4
  <2>3. CASE \E a, s, i : At(x, a, s, i) /\ q = Rest(a, s, i)
    <3>1. PICK a, s, i : At(x, a, s, i) /\ q = Rest(a, s, i)
      BY <2>3
    <3>2. q = Cat(x, Rest(a, s, i + 1))
      BY <1>7, <3>1
    <3>3. Tells(h[x].next, Rest(a, s, i + 1)) /\ h[x].next \in 0 .. Len(h)
      BY <1>1, <1>3, <1>8, <3>1 DEF Tells
    <3>4. u = Rest(a, s, i + 1)
      BY <1>10, <1>11, <3>3
    <3>5. QED BY <3>2, <3>3, <3>4
  <2>4. QED BY <2>1, <2>2, <2>3
<1>12. \A x \in 1 .. Len(h) : h[x].next \in 0 .. Len(h)
  <2>1. \A x \in 1 .. Len(h) : \A a, s, i : At(x, a, s, i) => h[x].next = 0 \/ h[x].next \in 1 .. Len(h)
    BY <1>3, <1>8
  <2>2. QED BY <1>1, <1>5, <1>6, <2>1
<1>13. IsFrom(w)
  <2> DEFINE T(x) == CHOOSE q : Tells(x, q)
  <2>1. \A x \in 0 .. Len(h) : Tells(x, T(x))
    BY <1>9
  <2> HIDE DEF T
  <2>2. Tells(0, <<>>) /\ 0 \in 0 .. Len(h)
    BY <1>1 DEF Tells
  <2>3. T(0) = <<>>
    BY <1>10, <2>1, <2>2
  <2>4. ASSUME NEW x \in 0 .. Len(h), x # 0
        PROVE  T(x) = Cat(x, T(h[x].next)) /\ h[x].next \in 0 .. Len(h)
    <3>1. x \in 1 .. Len(h)
      BY <1>1, <2>4
    <3>2. h[x].next \in 0 .. Len(h)
      BY <1>12, <3>1
    <3>3. QED BY <1>11, <2>1, <3>1, <3>2
  <2>5. w = [x \in 0 .. Len(h) |-> T(x)]
    BY DEF T
  <2> HIDE DEF w
  <2>6. QED BY <2>3, <2>4, <2>5
<1> DEFINE from == CHOOSE f : IsFrom(f)
<1>14. IsFrom(from)
  BY <1>13
<1>15. List(h, h[d].head[side]) = from[h[d].head[side]]
  BY DEF List, Cat
<1> HIDE DEF from, w
<1> DEFINE l == L[d][side]
           S == {k \in Nat : k < Len(l) => from[l[Len(l) - k]] = Rest(d, side, Len(l) - k)}
<1>16. l \in Seq(1 .. Len(h)) /\ Len(l) \in Nat
  BY <1>2
<1>17. \A i \in 1 .. Len(l) : At(l[i], d, side, i)
  BY <1>16 DEF At, IsAt
<1>18. from[0] = <<>> /\ \A x \in 1 .. Len(h) : from[x] = Cat(x, from[h[x].next])
  <2>1. \A x \in 0 .. Len(h) : from[x] = IF x = 0 THEN <<>> ELSE Cat(x, from[h[x].next])
    BY <1>14
  <2>2. 0 \in 0 .. Len(h) /\ \A x \in 1 .. Len(h) : x # 0 /\ x \in 0 .. Len(h)
    BY <1>1
  <2>3. QED BY <2>1, <2>2
<1> HIDE DEF l
<1>19. S = Nat
  <2>1. 0 \in S
    <3> SUFFICES ASSUME 0 < Len(l) PROVE from[l[Len(l)]] = Rest(d, side, Len(l))
      BY <1>16
    <3>1. At(l[Len(l)], d, side, Len(l)) /\ ~At(h[l[Len(l)]].next, d, side, Len(l) + 1)
      BY <1>16, <1>17 DEF At, IsAt, l
    <3>2. h[l[Len(l)]].next = 0 /\ Rest(d, side, Len(l) + 1) = <<>>
      BY <1>8, <3>1
    <3>3. QED BY <1>3, <1>7, <1>18, <3>1, <3>2
  <2>2. ASSUME NEW k \in S PROVE k + 1 \in S
    <3> SUFFICES ASSUME k + 1 < Len(l)
                 PROVE  from[l[Len(l) - (k + 1)]] = Rest(d, side, Len(l) - (k + 1))
      OBVIOUS
    <3>1. PICK i : i = Len(l) - (k + 1)
      OBVIOUS
    <3>2. i \in 1 .. Len(l) /\ i + 1 \in 1 .. Len(l) /\ i + 1 = Len(l) - k /\ i # Len(l)
      BY <1>16, <3>1
    <3>3. At(l[i], d, side, i) /\ At(l[i + 1], d, side, i + 1)
      BY <1>17, <3>2
    <3>4. h[l[i]].next = l[i + 1]
      <4>1. i \in 1 .. Len(l) - 1
        BY <1>16, <3>2
      <4>2. QED BY <1>2, <4>1 DEF l
    <3>5. from[l[i + 1]] = Rest(d, side, i + 1)
      BY <1>16, <3>2
    <3>6. QED BY <1>3, <1>7, <1>18, <3>1, <3>3, <3>4, <3>5, SMTT(30)
  <2>3. S \in SUBSET Nat
    OBVIOUS
  <2> HIDE DEF S
  <2>4. QED BY <2>1, <2>2, <2>3, EveryNumber
<1>20. CASE l = <<>>
  BY <1>2, <1>15, <1>18, <1>20 DEF l
<1>21. CASE l # <<>>
  <2>1. Len(l) > 0
    BY <1>16, <1>21
  <2>2. Len(l) - 1 \in Nat /\ Len(l) - 1 < Len(l) /\ Len(l) - (Len(l) - 1) = 1
    BY <1>16, <2>1
  <2>3. from[l[1]] = Rest(d, side, 1)
    <3>1. Len(l) - 1 \in S
      BY <1>19, <2>2
    <3>2. QED BY <2>2, <3>1
  <2>4. Rest(d, side, 1) = l
    BY <1>16, SubSeqFull DEF Rest, l
  <2>5. h[d].head[side] = l[1]
    BY <1>2, <1>21 DEF l
  <2>6. QED BY <1>15, <2>3, <2>4, <2>5 DEF l
<1>22. QED BY <1>20, <1>21

\* Where the lists and their places are in a threaded heap.
LEMMA ThreadedIs ==
  ASSUME NEW h, IsHeap(h), NEW L, Threaded(h, L), NEW d \in 1 .. Len(h), NEW s \in Sides
  PROVE  /\ L[d][s] \in Seq(1 .. Len(h)) /\ Len(L[d][s]) \in Nat
         /\ h[d].head[s] = 0 <=> L[d][s] = <<>>
         /\ L[d][s] # <<>> =>
              /\ Len(L[d][s]) \in 1 .. Len(L[d][s])
              /\ h[d].head[s] = L[d][s][1] /\ h[d].tail[s] = L[d][s][Len(L[d][s])]
              /\ h[d].tail[s] \in 1 .. Len(h) /\ h[h[d].tail[s]].next = 0
         /\ \A i \in 1 .. Len(L[d][s]) : L[d][s][i] \in 1 .. Len(h) /\ Placed(h, L, L[d][s][i])
<1>1. Chained(h, L[d][s], h[d].head[s], h[d].tail[s])
  BY DEF Threaded
<1>2. L[d][s] \in Seq(1 .. Len(h)) /\ Len(L[d][s]) \in Nat
  BY <1>1 DEF Chained
<1>3. \A i \in 1 .. Len(L[d][s]) : L[d][s][i] \in 1 .. Len(h) /\ Placed(h, L, L[d][s][i])
  <2>1. \A i \in 1 .. Len(L[d][s]) : IsAt(h, L, L[d][s][i], d, s, i)
    BY DEF IsAt
  <2>2. QED BY <1>2, <2>1 DEF Placed
<1>4. CASE L[d][s] = <<>>
  BY <1>1, <1>2, <1>3, <1>4 DEF Chained
<1>5. CASE L[d][s] # <<>>
  <2>1. Len(L[d][s]) \in 1 .. Len(L[d][s]) /\ 1 \in 1 .. Len(L[d][s])
    BY <1>2, <1>5
  <2>2. /\ h[d].head[s] = L[d][s][1] /\ h[d].tail[s] = L[d][s][Len(L[d][s])]
        /\ h[L[d][s][Len(L[d][s])]].next = 0
    BY <1>1, <1>5 DEF Chained
  <2>3. h[d].head[s] # 0 /\ h[d].tail[s] \in 1 .. Len(h)
    <3>1. Len(h) \in Nat
      BY DEF IsHeap
    <3>2. QED BY <1>3, <2>1, <2>2, <3>1
  <2>4. QED BY <1>2, <1>3, <1>5, <2>1, <2>2, <2>3
<1>6. QED BY <1>4, <1>5

\* Linking an object that has no place makes one list longer, and no other shorter.
LEMMA LinkThreads ==
  ASSUME NEW h, IsHeap(h), NEW L, Threaded(h, L), NEW d \in 1 .. Len(h), NEW side \in Sides,
         NEW o \in 1 .. Len(h), ~Placed(h, L, o),
         NEW g, g = Link(h, d, side, o), NEW M, M = Longer(h, L, d, side, o)
  PROVE  /\ IsHeap(g) /\ Len(g) = Len(h) /\ Threaded(g, M)
         /\ \A x \in 1 .. Len(h) : g[x].t = h[x].t /\ g[x].v = h[x].v
         /\ \A x : Placed(g, M, x) <=> Placed(h, L, x) \/ x = o
         /\ M[d][side] = Append(L[d][side], o)
         /\ \A x \in 1 .. Len(h), s \in Sides : ~(x = d /\ s = side) => M[x][s] = L[x][s]
<1> DEFINE l == L[d][side]
           m == M[d][side]
           end == h[d].tail[side]
           InL(x, a, s, i) == IsAt(h, L, x, a, s, i)
           InM(x, a, s, i) == IsAt(g, M, x, a, s, i)
           Here(x, a, s, i) == x = o /\ a = d /\ s = side /\ i = Len(l) + 1
<1>1. /\ l \in Seq(1 .. Len(h)) /\ Len(l) \in Nat /\ (h[d].head[side] = 0 <=> l = <<>>)
      /\ l # <<>> => /\ Len(l) \in 1 .. Len(l) /\ end = l[Len(l)] /\ end \in 1 .. Len(h)
                     /\ h[d].head[side] = l[1]
  BY ThreadedIs, SMTT(30)
<1>2. m = Append(l, o) /\ \A x \in 1 .. Len(h), s \in Sides : ~(x = d /\ s = side) => M[x][s] = L[x][s]
  BY DEF Longer
<1>3. /\ IsHeap(g) /\ Len(g) = Len(h)
      /\ \A x \in 1 .. Len(h) :
           /\ g[x].t = h[x].t /\ g[x].v = h[x].v
           /\ g[x].next = IF l # <<>> /\ x = end THEN o ELSE h[x].next
           /\ \A s \in Sides :
                /\ g[x].head[s] = IF x = d /\ s = side /\ l = <<>> THEN o ELSE h[x].head[s]
                /\ g[x].tail[s] = IF x = d /\ s = side THEN o ELSE h[x].tail[s]
  BY <1>1, LinkIs
<1>4. /\ m \in Seq(1 .. Len(h)) /\ Len(m) = Len(l) + 1 /\ m[Len(l) + 1] = o /\ m # <<>>
      /\ \A i \in 1 .. Len(l) : m[i] = l[i]
  BY <1>1, <1>2
<1>5. /\ \A x, a, s, i, b, r, j : InL(x, a, s, i) /\ InL(x, b, r, j) => a = b /\ s = r /\ i = j
      /\ \A x \in 1 .. Len(h) : h[x].next # 0 => Placed(h, L, x)
      /\ \A x, a, s, i : InL(x, a, s, i) => x # o
      /\ \A x : Placed(h, L, x) <=> \E a, s, i : InL(x, a, s, i)
      /\ \A x : Placed(g, M, x) <=> \E a, s, i : InM(x, a, s, i)
  BY DEF Threaded, Placed
<1>6. l # <<>> => InL(end, d, side, Len(l))
  BY <1>1 DEF IsAt
<1>7. h[o].next = 0 /\ (l # <<>> => o # end) /\ g[o].next = 0
  <2>1. h[o].next = 0
    BY <1>5
  <2>2. l # <<>> => o # end
    BY <1>5, <1>6
  <2>3. QED BY <1>3, <2>1, <2>2
<1>8. \A x, a, s, i : InL(x, a, s, i) /\ l # <<>> /\ x = end => a = d /\ s = side /\ i = Len(l)
  BY <1>5, <1>6
<1> HIDE DEF l, m, end
<1>9. ASSUME NEW x \in 1 .. Len(h), NEW s \in Sides
      PROVE  Chained(g, M[x][s], g[x].head[s], g[x].tail[s])
  <2>1. CASE x = d /\ s = side
    <3>1. g[x].head[s] = m[1] /\ g[x].tail[s] = m[Len(m)] /\ g[m[Len(m)]].next = 0
      <4>1. CASE l = <<>>
        <5>1. Len(l) = 0
          BY <4>1
        <5>2. QED BY <1>3, <1>4, <1>7, <2>1, <4>1, <5>1
      <4>2. CASE l # <<>>
        <5>1. 1 \in 1 .. Len(l)
          BY <1>1, <4>2
        <5>2. QED BY <1>1, <1>3, <1>4, <1>7, <2>1, <4>2, <5>1
      <4>3. QED BY <4>1, <4>2
    <3>2. ASSUME NEW i \in 1 .. Len(m) - 1 PROVE g[m[i]].next = m[i + 1]
      <4>1. i \in 1 .. Len(l) /\ m[i] = l[i] /\ l # <<>> /\ l[i] \in 1 .. Len(h)
        <5>1. i \in 1 .. Len(l)
          BY <1>1, <1>4
        <5>2. l # <<>> /\ l[i] \in 1 .. Len(h)
          BY <1>1, <5>1
        <5>3. QED BY <1>4, <5>1, <5>2
      <4>2. CASE i = Len(l)
        BY <1>1, <1>3, <1>4, <4>1, <4>2
      <4>3. CASE i # Len(l)
        <5>1. InL(l[i], d, side, i)
          BY <4>1 DEF IsAt, l
        <5>2. l[i] # end
          BY <1>8, <4>1, <4>3, <5>1
        <5>3. i \in 1 .. Len(l) - 1 /\ i + 1 \in 1 .. Len(l)
          BY <1>1, <4>1, <4>3
        <5>4. h[l[i]].next = l[i + 1]
          BY <5>3 DEF Threaded, Chained, l
        <5>5. QED BY <1>3, <1>4, <4>1, <5>2, <5>3, <5>4, SMTT(30)
      <4>4. QED BY <4>2, <4>3
    <3>3. M[x][s] = m
      BY <2>1 DEF m
    <3>4. QED BY <1>3, <1>4, <3>1, <3>2, <3>3 DEF Chained
  <2>2. CASE ~(x = d /\ s = side)
    <3>1. L[x][s] = M[x][s] /\ Chained(h, L[x][s], h[x].head[s], h[x].tail[s])
      BY <1>2, <2>2 DEF Threaded
    <3>2. PICK q : q = L[x][s]
      OBVIOUS
    <3>3. q = M[x][s] /\ Chained(h, q, h[x].head[s], h[x].tail[s])
      BY <3>1, <3>2
    <3>4. ASSUME NEW i \in 1 .. Len(q) PROVE q[i] \in 1 .. Len(h) /\ g[q[i]].next = h[q[i]].next
      <4>1. InL(q[i], x, s, i)
        BY <3>2 DEF IsAt
      <4>2. ~(l # <<>> /\ q[i] = end)
        BY <1>8, <2>2, <4>1
      <4>3. q[i] \in 1 .. Len(h)
        BY <3>3, SMTT(30) DEF Chained
      <4>4. QED BY <1>3, <4>2, <4>3
    <3>5. g[x].head[s] = h[x].head[s] /\ g[x].tail[s] = h[x].tail[s]
      BY <1>3, <2>2
    <3>6. Len(q) \in Nat /\ q \in Seq(1 .. Len(g))
      BY <1>3, <3>3 DEF Chained
    <3>7. (q # <<>> => Len(q) \in 1 .. Len(q)) /\ \A i \in 1 .. Len(q) - 1 : i \in 1 .. Len(q)
      BY <3>6
    <3>8. Chained(g, q, g[x].head[s], g[x].tail[s])
      BY <3>3, <3>4, <3>5, <3>6, <3>7, SMTT(30) DEF Chained
    <3>9. QED BY <3>3, <3>8
  <2>3. QED BY <2>1, <2>2
<1>10. \A x, a, s, i : InM(x, a, s, i) <=> InL(x, a, s, i) \/ Here(x, a, s, i)
  <2> SUFFICES ASSUME NEW x, NEW a, NEW s, NEW i
               PROVE  InM(x, a, s, i) <=> InL(x, a, s, i) \/ Here(x, a, s, i)
    OBVIOUS
  <2>1. CASE a = d /\ s = side
    <3>1. i \in 1 .. Len(m) <=> i \in 1 .. Len(l) \/ i = Len(l) + 1
      BY <1>1, <1>4
    <3>2. ~(i \in 1 .. Len(l) /\ i = Len(l) + 1)
      BY <1>1
    <3>3. InM(x, a, s, i) <=> i \in 1 .. Len(m) /\ m[i] = x
      BY <1>3, <2>1 DEF IsAt, m
    <3>4. InL(x, a, s, i) <=> i \in 1 .. Len(l) /\ l[i] = x
      BY <2>1 DEF IsAt, l
    <3>5. QED BY <1>4, <2>1, <3>1, <3>2, <3>3, <3>4
  <2>2. CASE ~(a = d /\ s = side)
    BY <1>2, <1>3, <2>2 DEF IsAt
  <2>3. QED BY <2>1, <2>2
<1>11. Here(o, d, side, Len(l) + 1)
  OBVIOUS
<1>12. \A x, a, s, i, b, r, j : Here(x, a, s, i) /\ Here(x, b, r, j) => a = b /\ s = r /\ i = j
  OBVIOUS
<1>13. \A x, a, s, i : Here(x, a, s, i) => x = o
  OBVIOUS
<1> HIDE DEF InL, InM, Here
<1>14. \A x : Placed(g, M, x) <=> Placed(h, L, x) \/ x = o
  BY <1>5, <1>10, <1>11, <1>13
<1>15. \A x, a, s, i, b, r, j : InM(x, a, s, i) /\ InM(x, b, r, j) => a = b /\ s = r /\ i = j
  BY <1>5, <1>10, <1>12, <1>13
<1>16. \A x \in 1 .. Len(h) : g[x].next # 0 => Placed(g, M, x)
  <2>1. \A x \in 1 .. Len(h) : g[x].next # 0 => h[x].next # 0 \/ (l # <<>> /\ x = end)
    BY <1>3
  <2>2. l # <<>> => Placed(h, L, end)
    BY <1>5, <1>6
  <2>3. QED BY <1>5, <1>14, <2>1, <2>2
<1>17. Threaded(g, M)
  BY <1>3, <1>9, <1>15, <1>16 DEF Threaded, InM
<1>18. QED BY <1>2, <1>3, <1>14, <1>17 DEF l, m

\* The lists when an object is made.
WithEmpty(h, L) == [x \in 1 .. Len(h) + 1 |-> [s \in Sides |-> IF x = Len(h) + 1 THEN <<>> ELSE L[x][s]]]

\* A new object has empty lists and no place; nothing else changes.
LEMMA NewThreads ==
  ASSUME NEW h, IsHeap(h), NEW L, Threaded(h, L), NEW t, NEW v,
         NEW g, g = New(h, t, v).h, NEW M, M = WithEmpty(h, L)
  PROVE  /\ IsHeap(g) /\ Len(g) = Len(h) + 1 /\ Len(h) \in Nat /\ Threaded(g, M)
         /\ \A x \in 1 .. Len(h) : g[x] = h[x]
         /\ g[Len(h) + 1].t = t /\ g[Len(h) + 1].v = v
         /\ \A x : Placed(g, M, x) <=> Placed(h, L, x)
         /\ ~Placed(h, L, Len(h) + 1)
         /\ \A x \in 1 .. Len(h), s \in Sides : M[x][s] = L[x][s]
         /\ \A s \in Sides : M[Len(h) + 1][s] = <<>>
<1> DEFINE z == Len(h) + 1
<1>1. /\ Len(h) \in Nat /\ IsHeap(g) /\ Len(g) = z /\ \A x \in 1 .. Len(h) : g[x] = h[x]
      /\ g[z].t = t /\ g[z].v = v /\ g[z].next = 0 /\ \A s \in Sides : g[z].head[s] = 0
  BY NewIs
<1>2. /\ \A x \in 1 .. Len(h), s \in Sides : M[x][s] = L[x][s]
      /\ \A s \in Sides : M[z][s] = <<>>
  <2>1. \A x \in 1 .. Len(h) : x \in 1 .. z /\ x # z
    BY <1>1
  <2>2. z \in 1 .. z
    BY <1>1
  <2>3. QED BY <2>1, <2>2 DEF WithEmpty
<1>3. \A x \in 1 .. z : x = z \/ x \in 1 .. Len(h)
  BY <1>1
<1>4. \A x, d, s, i : IsAt(g, M, x, d, s, i) <=> IsAt(h, L, x, d, s, i)
  <2> SUFFICES ASSUME NEW x, NEW d, NEW s, NEW i
               PROVE  IsAt(g, M, x, d, s, i) <=> IsAt(h, L, x, d, s, i)
    OBVIOUS
  <2>1. CASE d \in 1 .. Len(h)
    <3>1. d \in 1 .. Len(g)
      BY <1>1, <2>1
    <3>2. QED BY <1>2, <2>1, <3>1 DEF IsAt
  <2>2. CASE d \notin 1 .. Len(h)
    <3>1. ASSUME IsAt(g, M, x, d, s, i) PROVE FALSE
      <4>1. d = z /\ s \in Sides /\ i \in 1 .. Len(M[d][s])
        BY <1>1, <1>3, <2>2, <3>1 DEF IsAt
      <4>2. M[d][s] = <<>>
        BY <1>2, <4>1
      <4>3. QED BY <4>1, <4>2
    <3>2. QED BY <2>2, <3>1 DEF IsAt
  <2>3. QED BY <2>1, <2>2
<1>5. \A x : Placed(g, M, x) <=> Placed(h, L, x)
  BY <1>4 DEF Placed
<1>6. \A x : Placed(h, L, x) => x \in 1 .. Len(h)
  <2> SUFFICES ASSUME NEW x, Placed(h, L, x) PROVE x \in 1 .. Len(h)
    OBVIOUS
  <2>1. PICK d, s, i : d \in 1 .. Len(h) /\ s \in Sides /\ i \in 1 .. Len(L[d][s]) /\ L[d][s][i] = x
    BY DEF Placed, IsAt
  <2>2. QED BY <2>1, ThreadedIs
<1>7. ~Placed(h, L, z)
  BY <1>1, <1>6
<1>8. ASSUME NEW d \in 1 .. Len(g), NEW s \in Sides
      PROVE  Chained(g, M[d][s], g[d].head[s], g[d].tail[s])
  <2>1. CASE d = z
    <3>1. M[d][s] = <<>> /\ g[d].head[s] = 0
      BY <1>1, <1>2, <2>1
    <3>2. <<>> \in Seq(1 .. Len(g)) /\ Len(<<>>) = 0
      OBVIOUS
    <3>3. \A i : i \notin 1 .. 0 - 1
      OBVIOUS
    <3>4. QED BY <3>1, <3>2, <3>3 DEF Chained
  <2>2. CASE d # z
    <3>1. d \in 1 .. Len(h) /\ g[d] = h[d] /\ M[d][s] = L[d][s]
      BY <1>1, <1>2, <1>3, <2>2
    <3>2. PICK q : q = L[d][s]
      OBVIOUS
    <3>3. Chained(h, q, h[d].head[s], h[d].tail[s])
      BY <3>1, <3>2 DEF Threaded
    <3>4. q \in Seq(1 .. Len(h)) /\ Len(q) \in Nat
      BY <3>3 DEF Chained
    <3>5. /\ q \in Seq(1 .. Len(g)) /\ \A i \in 1 .. Len(q) : g[q[i]] = h[q[i]]
      BY <1>1, <3>4, SMTT(30)
    <3>6. (q # <<>> => Len(q) \in 1 .. Len(q)) /\ \A i \in 1 .. Len(q) - 1 : i \in 1 .. Len(q)
      BY <3>4
    <3>7. Chained(g, q, h[d].head[s], h[d].tail[s])
      BY <3>3, <3>5, <3>6 DEF Chained
    <3>8. QED BY <3>1, <3>2, <3>7
  <2>3. QED BY <2>1, <2>2
<1>9. \A x \in 1 .. Len(g) : g[x].next # 0 => Placed(g, M, x)
  <2>1. \A x \in 1 .. Len(h) : h[x].next # 0 => Placed(h, L, x)
    BY DEF Threaded
  <2>2. QED BY <1>1, <1>3, <1>5, <2>1
<1>10. Threaded(g, M)
  <2>1. \A x, d, s, i, e, r, j : IsAt(h, L, x, d, s, i) /\ IsAt(h, L, x, e, r, j) => d = e /\ s = r /\ i = j
    BY DEF Threaded
  <2>2. QED BY <1>4, <1>8, <1>9, <2>1 DEF Threaded
<1>11. QED BY <1>1, <1>2, <1>5, <1>7, <1>10

-----------------------------------------------------------------------------
(* The second pass over one object.                                         *)

\* What is to be had of the file f: the objects that were made for it, in lists
\* only if their numbers were taken.
Good(f, a, L) ==
  /\ a = [h |-> a.h, used |-> a.used, r |-> a.r]
  /\ IsHeap(a.h) /\ Threaded(a.h, L) /\ f.count <= Len(a.h)
  /\ \A x \in 1 .. f.count :
       /\ a.h[x].t = KindOf(f.toks[x]) /\ a.h[x].v = Kept(f.toks[x])
       /\ Placed(a.h, L, x) => x - 1 \in a.used

\* Object x has no place and will be given none but the next one.
Waits(f, a, L, x) ==
  /\ x \in 1 .. Len(a.h) /\ ~Placed(a.h, L, x)
  /\ x <= f.count => x - 1 \in a.used

\* The heap has the same objects and perhaps more.
Grown(h, g) ==
  /\ Len(h) \in Nat /\ Len(g) \in Nat /\ Len(h) <= Len(g)
  /\ \A x \in 1 .. Len(h) : g[x].t = h[x].t /\ g[x].v = h[x].v

\* An object is the one of its number, refers to it, or is a copy of the key.
StandsFor(f, h, side, x, key) ==
  /\ x \in 1 .. Len(h)
  /\ \/ Deref(h, x) = key + 1
     \/ side = "key" /\ h[x].v = Kept(f.toks[key + 1])

\* It stays that.
LEMMA StandsOn ==
  ASSUME NEW f, NEW h, NEW g, Grown(h, g), NEW side, NEW x, NEW key, StandsFor(f, h, side, x, key)
  PROVE  StandsFor(f, g, side, x, key)
<1>1. x \in 1 .. Len(h) /\ x \in 1 .. Len(g) /\ g[x].t = h[x].t /\ g[x].v = h[x].v
  BY DEF Grown, StandsFor
<1>2. Deref(g, x) = Deref(h, x)
  BY <1>1 DEF Deref
<1>3. QED BY <1>1, <1>2 DEF StandsFor

\* Growing twice is growing.
LEMMA GrownOn ==
  ASSUME NEW h, NEW g, NEW k, Grown(h, g), Grown(g, k)
  PROVE  Grown(h, k)
<1>1. \A x \in 1 .. Len(h) : x \in 1 .. Len(g)
  BY DEF Grown
<1>2. QED BY <1>1 DEF Grown

\* The element for a number, or the key.
Taken(a, side, key) == IF side = "key" THEN KeyElement(a, key) ELSE Element(a, key)

\* It waits for its place, and so does what waited before.
Took(f, a, L, side, key, e) ==
  /\ Grown(a.h, e.h) /\ StandsFor(f, e.h, side, e.r, key)
  /\ \E M : /\ Good(f, e, M) /\ Waits(f, e, M, e.r)
            /\ \A x \in 1 .. Len(a.h), s \in Sides : M[x][s] = L[x][s]
            /\ \A x : Waits(f, a, L, x) => Waits(f, e, M, x) /\ x # e.r

LEMMA TakenIs ==
  ASSUME NEW f, FileWhole(f), NEW c, Counted(obs, c, f.count),
         NEW a, NEW L, Good(f, a, L), NEW side \in Sides, NEW key \in 0 .. f.count - 1,
         NEW e, e = Taken(a, side, key)
  PROVE  Took(f, a, L, side, key, e)
<1>1. PICK o : o = key + 1
  OBVIOUS
<1>2. o \in 1 .. f.count /\ ptrArr__get(obs, key) = o /\ o \in 1 .. Len(a.h) /\ Len(a.h) \in Nat /\ f.count \in Nat
      /\ key \in Nat
  <2>1. f.count \in Nat /\ key \in Nat /\ key < f.count
    BY DEF FileWhole
  <2>2. Len(a.h) \in Nat /\ f.count <= Len(a.h)
    BY DEF Good, IsHeap
  <2>3. QED BY <1>1, <2>1, <2>2, GetIs
<1>3. /\ a = [h |-> a.h, used |-> a.used, r |-> a.r] /\ IsHeap(a.h) /\ Threaded(a.h, L)
      /\ \A x \in 1 .. f.count :
           /\ a.h[x].t = KindOf(f.toks[x]) /\ a.h[x].v = Kept(f.toks[x])
           /\ Placed(a.h, L, x) => x - 1 \in a.used
  BY DEF Good
<1>4. KindOf(f.toks[o]) # "REF"
  BY <1>2 DEF FileWhole, KindOf
<1>5. CASE key \in a.used
  <2>1. PICK t, v : /\ \/ t = "REF" /\ v = o
                       \/ side = "key" /\ t = a.h[o].t /\ v = a.h[o].v
                    /\ e = [a EXCEPT !.h = New(a.h, t, v).h, !.r = New(a.h, t, v).r]
    BY <1>2, <1>5 DEF Taken, Element, KeyElement, tBASE__dup
  <2>2. PICK g, z : g = New(a.h, t, v).h /\ z = New(a.h, t, v).r
    OBVIOUS
  <2>3. e = [h |-> g, used |-> a.used, r |-> z]
    BY <1>3, <2>1, <2>2
  <2>4. e.h = g /\ e.used = a.used /\ e.r = z /\ e = [h |-> e.h, used |-> e.used, r |-> e.r]
    BY <2>3
  <2>5. z = Len(a.h) + 1
    BY <2>2 DEF New
  <2>6. PICK M : M = WithEmpty(a.h, L)
    OBVIOUS
  <2>7. /\ IsHeap(g) /\ Len(g) = z /\ Threaded(g, M)
        /\ \A x \in 1 .. Len(a.h) : g[x] = a.h[x]
        /\ g[z].t = t /\ g[z].v = v
        /\ \A x : Placed(g, M, x) <=> Placed(a.h, L, x)
        /\ ~Placed(a.h, L, z)
        /\ \A x \in 1 .. Len(a.h), s \in Sides : M[x][s] = L[x][s]
    BY <1>3, <2>2, <2>5, <2>6, NewThreads
  <2>8. Grown(a.h, g)
    BY <1>2, <2>5, <2>7 DEF Grown
  <2>9. StandsFor(f, g, side, z, key)
    <3>1. z \in 1 .. Len(g)
      BY <1>2, <2>5, <2>7
    <3>2. CASE t = "REF" /\ v = o
      <4>1. g[z].t = "REF" /\ g[z].v = o
        BY <2>7, <3>2
      <4>2. Deref(g, z) = o
        BY <4>1 DEF Deref
      <4>3. QED BY <1>1, <1>2, <3>1, <4>2 DEF StandsFor
    <3>3. CASE side = "key" /\ v = a.h[o].v
      BY <1>1, <1>2, <1>3, <2>7, <3>1, <3>3 DEF StandsFor
    <3>4. QED BY <2>1, <3>2, <3>3
  <2>10. Good(f, e, M)
    <3>1. f.count <= Len(g) /\ \A x \in 1 .. f.count : x \in 1 .. Len(a.h)
      BY <1>2, <2>5, <2>7 DEF Good
    <3>2. \A x \in 1 .. f.count : /\ g[x].t = KindOf(f.toks[x]) /\ g[x].v = Kept(f.toks[x])
                                  /\ Placed(g, M, x) => x - 1 \in a.used
      BY <1>3, <2>7, <3>1
    <3>3. QED BY <2>4, <2>7, <3>1, <3>2 DEF Good
  <2>11. Waits(f, e, M, z)
    <3>1. ~(z <= f.count) /\ z \in 1 .. Len(g)
      BY <1>2, <2>5, <2>7 DEF Good
    <3>2. QED BY <2>4, <2>7, <3>1 DEF Waits
  <2>12. \A x : Waits(f, a, L, x) => Waits(f, e, M, x) /\ x # z
    <3>1. \A x \in 1 .. Len(a.h) : x # z /\ x \in 1 .. Len(g)
      BY <1>2, <2>5, <2>7
    <3>2. QED BY <2>4, <2>7, <3>1 DEF Waits
  <2>13. QED BY <2>4, <2>7, <2>8, <2>9, <2>10, <2>11, <2>12 DEF Took
<1>6. CASE key \notin a.used
  <2>1. e = [a EXCEPT !.r = o, !.used = @ \union {key}]
    BY <1>2, <1>6 DEF Taken, Element, KeyElement
  <2>2. e = [h |-> a.h, used |-> a.used \union {key}, r |-> o]
    BY <1>3, <2>1
  <2>3. e.h = a.h /\ e.used = a.used \union {key} /\ e.r = o /\ e = [h |-> e.h, used |-> e.used, r |-> e.r]
    BY <2>2
  <2>4. Grown(a.h, e.h)
    BY <1>2, <2>3 DEF Grown
  <2>5. StandsFor(f, e.h, side, o, key)
    BY <1>1, <1>2, <1>3, <1>4, <2>3 DEF StandsFor, Deref
  <2>6. Good(f, e, L)
    BY <2>3 DEF Good
  <2>7. ~Placed(a.h, L, o) /\ o - 1 = key
    BY <1>1, <1>2, <1>3, <1>6
  <2>8. Waits(f, e, L, o)
    BY <1>2, <2>3, <2>7 DEF Waits
  <2>9. \A x : Waits(f, a, L, x) => Waits(f, e, L, x) /\ x # o
    <3>1. \A x : Waits(f, a, L, x) => x # o
      BY <1>2, <1>6, <2>7 DEF Waits
    <3>2. QED BY <2>3, <3>1 DEF Waits
  <2>10. QED BY <2>3, <2>4, <2>5, <2>6, <2>8, <2>9 DEF Took
<1>7. QED BY <1>5, <1>6

\* Object x comes to the end of a list, and the others stay.
Put(h, L, M, d, side, x) ==
  /\ M[d][side] = Append(L[d][side], x)
  /\ \A y \in 1 .. Len(h), s \in Sides : ~(y = d /\ s = side) => M[y][s] = L[y][s]

\* Linking the object that waits.
LEMMA LinkedIs ==
  ASSUME NEW f, FileWhole(f), NEW a, NEW L, Good(f, a, L), NEW d \in 1 .. Len(a.h), NEW side \in Sides,
         NEW o, Waits(f, a, L, o), NEW h, h = Link(a.h, d, side, o), NEW e, e = [a EXCEPT !.h = h]
  PROVE  /\ e.h = h /\ Len(h) = Len(a.h) /\ Grown(a.h, h)
         /\ \E M : /\ Good(f, e, M) /\ Put(a.h, L, M, d, side, o)
                   /\ \A x : Waits(f, a, L, x) /\ x # o => Waits(f, e, M, x)
<1>1. /\ a = [h |-> a.h, used |-> a.used, r |-> a.r] /\ IsHeap(a.h) /\ Threaded(a.h, L)
      /\ f.count <= Len(a.h)
      /\ \A x \in 1 .. f.count :
           /\ a.h[x].t = KindOf(f.toks[x]) /\ a.h[x].v = Kept(f.toks[x])
           /\ Placed(a.h, L, x) => x - 1 \in a.used
  BY DEF Good
<1>2. o \in 1 .. Len(a.h) /\ ~Placed(a.h, L, o) /\ (o <= f.count => o - 1 \in a.used)
  BY DEF Waits
<1>3. e = [h |-> h, used |-> a.used, r |-> a.r]
  BY <1>1
<1>4. e.h = h /\ e.used = a.used /\ e = [h |-> e.h, used |-> e.used, r |-> e.r]
  BY <1>3
<1>5. PICK M : M = Longer(a.h, L, d, side, o)
  OBVIOUS
<1>6. /\ IsHeap(h) /\ Len(h) = Len(a.h) /\ Threaded(h, M)
      /\ \A x \in 1 .. Len(a.h) : h[x].t = a.h[x].t /\ h[x].v = a.h[x].v
      /\ \A x : Placed(h, M, x) <=> Placed(a.h, L, x) \/ x = o
      /\ Put(a.h, L, M, d, side, o)
  BY <1>1, <1>2, <1>5, LinkThreads, SMTT(30) DEF Put
<1>7. Grown(a.h, h)
  <2>1. Len(h) \in Nat
    BY <1>6 DEF IsHeap
  <2>2. QED BY <1>6, <2>1 DEF Grown
<1>8. Good(f, e, M)
  <2>1. \A x \in 1 .. f.count : x \in 1 .. Len(a.h) /\ x <= f.count
    BY <1>1 DEF IsHeap, FileWhole
  <2>2. \A x \in 1 .. f.count : /\ h[x].t = KindOf(f.toks[x]) /\ h[x].v = Kept(f.toks[x])
                                /\ Placed(h, M, x) => x - 1 \in a.used
    BY <1>1, <1>2, <1>6, <2>1
  <2>3. QED BY <1>1, <1>4, <1>6, <2>2 DEF Good
<1>9. \A x : Waits(f, a, L, x) /\ x # o => Waits(f, e, M, x)
  BY <1>4, <1>6 DEF Waits
<1>10. QED BY <1>4, <1>6, <1>7, <1>8, <1>9

\* From a to e only the lists of the container have changed.
Went(f, a, e, L, M, cur) ==
  /\ Grown(a.h, e.h) /\ Good(f, e, M)
  /\ \A x \in 1 .. Len(a.h), s \in Sides : x # cur => M[x][s] = L[x][s]

\* A turn with an array.
PutOne(f, a, L, cur, key, e) ==
  \E M, x : /\ Went(f, a, e, L, M, cur) /\ StandsFor(f, e.h, "val", x, key)
           /\ M[cur]["key"] = L[cur]["key"] /\ M[cur]["val"] = Append(L[cur]["val"], x)

LEMMA ElementAdded ==
  ASSUME NEW f, FileWhole(f), NEW c, Counted(obs, c, f.count),
         NEW a, NEW L, Good(f, a, L), NEW cur \in 1 .. f.count,
         NEW key \in 0 .. f.count - 1, NEW e, e = AddElement(a, cur, key)
  PROVE  PutOne(f, a, L, cur, key, e)
<1> "key" \in Sides /\ "val" \in Sides /\ "key" # "val"
  BY DEF Sides
<1>1. PICK b : b = Taken(a, "val", key)
  OBVIOUS
<1>2. /\ Grown(a.h, b.h) /\ StandsFor(f, b.h, "val", b.r, key)
      /\ \E K : /\ Good(f, b, K) /\ Waits(f, b, K, b.r)
                /\ \A x \in 1 .. Len(a.h), s \in Sides : K[x][s] = L[x][s]
  <2>1. Took(f, a, L, "val", key, b)
    BY <1>1, TakenIs
  <2>2. QED BY <2>1 DEF Took
<1>3. PICK K : /\ Good(f, b, K) /\ Waits(f, b, K, b.r)
               /\ \A x \in 1 .. Len(a.h), s \in Sides : K[x][s] = L[x][s]
  BY <1>2
<1>4. PICK o, h : o = b.r /\ h = Link(b.h, cur, "val", o)
  OBVIOUS
<1>5. e = [b EXCEPT !.h = h]
  BY <1>1, <1>4 DEF AddElement, Taken, tARR__add
<1>6. cur \in 1 .. Len(a.h) /\ cur \in 1 .. Len(b.h) /\ \A x \in 1 .. Len(a.h) : x \in 1 .. Len(b.h)
  BY <1>2 DEF Good, Grown, FileWhole
<1>7. e.h = h /\ Grown(b.h, e.h) /\ \E M : Good(f, e, M) /\ Put(b.h, K, M, cur, "val", o)
  BY <1>3, <1>4, <1>5, <1>6, LinkedIs
<1>8. PICK M : Good(f, e, M) /\ Put(b.h, K, M, cur, "val", o)
  BY <1>7
<1>9. Grown(a.h, e.h)
  BY <1>2, <1>7, GrownOn
<1>10. StandsFor(f, e.h, "val", o, key)
  BY <1>2, <1>4, <1>7, StandsOn
<1>11. Went(f, a, e, L, M, cur)
  BY <1>3, <1>6, <1>8, <1>9 DEF Went, Put
<1>12. M[cur]["key"] = L[cur]["key"] /\ M[cur]["val"] = Append(L[cur]["val"], o)
  BY <1>3, <1>6, <1>8 DEF Put
<1>13. QED BY <1>10, <1>11, <1>12 DEF PutOne

\* A turn with a dictionary.
PutTwo(f, a, L, cur, key, val, e) ==
  \E M, x, y : /\ Went(f, a, e, L, M, cur)
              /\ StandsFor(f, e.h, "key", x, key) /\ StandsFor(f, e.h, "val", y, val)
              /\ M[cur]["key"] = Append(L[cur]["key"], x) /\ M[cur]["val"] = Append(L[cur]["val"], y)

LEMMA PairAdded ==
  ASSUME NEW f, FileWhole(f), NEW c, Counted(obs, c, f.count),
         NEW a, NEW L, Good(f, a, L), NEW cur \in 1 .. f.count,
         NEW key \in 0 .. f.count - 1, NEW val \in 0 .. f.count - 1, NEW e, e = AddPair(a, cur, key, val)
  PROVE  PutTwo(f, a, L, cur, key, val, e)
<1> "key" \in Sides /\ "val" \in Sides /\ "key" # "val"
  BY DEF Sides
<1>1. PICK k : k = Taken(a, "key", key)
  OBVIOUS
<1>2. /\ Grown(a.h, k.h) /\ StandsFor(f, k.h, "key", k.r, key)
      /\ \E K : /\ Good(f, k, K) /\ Waits(f, k, K, k.r)
                /\ \A x \in 1 .. Len(a.h), s \in Sides : K[x][s] = L[x][s]
  <2>1. Took(f, a, L, "key", key, k)
    BY <1>1, TakenIs
  <2>2. QED BY <2>1 DEF Took
<1>3. PICK K : /\ Good(f, k, K) /\ Waits(f, k, K, k.r)
               /\ \A x \in 1 .. Len(a.h), s \in Sides : K[x][s] = L[x][s]
  BY <1>2
<1>4. PICK b : b = Taken(k, "val", val)
  OBVIOUS
<1>5. /\ Grown(k.h, b.h) /\ StandsFor(f, b.h, "val", b.r, val)
      /\ \E J : /\ Good(f, b, J) /\ Waits(f, b, J, b.r)
                /\ \A x \in 1 .. Len(k.h), s \in Sides : J[x][s] = K[x][s]
                /\ \A x : Waits(f, k, K, x) => Waits(f, b, J, x) /\ x # b.r
  <2>1. Took(f, k, K, "val", val, b)
    BY <1>3, <1>4, TakenIs
  <2>2. QED BY <2>1 DEF Took
<1>6. PICK J : /\ Good(f, b, J) /\ Waits(f, b, J, b.r)
               /\ \A x \in 1 .. Len(k.h), s \in Sides : J[x][s] = K[x][s]
               /\ \A x : Waits(f, k, K, x) => Waits(f, b, J, x) /\ x # b.r
  BY <1>5
<1>7. PICK p, o : p = k.r /\ o = b.r
  OBVIOUS
<1>8. p # o /\ Waits(f, b, J, p) /\ Waits(f, b, J, o)
  BY <1>3, <1>6, <1>7
<1>9. PICK h : h = Link(b.h, cur, "key", p)
  OBVIOUS
<1>10. PICK m : m = [b EXCEPT !.h = h]
  OBVIOUS
<1>11. PICK g : g = Link(h, cur, "val", o)
  OBVIOUS
<1>12. e = [m EXCEPT !.h = g]
  <2>1. e = [b EXCEPT !.h = g]
    BY <1>1, <1>4, <1>7, <1>9, <1>11 DEF AddPair, Taken, tDICT__seto
  <2>2. b = [h |-> b.h, used |-> b.used, r |-> b.r]
    BY <1>6 DEF Good
  <2>3. QED BY <1>10, <2>1, <2>2
<1>13. /\ cur \in 1 .. Len(a.h) /\ cur \in 1 .. Len(k.h) /\ cur \in 1 .. Len(b.h)
       /\ \A x \in 1 .. Len(a.h) : x \in 1 .. Len(k.h) /\ x \in 1 .. Len(b.h)
  BY <1>2, <1>5 DEF Good, Grown, FileWhole
<1>14. /\ m.h = h /\ Len(h) = Len(b.h) /\ Grown(b.h, m.h)
       /\ \E I : /\ Good(f, m, I) /\ Put(b.h, J, I, cur, "key", p)
                 /\ \A x : Waits(f, b, J, x) /\ x # p => Waits(f, m, I, x)
  BY <1>6, <1>8, <1>9, <1>10, <1>13, LinkedIs
<1>15. PICK I : /\ Good(f, m, I) /\ Put(b.h, J, I, cur, "key", p)
                /\ \A x : Waits(f, b, J, x) /\ x # p => Waits(f, m, I, x)
  BY <1>14
<1>16. Waits(f, m, I, o) /\ cur \in 1 .. Len(m.h) /\ g = Link(m.h, cur, "val", o)
  BY <1>8, <1>11, <1>13, <1>14, <1>15
<1>17. e.h = g /\ Grown(m.h, e.h) /\ \E M : Good(f, e, M) /\ Put(m.h, I, M, cur, "val", o)
  BY <1>12, <1>15, <1>16, LinkedIs
<1>18. PICK M : Good(f, e, M) /\ Put(m.h, I, M, cur, "val", o)
  BY <1>17
<1>19. Grown(k.h, e.h) /\ Grown(b.h, e.h) /\ Grown(a.h, e.h)
  BY <1>2, <1>5, <1>14, <1>17, GrownOn
<1>20. StandsFor(f, e.h, "key", p, key) /\ StandsFor(f, e.h, "val", o, val)
  BY <1>2, <1>5, <1>7, <1>19, StandsOn
<1>21. \A x \in 1 .. Len(a.h), s \in Sides : x # cur => M[x][s] = L[x][s]
  BY <1>3, <1>6, <1>13, <1>14, <1>15, <1>18 DEF Put
<1>22. Went(f, a, e, L, M, cur)
  BY <1>18, <1>19, <1>21 DEF Went
<1>23. M[cur]["key"] = Append(L[cur]["key"], p) /\ M[cur]["val"] = Append(L[cur]["val"], o)
  <2>1. M[cur]["key"] = I[cur]["key"] /\ M[cur]["val"] = Append(I[cur]["val"], o)
    BY <1>13, <1>14, <1>18 DEF Put
  <2>2. I[cur]["key"] = Append(J[cur]["key"], p) /\ I[cur]["val"] = J[cur]["val"]
    BY <1>13, <1>15 DEF Put
  <2>3. J[cur]["key"] = L[cur]["key"] /\ J[cur]["val"] = L[cur]["val"]
    BY <1>3, <1>6, <1>13
  <2>4. QED BY <2>1, <2>2, <2>3
<1>24. QED BY <1>20, <1>22, <1>23 DEF PutTwo

\* From a to b and on to e.
LEMMA WentOn ==
  ASSUME NEW f, NEW cur, NEW a, NEW b, NEW e, NEW L, NEW K, NEW M,
         Went(f, a, b, L, K, cur), Went(f, b, e, K, M, cur)
  PROVE  Went(f, a, e, L, M, cur)
<1>1. Grown(a.h, e.h)
  BY GrownOn DEF Went
<1>2. \A x \in 1 .. Len(a.h) : x \in 1 .. Len(b.h)
  BY DEF Went, Grown
<1>3. QED BY <1>1, <1>2 DEF Went

\* The n objects of a list stand for the numbers of refs behind the first ones.
Stood(f, h, side, l, refs, first, n) ==
  Len(l) = n /\ \A j \in 1 .. n : StandsFor(f, h, side, l[j], refs[first + j])

\* They stay, and another one joins them.
LEMMA StoodOn ==
  ASSUME NEW f, NEW h, NEW g, Grown(h, g), NEW side, NEW l, NEW refs, NEW first, NEW n,
         Stood(f, h, side, l, refs, first, n)
  PROVE  Stood(f, g, side, l, refs, first, n)
BY StandsOn DEF Stood

LEMMA StoodMore ==
  ASSUME NEW f, NEW h, NEW g, Grown(h, g), NEW side, NEW S, NEW l \in Seq(S), NEW refs, NEW first \in Nat,
         NEW n \in Nat, Stood(f, h, side, l, refs, first, n),
         NEW x, StandsFor(f, g, side, x, refs[first + (n + 1)])
  PROVE  Stood(f, g, side, Append(l, x), refs, first, n + 1)
<1>1. Stood(f, g, side, l, refs, first, n)
  BY StoodOn
<1>2. PICK m : m = Append(l, x)
  OBVIOUS
<1>3. Len(l) = n
  BY <1>1 DEF Stood
<1>4. Len(m) = n + 1 /\ m[n + 1] = x /\ \A j \in 1 .. n : m[j] = l[j]
  BY <1>2, <1>3
<1>5. ASSUME NEW j \in 1 .. n + 1 PROVE StandsFor(f, g, side, m[j], refs[first + j])
  <2>1. CASE j = n + 1
    BY <1>4, <2>1
  <2>2. CASE j # n + 1
    <3>1. j \in 1 .. n
      BY <2>2
    <3>2. StandsFor(f, g, side, l[j], refs[first + j]) /\ m[j] = l[j]
      BY <1>1, <1>4, <3>1 DEF Stood
    <3>3. QED BY <3>2
  <2>3. QED BY <2>1, <2>2
<1>6. QED BY <1>2, <1>4, <1>5 DEF Stood

\* The one or two objects that a turn of either loop puts into a container.
Turn(a, cur, refs, pairs, half, i) ==
  IF pairs THEN AddPair(a, cur, refs[i], refs[half + i]) ELSE AddElement(a, cur, refs[i])

\* What the container holds after i turns.
HeldAs(f, h, L, cur, refs, pairs, half, i) ==
  /\ Stood(f, h, "key", L[cur]["key"], refs, 0, IF pairs THEN i ELSE 0)
  /\ Stood(f, h, "val", L[cur]["val"], refs, IF pairs THEN half ELSE 0, i)

\* One turn.
LEMMA TurnIs ==
  ASSUME NEW f, FileWhole(f), NEW c, Counted(obs, c, f.count), NEW cur \in 1 .. f.count,
         NEW refs \in Seq(0 .. f.count - 1), NEW pairs \in BOOLEAN, NEW half \in Nat,
         pairs => Len(refs) = 2 * half,
         NEW a, NEW L, Good(f, a, L), NEW i \in Nat, i < (IF pairs THEN half ELSE Len(refs)),
         HeldAs(f, a.h, L, cur, refs, pairs, half, i),
         NEW e, e = Turn(a, cur, refs, pairs, half, i + 1)
  PROVE  \E M : Went(f, a, e, L, M, cur) /\ HeldAs(f, e.h, M, cur, refs, pairs, half, i + 1)
<1> "key" \in Sides /\ "val" \in Sides /\ "key" # "val"
  BY DEF Sides
<1>1. cur \in 1 .. Len(a.h) /\ L[cur]["key"] \in Seq(1 .. Len(a.h)) /\ L[cur]["val"] \in Seq(1 .. Len(a.h))
  <2>1. cur \in 1 .. Len(a.h)
    BY DEF Good, FileWhole, IsHeap
  <2>2. QED BY <2>1, ThreadedIs DEF Good
<1>2. Len(refs) \in Nat
  OBVIOUS
<1>3. CASE ~pairs
  <2>1. i + 1 \in 1 .. Len(refs)
    BY <1>2, <1>3
  <2>2. PICK key \in 0 .. f.count - 1 : key = refs[i + 1]
    <3>1. refs[i + 1] \in 0 .. f.count - 1
      BY <2>1, ElementOfSeq
    <3>2. QED BY <3>1
  <2>3. e = AddElement(a, cur, key)
    BY <1>3, <2>2 DEF Turn
  <2>4. PICK M, x : /\ Went(f, a, e, L, M, cur) /\ StandsFor(f, e.h, "val", x, key)
                    /\ M[cur]["key"] = L[cur]["key"] /\ M[cur]["val"] = Append(L[cur]["val"], x)
    <3>1. PutOne(f, a, L, cur, key, e)
      BY <2>3, ElementAdded
    <3>2. QED BY <3>1 DEF PutOne
  <2>5. Grown(a.h, e.h)
    BY <2>4 DEF Went
  <2>6. /\ Stood(f, a.h, "key", L[cur]["key"], refs, 0, 0)
        /\ Stood(f, a.h, "val", L[cur]["val"], refs, 0, i)
    BY <1>3 DEF HeldAs
  <2>7. Stood(f, e.h, "key", M[cur]["key"], refs, 0, 0)
    BY <2>4, <2>5, <2>6, StoodOn
  <2>8. StandsFor(f, e.h, "val", x, refs[0 + (i + 1)])
    BY <2>2, <2>4
  <2>9. Stood(f, e.h, "val", M[cur]["val"], refs, 0, i + 1)
    BY <1>1, <2>4, <2>5, <2>6, <2>8, StoodMore
  <2>10. HeldAs(f, e.h, M, cur, refs, pairs, half, i + 1)
    BY <1>3, <2>7, <2>9 DEF HeldAs
  <2>11. QED BY <2>4, <2>10
<1>4. CASE pairs
  <2>1. i + 1 \in 1 .. Len(refs) /\ half + (i + 1) \in 1 .. Len(refs)
    BY <1>2, <1>4
  <2>2. PICK key \in 0 .. f.count - 1, val \in 0 .. f.count - 1 : key = refs[i + 1] /\ val = refs[half + (i + 1)]
    <3>1. refs[i + 1] \in 0 .. f.count - 1 /\ refs[half + (i + 1)] \in 0 .. f.count - 1
      BY <2>1, ElementOfSeq
    <3>2. QED BY <3>1
  <2>3. e = AddPair(a, cur, key, val)
    BY <1>4, <2>2 DEF Turn
  <2>4. PICK M, x, y : /\ Went(f, a, e, L, M, cur)
                       /\ StandsFor(f, e.h, "key", x, key) /\ StandsFor(f, e.h, "val", y, val)
                       /\ M[cur]["key"] = Append(L[cur]["key"], x) /\ M[cur]["val"] = Append(L[cur]["val"], y)
    <3>1. PutTwo(f, a, L, cur, key, val, e)
      BY <2>3, PairAdded
    <3>2. QED BY <3>1 DEF PutTwo
  <2>5. Grown(a.h, e.h)
    BY <2>4 DEF Went
  <2>6. /\ Stood(f, a.h, "key", L[cur]["key"], refs, 0, i)
        /\ Stood(f, a.h, "val", L[cur]["val"], refs, half, i)
    BY <1>4 DEF HeldAs
  <2>7. StandsFor(f, e.h, "key", x, refs[0 + (i + 1)])
    BY <2>2, <2>4
  <2>8. Stood(f, e.h, "key", M[cur]["key"], refs, 0, i + 1)
    BY <1>1, <2>4, <2>5, <2>6, <2>7, StoodMore
  <2>9. Stood(f, e.h, "val", M[cur]["val"], refs, half, i + 1)
    BY <1>1, <2>2, <2>4, <2>5, <2>6, StoodMore
  <2>10. HeldAs(f, e.h, M, cur, refs, pairs, half, i + 1)
    BY <1>4, <2>8, <2>9 DEF HeldAs
  <2>11. QED BY <2>4, <2>10
<1>5. QED BY <1>3, <1>4

\* w[i] is what a loop has made of a after i turns.
Loops(w, a, cur, refs, pairs, half, m) ==
  w = [i \in 0 .. m |-> IF i = 0 THEN a ELSE Turn(w[i - 1], cur, refs, pairs, half, i)]

\* There is such a function.
LEMMA LoopExists ==
  ASSUME NEW a, NEW cur, NEW refs, NEW pairs, NEW half, NEW m \in Nat
  PROVE  \E w : Loops(w, a, cur, refs, pairs, half, m)
<1> DEFINE T(b, i) == Turn(b, cur, refs, pairs, half, i)
           Is(w, k) == w = [i \in 0 .. k |-> IF i = 0 THEN a ELSE T(w[i - 1], i)]
           S == {k \in Nat : \E w : Is(w, k)}
<1> HIDE DEF T
<1>1. 0 \in S
  <2>1. Is([i \in 0 .. 0 |-> a], 0)
    OBVIOUS
  <2>2. QED BY <2>1
<1>2. ASSUME NEW k \in S PROVE k + 1 \in S
  <2>1. PICK w : Is(w, k)
    BY <1>2
  <2> DEFINE u == [i \in 0 .. k + 1 |-> IF i <= k THEN w[i] ELSE T(w[k], i)]
  <2>2. ASSUME NEW i \in 0 .. k + 1
        PROVE  u[i] = IF i = 0 THEN a ELSE T(u[i - 1], i)
    <3>1. CASE i = 0
      BY <2>1, <3>1
    <3>2. CASE i # 0 /\ i <= k
      <4>1. i \in 0 .. k /\ i - 1 \in 0 .. k
        BY <3>2
      <4>2. u[i] = w[i] /\ u[i - 1] = w[i - 1]
        BY <4>1
      <4>3. w[i] = T(w[i - 1], i)
        BY <2>1, <3>2, <4>1
      <4>4. QED BY <3>2, <4>2, <4>3
    <3>3. CASE i = k + 1
      <4>1. k \in 0 .. k + 1 /\ u[k] = w[k] /\ u[i] = T(w[k], i) /\ i - 1 = k /\ i # 0
        BY <3>3
      <4>2. QED BY <4>1
    <3>4. QED BY <3>1, <3>2, <3>3
  <2>3. u = [i \in 0 .. k + 1 |-> IF i = 0 THEN a ELSE T(u[i - 1], i)]
    BY <2>2
  <2> HIDE DEF u
  <2>4. Is(u, k + 1) /\ k + 1 \in Nat
    BY <2>3
  <2>5. QED BY <2>4
<1>3. S \in SUBSET Nat
  OBVIOUS
<1> HIDE DEF S
<1>4. S = Nat
  BY <1>1, <1>2, <1>3, EveryNumber
<1>5. \E w : Is(w, m)
  BY <1>4 DEF S
<1>6. QED BY <1>5 DEF Loops, T

\* A loop that has run to its end has filled the container and nothing else.
LEMMA LoopIs ==
  ASSUME NEW f, FileWhole(f), NEW c, Counted(obs, c, f.count), NEW cur \in 1 .. f.count,
         NEW refs \in Seq(0 .. f.count - 1), NEW pairs \in BOOLEAN, NEW half \in Nat,
         pairs => Len(refs) = 2 * half,
         NEW a, NEW L, Good(f, a, L), L[cur]["key"] = <<>>, L[cur]["val"] = <<>>,
         NEW m \in Nat, m = IF pairs THEN half ELSE Len(refs),
         NEW w, Loops(w, a, cur, refs, pairs, half, m)
  PROVE  \E M : Went(f, a, w[m], L, M, cur) /\ HeldAs(f, w[m].h, M, cur, refs, pairs, half, m)
<1> DEFINE After(i) == \E M : Went(f, a, w[i], L, M, cur) /\ HeldAs(f, w[i].h, M, cur, refs, pairs, half, i)
           S == {i \in Nat : i <= m => After(i)}
<1>1. w[0] = a /\ \A i \in Nat : i < m => w[i + 1] = Turn(w[i], cur, refs, pairs, half, i + 1)
  <2>1. \A i \in 0 .. m : w[i] = IF i = 0 THEN a ELSE Turn(w[i - 1], cur, refs, pairs, half, i)
    BY DEF Loops
  <2>2. 0 \in 0 .. m
    OBVIOUS
  <2>3. ASSUME NEW i \in Nat, i < m PROVE w[i + 1] = Turn(w[i], cur, refs, pairs, half, i + 1)
    <3>1. i + 1 \in 0 .. m /\ i + 1 # 0 /\ (i + 1) - 1 = i
      BY <2>3
    <3>2. QED BY <2>1, <3>1
  <2>4. QED BY <2>1, <2>2, <2>3
<1>2. 0 \in S
  <2>1. Len(<<>>) = 0 /\ \A j : j \notin 1 .. 0
    OBVIOUS
  <2>2. HeldAs(f, a.h, L, cur, refs, pairs, half, 0)
    BY <2>1 DEF HeldAs, Stood
  <2>3. Len(a.h) \in Nat
    BY DEF Good, IsHeap
  <2>4. Went(f, a, a, L, L, cur)
    BY <2>3 DEF Went, Grown
  <2>5. QED BY <1>1, <2>2, <2>4
<1>3. ASSUME NEW i \in S PROVE i + 1 \in S
  <2> SUFFICES ASSUME i + 1 <= m PROVE After(i + 1)
    OBVIOUS
  <2>1. i \in Nat /\ i < m
    OBVIOUS
  <2>2. PICK b, e : b = w[i] /\ e = w[i + 1]
    OBVIOUS
  <2>3. PICK K : Went(f, a, b, L, K, cur) /\ HeldAs(f, b.h, K, cur, refs, pairs, half, i)
    <3>1. After(i)
      BY <2>1
    <3>2. QED BY <2>2, <3>1
  <2>4. e = Turn(b, cur, refs, pairs, half, i + 1)
    BY <1>1, <2>1, <2>2
  <2>5. Good(f, b, K)
    BY <2>3 DEF Went
  <2>6. i < (IF pairs THEN half ELSE Len(refs))
    BY <2>1
  <2>7. PICK M : Went(f, b, e, K, M, cur) /\ HeldAs(f, e.h, M, cur, refs, pairs, half, i + 1)
    BY <2>1, <2>3, <2>4, <2>5, <2>6, TurnIs
  <2>8. Went(f, a, e, L, M, cur)
    BY <2>3, <2>7, WentOn
  <2>9. QED BY <2>2, <2>7, <2>8
<1>4. S \in SUBSET Nat
  OBVIOUS
<1> HIDE DEF S
<1>5. S = Nat
  BY <1>2, <1>3, <1>4, EveryNumber
<1>6. After(m)
  <2> HIDE DEF After
  <2>1. m \in S
    BY <1>5
  <2>2. QED BY <2>1 DEF S
<1>7. QED BY <1>6

\* What a container of the file is to hold.
Full(f, h, L, d) ==
  LET tok == f.toks[d]
      half == Len(tok.refs) \div 2
  IN IF tok.t = "DICT" THEN HeldAs(f, h, L, d, tok.refs, TRUE, half, half)
                       ELSE HeldAs(f, h, L, d, tok.refs, FALSE, half, Len(tok.refs))

\* The pass over the first k objects is done.
Through(f, a, L, k) ==
  /\ Good(f, a, L)
  /\ \A d \in 1 .. f.count :
       IF f.toks[d].t \in {"ARR", "DICT"} /\ d <= k THEN Full(f, a.h, L, d)
                                                    ELSE L[d]["key"] = <<>> /\ L[d]["val"] = <<>>

\* What the loop of either kind leaves.
LEMMA FillIs ==
  ASSUME NEW f, FileWhole(f), NEW c, Counted(obs, c, f.count), NEW cur \in 1 .. f.count,
         NEW a, NEW L, Good(f, a, L), L[cur]["key"] = <<>>, L[cur]["val"] = <<>>,
         NEW refs, refs = f.toks[cur].refs, NEW e,
         \/ f.toks[cur].t = "ARR" /\ e = FillArray(a, cur, refs)
         \/ f.toks[cur].t = "DICT" /\ e = FillDict(a, cur, refs)
  PROVE  \E M : Went(f, a, e, L, M, cur) /\ Full(f, e.h, M, cur)
<1>1. refs \in Seq(0 .. f.count - 1) /\ Len(refs) \in Nat
  BY DEF FileWhole
<1>2. PICK half : half = Len(refs) \div 2
  OBVIOUS
<1>3. half \in Nat /\ (f.toks[cur].t = "DICT" => Len(refs) = 2 * half)
  <2>1. half \in Nat
    <3>1. \A n \in Nat : n \div 2 \in Nat
      OBVIOUS
    <3>2. QED BY <1>1, <1>2, <3>1
  <2>2. f.toks[cur].t = "DICT" => \E k \in 0 .. Len(refs) : Len(refs) = 2 * k
    BY DEF FileWhole
  <2>3. ASSUME NEW k \in 0 .. Len(refs), Len(refs) = 2 * k PROVE half = k
    BY <1>1, <1>2, <2>3
  <2>4. QED BY <2>1, <2>2, <2>3
<1>4. CASE f.toks[cur].t = "ARR" /\ e = FillArray(a, cur, refs)
  <2> DEFINE Is(w) == w = [i \in 0 .. Len(refs) |-> IF i = 0 THEN a ELSE AddElement(w[i - 1], cur, refs[i])]
  <2>1. \A w : Is(w) <=> Loops(w, a, cur, refs, FALSE, half, Len(refs))
    BY DEF Loops, Turn
  <2>2. \E w : Is(w)
    BY <1>1, <2>1, LoopExists, ZenonT(40)
  <2>3. PICK w : Is(w) /\ e = w[Len(refs)]
    BY <1>4, <2>2 DEF FillArray
  <2> HIDE DEF Is
  <2>4. Loops(w, a, cur, refs, FALSE, half, Len(refs))
    BY <2>1, <2>3
  <2>5. PICK pairs \in BOOLEAN, m \in Nat : pairs = FALSE /\ m = Len(refs)
    BY <1>1
  <2>6. \E M : Went(f, a, w[m], L, M, cur) /\ HeldAs(f, w[m].h, M, cur, refs, pairs, half, m)
    <3>1. /\ Loops(w, a, cur, refs, pairs, half, m) /\ m = IF pairs THEN half ELSE Len(refs)
          /\ pairs => Len(refs) = 2 * half
      BY <2>4, <2>5
    <3>2. QED BY <1>1, <1>3, <3>1, LoopIs
  <2>7. QED BY <1>2, <1>4, <2>3, <2>5, <2>6 DEF Full
<1>5. CASE f.toks[cur].t = "DICT" /\ e = FillDict(a, cur, refs)
  <2> DEFINE Is(w) == w = [i \in 0 .. half |-> IF i = 0 THEN a ELSE AddPair(w[i - 1], cur, refs[i], refs[half + i])]
  <2>1. \A w : Is(w) <=> Loops(w, a, cur, refs, TRUE, half, half)
    BY DEF Loops, Turn
  <2>2. \E w : Is(w)
    BY <1>3, <2>1, LoopExists
  <2>3. PICK w : Is(w) /\ e = w[half]
    BY <1>2, <1>5, <2>2, ZenonT(40) DEF FillDict
  <2> HIDE DEF Is
  <2>4. Loops(w, a, cur, refs, TRUE, half, half)
    BY <2>1, <2>3
  <2>5. PICK pairs \in BOOLEAN, m \in Nat : pairs = TRUE /\ m = half
    BY <1>3
  <2>6. \E M : Went(f, a, w[m], L, M, cur) /\ HeldAs(f, w[m].h, M, cur, refs, pairs, half, m)
    <3>1. /\ Loops(w, a, cur, refs, pairs, half, m) /\ m = IF pairs THEN half ELSE Len(refs)
          /\ pairs => Len(refs) = 2 * half
      BY <1>3, <1>5, <2>4, <2>5
    <3>2. QED BY <1>1, <1>3, <3>1, LoopIs
  <2>7. QED BY <1>2, <1>5, <2>3, <2>5, <2>6 DEF Full
<1>6. QED BY <1>4, <1>5

\* The pass over the next object.
LEMMA NextIs ==
  ASSUME NEW f, FileWhole(f), NEW c, Counted(obs, c, f.count),
         NEW k \in Nat, k < f.count, NEW a, NEW L, Through(f, a, L, k), NEW refs, refs = f.toks[k + 1].refs,
         NEW e, e = CASE f.toks[k + 1].t = "ARR" -> FillArray(a, k + 1, refs)
                      [] f.toks[k + 1].t = "DICT" -> FillDict(a, k + 1, refs)
                      [] OTHER -> a
  PROVE  \E M : Through(f, e, M, k + 1)
<1>1. PICK cur : cur = k + 1
  OBVIOUS
<1>2. f.count \in Nat /\ cur \in 1 .. f.count /\ ~(cur <= k) /\ \A d \in 1 .. f.count : d <= k + 1 <=> d <= k \/ d = cur
  BY <1>1 DEF FileWhole
<1>3. Good(f, a, L) /\ L[cur]["key"] = <<>> /\ L[cur]["val"] = <<>>
  BY <1>2 DEF Through
<1>4. CASE f.toks[cur].t \in {"ARR", "DICT"}
  <2>1. \/ f.toks[cur].t = "ARR" /\ e = FillArray(a, cur, refs)
        \/ f.toks[cur].t = "DICT" /\ e = FillDict(a, cur, refs)
    BY <1>1, <1>4
  <2>2. PICK M : Went(f, a, e, L, M, cur) /\ Full(f, e.h, M, cur)
    BY <1>1, <1>2, <1>3, <2>1, FillIs
  <2>3. ASSUME NEW d \in 1 .. f.count, d # cur
        PROVE  /\ \A s \in Sides : M[d][s] = L[d][s]
               /\ Full(f, a.h, L, d) => Full(f, e.h, M, d)
    <3>1. d \in 1 .. Len(a.h)
      BY <1>2, <1>3 DEF Good, IsHeap
    <3>2. \A s \in Sides : M[d][s] = L[d][s]
      BY <2>2, <2>3, <3>1 DEF Went
    <3>3. Grown(a.h, e.h)
      BY <2>2 DEF Went
    <3>4. M[d]["key"] = L[d]["key"] /\ M[d]["val"] = L[d]["val"]
      BY <3>2 DEF Sides
    <3>5. ASSUME Full(f, a.h, L, d) PROVE Full(f, e.h, M, d)
      <4>1. \A side, l, q, first, n : Stood(f, a.h, side, l, q, first, n) => Stood(f, e.h, side, l, q, first, n)
        BY <3>3, StoodOn
      <4>2. QED BY <3>4, <3>5, <4>1 DEF Full, HeldAs
    <3>6. QED BY <3>2, <3>5
  <2>4. "key" \in Sides /\ "val" \in Sides
    BY DEF Sides
  <2>5. ASSUME NEW d \in 1 .. f.count
        PROVE  IF f.toks[d].t \in {"ARR", "DICT"} /\ d <= k + 1 THEN Full(f, e.h, M, d)
                                                                ELSE M[d]["key"] = <<>> /\ M[d]["val"] = <<>>
    <3>1. CASE d = cur
      BY <1>2, <1>4, <2>2, <3>1
    <3>2. CASE d # cur
      BY <1>2, <2>3, <2>4, <3>2 DEF Through
    <3>3. QED BY <3>1, <3>2
  <2>6. Good(f, e, M)
    BY <2>2 DEF Went
  <2>7. QED BY <2>5, <2>6 DEF Through
<1>5. CASE f.toks[cur].t \notin {"ARR", "DICT"}
  <2>1. e = a
    BY <1>1, <1>5
  <2>2. Through(f, a, L, k + 1)
    BY <1>2, <1>5 DEF Through
  <2>3. QED BY <2>1, <2>2
<1>6. QED BY <1>4, <1>5

-----------------------------------------------------------------------------
(* The inductive invariant.                                                 *)

\* The primitives of a block of the source.
Primitives(b, src) ==
  \E S : /\ b \in Seq(S)
         /\ \A x \in S : /\ x.kind \in {"i32", "object", "raw"}
                         /\ x.kind = "raw" => src.who = "call"
                         /\ x.kind = "object" => FileWhole(FileOf(x.v, src))

\* The first n objects of the file, as pass 1 has made them.
Fresh(f, h, n) ==
  /\ IsHeap(h) /\ Len(h) = n
  /\ \A x \in 1 .. n : /\ h[x].t = KindOf(f.toks[x]) /\ h[x].v = Kept(f.toks[x])
                       /\ h[x].next = 0 /\ \A s \in Sides : h[x].head[s] = 0

Numbers == onum \in Nat /\ file.count \in Nat

InFirstPass ==
  pc = "pass1" =>
    /\ FileWhole(file) /\ onum <= file.count /\ maxo \in 0 .. file.count - 1
    /\ used = {0} /\ iter = [block |-> 1, pos |-> 0]
    /\ Fresh(file, heap, onum) /\ \E c : Counted(obs, c, onum)

Lists(k) == \E L : Through(file, [h |-> heap, used |-> used, r |-> 0], L, k)

InSecondPass ==
  pc = "pass2" =>
    /\ FileWhole(file) /\ onum < file.count /\ Lists(onum)
    /\ \E c : /\ Counted(obs, c, file.count) /\ Reached(obs, c, iter, onum + 1)
              /\ iter.pos > 0

BeforeExpand ==
  pc = "expand" =>
    /\ FileWhole(file) /\ Lists(file.count - 1)
    /\ \E c : Counted(obs, c, file.count)

IInv ==
  /\ source \in Sources /\ Primitives(aux, source)
  /\ pc \in {"next", "pass1", "pass2", "expand", "done", "failed"}
  /\ Numbers
  /\ \E m \in Nat : \E c : Counted(obs, c, m)
  /\ InFirstPass
  /\ InSecondPass
  /\ BeforeExpand

\* A block has such primitives, and so has what is left of it.
LEMMA BlockIs ==
  ASSUME NEW src \in Sources
  PROVE  Primitives(BlockOf(src), src)
<1> DEFINE b == BlockOf(src)
           S == {b[i] : i \in 1 .. Len(b)}
<1>1. /\ b = [i \in 1 .. Len(b) |-> b[i]] /\ Len(b) \in Nat
      /\ \A i \in 1 .. Len(b) : /\ b[i].kind \in {"i32", "object", "raw"}
                                /\ b[i].kind = "raw" => src.who = "call"
                                /\ b[i].kind = "object" => FileWhole(FileOf(b[i].v, src))
  BY BlocksAssumption
<1> HIDE DEF b
<1>2. b \in Seq(S)
  <2>1. PICK n \in Nat : n = Len(b)
    BY <1>1
  <2>2. b = [i \in 1 .. n |-> b[i]] /\ \A i \in 1 .. n : b[i] \in S
    BY <1>1, <2>1
  <2> HIDE DEF S
  <2>3. b \in [1 .. n -> S]
    BY <2>2
  <2>4. QED BY <2>3, SeqDef
<1>3. QED BY <1>1, <1>2 DEF Primitives, b

LEMMA TailOfBlock ==
  ASSUME NEW b, NEW src, Primitives(b, src), b # <<>>
  PROVE  /\ Primitives(Tail(b), src) /\ Len(Tail(b)) < Len(b) /\ Len(Tail(b)) \in Nat
         /\ b[1].kind \in {"i32", "object", "raw"}
         /\ b[1].kind = "raw" => src.who = "call"
         /\ b[1].kind = "object" => FileWhole(FileOf(b[1].v, src))
<1>1. PICK S : /\ b \in Seq(S)
               /\ \A x \in S : /\ x.kind \in {"i32", "object", "raw"}
                               /\ x.kind = "raw" => src.who = "call"
                               /\ x.kind = "object" => FileWhole(FileOf(x.v, src))
  BY DEF Primitives
<1>2. Tail(b) \in Seq(S) /\ Len(Tail(b)) = Len(b) - 1 /\ Len(b) \in Nat \ {0} /\ b[1] \in S
  BY <1>1
<1>3. QED BY <1>1, <1>2 DEF Primitives

\* What pass 1 has made can be passed over from the start.
LEMMA FreshIs ==
  ASSUME NEW f, FileWhole(f), NEW h, Fresh(f, h, f.count), NEW us
  PROVE  \E L : Through(f, [h |-> h, used |-> us, r |-> 0], L, 0)
<1>1. PICK n \in Nat : n = f.count
  BY DEF FileWhole
<1>2. PICK a : a = [h |-> h, used |-> us, r |-> 0]
  OBVIOUS
<1>3. a.h = h /\ a.used = us /\ a = [h |-> a.h, used |-> a.used, r |-> a.r]
  BY <1>2
<1>4. PICK L : L = [x \in 1 .. n |-> [s \in Sides |-> <<>>]]
  OBVIOUS
<1>5. \A x \in 1 .. n, s \in Sides : L[x][s] = <<>>
  BY <1>4
<1>6. /\ IsHeap(h) /\ Len(h) = n
      /\ \A x \in 1 .. n : /\ h[x].t = KindOf(f.toks[x]) /\ h[x].v = Kept(f.toks[x])
                           /\ h[x].next = 0 /\ \A s \in Sides : h[x].head[s] = 0
  BY <1>1 DEF Fresh
<1>7. \A x, d, s, i : ~IsAt(h, L, x, d, s, i)
  <2>1. Len(<<>>) = 0 /\ \A i : i \notin 1 .. 0
    OBVIOUS
  <2>2. QED BY <1>5, <1>6, <2>1 DEF IsAt
<1>8. ASSUME NEW d \in 1 .. n, NEW s \in Sides
      PROVE  Chained(h, L[d][s], h[d].head[s], h[d].tail[s])
  <2>1. L[d][s] = <<>> /\ h[d].head[s] = 0
    BY <1>5, <1>6
  <2>2. <<>> \in Seq(1 .. Len(h)) /\ Len(<<>>) = 0 /\ \A i : i \notin 1 .. 0 - 1
    OBVIOUS
  <2>3. QED BY <2>1, <2>2 DEF Chained
<1>9. Threaded(h, L)
  BY <1>6, <1>7, <1>8 DEF Threaded
<1>10. Good(f, a, L)
  BY <1>1, <1>3, <1>6, <1>7, <1>9 DEF Good, Placed
<1>11. "key" \in Sides /\ "val" \in Sides
  BY DEF Sides
<1>12. Through(f, a, L, 0)
  BY <1>1, <1>5, <1>10, <1>11 DEF Through
<1>13. QED BY <1>2, <1>12

\* Init.
LEMMA InitInv == Init => IInv
<1> SUFFICES ASSUME Init PROVE IInv
  OBVIOUS
<1>1. source \in Sources /\ aux = BlockOf(source) /\ pc = "next" /\ file = NoFile /\ obs = << <<>> >> /\ onum = 0
  BY DEF Init
<1>2. Primitives(aux, source)
  BY <1>1, BlockIs
<1>3. Numbers
  BY <1>1 DEF Numbers, NoFile
<1>4. \E m \in Nat : \E c : Counted(obs, c, m)
  BY <1>1, NoneCounted
<1>5. QED BY <1>1, <1>2, <1>3, <1>4 DEF IInv, InFirstPass, InSecondPass, BeforeExpand

\* A number of the block, and its end.
LEMMA ReadNumberInv ==
  ASSUME IInv, ReadNumber
  PROVE  IInv' /\ Nearer /\ pc' # "failed"
<1>1. /\ pc = "next" /\ pc' = "next" /\ aux # <<>> /\ aux' = Tail(aux) /\ source' = source
      /\ obs' = obs /\ onum' = onum /\ file' = file
  BY DEF ReadNumber, reading
<1>2. source \in Sources /\ Primitives(aux, source) /\ Numbers /\ \E m \in Nat : \E c : Counted(obs, c, m)
  BY DEF IInv
<1>3. Primitives(aux', source') /\ Len(aux') < Len(aux)
  BY <1>1, <1>2, TailOfBlock
<1>4. Numbers' /\ (\E m \in Nat : \E c : Counted(obs, c, m))'
  BY <1>1, <1>2 DEF Numbers
<1>5. IInv'
  BY <1>1, <1>2, <1>3, <1>4 DEF IInv, InFirstPass, InSecondPass, BeforeExpand
<1>6. QED BY <1>1, <1>3, <1>5 DEF Nearer, Left

LEMMA EndOfBlockInv ==
  ASSUME IInv, EndOfBlock
  PROVE  IInv' /\ Nearer /\ pc' # "failed"
<1>1. /\ pc = "next" /\ pc' = "done" /\ aux' = aux /\ source' = source
      /\ obs' = obs /\ onum' = onum /\ file' = file
  BY DEF EndOfBlock, reading
<1>2. source \in Sources /\ Primitives(aux, source) /\ Numbers /\ \E m \in Nat : \E c : Counted(obs, c, m)
  BY DEF IInv
<1>3. Numbers' /\ (\E m \in Nat : \E c : Counted(obs, c, m))'
  BY <1>1, <1>2 DEF Numbers
<1>4. IInv'
  BY <1>1, <1>2, <1>3 DEF IInv, InFirstPass, InSecondPass, BeforeExpand
<1>5. Left[1]' = Left[1] /\ Left[2]' < Left[2]
  BY <1>1 DEF Left
<1>6. QED BY <1>1, <1>4, <1>5 DEF Nearer

\* An object of the block.
LEMMA ReadObjectInv ==
  ASSUME IInv, ReadObject
  PROVE  IInv' /\ Nearer /\ (pc' = "failed" => source.who = "call")
<1>1. pc = "next" /\ aux # <<>> /\ aux' = Tail(aux) /\ source' = source /\ aux[1].kind \in {"object", "raw"}
  BY DEF ReadObject
<1>2. source \in Sources /\ Primitives(aux, source) /\ Numbers /\ \E m \in Nat : \E c : Counted(obs, c, m)
  BY DEF IInv
<1>3. /\ Primitives(aux', source') /\ Len(aux') < Len(aux)
      /\ aux[1].kind = "raw" => source.who = "call"
      /\ aux[1].kind = "object" => FileWhole(FileOf(aux[1].v, source))
  BY <1>1, <1>2, TailOfBlock
<1>4. CASE aux[1].kind = "raw"
  <2>1. pc' = "failed" /\ obs' = obs /\ onum' = onum /\ file' = file
    BY <1>4 DEF ReadObject, reading
  <2>2. Numbers' /\ (\E m \in Nat : \E c : Counted(obs, c, m))'
    BY <1>2, <2>1 DEF Numbers
  <2>3. IInv'
    BY <1>1, <1>2, <1>3, <2>1, <2>2 DEF IInv, InFirstPass, InSecondPass, BeforeExpand
  <2>4. QED BY <1>3, <1>4, <2>3 DEF Nearer, Left
<1>5. CASE aux[1].kind = "object"
  <2>1. /\ pc' = "pass1" /\ file' = FileOf(aux[1].v, source) /\ heap' = <<>> /\ obs' = << <<>> >>
        /\ onum' = 0 /\ maxo' = 0 /\ iter' = [block |-> 1, pos |-> 0] /\ used' = {0}
    BY <1>5 DEF ReadObject, bpList__new
  <2>2. FileWhole(file') /\ file'.count \in Nat \ {0}
    BY <1>3, <1>5, <2>1 DEF FileWhole
  <2>3. (\E c : Counted(obs, c, onum))'
    BY <2>1, NoneCounted
  <2>4. Fresh(file', heap', onum')
    <3>1. <<>> \in Seq({}) /\ Len(<<>>) = 0 /\ \A x : x \notin 1 .. 0
      OBVIOUS
    <3>2. IsHeap(<<>>)
      BY <3>1 DEF IsHeap
    <3>3. QED BY <2>1, <3>1, <3>2 DEF Fresh
  <2>5. InFirstPass'
    BY <2>1, <2>2, <2>3, <2>4 DEF InFirstPass
  <2>6. Numbers' /\ (\E m \in Nat : \E c : Counted(obs, c, m))'
    BY <2>1, <2>2, <2>3 DEF Numbers
  <2>7. IInv'
    BY <1>1, <1>2, <1>3, <2>1, <2>5, <2>6 DEF IInv, InSecondPass, BeforeExpand
  <2>8. QED BY <1>3, <2>1, <2>7 DEF Nearer, Left
<1>6. QED BY <1>1, <1>4, <1>5

\* An object of pass 1.
LEMMA Pass1Inv ==
  ASSUME IInv, bpList__pass1
  PROVE  IInv' /\ Nearer /\ pc' # "failed"
<1>1. /\ pc = "pass1" /\ pc' = "pass1" /\ InPass1 /\ onum' = onum + 1 /\ source' = source /\ aux' = aux
      /\ file' = file /\ iter' = iter /\ used' = used
      /\ heap' = Parsed(file.toks[onum + 1]).h
      /\ obs' = ptrArr__add(obs, at, Parsed(file.toks[onum + 1]).r).blocks
      /\ maxo' = Largest({maxo} \union {file.toks[onum + 1].refs[i] : i \in DOMAIN file.toks[onum + 1].refs})
  BY DEF bpList__pass1
<1>2. source \in Sources /\ Primitives(aux, source) /\ Numbers /\ InFirstPass
  BY DEF IInv
<1>3. /\ FileWhole(file) /\ onum <= file.count /\ maxo \in 0 .. file.count - 1
      /\ used = {0} /\ iter = [block |-> 1, pos |-> 0]
      /\ Fresh(file, heap, onum) /\ onum \in Nat /\ file.count \in Nat
  BY <1>1, <1>2 DEF InFirstPass, Numbers
<1>4. onum + 1 \in 1 .. file.count
  BY <1>1, <1>3 DEF InPass1, maxObNum
<1>5. PICK tok, z : tok = file.toks[onum + 1] /\ z = onum + 1
  OBVIOUS
<1>6. /\ IsHeap(heap') /\ Len(heap') = z /\ \A x \in 1 .. onum : heap'[x] = heap[x]
      /\ heap'[z].t = KindOf(tok) /\ heap'[z].v = Kept(tok) /\ heap'[z].next = 0 /\ \A s \in Sides : heap'[z].head[s] = 0
  <2>1. IsHeap(heap) /\ Len(heap) = onum /\ heap' = New(heap, KindOf(tok), Kept(tok)).h
    BY <1>1, <1>3, <1>5 DEF Fresh, Parsed
  <2>2. PICK g : g = heap'
    OBVIOUS
  <2>3. /\ IsHeap(g) /\ Len(g) = Len(heap) + 1 /\ \A x \in 1 .. Len(heap) : g[x] = heap[x]
        /\ g[Len(heap) + 1].t = KindOf(tok) /\ g[Len(heap) + 1].v = Kept(tok)
        /\ g[Len(heap) + 1].next = 0 /\ \A s \in Sides : g[Len(heap) + 1].head[s] = 0
    BY <2>1, <2>2, NewIs
  <2>4. QED BY <1>5, <2>1, <2>2, <2>3
<1>7. Fresh(file', heap', onum')
  <2>1. \A x \in 1 .. z : x = z \/ x \in 1 .. onum
    BY <1>3, <1>5
  <2>2. \A x \in 1 .. onum : /\ heap'[x].t = KindOf(file.toks[x]) /\ heap'[x].v = Kept(file.toks[x])
                            /\ heap'[x].next = 0 /\ \A s \in Sides : heap'[x].head[s] = 0
    BY <1>3, <1>6 DEF Fresh
  <2>3. \A x \in 1 .. z : /\ heap'[x].t = KindOf(file.toks[x]) /\ heap'[x].v = Kept(file.toks[x])
                         /\ heap'[x].next = 0 /\ \A s \in Sides : heap'[x].head[s] = 0
    BY <1>5, <1>6, <2>1, <2>2
  <2>4. QED BY <1>1, <1>5, <1>6, <2>3 DEF Fresh
<1>8. obs' = PushLast(obs, onum + 1)
  <2>1. New(heap, KindOf(tok), Kept(tok)).r = onum + 1
    BY <1>3 DEF Fresh, New
  <2>2. QED BY <1>1, <1>5, <2>1 DEF ptrArr__add, Parsed
<1>9. \E c : Counted(obs', c, onum + 1)
  <2>1. PICK c : Counted(obs, c, onum)
    BY <1>1, <1>2 DEF InFirstPass
  <2>2. QED BY <1>3, <1>8, <2>1, PushCounted
<1>10. maxo' \in 0 .. file.count - 1
  <2> DEFINE S == {maxo} \union {tok.refs[i] : i \in DOMAIN tok.refs}
  <2>1. tok.refs \in Seq(0 .. file.count - 1)
    BY <1>3, <1>4, <1>5 DEF FileWhole
  <2>2. \A i \in DOMAIN tok.refs : tok.refs[i] \in 0 .. file.count - 1
    <3>1. DOMAIN tok.refs = 1 .. Len(tok.refs)
      BY <2>1
    <3>2. QED BY <2>1, <3>1, ElementOfSeq
  <2>3. S \in SUBSET (0 .. file.count - 1) /\ S # {} /\ file.count - 1 \in Nat
    BY <1>3, <1>4, <2>2
  <2>4. maxo' = Largest(S)
    BY <1>1, <1>5
  <2> HIDE DEF S
  <2>5. QED BY <2>3, <2>4, Greatest
<1>11. InFirstPass' /\ Numbers'
  <2>1. (\E c : Counted(obs, c, onum))' /\ onum' <= file'.count /\ onum' \in Nat
    <3>1. \E c : Counted(obs', c, onum')
      BY <1>1, <1>9
    <3>2. onum' <= file'.count /\ onum' \in Nat
      BY <1>1, <1>3, <1>4
    <3>3. QED BY <3>1, <3>2
  <2>2. InFirstPass'
    BY <1>1, <1>3, <1>7, <1>10, <2>1 DEF InFirstPass
  <2>3. Numbers'
    BY <1>1, <1>3, <2>1 DEF Numbers
  <2>4. QED BY <2>2, <2>3
<1>12. (\E m \in Nat : \E c : Counted(obs, c, m))'
  BY <1>3, <1>9
<1>13. IInv'
  BY <1>1, <1>2, <1>11, <1>12 DEF IInv, InSecondPass, BeforeExpand
<1>14. file'.count - onum' < file.count - onum
  BY <1>1, <1>3
<1>15. QED BY <1>1, <1>13, <1>14 DEF Nearer, Left

\* From pass 1 to pass 2.
LEMMA StartPass2Inv ==
  ASSUME IInv, StartPass2
  PROVE  IInv' /\ Nearer /\ pc' # "failed"
<1>1. /\ pc = "pass1" /\ pc' = "pass2" /\ ~InPass1 /\ onum' = 0 /\ iter' = ptrArr__iter(obs, iter).it
      /\ source' = source /\ aux' = aux /\ file' = file /\ heap' = heap /\ obs' = obs /\ used' = used
  BY DEF StartPass2
<1>2. /\ source \in Sources /\ Primitives(aux, source) /\ Numbers /\ InFirstPass
      /\ \E m \in Nat : \E c : Counted(obs, c, m)
  BY DEF IInv
<1>3. /\ FileWhole(file) /\ onum <= file.count /\ iter = [block |-> 1, pos |-> 0]
      /\ Fresh(file, heap, onum) /\ onum \in Nat /\ file.count \in Nat \ {0}
      /\ \E c : Counted(obs, c, onum)
  BY <1>1, <1>2 DEF InFirstPass, Numbers, FileWhole
<1>4. onum = file.count
  BY <1>1, <1>3 DEF InPass1, maxObNum
<1>5. PICK c : Counted(obs, c, file.count)
  BY <1>3, <1>4
<1>6. Reached(obs, c, iter, 0)
  <2>1. PICK it : it = iter
    OBVIOUS
  <2>2. it = [block |-> 1, pos |-> 0] /\ it.block = 1 /\ it.pos = 0
    BY <1>3, <2>1
  <2>3. Len(obs) \in Nat \ {0} /\ c[1] = 0
    BY <1>5 DEF Counted
  <2>4. 1 \in 1 .. Len(obs) /\ Len(obs[1]) \in 0 .. ChunkMax
    BY <1>5, <2>3 DEF Counted
  <2>5. 0 \in 0 .. Len(obs[1])
    BY <2>4, BlocksAssumption
  <2>6. Reached(obs, c, it, 0)
    BY <2>2, <2>3, <2>4, <2>5 DEF Reached
  <2>7. QED BY <2>1, <2>6
<1>7. Reached(obs, c, iter', 1) /\ iter'.pos > 0
  <2>1. 0 < file.count /\ 0 + 1 = 1
    BY <1>3
  <2>2. PICK k \in Nat : k = 0
    OBVIOUS
  <2>3. Reached(obs, c, ptrArr__iter(obs, iter).it, k + 1) /\ ptrArr__iter(obs, iter).it.pos > 0
    BY <1>3, <1>5, <1>6, <2>1, <2>2, IterIs
  <2>4. QED BY <1>1, <2>2, <2>3
<1>8. Lists(0)
  BY <1>3, <1>4, FreshIs DEF Lists
<1>9. Lists(onum)'
  BY <1>1, <1>8 DEF Lists
<1>10. InSecondPass'
  BY <1>1, <1>3, <1>5, <1>7, <1>9 DEF InSecondPass
<1>11. Numbers' /\ (\E m \in Nat : \E d : Counted(obs, d, m))'
  BY <1>1, <1>2, <1>3 DEF Numbers
<1>12. IInv'
  BY <1>1, <1>2, <1>10, <1>11 DEF IInv, InFirstPass, BeforeExpand
<1>13. Left[1]' = Left[1] /\ Left[2]' < Left[2]
  BY <1>1 DEF Left
<1>14. QED BY <1>1, <1>12, <1>13 DEF Nearer

\* An object of pass 2.
LEMMA Pass2Inv ==
  ASSUME IInv, bpList__pass2
  PROVE  IInv' /\ Nearer /\ pc' # "failed"
<1> DEFINE acc == [h |-> heap, used |-> used, r |-> 0]
           tok == file.toks[onum + 1]
           After(cur) == CASE tok.t = "ARR" -> FillArray(acc, cur, tok.refs)
                           [] tok.t = "DICT" -> FillDict(acc, cur, tok.refs)
                           [] OTHER -> acc
<1>1. /\ pc = "pass2" /\ pc' = "pass2" /\ onum < maxObNum /\ onum' = onum + 1
      /\ iter' = ptrArr__iter(obs, iter).it
      /\ source' = source /\ aux' = aux /\ file' = file /\ obs' = obs
      /\ heap' = After(obs[iter.block][iter.pos]).h /\ used' = After(obs[iter.block][iter.pos]).used
  BY DEF bpList__pass2
<1>2. /\ source \in Sources /\ Primitives(aux, source) /\ Numbers /\ InSecondPass
      /\ \E m \in Nat : \E c : Counted(obs, c, m)
  BY DEF IInv
<1>3. /\ FileWhole(file) /\ onum < file.count /\ Lists(onum) /\ onum \in Nat /\ file.count \in Nat
      /\ \E c : /\ Counted(obs, c, file.count) /\ Reached(obs, c, iter, onum + 1)
                /\ iter.pos > 0
  BY <1>1, <1>2 DEF InSecondPass, Numbers
<1>4. PICK c : /\ Counted(obs, c, file.count) /\ Reached(obs, c, iter, onum + 1)
               /\ iter.pos > 0
  BY <1>3
<1>5. obs[iter.block][iter.pos] = onum + 1
  BY <1>3, <1>4, PlaceIs
<1>6. onum + 1 \in Nat /\ onum + 1 < file.count
  BY <1>1, <1>3 DEF maxObNum
<1>7. Reached(obs, c, iter', onum' + 1) /\ iter'.pos > 0
  BY <1>1, <1>3, <1>4, <1>6, IterIs
<1>8. PICK L : Through(file, acc, L, onum)
  BY <1>3 DEF Lists
<1>9. PICK e : e = After(onum + 1)
  OBVIOUS
<1>10. PICK M : Through(file, e, M, onum + 1)
  BY <1>3, <1>4, <1>8, <1>9, NextIs
<1>11. heap' = e.h /\ used' = e.used
  BY <1>1, <1>5, <1>9
<1> HIDE DEF After, acc, tok
<1>12. PICK b : b = [h |-> heap', used |-> used', r |-> 0]
  OBVIOUS
<1>13. b.h = e.h /\ b.used = e.used /\ b = [h |-> b.h, used |-> b.used, r |-> b.r]
  BY <1>11, <1>12
<1>14. Through(file, b, M, onum + 1)
  BY <1>10, <1>13 DEF Through, Good
<1>15. Lists(onum)'
  BY <1>1, <1>12, <1>14 DEF Lists
<1>16. InSecondPass'
  BY <1>1, <1>3, <1>4, <1>6, <1>7, <1>15 DEF InSecondPass
<1>17. Numbers' /\ (\E m \in Nat : \E d : Counted(obs, d, m))'
  BY <1>1, <1>2, <1>3 DEF Numbers
<1>18. IInv'
  BY <1>1, <1>2, <1>16, <1>17 DEF IInv, InFirstPass, BeforeExpand
<1>19. file'.count - onum' < file.count - onum
  BY <1>1, <1>3
<1>20. QED BY <1>1, <1>18, <1>19 DEF Nearer, Left

\* From pass 2 to the expansion.
LEMMA EndPass2Inv ==
  ASSUME IInv, EndPass2
  PROVE  IInv' /\ Nearer /\ pc' # "failed"
<1>1. /\ pc = "pass2" /\ pc' = "expand" /\ onum >= maxObNum
      /\ source' = source /\ aux' = aux /\ file' = file /\ heap' = heap /\ obs' = obs /\ used' = used /\ onum' = onum
  BY DEF EndPass2, reading
<1>2. /\ source \in Sources /\ Primitives(aux, source) /\ Numbers /\ InSecondPass
      /\ \E m \in Nat : \E c : Counted(obs, c, m)
  BY DEF IInv
<1>3. /\ FileWhole(file) /\ onum < file.count /\ Lists(onum) /\ onum \in Nat /\ file.count \in Nat
      /\ \E c : Counted(obs, c, file.count)
  BY <1>1, <1>2 DEF InSecondPass, Numbers
<1>4. onum = file.count - 1
  BY <1>1, <1>3 DEF maxObNum
<1>5. Lists(file.count - 1)'
  BY <1>1, <1>3, <1>4 DEF Lists
<1>6. BeforeExpand'
  BY <1>1, <1>3, <1>5 DEF BeforeExpand
<1>7. Numbers' /\ (\E m \in Nat : \E d : Counted(obs, d, m))'
  BY <1>1, <1>2 DEF Numbers
<1>8. IInv'
  BY <1>1, <1>2, <1>6, <1>7 DEF IInv, InFirstPass, InSecondPass
<1>9. Left[1]' = Left[1] /\ Left[2]' < Left[2]
  BY <1>1 DEF Left
<1>10. QED BY <1>1, <1>8, <1>9 DEF Nearer

\* The expansion, whatever it does to the heap.
LEMMA ExpandInv ==
  ASSUME IInv, Expand
  PROVE  IInv' /\ Nearer /\ pc' # "failed"
<1>1. /\ pc = "expand" /\ pc' = "next"
      /\ source' = source /\ aux' = aux /\ file' = file /\ obs' = obs /\ onum' = onum
  BY DEF Expand
<1>2. source \in Sources /\ Primitives(aux, source) /\ Numbers /\ \E m \in Nat : \E c : Counted(obs, c, m)
  BY DEF IInv
<1>3. Numbers' /\ (\E m \in Nat : \E d : Counted(obs, d, m))'
  BY <1>1, <1>2 DEF Numbers
<1>4. IInv'
  BY <1>1, <1>2, <1>3 DEF IInv, InFirstPass, InSecondPass, BeforeExpand
<1>5. Left[1]' = Left[1] /\ Left[2]' < Left[2]
  BY <1>1 DEF Left
<1>6. QED BY <1>1, <1>4, <1>5 DEF Nearer

\* Every step keeps the invariant, and every one that changes something brings the end nearer.
LEMMA NextInv ==
  ASSUME IInv, [Next]_vars
  PROVE  IInv' /\ [Nearer /\ (pc' = "failed" => source.who = "call")]_vars
<1>1. CASE UNCHANGED vars
  <2>1. IInv' = IInv
    BY <1>1 DEF vars, IInv, Numbers, InFirstPass, InSecondPass, BeforeExpand, Lists
  <2>2. QED BY <1>1, <2>1
<1>2. CASE ReadNumber
  BY <1>2, ReadNumberInv
<1>3. CASE ReadObject
  BY <1>3, ReadObjectInv
<1>4. CASE EndOfBlock
  BY <1>4, EndOfBlockInv
<1>5. CASE bpList__pass1
  BY <1>5, Pass1Inv
<1>6. CASE StartPass2
  BY <1>6, StartPass2Inv
<1>7. CASE bpList__pass2
  BY <1>7, Pass2Inv
<1>8. CASE EndPass2
  BY <1>8, EndPass2Inv
<1>9. CASE Expand
  BY <1>9, ExpandInv
<1>10. CASE Stopped
  BY <1>1, <1>10 DEF Stopped
<1>11. QED BY <1>1, <1>2, <1>3, <1>4, <1>5, <1>6, <1>7, <1>8, <1>9, <1>10 DEF Next

\* The invariant holds in every state.
THEOREM ReadingInvariant == Spec => []IInv
<1>1. Init => IInv
  BY InitInv
<1>2. IInv /\ [Next]_vars => IInv'
  BY NextInv
<1>3. QED BY <1>1, <1>2, PTL DEF Spec

\* Reading ends for every block, and is given up only for bytes this program sends
\* (deserialize2t, cfutil.c, and the two passes of plist_read.c).
THEOREM ReadingAlwaysEnds == Spec => ReadingEnds
<1>1. IInv /\ [Next]_vars => [Nearer /\ (pc' = "failed" => source.who = "call")]_vars
  BY NextInv
<1>2. QED BY <1>1, ReadingInvariant, PTL DEF Spec, ReadingEnds

-----------------------------------------------------------------------------
(* What the lists are, said of the heap.                                    *)

\* The lists an object holds.
LEMMA HeldIs ==
  ASSUME NEW L, NEW a, a.h = heap, Good(file, a, L), NEW o \in 1 .. Len(heap)
  PROVE  Held(o).key = L[o]["key"] /\ Held(o).val = L[o]["val"] /\ \A s \in Sides : Held(o)[s] = L[o][s]
<1>1. IsHeap(heap) /\ Threaded(heap, L) /\ "key" \in Sides /\ "val" \in Sides
  BY DEF Good, Sides
<1>2. Keys(heap, o) = L[o]["key"] /\ Vals(heap, o) = L[o]["val"]
  BY <1>1, ListIs DEF Keys, Vals
<1>3. PICK k, v : k = Keys(heap, o) /\ v = Vals(heap, o)
  OBVIOUS
<1>4. Held(o) = [key |-> k, val |-> v]
  BY <1>3 DEF Held
<1>5. Held(o).key = k /\ Held(o).val = v /\ Held(o)["key"] = k /\ Held(o)["val"] = v
  BY <1>4
<1>6. QED BY <1>2, <1>3, <1>5 DEF Sides

\* No object is in two places.
LEMMA OnePlace ==
  ASSUME NEW L, NEW a, a.h = heap, Good(file, a, L)
  PROVE  \A p, q \in Places : p.ob = q.ob => p = q
<1>1. IsHeap(heap) /\ Threaded(heap, L) /\ DOMAIN heap = 1 .. Len(heap)
  <2>1. IsHeap(heap) /\ Threaded(heap, L)
    BY DEF Good
  <2>2. PICK S : heap \in Seq(S)
    BY <2>1 DEF IsHeap
  <2>3. QED BY <2>1, <2>2
<1>2. ASSUME NEW p \in Places
      PROVE  \E o, s, i : IsAt(heap, L, p.ob, o, s, i) /\ p = [of |-> o, side |-> s, place |-> i, ob |-> p.ob]
  <2>1. PICK o \in 1 .. Len(heap), s \in Sides :
          p \in {[of |-> o, side |-> s, place |-> i, ob |-> Held(o)[s][i]] : i \in DOMAIN Held(o)[s]}
    BY <1>1 DEF Places
  <2>2. PICK l : l = Held(o)[s]
    OBVIOUS
  <2>3. PICK i \in DOMAIN l : p = [of |-> o, side |-> s, place |-> i, ob |-> l[i]]
    BY <2>1, <2>2
  <2>4. l = L[o][s]
    BY <2>2, HeldIs
  <2>5. l \in Seq(1 .. Len(heap))
    BY <1>1, <2>4, ThreadedIs
  <2>6. i \in 1 .. Len(l) /\ p.ob = l[i]
    BY <2>3, <2>5
  <2>7. IsAt(heap, L, p.ob, o, s, i)
    BY <2>4, <2>6 DEF IsAt
  <2>8. QED BY <2>3, <2>6, <2>7
<1>3. \A x, d, s, i, e, r, j :
        IsAt(heap, L, x, d, s, i) /\ IsAt(heap, L, x, e, r, j) => d = e /\ s = r /\ i = j
  BY <1>1 DEF Threaded
<1>4. QED BY <1>2, <1>3

\* Once the second pass is over, the containers but the last object are filled.
LEMMA FilledIs ==
  ASSUME FileWhole(file), NEW c, Counted(obs, c, file.count),
         NEW L, NEW a, a.h = heap, Through(file, a, L, file.count - 1), NEW n \in 1 .. maxObNum
  PROVE  LET tok == file.toks[n]
             held == Held(ptrArr__get(obs, n - 1))
             keys == IF tok.t = "DICT" THEN Len(tok.refs) \div 2 ELSE 0
         IN tok.t \in {"ARR", "DICT"} =>
              /\ Len(held.key) = keys /\ Len(held.val) = Len(tok.refs) - keys
              /\ \A i \in DOMAIN held.key : Stands(heap, "key", held.key[i], tok.refs[i])
              /\ \A i \in DOMAIN held.val : Stands(heap, "val", held.val[i], tok.refs[keys + i])
<1>1. file.count \in Nat /\ n \in Nat /\ n - 1 \in Nat /\ n - 1 < file.count /\ n \in 1 .. file.count
      /\ n <= file.count - 1
  BY DEF maxObNum, FileWhole
<1>2. ptrArr__get(obs, n - 1) = n
  BY <1>1, GetIs
<1>3. Good(file, a, L) /\ IsHeap(heap) /\ Threaded(heap, L) /\ n \in 1 .. Len(heap)
  <2>1. Good(file, a, L) /\ IsHeap(heap) /\ Threaded(heap, L) /\ file.count <= Len(heap)
    BY DEF Through, Good
  <2>2. Len(heap) \in Nat
    BY <2>1 DEF IsHeap
  <2>3. QED BY <1>1, <2>1, <2>2
<1>4. PICK kl, vl : kl = L[n]["key"] /\ vl = L[n]["val"]
  OBVIOUS
<1>5. PICK held : held = Held(n)
  OBVIOUS
<1>6. held.key = kl /\ held.val = vl
  BY <1>3, <1>4, <1>5, HeldIs
<1>7. kl \in Seq(1 .. Len(heap)) /\ vl \in Seq(1 .. Len(heap))
  BY <1>3, <1>4, ThreadedIs DEF Sides
<1>8. DOMAIN kl = 1 .. Len(kl) /\ DOMAIN vl = 1 .. Len(vl)
  BY <1>7
<1>9. PICK tok : tok = file.toks[n]
  OBVIOUS
<1>10. PICK refs : refs = tok.refs
  OBVIOUS
<1>11. refs \in Seq(0 .. file.count - 1) /\ Len(refs) \in Nat
  BY <1>1, <1>9, <1>10 DEF FileWhole
<1>12. ASSUME NEW x, NEW side, NEW i \in 1 .. Len(refs), StandsFor(file, heap, side, x, refs[i])
       PROVE  Stands(heap, side, x, refs[i])
  <2>1. PICK key \in 0 .. file.count - 1 : key = refs[i]
    <3>1. refs[i] \in 0 .. file.count - 1
      BY <1>11, ElementOfSeq
    <3>2. QED BY <3>1
  <2>2. ptrArr__get(obs, key) = key + 1
    <3>1. key \in Nat /\ key < file.count
      BY <1>1
    <3>2. QED BY <1>1, <3>1, GetIs
  <2>3. QED BY <1>12, <2>1, <2>2 DEF StandsFor, Stands
<1>13. PICK half : half = Len(refs) \div 2
  OBVIOUS
<1>14. ASSUME tok.t \in {"ARR", "DICT"}
       PROVE  Full(file, heap, L, n)
  BY <1>1, <1>9, <1>14 DEF Through
<1>15. ASSUME tok.t = "DICT"
       PROVE  /\ Len(kl) = half /\ Len(vl) = Len(refs) - half
              /\ \A i \in DOMAIN kl : Stands(heap, "key", kl[i], refs[i])
              /\ \A i \in DOMAIN vl : Stands(heap, "val", vl[i], refs[half + i])
  <2>1. PICK k \in 0 .. Len(refs) : Len(refs) = 2 * k
    BY <1>1, <1>9, <1>10, <1>15 DEF FileWhole
  <2>2. half = k /\ half \in Nat /\ Len(refs) = half + half
    BY <1>11, <1>13, <2>1
  <2>3. /\ Stood(file, heap, "key", kl, refs, 0, half)
        /\ Stood(file, heap, "val", vl, refs, half, half)
    BY <1>4, <1>9, <1>10, <1>13, <1>14, <1>15 DEF Full, HeldAs
  <2>4. Len(kl) = half /\ Len(vl) = half
    BY <2>3 DEF Stood
  <2>5. \A i \in 1 .. half : /\ StandsFor(file, heap, "key", kl[i], refs[0 + i])
                             /\ StandsFor(file, heap, "val", vl[i], refs[half + i])
    BY <2>3 DEF Stood
  <2>6. \A i \in 1 .. half : i \in 1 .. Len(refs) /\ half + i \in 1 .. Len(refs) /\ 0 + i = i
    BY <2>2
  <2>7. QED BY <1>8, <1>12, <2>2, <2>4, <2>5, <2>6
<1>16. ASSUME tok.t = "ARR"
       PROVE  /\ Len(kl) = 0 /\ Len(vl) = Len(refs)
              /\ \A i \in DOMAIN vl : Stands(heap, "val", vl[i], refs[0 + i])
  <2>1. /\ Stood(file, heap, "key", kl, refs, 0, 0)
        /\ Stood(file, heap, "val", vl, refs, 0, Len(refs))
    BY <1>4, <1>9, <1>10, <1>13, <1>14, <1>16 DEF Full, HeldAs
  <2>2. Len(kl) = 0 /\ Len(vl) = Len(refs)
    BY <2>1 DEF Stood
  <2>3. \A i \in 1 .. Len(refs) : StandsFor(file, heap, "val", vl[i], refs[0 + i]) /\ 0 + i = i
    BY <1>11, <2>1 DEF Stood
  <2>4. QED BY <1>8, <1>12, <2>2, <2>3
<1>17. \A i : i \notin 1 .. 0
  OBVIOUS
<1>18. PICK keys : keys = IF tok.t = "DICT" THEN Len(tok.refs) \div 2 ELSE 0
  OBVIOUS
<1>19. Held(ptrArr__get(obs, n - 1)) = held
  BY <1>2, <1>5
<1>20. ASSUME tok.t \in {"ARR", "DICT"}
       PROVE  /\ Len(held.key) = keys /\ Len(held.val) = Len(tok.refs) - keys
              /\ \A i \in DOMAIN held.key : Stands(heap, "key", held.key[i], tok.refs[i])
              /\ \A i \in DOMAIN held.val : Stands(heap, "val", held.val[i], tok.refs[keys + i])
  <2>1. CASE tok.t = "DICT"
    <3>1. keys = half
      BY <1>10, <1>13, <1>18, <2>1
    <3>2. QED BY <1>6, <1>10, <1>15, <2>1, <3>1
  <2>2. CASE tok.t = "ARR"
    <3>1. keys = 0
      BY <1>18, <2>2
    <3>2. Len(refs) - 0 = Len(refs)
      BY <1>11
    <3>3. \A i \in DOMAIN kl : FALSE
      BY <1>8, <1>16, <1>17, <2>2
    <3>4. QED BY <1>6, <1>10, <1>16, <2>2, <3>1, <3>2, <3>3
  <2>3. QED BY <1>20, <2>1, <2>2
<1>21. QED BY <1>9, <1>18, <1>19, <1>20

\* The two passes meet at every object and fill all containers but the last one,
\* and no object is in two lists (plist_read.c, ptrarr.c and tARR__add, archiver.c).
THEOREM ListsAlwaysWhole == Spec => []ListsAreWhole
<1>1. IInv => ListsAreWhole
  <2> SUFFICES ASSUME IInv PROVE ListsAreWhole
    OBVIOUS
  <2> DEFINE acc == [h |-> heap, used |-> used, r |-> 0]
  <2>1. acc.h = heap
    OBVIOUS
  <2>2. \A b \in DOMAIN obs : Len(obs[b]) <= ChunkMax
    <3>1. PICK m, c : Counted(obs, c, m)
      BY DEF IInv
    <3>2. DOMAIN obs = 1 .. Len(obs) /\ \A b \in 1 .. Len(obs) : Len(obs[b]) \in 0 .. ChunkMax
      BY <3>1 DEF Counted
    <3>3. QED BY <3>2, BlocksAssumption
  <2>3. InOneList
    <3> SUFFICES ASSUME pc \in {"pass2", "expand"} PROVE \A p, q \in Places : p.ob = q.ob => p = q
      BY DEF InOneList
    <3>1. PICK k, L : Through(file, acc, L, k)
      BY DEF IInv, InSecondPass, BeforeExpand, Lists
    <3>2. Good(file, acc, L)
      BY <3>1 DEF Through
    <3>3. QED BY <2>1, <3>2, OnePlace
  <2>4. FilledButTheLast
    <3> SUFFICES ASSUME pc = "expand"
                 PROVE  \A n \in 1 .. maxObNum :
                          LET tok == file.toks[n]
                              held == Held(ptrArr__get(obs, n - 1))
                              keys == IF tok.t = "DICT" THEN Len(tok.refs) \div 2 ELSE 0
                          IN tok.t \in {"ARR", "DICT"} =>
                               /\ Len(held.key) = keys /\ Len(held.val) = Len(tok.refs) - keys
                               /\ \A i \in DOMAIN held.key : Stands(heap, "key", held.key[i], tok.refs[i])
                               /\ \A i \in DOMAIN held.val : Stands(heap, "val", held.val[i], tok.refs[keys + i])
      BY DEF FilledButTheLast
    <3>1. FileWhole(file)
      BY DEF IInv, BeforeExpand
    <3>2. PICK L : Through(file, acc, L, file.count - 1)
      BY DEF IInv, BeforeExpand, Lists
    <3>3. PICK c : Counted(obs, c, file.count)
      BY DEF IInv, BeforeExpand
    <3>4. QED BY <2>1, <3>1, <3>2, <3>3, FilledIs
  <2>5. QED BY <2>2, <2>3, <2>4 DEF ListsAreWhole
<1>2. QED BY <1>1, ReadingInvariant, PTL
=============================================================================
