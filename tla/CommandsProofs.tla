--------------------------- MODULE CommandsProofs ---------------------------
(***************************************************************************)
(* Theorems about Commands, for any command lines, any devices that come   *)
(* and go and any failures.                                                 *)
(*                                                                         *)
(* The first part is about what the operators of CommandLine and Answers    *)
(* compute, for any words and any answers.  The lists of options are        *)
(* followed as main builds them: whatever cells they share, a cell is       *)
(* followed by nothing or by the one that is behind it in every array that  *)
(* has it, so the walk of a command's list meets its own array.  The reader *)
(* of the words is told by the set of places its loop gets to: it has a     *)
(* greatest place, where the loop stops, and no place in it is the value of *)
(* an option that is in it too.  A version is read digit by digit, between  *)
(* its dots.                                                                *)
(*                                                                         *)
(* The second part is about the rows of steps: each opens one session, with *)
(* nothing but steps that go on or crash until it is closed, and ends with  *)
(* a step that leaves the callback.  It is built up the way the rows are,   *)
(* from the rows of the functions a callback calls.                         *)
(*                                                                         *)
(* The third part is the inductive invariant: what a callback may have     *)
(* touched, opened, shown and written depends on the step it is on.  A step *)
(* of a callback is first shown to be one of five kinds (Effect), and each  *)
(* part of the invariant is then kept by Effect.                            *)
(***************************************************************************)
EXTENDS Commands, SequenceTheorems, FiniteSetTheorems, WellFoundedInduction, TLAPS

\* A set that has 0, and with a number the next one, has all numbers.
LEMMA EveryNumber ==
  ASSUME NEW S \in SUBSET Nat, 0 \in S, \A k \in S : k + 1 \in S
  PROVE  S = Nat
<1> SUFFICES ASSUME Nat \ S # {} PROVE FALSE
  OBVIOUS
<1>1. PICK x \in Nat \ S : \A y \in Nat \ S : ~(<<y, x>> \in OpToRel(<, Nat))
  <2>1. Nat \ S \subseteq Nat
    OBVIOUS
  <2>2. QED BY <2>1, NatLessThanWellFounded, WFMin
<1>2. x # 0 /\ x \in Nat
  OBVIOUS
<1>3. x - 1 \in Nat /\ x - 1 < x
  BY <1>2
<1>4. x - 1 \in S
  BY <1>1, <1>2, <1>3 DEF OpToRel
<1>5. QED BY <1>2, <1>3, <1>4

-----------------------------------------------------------------------------
(* Hours.                                                                   *)

\* A remainder is a number that is below the divisor already.
LEMMA SmallRemainder ==
  ASSUME NEW a \in Nat, NEW b \in Nat, a < b
  PROVE  a % b = a
  OBVIOUS

\* Hours that an int16_t holds stay what they are.
LEMMA HoursHeld ==
  ASSUME NEW h \in 0..(HourWord \div 2 - 1)
  PROVE  Wrap16(h) = h
<1>0. PICK w \in Int : w = HourWord \div 2
  BY AnswersAssumption
<1>1. w \in Nat /\ 2 * w <= HourWord
  BY <1>0, AnswersAssumption
<1>2. h + w \in Nat /\ h + w < HourWord
  BY <1>0, <1>1, AnswersAssumption
<1>3. (h + w) % HourWord = h + w
  BY <1>2, SmallRemainder, AnswersAssumption
<1>4. QED BY <1>0, <1>1, <1>3 DEF Wrap16

\* The hours of a battery are shown as its years, days and hours.
LEMMA HoursAddUp == OperatingTimeAddsUp
<1> SUFFICES ASSUME NEW h \in 0..(HourWord \div 2 - 1)
             PROVE  LET t == OperatingTime(h)
                    IN  /\ t.hours \in 0..23 /\ t.days \in 0..364
                        /\ h = (t.years * 365 + t.days) * 24 + t.hours
  BY DEF OperatingTimeAddsUp
<1>0. Wrap16(h) = h /\ h \in Nat
  BY HoursHeld, AnswersAssumption
<1>1. PICK d \in Nat, r \in 0..23 : h = 24 * d + r /\ d = h \div 24
  BY <1>0
<1>2. Quot(h, 24) = d /\ Rem(h, 24) = r
  BY <1>0, <1>1 DEF Quot, Rem
<1>3. Quot(h - r, 24) = d
  BY <1>1 DEF Quot
<1>4. PICK y \in Nat, e \in 0..364 : d = 365 * y + e /\ y = d \div 365
  BY <1>1
<1>5. Quot(d, 365) = y /\ Rem(d, 365) = e
  BY <1>1, <1>4 DEF Quot, Rem
<1>6. Quot(d - e, 365) = y
  BY <1>4 DEF Quot
<1>7. OperatingTime(h) = [years |-> y, days |-> e, hours |-> r]
  BY <1>0, <1>2, <1>3, <1>5, <1>6 DEF OperatingTime
<1>8. h = (y * 365 + e) * 24 + r
  BY <1>1, <1>4
<1> DEFINE t == OperatingTime(h)
<1>9. t.years = y /\ t.days = e /\ t.hours = r
  BY <1>7
<1> HIDE DEF t
<1>10. t.hours \in 0..23 /\ t.days \in 0..364 /\ h = (t.years * 365 + t.days) * 24 + t.hours
  BY <1>1, <1>4, <1>8, <1>9
<1>11. QED BY <1>10 DEF t

-----------------------------------------------------------------------------
(* Versions.                                                                *)

\* The value after a character, of the one before it.
LEMMA ReadOnIs ==
  ASSUME NEW v, NEW x
  PROVE  /\ x # Dot => ReadOn([v |-> v, on |-> TRUE], x) = [v |-> 10 * v + x, on |-> TRUE]
         /\ ReadOn([v |-> v, on |-> TRUE], Dot) = [v |-> v, on |-> FALSE]
         /\ ReadOn([v |-> v, on |-> FALSE], x) = [v |-> v, on |-> FALSE]
<1>1. ASSUME x # Dot
      PROVE  ReadOn([v |-> v, on |-> TRUE], x) = [v |-> 10 * v + x, on |-> TRUE]
  BY <1>1 DEF ReadOn
<1>2. ReadOn([v |-> v, on |-> TRUE], Dot) = [v |-> v, on |-> FALSE]
  BY DEF ReadOn
<1>3. ReadOn([v |-> v, on |-> FALSE], x) = [v |-> v, on |-> FALSE]
  <2>1. [v |-> v, on |-> FALSE].on = FALSE /\ [v |-> v, on |-> FALSE].v = v
    OBVIOUS
  <2>2. QED BY <2>1 DEF ReadOn
<1>4. QED BY <1>1, <1>2, <1>3

\* f[k] is what the first k characters of the text say.
IsRead(f, text, m) ==
  /\ m \in Nat
  /\ f = [k \in 0..m |-> IF k = 0 THEN [v |-> 0, on |-> TRUE] ELSE ReadOn(f[k - 1], text[k])]

\* There is such a function.
LEMMA ReadExists ==
  ASSUME NEW text, NEW m \in Nat
  PROVE  \E f : IsRead(f, text, m)
<1> DEFINE S == {k \in Nat : \E f : IsRead(f, text, k)}
<1>1. 0 \in S
  <2>1. IsRead([k \in 0..0 |-> [v |-> 0, on |-> TRUE]], text, 0)
    BY DEF IsRead
  <2>2. QED BY <2>1
<1>2. ASSUME NEW k \in S PROVE k + 1 \in S
  <2>1. PICK f : IsRead(f, text, k)
    BY <1>2
  <2> DEFINE g == [i \in 0..k + 1 |-> IF i <= k THEN f[i] ELSE ReadOn(f[k], text[k + 1])]
  <2>2. ASSUME NEW i \in 0..k + 1
        PROVE  g[i] = IF i = 0 THEN [v |-> 0, on |-> TRUE] ELSE ReadOn(g[i - 1], text[i])
    <3>1. CASE i = 0
      BY <2>1, <3>1 DEF IsRead
    <3>2. CASE i # 0 /\ i <= k
      <4>1. i \in 0..k /\ i - 1 \in 0..k
        BY <3>2
      <4>2. g[i] = f[i] /\ g[i - 1] = f[i - 1]
        BY <4>1
      <4>3. f[i] = ReadOn(f[i - 1], text[i])
        BY <2>1, <3>2, <4>1 DEF IsRead
      <4>4. QED BY <3>2, <4>2, <4>3
    <3>3. CASE i = k + 1
      <4>1. k \in 0..k + 1 /\ g[k] = f[k]
        OBVIOUS
      <4>2. QED BY <3>3, <4>1
    <3>4. QED BY <3>1, <3>2, <3>3
  <2>3. g = [i \in 0..k + 1 |-> IF i = 0 THEN [v |-> 0, on |-> TRUE] ELSE ReadOn(g[i - 1], text[i])]
    BY <2>2
  <2> HIDE DEF g
  <2>4. IsRead(g, text, k + 1)
    <3>1. k + 1 \in Nat
      BY <1>2
    <3>2. QED BY <2>3, <3>1 DEF IsRead
  <2>5. QED BY <2>4
<1>3. S \in SUBSET Nat
  OBVIOUS
<1> HIDE DEF S
<1>4. S = Nat
  BY <1>1, <1>2, <1>3, EveryNumber
<1>5. QED BY <1>4 DEF S

\* atoi, character by character.
LEMMA AtoiIs ==
  ASSUME NEW text, Len(text) \in Nat
  PROVE  \E f : /\ atoi(text) = f[Len(text)].v /\ f[0] = [v |-> 0, on |-> TRUE]
                /\ \A k \in Nat : k + 1 <= Len(text) => f[k + 1] = ReadOn(f[k], text[k + 1])
<1>1. PICK f : IsRead(f, text, Len(text)) /\ atoi(text) = f[Len(text)].v
  <2>1. PICK g : IsRead(g, text, Len(text))
    BY ReadExists
  <2>2. QED BY <2>1 DEF atoi, IsRead
<1>2. atoi(text) = f[Len(text)].v
  BY <1>1
<1>3. f[0] = [v |-> 0, on |-> TRUE]
  BY <1>1 DEF IsRead
<1>4. ASSUME NEW k \in Nat, k + 1 <= Len(text)
      PROVE  f[k + 1] = ReadOn(f[k], text[k + 1])
  <2>1. PICK i : i = k + 1
    OBVIOUS
  <2>2. i \in 0..Len(text) /\ i # 0 /\ i - 1 = k
    BY <1>4, <2>1
  <2>3. f[i] = ReadOn(f[i - 1], text[i])
    BY <1>1, <2>2 DEF IsRead
  <2>4. QED BY <2>1, <2>2, <2>3
<1>5. QED BY <1>2, <1>3, <1>4

\* A text starts with the digits of x, and a dot follows them or nothing does.
StartsWith(text, x) ==
  LET nr == Len(Digits(x))
  IN  /\ Len(text) \in Nat /\ Len(text) >= nr
      /\ \A i \in 1..nr : text[i] = Digits(x)[i]
      /\ Len(text) = nr \/ text[nr + 1] = Dot

\* The digits of a number: how many, and what they are worth.
LEMMA DigitsOf ==
  ASSUME NEW x \in 0..999
  PROVE  /\ Len(Digits(x)) \in 1..3 /\ Digits(x) \in Seq(0..9) /\ Digits(x) \in Seq(Nat)
         /\ Len(Digits(x)) = 1 => Digits(x)[1] = x
         /\ Len(Digits(x)) = 2 => 10 * Digits(x)[1] + Digits(x)[2] = x
         /\ Len(Digits(x)) = 3 => 100 * Digits(x)[1] + 10 * Digits(x)[2] + Digits(x)[3] = x
<1>1. CASE x < 10
  <2>1. Digits(x) = <<x>> /\ x \in 0..9
    BY <1>1 DEF Digits
  <2>2. QED BY <2>1
<1>2. CASE x >= 10 /\ x < 100
  <2>1. PICK a \in 0..9, b \in 0..9 : a = x \div 10 /\ b = x % 10 /\ 10 * a + b = x
    BY <1>2
  <2>2. Digits(x) = <<a, b>>
    BY <1>2, <2>1 DEF Digits
  <2>3. QED BY <2>1, <2>2
<1>3. CASE x >= 100
  <2>1. PICK a \in 0..9, b \in 0..9, c \in 0..9 :
          /\ a = x \div 100 /\ b = (x \div 10) % 10 /\ c = x % 10
          /\ 100 * a + 10 * b + c = x
    <3>1. PICK y \in 0..99, c \in 0..9 : y = x \div 10 /\ c = x % 10 /\ x = 10 * y + c
      BY <1>3
    <3>2. PICK a \in 0..9, b \in 0..9 : a = y \div 10 /\ b = y % 10 /\ y = 10 * a + b
      OBVIOUS
    <3>3. a = x \div 100
      BY <3>1, <3>2
    <3>4. 100 * a + 10 * b + c = x
      BY <3>1, <3>2
    <3>5. b = (x \div 10) % 10
      BY <3>1, <3>2
    <3>6. QED BY <3>1, <3>2, <3>3, <3>4, <3>5, ZenonT(40)
  <2>2. Digits(x) = <<a, b, c>>
    BY <1>3, <2>1 DEF Digits
  <2>3. QED BY <2>1, <2>2
<1>4. QED BY <1>1, <1>2, <1>3

\* The same, but for what they are worth.
LEMMA DigitsAre ==
  ASSUME NEW x \in 0..999
  PROVE  \E nr \in 1..3 : nr = Len(Digits(x)) /\ Digits(x) \in Seq(0..9) /\ Digits(x) \in Seq(Nat)
<1>1. PICK nr : nr = Len(Digits(x))
  OBVIOUS
<1>2. nr \in 1..3 /\ Digits(x) \in Seq(0..9) /\ Digits(x) \in Seq(Nat)
  BY <1>1, DigitsOf, ZenonT(40)
<1>3. QED BY <1>1, <1>2

\* atoi reads the number a text starts with.
LEMMA AtoiReads ==
  ASSUME NEW x \in 0..999, NEW text, StartsWith(text, x)
  PROVE  atoi(text) = x
<1>1. PICK d : d = Digits(x)
  OBVIOUS
<1>2. PICK nr \in 1..3 : nr = Len(d)
  BY <1>1, DigitsOf, ZenonT(40)
<1>3. \A i \in 1..nr : d[i] \in 0..9 /\ text[i] = d[i] /\ text[i] # Dot
  <2> SUFFICES ASSUME NEW i \in 1..nr PROVE d[i] \in 0..9 /\ text[i] = d[i] /\ text[i] # Dot
    OBVIOUS
  <2>1. d \in Seq(0..9) /\ i \in 1..Len(d)
    BY <1>1, <1>2, DigitsOf, ZenonT(40)
  <2>2. d[i] \in 0..9
    BY <2>1, ElementOfSeq
  <2>3. text[i] = d[i]
    BY <1>1, <2>1 DEF StartsWith
  <2>4. QED BY <2>2, <2>3 DEF Dot
<1>4. PICK l \in Nat : l = Len(text) /\ nr <= l /\ (l = nr \/ text[nr + 1] = Dot)
  BY <1>1, <1>2 DEF StartsWith
<1>5. PICK f : /\ atoi(text) = f[l].v /\ f[0] = [v |-> 0, on |-> TRUE]
               /\ \A k \in Nat : k + 1 <= l => f[k + 1] = ReadOn(f[k], text[k + 1])
  BY <1>4, AtoiIs
<1>6. f[nr] = [v |-> x, on |-> TRUE]
  <2>1. f[1] = [v |-> d[1], on |-> TRUE]
    <3>1. f[0 + 1] = ReadOn(f[0], text[0 + 1])
      BY <1>4, <1>5
    <3>2. f[1] = ReadOn([v |-> 0, on |-> TRUE], d[1])
      BY <1>3, <1>5, <3>1
    <3>3. d[1] \in 0..9 /\ d[1] # Dot
      BY <1>3
    <3>4. 10 * 0 + d[1] = d[1]
      BY <3>3
    <3>5. f[1] = [v |-> 10 * 0 + d[1], on |-> TRUE]
      BY <3>2, <3>3, ReadOnIs
    <3>6. QED BY <3>4, <3>5
  <2>2. nr >= 2 => f[2] = [v |-> 10 * d[1] + d[2], on |-> TRUE]
    <3> SUFFICES ASSUME nr >= 2 PROVE f[2] = [v |-> 10 * d[1] + d[2], on |-> TRUE]
      OBVIOUS
    <3>0. 1 \in Nat /\ 1 + 1 <= l
      BY <1>4
    <3>1. f[1 + 1] = ReadOn(f[1], text[1 + 1])
      BY <3>0, <1>5
    <3>2. f[2] = ReadOn([v |-> d[1], on |-> TRUE], d[2])
      BY <1>3, <2>1, <3>1
    <3>3. d[2] # Dot
      BY <1>3
    <3>4. QED BY <3>2, <3>3, ReadOnIs
  <2>3. nr = 3 => f[3] = [v |-> 10 * (10 * d[1] + d[2]) + d[3], on |-> TRUE]
    <3> SUFFICES ASSUME nr = 3 PROVE f[3] = [v |-> 10 * (10 * d[1] + d[2]) + d[3], on |-> TRUE]
      OBVIOUS
    <3>1. f[2 + 1] = ReadOn(f[2], text[2 + 1])
      BY <1>4, <1>5
    <3>2. f[3] = ReadOn([v |-> 10 * d[1] + d[2], on |-> TRUE], d[3])
      BY <1>3, <2>2, <3>1
    <3>3. d[3] # Dot
      BY <1>3
    <3>4. QED BY <3>2, <3>3, ReadOnIs
  <2>4. CASE nr = 1
    BY <1>1, <1>2, <2>1, <2>4, DigitsOf, ZenonT(40)
  <2>5. CASE nr = 2
    <3>1. 10 * d[1] + d[2] = x
      BY <1>1, <1>2, <2>5, DigitsOf, ZenonT(40)
    <3>2. f[2] = [v |-> 10 * d[1] + d[2], on |-> TRUE]
      BY <2>2, <2>5
    <3>3. QED BY <2>5, <3>1, <3>2
  <2>6. CASE nr = 3
    <3>1. 100 * d[1] + 10 * d[2] + d[3] = x
      BY <1>1, <1>2, <2>6, DigitsOf, ZenonT(40)
    <3>2. d[1] \in Int /\ d[2] \in Int /\ d[3] \in Int
      BY <1>3, <2>6
    <3>3. 10 * (10 * d[1] + d[2]) + d[3] = x
      BY <3>1, <3>2
    <3>4. QED BY <2>3, <2>6, <3>3
  <2>7. QED BY <2>4, <2>5, <2>6
<1>7. CASE l = nr
  BY <1>5, <1>6, <1>7
<1>8. CASE l > nr
  <2>1. f[nr + 1] = [v |-> x, on |-> FALSE]
    <3>1. f[nr + 1] = ReadOn(f[nr], Dot)
      BY <1>4, <1>5, <1>8
    <3>2. QED BY <1>6, <3>1, ReadOnIs
  <2> DEFINE S == {k \in Nat : nr + 1 + k <= l => f[nr + 1 + k] = [v |-> x, on |-> FALSE]}
  <2>2. 0 \in S
    BY <2>1
  <2>3. ASSUME NEW k \in S PROVE k + 1 \in S
    <3> SUFFICES ASSUME nr + 1 + (k + 1) <= l
                 PROVE  f[nr + 1 + (k + 1)] = [v |-> x, on |-> FALSE]
      OBVIOUS
    <3>1. PICK j \in Nat : j = nr + 1 + k
      OBVIOUS
    <3>2. j + 1 <= l /\ f[j] = [v |-> x, on |-> FALSE] /\ nr + 1 + (k + 1) = j + 1
      BY <3>1
    <3>3. f[j + 1] = ReadOn(f[j], text[j + 1])
      BY <1>5, <3>2
    <3>4. f[j + 1] = [v |-> x, on |-> FALSE]
      BY <3>2, <3>3, ReadOnIs
    <3>5. QED BY <3>2, <3>4
  <2>4. S \in SUBSET Nat
    OBVIOUS
  <2> HIDE DEF S
  <2>5. S = Nat
    BY <2>2, <2>3, <2>4, EveryNumber
  <2>6. PICK k \in Nat : l = nr + 1 + k
    <3>1. l - (nr + 1) \in Nat /\ l = nr + 1 + (l - (nr + 1))
      BY <1>8
    <3>2. QED BY <3>1
  <2>7. f[l] = [v |-> x, on |-> FALSE]
    <3>1. k \in S /\ nr + 1 + k <= l
      BY <2>5, <2>6
    <3>2. QED BY <2>6, <3>1 DEF S
  <2>8. QED BY <1>5, <2>7
<1>9. QED BY <1>4, <1>7, <1>8
\* Text t has no dot from place k to before place m.
NoDots(t, k, m) == \A j \in Nat : k <= j /\ j < m => t[j + 1] # Dot

\* The first dot of a text, from place k on.
LEMMA DotIs ==
  ASSUME NEW text, Len(text) \in Nat, NEW k \in Nat, NEW m \in Nat, k <= m, m < Len(text),
         text[m + 1] = Dot, NoDots(text, k, m)
  PROVE  DotFrom(text, k) = m
<1> DEFINE At(i) == text[i + 1] = Dot
           on == k..Len(text) - 1
           First(i) == At(i) /\ \A j \in k..i - 1 : ~At(j)
<1>1. m \in on /\ First(m)
  BY DEF NoDots
<1>2. ASSUME NEW i \in on, First(i) PROVE i = m
  <2>1. CASE i < m
    <3>1. i \in Nat /\ k <= i
      OBVIOUS
    <3>2. QED BY <1>2, <2>1, <3>1 DEF NoDots
  <2>2. CASE m < i
    <3>1. m \in k..i - 1
      BY <2>2
    <3>2. QED BY <1>2, <3>1
  <2>3. QED BY <2>1, <2>2
<1>3. (CHOOSE i \in on : First(i)) = m
  BY <1>1, <1>2
<1>4. DotFrom(text, k) = CHOOSE i \in on : First(i)
  BY <1>1 DEF DotFrom
<1>5. QED BY <1>3, <1>4

\* Without a dot from place k on, 0 is said.
LEMMA NoDotIs ==
  ASSUME NEW text, NEW k \in Nat, NEW m \in Nat, m = Len(text), NoDots(text, k, m)
  PROVE  DotFrom(text, k) = 0
<1>1. \A i \in k..Len(text) - 1 : text[i + 1] # Dot
  BY DEF NoDots
<1>2. QED BY <1>1 DEF DotFrom

\* The nr digits of x are in text t from place k to before place e.
HasAt(t, k, e, x) ==
  /\ k \in Nat /\ e = k + Len(Digits(x))
  /\ \A i \in 1..Len(Digits(x)) : t[k + i] = Digits(x)[i]

\* Digits are no dots.
LEMMA NoDotWithin ==
  ASSUME NEW x \in 0..999, NEW t, NEW k, NEW e, HasAt(t, k, e, x)
  PROVE  NoDots(t, k, e)
<1> SUFFICES ASSUME NEW j \in Nat, k <= j, j < e PROVE t[j + 1] # Dot
  BY DEF NoDots
<1>0. PICK nr \in Nat : nr = Len(Digits(x)) /\ k \in Nat /\ e = k + nr
  <2>1. PICK nr \in 1..3 : nr = Len(Digits(x))
    BY DigitsAre, ZenonT(40)
  <2>2. k \in Nat /\ e = k + nr
    BY <2>1 DEF HasAt
  <2>3. nr \in Nat
    OBVIOUS
  <2>4. QED BY <2>1, <2>2, <2>3
<1>1. PICK i \in 1..nr : j + 1 = k + i
  <2>1. j + 1 - k \in 1..nr /\ j + 1 = k + (j + 1 - k)
    BY <1>0
  <2>2. QED BY <2>1
<1>2. t[k + i] = Digits(x)[i]
  BY <1>0 DEF HasAt
<1>3. Digits(x)[i] \in 0..9
  BY <1>0, DigitsOf, ElementOfSeq, ZenonT(40)
<1>4. QED BY <1>1, <1>2, <1>3 DEF Dot

\* The part SubSeq(t, f, e) of a text starts with the digits of x: they are there from
\* place k to before place g, where the part ends or a dot follows.
HoldsIn(t, k, g, f, e, x) ==
  /\ x \in 0..999 /\ t \in Seq(Nat) /\ HasAt(t, k, g, x)
  /\ f \in Nat /\ f = k + 1 /\ e \in Nat /\ g <= e /\ e <= Len(t)
  /\ e = g \/ t[g + 1] = Dot

\* atoi of a part of a text, under a name that the provers do not rewrite.
Part(t, f, e) == atoi(SubSeq(t, f, e))

\* Such a part is read as x.
LEMMA PartRead ==
  ASSUME NEW x, NEW t, NEW k, NEW g, NEW f, NEW e, HoldsIn(t, k, g, f, e, x)
  PROVE  Part(t, f, e) = x
<1> USE DEF HoldsIn
<1>0. PICK nr \in 1..3 : nr = Len(Digits(x)) /\ k \in Nat /\ g = k + nr
  BY DigitsOf, ZenonT(40) DEF HasAt
<1>1. PICK u : u = SubSeq(t, f, e)
  OBVIOUS
<1>2. Len(t) \in Nat /\ f \in 1..e + 1
  BY <1>0, LenProperties
<1>3. Len(u) = e - k /\ \A i \in 1..e - k : u[i] = t[k + i]
  <2>1. \A i \in 1..Len(t) : t[i] \in Nat
    BY ElementOfSeq
  <2>2. \A i \in f..e : t[i] \in Nat
    BY <1>2, <2>1
  <2>3. Len(u) = e - f + 1 /\ \A i \in 1..e - f + 1 : u[i] = t[f + i - 1]
    BY <1>0, <1>1, <1>2, <2>2, SubSeqProperties
  <2>4. e - f + 1 = e - k
    BY <1>0
  <2>5. \A i \in Int : f + i - 1 = k + i
    BY <1>0
  <2>6. Len(u) = e - k
    BY <2>3, <2>4
  <2>7. ASSUME NEW i \in 1..e - k PROVE u[i] = t[k + i]
    <3>1. u[i] = t[f + i - 1]
      BY <2>3, <2>4
    <3>2. f + i - 1 = k + i
      BY <1>0
    <3>3. QED BY <3>1, <3>2
  <2>8. QED BY <2>6, <2>7
<1>4. \A i \in 1..nr : u[i] = Digits(x)[i]
  <2>1. \A i \in 1..nr : i \in 1..e - k
    BY <1>0
  <2>2. QED BY <1>0, <1>3, <2>1 DEF HasAt
<1>5. Len(u) = nr \/ u[nr + 1] = Dot
  <2>1. CASE e = g
    BY <1>0, <1>3, <2>1
  <2>2. CASE e > g
    <3>1. nr + 1 \in 1..e - k
      BY <1>0, <2>2
    <3>2. u[nr + 1] = t[k + (nr + 1)] /\ k + (nr + 1) = g + 1
      BY <1>0, <1>3, <3>1
    <3>3. QED BY <2>2, <3>2
  <2>3. QED BY <1>0, <2>1, <2>2
<1>6. Len(u) \in Nat /\ Len(u) >= nr
  BY <1>0, <1>3
<1>7. StartsWith(u, x)
  BY <1>0, <1>4, <1>5, <1>6 DEF StartsWith
<1>8. QED BY <1>1, <1>7, AtoiReads, ZenonT(40) DEF Part

\* Text t is p, a dot at place a, and q, and ends at place e.
IsDotted(t, p, a, q, e) ==
  /\ t \in Seq(Nat) /\ a = Len(p) /\ a \in Nat /\ e = a + 1 + Len(q) /\ Len(t) = e
  /\ \A i \in 1..a : t[i] = p[i]
  /\ t[a + 1] = Dot
  /\ \A i \in 1..Len(q) : t[(a + 1) + i] = q[i]

\* Two texts with a dot between them.
LEMMA DotBetween ==
  ASSUME NEW p \in Seq(Nat), NEW q \in Seq(Nat), NEW a, a = Len(p), NEW e, e = a + 1 + Len(q)
  PROVE  IsDotted(p \o <<Dot>> \o q, p, a, q, e)
<1>0. <<Dot>> \in Seq(Nat) /\ Len(<<Dot>>) = 1 /\ <<Dot>>[1] = Dot
  BY DEF Dot
<1>1. PICK b \in Nat : b = Len(q) /\ a \in Nat
  BY LenProperties
<1>2. PICK u : u = p \o <<Dot>>
  OBVIOUS
<1>3. u \in Seq(Nat) /\ Len(u) = a + 1 /\ \A i \in 1..a + 1 : u[i] = IF i <= a THEN p[i] ELSE <<Dot>>[i - a]
  BY <1>0, <1>1, <1>2, ConcatProperties
<1>4. \A i \in 1..a : u[i] = p[i]
  <2>1. \A i \in 1..a : i \in 1..a + 1 /\ i <= a
    BY <1>1
  <2>2. QED BY <1>3, <2>1
<1>5. u[a + 1] = Dot
  <2>1. a + 1 \in 1..a + 1 /\ ~(a + 1 <= a) /\ (a + 1) - a = 1
    BY <1>1
  <2>2. u[a + 1] = <<Dot>>[(a + 1) - a]
    BY <1>3, <2>1
  <2>3. QED BY <1>0, <2>1, <2>2
<1>6. PICK m \in Nat : m = a + 1
  BY <1>1
<1>7. PICK t : t = u \o q
  OBVIOUS
<1>8. t \in Seq(Nat) /\ Len(t) = m + b /\ \A i \in 1..m + b : t[i] = IF i <= m THEN u[i] ELSE q[i - m]
  <2>1. Len(u) = m
    BY <1>3, <1>6
  <2>2. QED BY <1>1, <1>3, <1>7, <2>1, ConcatProperties, ZenonT(40)
<1>9. \A i \in 1..b : t[m + i] = q[i]
  <2> SUFFICES ASSUME NEW i \in 1..b PROVE t[m + i] = q[i]
    OBVIOUS
  <2>1. PICK j \in 1..m + b : j = m + i
    OBVIOUS
  <2>2. ~(j <= m) /\ j - m = i
    BY <2>1
  <2>3. t[j] = q[j - m]
    BY <1>8, <2>1, <2>2
  <2>4. QED BY <2>1, <2>2, <2>3
<1>10. \A i \in 1..m : t[i] = u[i]
  <2>1. \A i \in 1..m : i \in 1..m + b /\ i <= m
    OBVIOUS
  <2>2. QED BY <1>8, <2>1
<1>11. \A i \in 1..a : t[i] = p[i]
  <2>1. \A i \in 1..a : i \in 1..m
    BY <1>1, <1>6
  <2>2. QED BY <1>4, <1>10, <2>1
<1>12. t[a + 1] = Dot
  <2>1. m \in 1..m
    BY <1>1, <1>6
  <2>2. QED BY <1>5, <1>6, <1>10, <2>1
<1>13. e = m + b
  BY <1>1, <1>6
<1>14. QED BY <1>1, <1>2, <1>6, <1>7, <1>8, <1>9, <1>11, <1>12, <1>13 DEF IsDotted

\* A version of one number.
LEMMA OneNumber ==
  ASSUME NEW x \in 0..999
  PROVE  getIosVersion(Digits(x)) = <<x, 0, 0>>
<1>1. PICK t : t = Digits(x)
  OBVIOUS
<1>2. PICK nr \in Nat, o \in Nat : nr = Len(t) /\ o = 0
  <2>1. PICK nr \in 1..3 : nr = Len(Digits(x))
    BY DigitsAre, ZenonT(40)
  <2>2. QED BY <1>1, <2>1
<1>3. HasAt(t, o, nr, x)
  BY <1>1, <1>2 DEF HasAt
<1>4. DotFrom(t, 0) = 0
  <2>1. NoDots(t, o, nr)
    BY <1>3, NoDotWithin
  <2>2. DotFrom(t, o) = 0
    BY <1>2, <2>1, NoDotIs
  <2>3. QED BY <1>2, <2>2
<1>5. atoi(t) = x
  <2>1. StartsWith(t, x)
    BY <1>1, <1>2 DEF StartsWith
  <2>2. QED BY <2>1, AtoiReads, SMTT(30)
<1>6. QED BY <1>1, <1>4, <1>5 DEF getIosVersion

\* A version of two.
LEMMA TwoNumbers ==
  ASSUME NEW x \in 0..999, NEW y \in 0..999
  PROVE  getIosVersion(Digits(x) \o <<Dot>> \o Digits(y)) = <<x, y, 0>>
<1>1. PICK p \in Seq(Nat), q \in Seq(Nat) : p = Digits(x) /\ q = Digits(y)
  BY DigitsOf, ZenonT(40)
<1>2. PICK a \in 1..3, b \in 1..3 : a = Len(p) /\ b = Len(q)
  BY <1>1, DigitsOf, ZenonT(40)
<1>3. PICK o \in Nat, o1 \in Nat, a1 \in Nat, a2 \in Nat, e \in Nat :
        o = 0 /\ o1 = o + 1 /\ a1 = a + 1 /\ a2 = a1 + 1 /\ e = a1 + b
  OBVIOUS
<1>4. PICK t : t = p \o <<Dot>> \o q
  BY ZenonT(40)
<1>5. IsDotted(t, p, a, q, e)
  BY <1>1, <1>2, <1>3, <1>4, DotBetween, ZenonT(40)
<1>6. t \in Seq(Nat) /\ Len(t) = e /\ t[a + 1] = Dot
  BY <1>5 DEF IsDotted
<1>7. HasAt(t, o, a, x)
  <2>1. \A i \in 1..a : t[o + i] = p[i]
    BY <1>3, <1>5 DEF IsDotted
  <2>2. QED BY <1>1, <1>2, <1>3, <2>1 DEF HasAt
<1>8. HasAt(t, a1, e, y)
  <2>1. \A i \in 1..b : t[a1 + i] = q[i]
    BY <1>2, <1>3, <1>5 DEF IsDotted
  <2>2. QED BY <1>1, <1>2, <1>3, <2>1 DEF HasAt
<1>9. DotFrom(t, o) = a
  <2>1. NoDots(t, o, a)
    BY <1>7, NoDotWithin, ZenonT(40)
  <2>2. o <= a /\ a < e /\ Len(t) \in Nat /\ a \in Nat
    BY <1>3, <1>6
  <2>3. QED BY <1>6, <2>1, <2>2, DotIs, ZenonT(40)
<1>10. DotFrom(t, a1) = 0
  <2>1. NoDots(t, a1, e)
    BY <1>8, NoDotWithin, ZenonT(40)
  <2>2. QED BY <1>6, <2>1, NoDotIs
<1>11. Part(t, o1, a) = x
  <2>1. HoldsIn(t, o, a, o1, a, x)
    BY <1>3, <1>6, <1>7 DEF HoldsIn
  <2>2. QED BY <2>1, PartRead
<1>12. Part(t, a2, e) = y
  <2>1. HoldsIn(t, a1, e, a2, e, y)
    BY <1>3, <1>6, <1>8 DEF HoldsIn
  <2>2. QED BY <2>1, PartRead
<1>13. atoi(SubSeq(t, 0 + 1, 0 + a)) = x /\ atoi(SubSeq(t, (a + 1) + 1, Len(t))) = y
  <2>1. 0 + 1 = o1 /\ 0 + a = a /\ (a + 1) + 1 = a2
    BY <1>3
  <2>2. QED BY <1>6, <1>11, <1>12, <2>1 DEF Part
<1>14. DotFrom(t, 0) = a /\ DotFrom(t, a + 1) = 0 /\ a # 0
  BY <1>3, <1>9, <1>10
<1>15. getIosVersion(t) = <<x, y, 0>>
  BY <1>13, <1>14 DEF getIosVersion
<1>16. QED BY <1>1, <1>4, <1>15

\* Text t is a version of three.
HoldsThree(t, x, y, z) ==
  /\ x \in 0..999 /\ y \in 0..999 /\ z \in 0..999
  /\ t = Digits(x) \o <<Dot>> \o Digits(y) \o <<Dot>> \o Digits(z)

\* A version of three.
LEMMA ThreeNumbers ==
  ASSUME NEW t, NEW x, NEW y, NEW z, HoldsThree(t, x, y, z)
  PROVE  getIosVersion(t) = <<x, y, z>>
<1>0. x \in 0..999 /\ y \in 0..999 /\ z \in 0..999
  BY DEF HoldsThree
<1>1. PICK p \in Seq(Nat), q \in Seq(Nat), r \in Seq(Nat) : p = Digits(x) /\ q = Digits(y) /\ r = Digits(z)
  BY <1>0, DigitsOf, ZenonT(40)
<1>2. PICK a \in 1..3, b \in 1..3, c \in 1..3 : a = Len(p) /\ b = Len(q) /\ c = Len(r)
  BY <1>0, <1>1, DigitsOf, ZenonT(40)
<1>3. PICK o \in Nat, o1 \in Nat, a1 \in Nat, a2 \in Nat, m \in Nat :
        o = 0 /\ o1 = o + 1 /\ a1 = a + 1 /\ a2 = a1 + 1 /\ m = a1 + b
  OBVIOUS
<1>4. PICK m1 \in Nat, m2 \in Nat, e \in Nat : m1 = m + 1 /\ m2 = m1 + 1 /\ e = m1 + c
  OBVIOUS
<1>5. PICK s : s = p \o <<Dot>> \o q
  OBVIOUS
<1>6. IsDotted(s, p, a, q, m)
  BY <1>1, <1>2, <1>3, <1>5, DotBetween
<1>7. t = s \o <<Dot>> \o r
  BY <1>1, <1>5 DEF HoldsThree
<1>8. s \in Seq(Nat) /\ m = Len(s)
  BY <1>6 DEF IsDotted
<1>9. IsDotted(t, s, m, r, e)
  BY <1>1, <1>2, <1>4, <1>7, <1>8, DotBetween
<1>10. t \in Seq(Nat) /\ Len(t) = e /\ t[m + 1] = Dot /\ \A i \in 1..m : t[i] = s[i]
  BY <1>9 DEF IsDotted
<1>11. t[a + 1] = Dot
  <2>1. a + 1 \in 1..m
    BY <1>3
  <2>2. s[a + 1] = Dot
    BY <1>6 DEF IsDotted
  <2>3. QED BY <1>10, <2>1, <2>2
<1>12. HasAt(t, o, a, x)
  <2>1. \A i \in 1..a : o + i = i /\ i \in 1..m
    BY <1>3
  <2>2. \A i \in 1..a : s[i] = p[i]
    BY <1>6 DEF IsDotted
  <2>3. \A i \in 1..a : t[o + i] = p[i]
    BY <1>10, <2>1, <2>2
  <2>4. QED BY <1>1, <1>2, <1>3, <2>3 DEF HasAt
<1>13. HasAt(t, a1, m, y)
  <2>1. \A i \in 1..b : a1 + i \in 1..m
    BY <1>3
  <2>2. \A i \in 1..b : s[a1 + i] = q[i]
    BY <1>2, <1>3, <1>6 DEF IsDotted
  <2>3. \A i \in 1..b : t[a1 + i] = q[i]
    BY <1>10, <2>1, <2>2
  <2>4. QED BY <1>1, <1>2, <1>3, <2>3 DEF HasAt
<1>14. HasAt(t, m1, e, z)
  <2>1. \A i \in 1..c : t[m1 + i] = r[i]
    BY <1>2, <1>4, <1>9 DEF IsDotted
  <2>2. QED BY <1>1, <1>2, <1>4, <2>1 DEF HasAt
<1>15. DotFrom(t, o) = a
  <2>1. NoDots(t, o, a)
    BY <1>0, <1>12, NoDotWithin, ZenonT(40)
  <2>2. o <= a /\ a < e /\ Len(t) \in Nat /\ a \in Nat
    BY <1>3, <1>4, <1>10
  <2>3. QED BY <1>10, <1>11, <2>1, <2>2, DotIs
<1>16. DotFrom(t, a1) = m
  <2>1. NoDots(t, a1, m)
    BY <1>0, <1>13, NoDotWithin, ZenonT(40)
  <2>2. a1 <= m /\ m < e /\ Len(t) \in Nat
    BY <1>3, <1>4, <1>10
  <2>3. QED BY <1>10, <2>1, <2>2, DotIs
<1>17. Part(t, o1, a) = x
  <2>0. o1 \in Nat /\ o1 = o + 1 /\ a \in Nat /\ a <= Len(t)
    BY <1>3, <1>4, <1>10
  <2>1. HoldsIn(t, o, a, o1, a, x)
    BY <1>0, <1>10, <1>12, <2>0 DEF HoldsIn
  <2>2. QED BY <2>1, PartRead
<1>18. Part(t, a2, m1) = y
  <2>1. HoldsIn(t, a1, m, a2, m1, y)
    BY <1>3, <1>4, <1>10, <1>11, <1>0, <1>13 DEF HoldsIn
  <2>2. QED BY <2>1, PartRead
<1>19. Part(t, m2, e) = z
  <2>1. HoldsIn(t, m1, e, m2, e, z)
    BY <1>4, <1>10, <1>0, <1>14 DEF HoldsIn
  <2>2. QED BY <2>1, PartRead
<1>20. /\ atoi(SubSeq(t, 0 + 1, 0 + a)) = x
       /\ atoi(SubSeq(t, (a + 1) + 1, (a + 1) + (m - a))) = y
       /\ atoi(SubSeq(t, (m + 1) + 1, Len(t))) = z
  <2>1. 0 + 1 = o1 /\ 0 + a = a /\ (a + 1) + 1 = a2 /\ (a + 1) + (m - a) = m1 /\ (m + 1) + 1 = m2
    BY <1>3, <1>4
  <2>2. QED BY <1>10, <1>17, <1>18, <1>19, <2>1 DEF Part
<1>21. DotFrom(t, 0) = a /\ DotFrom(t, a + 1) = m /\ a # 0 /\ m # 0
  BY <1>3, <1>15, <1>16
<1>22. getIosVersion(t) = <<x, y, z>>
  BY <1>20, <1>21 DEF getIosVersion
<1>23. QED BY <1>22

\* Every version of one to three numbers is read as those.
LEMMA VersionsRead == VersionIsRead
<1> SUFFICES ASSUME NEW v \in Versions
             PROVE  getIosVersion(Text(v)) = [i \in 1..3 |-> IF i \in DOMAIN v THEN v[i] ELSE 0]
  BY DEF VersionIsRead
<1>1. PICK k \in 1..3 : v \in [1..k -> Parts]
  BY DEF Versions
<1>2. \A i \in 1..k : v[i] \in 0..999
  BY <1>1, AnswersAssumption, ZenonT(40)
<1>3. CASE k = 1
  <2>1. PICK x \in 0..999 : x = v[1]
    BY <1>2, <1>3
  <2>2. v = <<x>>
    BY <1>1, <1>3, <2>1
  <2>3. Text(v) = Digits(x)
    BY <2>2 DEF Text
  <2>4. [i \in 1..3 |-> IF i \in DOMAIN v THEN v[i] ELSE 0] = <<x, 0, 0>>
    BY <2>2
  <2>5. QED BY <2>3, <2>4, OneNumber, ZenonT(40)
<1>4. CASE k = 2
  <2>1. PICK x \in 0..999, y \in 0..999 : x = v[1] /\ y = v[2]
    <3>1. 1 \in 1..k /\ 2 \in 1..k
      BY <1>4
    <3>2. v[1] \in 0..999 /\ v[2] \in 0..999
      BY <1>2, <3>1
    <3>3. QED BY <3>2, ZenonT(40)
  <2>2. v = <<x, y>>
    BY <1>1, <1>4, <2>1
  <2>3. Text(v) = Digits(x) \o <<Dot>> \o Digits(y)
    BY <2>2 DEF Text
  <2>4. [i \in 1..3 |-> IF i \in DOMAIN v THEN v[i] ELSE 0] = <<x, y, 0>>
    BY <2>2
  <2>5. QED BY <2>3, <2>4, TwoNumbers, ZenonT(40)
<1>5. CASE k = 3
  <2>1. 1 \in 1..k /\ 2 \in 1..k /\ 3 \in 1..k
    BY <1>5
  <2>2. v[1] \in 0..999 /\ v[2] \in 0..999 /\ v[3] \in 0..999
    BY <1>2, <2>1
  <2>3. v = <<v[1], v[2], v[3]>>
    BY <1>1, <1>5
  <2>4. Text(v) = Digits(v[1]) \o <<Dot>> \o Digits(v[2]) \o <<Dot>> \o Digits(v[3])
    <3>1. Len(v) = 3
      BY <2>3
    <3>2. QED BY <3>1 DEF Text
  <2>5. getIosVersion(Text(v)) = <<v[1], v[2], v[3]>>
    <3>1. PICK x \in 0..999 : x = v[1]
      BY <2>2
    <3>2. PICK y \in 0..999 : y = v[2]
      BY <2>2
    <3>3. PICK z \in 0..999 : z = v[3]
      BY <2>2, ZenonT(40)
    <3>4. PICK t : t = Digits(x) \o <<Dot>> \o Digits(y) \o <<Dot>> \o Digits(z)
      BY ZenonT(40)
    <3>5. HoldsThree(t, x, y, z)
      BY <3>4 DEF HoldsThree
    <3>6. getIosVersion(t) = <<x, y, z>>
      BY <3>5, ThreeNumbers
    <3>7. QED BY <2>4, <3>1, <3>2, <3>3, <3>4, <3>6
  <2>6. [j \in 1..3 |-> IF j \in DOMAIN v THEN v[j] ELSE 0] = <<v[1], v[2], v[3]>>
    <3>1. DOMAIN v = 1..3
      BY <1>1, <1>5
    <3>2. QED BY <3>1
  <2>7. QED BY <2>5, <2>6
<1>6. QED BY <1>3, <1>4, <1>5

-----------------------------------------------------------------------------
(* The table.                                                               *)

\* The arrays of options that commands have.
Arrays == {<<>>, opts_list, udid_option, udid_w_json_option, opts_install, opts_ps, opts_iserver,
           opts_listapps, opts_syslog}

\* The names of the commands, six by six, and the group a name is of.
Names1 == {"default", "log", "list", "detectloop", "img", "gas"}
Names2 == {"syscfg", "ps", "btest", "sysmon", "smproclist", "smsyslist"}
Names3 == {"smcoallist", "machtimeinfo", "notices", "battery", "install", "listapps"}
Names4 == {"version", "dl", "launch", "kill", "tail", "sysinfo"}
Names5 == {"wda", "cfa", "dd", "ddf", "xctest", "iserver"}
Names6 == {"iosversion", "mg", "info", "ls", "ioreg", "tunnel"}
Group(name) ==
  IF name \in Names1 THEN 1 ELSE IF name \in Names2 THEN 2 ELSE IF name \in Names3 THEN 3
  ELSE IF name \in Names4 THEN 4 ELSE IF name \in Names5 THEN 5 ELSE 6

\* The rows of the table: their names and arrays.
LEMMA RowsOfTable ==
  /\ Len(CommandTable) = 36 /\ DOMAIN CommandTable = 1..36
  /\ \A k \in 1..36 : CommandTable[k].opts \in Arrays
  /\ \A j, k \in 1..36 : CommandTable[j].name = CommandTable[k].name => j = k
<1>1. Len(CommandTable) = 36 /\ DOMAIN CommandTable = 1..36
  BY DEF CommandTable
<1>2. /\ CommandTable[1] = [name |-> "default", opts |-> <<>>]
      /\ CommandTable[2] = [name |-> "log", opts |-> opts_syslog]
      /\ CommandTable[3] = [name |-> "list", opts |-> opts_list]
      /\ CommandTable[4] = [name |-> "detectloop", opts |-> <<>>]
      /\ CommandTable[5] = [name |-> "img", opts |-> udid_option]
      /\ CommandTable[6] = [name |-> "gas", opts |-> <<>>]
  BY DEF CommandTable
<1>3. /\ CommandTable[7] = [name |-> "syscfg", opts |-> <<>>]
      /\ CommandTable[8] = [name |-> "ps", opts |-> opts_ps]
      /\ CommandTable[9] = [name |-> "btest", opts |-> <<>>]
      /\ CommandTable[10] = [name |-> "sysmon", opts |-> <<>>]
      /\ CommandTable[11] = [name |-> "smproclist", opts |-> <<>>]
      /\ CommandTable[12] = [name |-> "smsyslist", opts |-> <<>>]
  BY DEF CommandTable
<1>4. /\ CommandTable[13] = [name |-> "smcoallist", opts |-> <<>>]
      /\ CommandTable[14] = [name |-> "machtimeinfo", opts |-> <<>>]
      /\ CommandTable[15] = [name |-> "notices", opts |-> <<>>]
      /\ CommandTable[16] = [name |-> "battery", opts |-> <<>>]
      /\ CommandTable[17] = [name |-> "install", opts |-> opts_install]
      /\ CommandTable[18] = [name |-> "listapps", opts |-> opts_listapps]
  BY DEF CommandTable
<1>5. /\ CommandTable[19] = [name |-> "version", opts |-> <<>>]
      /\ CommandTable[20] = [name |-> "dl", opts |-> udid_option]
      /\ CommandTable[21] = [name |-> "launch", opts |-> udid_option]
      /\ CommandTable[22] = [name |-> "kill", opts |-> udid_option]
      /\ CommandTable[23] = [name |-> "tail", opts |-> udid_option]
      /\ CommandTable[24] = [name |-> "sysinfo", opts |-> udid_option]
  BY DEF CommandTable
<1>6. /\ CommandTable[25] = [name |-> "wda", opts |-> udid_option]
      /\ CommandTable[26] = [name |-> "cfa", opts |-> udid_option]
      /\ CommandTable[27] = [name |-> "dd", opts |-> <<>>]
      /\ CommandTable[28] = [name |-> "ddf", opts |-> <<>>]
      /\ CommandTable[29] = [name |-> "xctest", opts |-> udid_option]
      /\ CommandTable[30] = [name |-> "iserver", opts |-> opts_iserver]
  BY DEF CommandTable
<1>7. /\ CommandTable[31] = [name |-> "iosversion", opts |-> udid_option]
      /\ CommandTable[32] = [name |-> "mg", opts |-> udid_w_json_option]
      /\ CommandTable[33] = [name |-> "info", opts |-> udid_w_json_option]
      /\ CommandTable[34] = [name |-> "ls", opts |-> <<>>]
      /\ CommandTable[35] = [name |-> "ioreg", opts |-> <<>>]
      /\ CommandTable[36] = [name |-> "tunnel", opts |-> udid_option]
  BY DEF CommandTable
<1> DEFINE Kind(k, g) == CommandTable[k].opts \in Arrays /\ Group(CommandTable[k].name) = g
           OneRow(j, k) == CommandTable[j].name = CommandTable[k].name => j = k
<1>8. \A j, k \in 1..6 : Kind(k, 1) /\ OneRow(j, k)
  <2> SUFFICES ASSUME NEW j \in 1..6, NEW k \in 1..6 PROVE Kind(k, 1) /\ OneRow(j, k)
    OBVIOUS
  <2>1. (j = 1 \/ j = 2 \/ j = 3 \/ j = 4 \/ j = 5 \/ j = 6)
          /\ (k = 1 \/ k = 2 \/ k = 3 \/ k = 4 \/ k = 5 \/ k = 6)
    OBVIOUS
  <2>2. CommandTable[k].opts \in Arrays
    BY <1>2, <2>1 DEF Arrays
  <2>3. Group(CommandTable[k].name) = 1
    BY <1>2, <2>1 DEF Group, Names1, Names2, Names3, Names4, Names5, Names6
  <2>4. OneRow(j, k)
    BY <1>2, <2>1
  <2>5. QED BY <2>2, <2>3, <2>4
<1>9. \A j, k \in 7..12 : Kind(k, 2) /\ OneRow(j, k)
  <2> SUFFICES ASSUME NEW j \in 7..12, NEW k \in 7..12 PROVE Kind(k, 2) /\ OneRow(j, k)
    OBVIOUS
  <2>1. (j = 7 \/ j = 8 \/ j = 9 \/ j = 10 \/ j = 11 \/ j = 12)
          /\ (k = 7 \/ k = 8 \/ k = 9 \/ k = 10 \/ k = 11 \/ k = 12)
    OBVIOUS
  <2>2. CommandTable[k].opts \in Arrays
    BY <1>3, <2>1 DEF Arrays
  <2>3. Group(CommandTable[k].name) = 2
    BY <1>3, <2>1 DEF Group, Names1, Names2, Names3, Names4, Names5, Names6
  <2>4. OneRow(j, k)
    BY <1>3, <2>1
  <2>5. QED BY <2>2, <2>3, <2>4
<1>10. \A j, k \in 13..18 : Kind(k, 3) /\ OneRow(j, k)
  <2> SUFFICES ASSUME NEW j \in 13..18, NEW k \in 13..18 PROVE Kind(k, 3) /\ OneRow(j, k)
    OBVIOUS
  <2>1. (j = 13 \/ j = 14 \/ j = 15 \/ j = 16 \/ j = 17 \/ j = 18)
          /\ (k = 13 \/ k = 14 \/ k = 15 \/ k = 16 \/ k = 17 \/ k = 18)
    OBVIOUS
  <2>2. CommandTable[k].opts \in Arrays
    BY <1>4, <2>1 DEF Arrays
  <2>3. Group(CommandTable[k].name) = 3
    BY <1>4, <2>1 DEF Group, Names1, Names2, Names3, Names4, Names5, Names6
  <2>4. OneRow(j, k)
    BY <1>4, <2>1
  <2>5. QED BY <2>2, <2>3, <2>4
<1>11. \A j, k \in 19..24 : Kind(k, 4) /\ OneRow(j, k)
  <2> SUFFICES ASSUME NEW j \in 19..24, NEW k \in 19..24 PROVE Kind(k, 4) /\ OneRow(j, k)
    OBVIOUS
  <2>1. (j = 19 \/ j = 20 \/ j = 21 \/ j = 22 \/ j = 23 \/ j = 24)
          /\ (k = 19 \/ k = 20 \/ k = 21 \/ k = 22 \/ k = 23 \/ k = 24)
    OBVIOUS
  <2>2. CommandTable[k].opts \in Arrays
    BY <1>5, <2>1 DEF Arrays
  <2>3. Group(CommandTable[k].name) = 4
    BY <1>5, <2>1 DEF Group, Names1, Names2, Names3, Names4, Names5, Names6
  <2>4. OneRow(j, k)
    BY <1>5, <2>1
  <2>5. QED BY <2>2, <2>3, <2>4
<1>12. \A j, k \in 25..30 : Kind(k, 5) /\ OneRow(j, k)
  <2> SUFFICES ASSUME NEW j \in 25..30, NEW k \in 25..30 PROVE Kind(k, 5) /\ OneRow(j, k)
    OBVIOUS
  <2>1. (j = 25 \/ j = 26 \/ j = 27 \/ j = 28 \/ j = 29 \/ j = 30)
          /\ (k = 25 \/ k = 26 \/ k = 27 \/ k = 28 \/ k = 29 \/ k = 30)
    OBVIOUS
  <2>2. CommandTable[k].opts \in Arrays
    BY <1>6, <2>1 DEF Arrays
  <2>3. Group(CommandTable[k].name) = 5
    BY <1>6, <2>1 DEF Group, Names1, Names2, Names3, Names4, Names5, Names6
  <2>4. OneRow(j, k)
    BY <1>6, <2>1
  <2>5. QED BY <2>2, <2>3, <2>4
<1>13. \A j, k \in 31..36 : Kind(k, 6) /\ OneRow(j, k)
  <2> SUFFICES ASSUME NEW j \in 31..36, NEW k \in 31..36 PROVE Kind(k, 6) /\ OneRow(j, k)
    OBVIOUS
  <2>1. (j = 31 \/ j = 32 \/ j = 33 \/ j = 34 \/ j = 35 \/ j = 36)
          /\ (k = 31 \/ k = 32 \/ k = 33 \/ k = 34 \/ k = 35 \/ k = 36)
    OBVIOUS
  <2>2. CommandTable[k].opts \in Arrays
    BY <1>7, <2>1 DEF Arrays
  <2>3. Group(CommandTable[k].name) = 6
    BY <1>7, <2>1 DEF Group, Names1, Names2, Names3, Names4, Names5, Names6
  <2>4. OneRow(j, k)
    BY <1>7, <2>1
  <2>5. QED BY <2>2, <2>3, <2>4
<1>14. ASSUME NEW k \in 1..36
       PROVE  \E g \in 1..6 : k \in 6 * g - 5..6 * g /\ Kind(k, g)
  <2>1. CASE k \in 1..6
    BY <1>8, <2>1
  <2>2. CASE k \in 7..12
    BY <1>9, <2>2
  <2>3. CASE k \in 13..18
    BY <1>10, <2>3
  <2>4. CASE k \in 19..24
    BY <1>11, <2>4
  <2>5. CASE k \in 25..30
    BY <1>12, <2>5
  <2>6. CASE k \in 31..36
    BY <1>13, <2>6
  <2>7. QED BY <2>1, <2>2, <2>3, <2>4, <2>5, <2>6
<1>15. ASSUME NEW j \in 1..36, NEW k \in 1..36, CommandTable[j].name = CommandTable[k].name
       PROVE  j = k
  <2>1. PICK g \in 1..6 : k \in 6 * g - 5..6 * g /\ Kind(k, g)
    BY <1>14
  <2>2. PICK h \in 1..6 : j \in 6 * h - 5..6 * h /\ Kind(j, h)
    BY <1>14
  <2>3. g = h
    BY <1>15, <2>1, <2>2
  <2> HIDE DEF Kind
  <2>4. OneRow(j, k)
    <3>1. CASE g = 1
      BY <1>8, <2>1, <2>2, <2>3, <3>1
    <3>2. CASE g = 2
      BY <1>9, <2>1, <2>2, <2>3, <3>2
    <3>3. CASE g = 3
      BY <1>10, <2>1, <2>2, <2>3, <3>3
    <3>4. CASE g = 4
      BY <1>11, <2>1, <2>2, <2>3, <3>4
    <3>5. CASE g = 5
      BY <1>12, <2>1, <2>2, <2>3, <3>5
    <3>6. CASE g = 6
      BY <1>13, <2>1, <2>2, <2>3, <3>6
    <3>7. QED BY <3>1, <3>2, <3>3, <3>4, <3>5, <3>6
  <2>5. QED BY <1>15, <2>4
<1>16. \A k \in 1..36 : CommandTable[k].opts \in Arrays
  BY <1>14
<1>17. QED BY <1>1, <1>15, <1>16

\* The cell that comes behind a cell, in every array that has it.
CellBehind(o) ==
  CASE o = UOPT_FLAG("-subsec", "ps") -> UOPT_FLAG("-short", "ps")
    [] o = UOPT_FLAG("-short", "ps") -> UOPT_FLAG("-apps", "ps")
    [] o = UOPT_FLAG("-apps", "ps") -> UOPT("-appname", "ps")
    [] o = UOPT("-appname", "ps") -> UOPT_FLAG("-raw", "ps")
    [] o = idopt \/ o = UOPT_FLAG("-json", "list") -> Null
    [] OTHER -> idopt

\* An array whose cells have different names and are followed as CellBehind says.
Orderly(a) ==
  /\ (\E S : a \in Seq(S)) /\ Len(a) \in 0..6
  /\ \A i \in 1..Len(a) : /\ CellBehind(a[i]) = IF i < Len(a) THEN a[i + 1] ELSE Null
                          /\ a[i].type \in {"flag", "value"}
  /\ \A i, j \in 1..Len(a) : a[i].name = a[j].name => i = j

\* The name and type of a cell.
LEMMA CellParts ==
  ASSUME NEW nr, NEW l
  PROVE  /\ UOPT(nr, l).name = nr /\ UOPT(nr, l).type = "value"
         /\ UOPT_FLAG(nr, l).name = nr /\ UOPT_FLAG(nr, l).type = "flag"
         /\ UOPT_REQUIRED(nr, l).name = nr /\ UOPT_REQUIRED(nr, l).type = "value"
BY DEF uopt__new, UOPT, UOPT_FLAG, UOPT_REQUIRED

\* Which cell is behind which.
LEMMA BehindIs ==
  /\ CellBehind(UOPT_FLAG("-subsec", "ps")) = UOPT_FLAG("-short", "ps")
  /\ CellBehind(UOPT_FLAG("-short", "ps")) = UOPT_FLAG("-apps", "ps")
  /\ CellBehind(UOPT_FLAG("-apps", "ps")) = UOPT("-appname", "ps")
  /\ CellBehind(UOPT("-appname", "ps")) = UOPT_FLAG("-raw", "ps")
  /\ CellBehind(UOPT_FLAG("-raw", "ps")) = idopt
  /\ CellBehind(idopt) = Null /\ CellBehind(UOPT_FLAG("-json", "list")) = Null
  /\ CellBehind(UOPT_FLAG("-json", "udid")) = idopt /\ CellBehind(UOPT_REQUIRED("-path", "install")) = idopt
  /\ CellBehind(UOPT("-port", "iserver")) = idopt /\ CellBehind(UOPT("-bi", "listapps")) = idopt
  /\ CellBehind(UOPT_FLAG("-raw", "syslog")) = idopt
BY DEF CellBehind, idopt, UOPT, UOPT_FLAG, UOPT_REQUIRED, uopt__new

\* An array of one cell.
LEMMA OneCell ==
  ASSUME NEW a, CellBehind(a) = Null, a.type \in {"flag", "value"}
  PROVE  Orderly(<<a>>)
<1>1. PICK s : s = <<a>>
  OBVIOUS
<1>2. s \in Seq({a}) /\ Len(s) = 1 /\ s[1] = a
  BY <1>1
<1>3. \A i \in 1..1 : i = 1
  OBVIOUS
<1>4. \A i \in 1..Len(s) : /\ CellBehind(s[i]) = IF i < Len(s) THEN s[i + 1] ELSE Null
                           /\ s[i].type \in {"flag", "value"}
  BY <1>2, <1>3
<1>5. (\E S : s \in Seq(S)) /\ Len(s) \in 0..6
  BY <1>2
<1>6. \A i, j \in 1..Len(s) : s[i].name = s[j].name => i = j
  BY <1>2, <1>3
<1>7. QED BY <1>1, <1>4, <1>5, <1>6 DEF Orderly

\* An array of two cells.
LEMMA TwoCells ==
  ASSUME NEW a, NEW b, CellBehind(a) = b, CellBehind(b) = Null, a.type \in {"flag", "value"},
         b.type \in {"flag", "value"}, a.name # b.name
  PROVE  Orderly(<<a, b>>)
<1>1. PICK s : s = <<a, b>>
  OBVIOUS
<1>2. s \in Seq({a, b}) /\ Len(s) = 2 /\ s[1] = a /\ s[2] = b
  BY <1>1
<1>3. \A i \in 1..2 : i = 1 \/ i = 2
  OBVIOUS
<1>4. \A i \in 1..Len(s) : /\ CellBehind(s[i]) = IF i < Len(s) THEN s[i + 1] ELSE Null
                           /\ s[i].type \in {"flag", "value"}
  BY <1>2, <1>3
<1>5. \A i, j \in 1..Len(s) : s[i].name = s[j].name => i = j
  BY <1>2, <1>3
<1>6. (\E S : s \in Seq(S)) /\ Len(s) \in 0..6
  BY <1>2
<1>7. QED BY <1>1, <1>4, <1>5, <1>6 DEF Orderly

\* The array of ps, of six.
LEMMA SixCells == Orderly(opts_ps)
<1>1. PICK s : s = opts_ps
  OBVIOUS
<1>2. /\ s[1] = UOPT_FLAG("-subsec", "ps") /\ s[2] = UOPT_FLAG("-short", "ps")
      /\ s[3] = UOPT_FLAG("-apps", "ps") /\ s[4] = UOPT("-appname", "ps")
      /\ s[5] = UOPT_FLAG("-raw", "ps") /\ s[6] = idopt /\ Len(s) = 6
  BY <1>1 DEF opts_ps
<1>3. s \in Seq({s[1], s[2], s[3], s[4], s[5], s[6]})
  BY <1>1 DEF opts_ps
<1>4. \A i \in 1..6 : i = 1 \/ i = 2 \/ i = 3 \/ i = 4 \/ i = 5 \/ i = 6
  OBVIOUS
<1>5. /\ CellBehind(s[1]) = s[2] /\ CellBehind(s[2]) = s[3] /\ CellBehind(s[3]) = s[4]
      /\ CellBehind(s[4]) = s[5] /\ CellBehind(s[5]) = s[6] /\ CellBehind(s[6]) = Null
  BY <1>2, BehindIs
<1>6. /\ s[1].type = "flag" /\ s[2].type = "flag" /\ s[3].type = "flag"
      /\ s[4].type = "value" /\ s[5].type = "flag" /\ s[6].type = "value"
  BY <1>2, CellParts DEF idopt
<1>7. /\ s[1].name = "-subsec" /\ s[2].name = "-short" /\ s[3].name = "-apps"
      /\ s[4].name = "-appname" /\ s[5].name = "-raw" /\ s[6].name = "-id"
  BY <1>2, CellParts DEF idopt
<1>8. \A i \in 1..Len(s) : /\ CellBehind(s[i]) = IF i < Len(s) THEN s[i + 1] ELSE Null
                           /\ s[i].type \in {"flag", "value"}
  <2> SUFFICES ASSUME NEW i \in 1..6
               PROVE  /\ CellBehind(s[i]) = IF i < 6 THEN s[i + 1] ELSE Null
                      /\ s[i].type \in {"flag", "value"}
    BY <1>2
  <2>1. QED BY <1>4, <1>5, <1>6
<1>9. \A i, j \in 1..Len(s) : s[i].name = s[j].name => i = j
  <2> SUFFICES ASSUME NEW i \in 1..6, NEW j \in 1..6, s[i].name = s[j].name PROVE i = j
    BY <1>2
  <2>1. QED BY <1>4, <1>7
<1>10. QED BY <1>1, <1>2, <1>3, <1>8, <1>9 DEF Orderly

\* Every array of the table is such a one.
LEMMA ArraysOrderly ==
  ASSUME NEW a \in Arrays
  PROVE  Orderly(a)
<1>1. Orderly(<<>>)
  BY <<>> \in Seq({}) DEF Orderly
<1>2. Orderly(opts_list)
  BY BehindIs, CellParts, OneCell DEF opts_list
<1>3. idopt.name = "-id" /\ idopt.type = "value" /\ CellBehind(idopt) = Null
  BY BehindIs, CellParts DEF idopt
<1>4. Orderly(udid_option)
  BY <1>3, OneCell DEF udid_option
<1>5. Orderly(udid_w_json_option)
  BY <1>3, BehindIs, CellParts, TwoCells DEF udid_w_json_option
<1>6. Orderly(opts_install)
  BY <1>3, BehindIs, CellParts, TwoCells DEF opts_install
<1>7. Orderly(opts_iserver)
  BY <1>3, BehindIs, CellParts, TwoCells DEF opts_iserver
<1>8. Orderly(opts_listapps)
  BY <1>3, BehindIs, CellParts, TwoCells DEF opts_listapps
<1>9. Orderly(opts_syslog)
  BY <1>3, BehindIs, CellParts, TwoCells DEF opts_syslog
<1>10. QED BY <1>1, <1>2, <1>4, <1>5, <1>6, <1>7, <1>8, <1>9, SixCells DEF Arrays

-----------------------------------------------------------------------------
(* The loops that build the lists and walk them.                            *)

\* f[k] is what the lists are when k options of a row were added.
IsHung(f, lists, row, m) ==
  /\ m \in Nat
  /\ f = [k \in 0..m |-> IF k = 0 THEN lists ELSE ucmd__addopt(f[k - 1], row.name, row.opts[k])]

\* There is such a function.
LEMMA HungExists ==
  ASSUME NEW lists, NEW row, NEW m \in Nat
  PROVE  \E f : IsHung(f, lists, row, m)
<1> DEFINE S == {k \in Nat : \E f : IsHung(f, lists, row, k)}
<1>1. 0 \in S
  <2>1. IsHung([k \in 0..0 |-> lists], lists, row, 0)
    BY DEF IsHung
  <2>2. QED BY <2>1
<1>2. ASSUME NEW k \in S PROVE k + 1 \in S
  <2>1. PICK f : IsHung(f, lists, row, k)
    BY <1>2
  <2> DEFINE g == [i \in 0..k + 1 |-> IF i <= k THEN f[i] ELSE ucmd__addopt(f[k], row.name, row.opts[(k + 1)])]
  <2>2. ASSUME NEW i \in 0..k + 1
        PROVE  g[i] = IF i = 0 THEN lists ELSE ucmd__addopt(g[i - 1], row.name, row.opts[i])
    <3>1. CASE i = 0
      BY <2>1, <3>1 DEF IsHung
    <3>2. CASE i # 0 /\ i <= k
      <4>1. i \in 0..k /\ i - 1 \in 0..k
        BY <3>2
      <4>2. g[i] = f[i] /\ g[i - 1] = f[i - 1]
        BY <4>1
      <4>3. f[i] = ucmd__addopt(f[i - 1], row.name, row.opts[i])
        BY <2>1, <3>2, <4>1 DEF IsHung
      <4>4. QED BY <3>2, <4>2, <4>3
    <3>3. CASE i = k + 1
      <4>1. k \in 0..k + 1 /\ g[k] = f[k]
        OBVIOUS
      <4>2. QED BY <3>3, <4>1
    <3>4. QED BY <3>1, <3>2, <3>3
  <2>3. g = [i \in 0..k + 1 |-> IF i = 0 THEN lists ELSE ucmd__addopt(g[i - 1], row.name, row.opts[i])]
    BY <2>2
  <2> HIDE DEF g
  <2>4. IsHung(g, lists, row, k + 1)
    <3>1. k + 1 \in Nat
      BY <1>2
    <3>2. QED BY <2>3, <3>1 DEF IsHung
  <2>5. QED BY <2>4
<1>3. S \in SUBSET Nat
  OBVIOUS
<1> HIDE DEF S
<1>4. S = Nat
  BY <1>1, <1>2, <1>3, EveryNumber
<1>5. QED BY <1>4 DEF S

\* The same, said of each step.
LEMMA HungSteps ==
  ASSUME NEW lists, NEW row, NEW m, NEW f, IsHung(f, lists, row, m)
  PROVE  /\ f[0] = lists
         /\ \A k \in Nat : k + 1 <= m => f[k + 1] = ucmd__addopt(f[k], row.name, row.opts[(k + 1)])
<1>0. m \in Nat
  BY DEF IsHung
<1>1. f[0] = lists
  BY <1>0 DEF IsHung
<1>2. ASSUME NEW k \in Nat, k + 1 <= m
      PROVE  f[k + 1] = ucmd__addopt(f[k], row.name, row.opts[(k + 1)])
  <2>1. PICK i : i = k + 1
    OBVIOUS
  <2>2. i \in 0..m /\ i # 0 /\ i - 1 = k
    BY <1>0, <1>2, <2>1
  <2>3. f[i] = ucmd__addopt(f[i - 1], row.name, row.opts[i])
    BY <2>2 DEF IsHung
  <2>4. QED BY <2>1, <2>2, <2>3
<1>3. QED BY <1>1, <1>2

\* f[k] is what the lists are when k commands were added.
IsBuilt(f, m) ==
  /\ m \in Nat
  /\ f = [k \in 0..m |-> IF k = 0 THEN NoLists ELSE uclop__addcmd(f[k - 1], CommandTable[k])]

\* There is such a function.
LEMMA BuiltExists ==
  ASSUME NEW m \in Nat
  PROVE  \E f : IsBuilt(f, m)
<1> DEFINE S == {k \in Nat : \E f : IsBuilt(f, k)}
<1>1. 0 \in S
  <2>1. IsBuilt([k \in 0..0 |-> NoLists], 0)
    BY DEF IsBuilt
  <2>2. QED BY <2>1
<1>2. ASSUME NEW k \in S PROVE k + 1 \in S
  <2>1. PICK f : IsBuilt(f, k)
    BY <1>2
  <2> DEFINE g == [i \in 0..k + 1 |-> IF i <= k THEN f[i] ELSE uclop__addcmd(f[k], CommandTable[(k + 1)])]
  <2>2. ASSUME NEW i \in 0..k + 1
        PROVE  g[i] = IF i = 0 THEN NoLists ELSE uclop__addcmd(g[i - 1], CommandTable[i])
    <3>1. CASE i = 0
      BY <2>1, <3>1 DEF IsBuilt
    <3>2. CASE i # 0 /\ i <= k
      <4>1. i \in 0..k /\ i - 1 \in 0..k
        BY <3>2
      <4>2. g[i] = f[i] /\ g[i - 1] = f[i - 1]
        BY <4>1
      <4>3. f[i] = uclop__addcmd(f[i - 1], CommandTable[i])
        BY <2>1, <3>2, <4>1 DEF IsBuilt
      <4>4. QED BY <3>2, <4>2, <4>3
    <3>3. CASE i = k + 1
      <4>1. k \in 0..k + 1 /\ g[k] = f[k]
        OBVIOUS
      <4>2. QED BY <3>3, <4>1
    <3>4. QED BY <3>1, <3>2, <3>3
  <2>3. g = [i \in 0..k + 1 |-> IF i = 0 THEN NoLists ELSE uclop__addcmd(g[i - 1], CommandTable[i])]
    BY <2>2
  <2> HIDE DEF g
  <2>4. IsBuilt(g, k + 1)
    <3>1. k + 1 \in Nat
      BY <1>2
    <3>2. QED BY <2>3, <3>1 DEF IsBuilt
  <2>5. QED BY <2>4
<1>3. S \in SUBSET Nat
  OBVIOUS
<1> HIDE DEF S
<1>4. S = Nat
  BY <1>1, <1>2, <1>3, EveryNumber
<1>5. QED BY <1>4 DEF S

\* The same, said of each step.
LEMMA BuiltSteps ==
  ASSUME NEW m, NEW f, IsBuilt(f, m)
  PROVE  /\ f[0] = NoLists
         /\ \A k \in Nat : k + 1 <= m => f[k + 1] = uclop__addcmd(f[k], CommandTable[(k + 1)])
<1>0. m \in Nat
  BY DEF IsBuilt
<1>1. f[0] = NoLists
  BY <1>0 DEF IsBuilt
<1>2. ASSUME NEW k \in Nat, k + 1 <= m
      PROVE  f[k + 1] = uclop__addcmd(f[k], CommandTable[(k + 1)])
  <2>1. PICK i : i = k + 1
    OBVIOUS
  <2>2. i \in 0..m /\ i # 0 /\ i - 1 = k
    BY <1>0, <1>2, <2>1
  <2>3. f[i] = uclop__addcmd(f[i - 1], CommandTable[i])
    BY <2>2 DEF IsBuilt
  <2>4. QED BY <2>1, <2>2, <2>3
<1>3. QED BY <1>1, <1>2

\* f[k] is what a walk has met after k cells.
IsWalk(f, first, m) ==
  /\ m \in Nat
  /\ f = [k \in 0..m |-> IF k = 0 THEN [at |-> first, met |-> <<>>] ELSE StepOn(f[k - 1])]

\* There is such a function.
LEMMA WalkExists ==
  ASSUME NEW first, NEW m \in Nat
  PROVE  \E f : IsWalk(f, first, m)
<1> DEFINE S == {k \in Nat : \E f : IsWalk(f, first, k)}
<1>1. 0 \in S
  <2>1. IsWalk([k \in 0..0 |-> [at |-> first, met |-> <<>>]], first, 0)
    BY DEF IsWalk
  <2>2. QED BY <2>1
<1>2. ASSUME NEW k \in S PROVE k + 1 \in S
  <2>1. PICK f : IsWalk(f, first, k)
    BY <1>2
  <2> DEFINE g == [i \in 0..k + 1 |-> IF i <= k THEN f[i] ELSE StepOn(f[k])]
  <2>2. ASSUME NEW i \in 0..k + 1
        PROVE  g[i] = IF i = 0 THEN [at |-> first, met |-> <<>>] ELSE StepOn(g[i - 1])
    <3>1. CASE i = 0
      BY <2>1, <3>1 DEF IsWalk
    <3>2. CASE i # 0 /\ i <= k
      <4>1. i \in 0..k /\ i - 1 \in 0..k
        BY <3>2
      <4>2. g[i] = f[i] /\ g[i - 1] = f[i - 1]
        BY <4>1
      <4>3. f[i] = StepOn(f[i - 1])
        BY <2>1, <3>2, <4>1 DEF IsWalk
      <4>4. QED BY <3>2, <4>2, <4>3
    <3>3. CASE i = k + 1
      <4>1. k \in 0..k + 1 /\ g[k] = f[k]
        OBVIOUS
      <4>2. QED BY <3>3, <4>1
    <3>4. QED BY <3>1, <3>2, <3>3
  <2>3. g = [i \in 0..k + 1 |-> IF i = 0 THEN [at |-> first, met |-> <<>>] ELSE StepOn(g[i - 1])]
    BY <2>2
  <2> HIDE DEF g
  <2>4. IsWalk(g, first, k + 1)
    <3>1. k + 1 \in Nat
      BY <1>2
    <3>2. QED BY <2>3, <3>1 DEF IsWalk
  <2>5. QED BY <2>4
<1>3. S \in SUBSET Nat
  OBVIOUS
<1> HIDE DEF S
<1>4. S = Nat
  BY <1>1, <1>2, <1>3, EveryNumber
<1>5. QED BY <1>4 DEF S

\* The same, said of each step.
LEMMA WalkSteps ==
  ASSUME NEW first, NEW m, NEW f, IsWalk(f, first, m)
  PROVE  /\ f[0] = [at |-> first, met |-> <<>>]
         /\ \A k \in Nat : k + 1 <= m => f[k + 1] = StepOn(f[k])
<1>0. m \in Nat
  BY DEF IsWalk
<1>1. f[0] = [at |-> first, met |-> <<>>]
  BY <1>0 DEF IsWalk
<1>2. ASSUME NEW k \in Nat, k + 1 <= m
      PROVE  f[k + 1] = StepOn(f[k])
  <2>1. PICK i : i = k + 1
    OBVIOUS
  <2>2. i \in 0..m /\ i # 0 /\ i - 1 = k
    BY <1>0, <1>2, <2>1
  <2>3. f[i] = StepOn(f[i - 1])
    BY <2>2 DEF IsWalk
  <2>4. QED BY <2>1, <2>2, <2>3
<1>3. QED BY <1>1, <1>2

-----------------------------------------------------------------------------
(* Building the lists.                                                      *)

\* The row's array, and its command.
OptsOf(k) == CommandTable[k].opts
NameOf(k) == CommandTable[k].name

\* What an array of the table is.
IsArray(a) == Orderly(a) /\ Len(a) \in Nat /\ Len(a) <= 6 /\ \A i \in 1..Len(a) : a[i] \in Cells /\ a[i] # Null

\* The first nr cells of a follow each other.
Linked(l, a, nr) == \A p \in Nat : 1 <= p /\ p < nr => l.next[a[p]] = a[p + 1]

\* Cell i of a follows cell q.
CellsJoined(l, a, q, i) == q > 0 => l.next[a[q]] = a[i]

\* Every cell that l makes follow its array, r does too.
Follows(l, r) == \A o \in Cells : l.next[o] = CellBehind(o) => r.next[o] = CellBehind(o)

\* The head, tail and cells of command c say that nr options of array a hang there.
Holds(l, c, a, nr) ==
  /\ nr = 0 => l.head[c] = Null
  /\ nr > 0 => l.head[c] = a[1] /\ l.tail[c] = a[nr]
  /\ Linked(l, a, nr)

\* Lists in which a cell is followed by nothing yet, or by the one behind it in every array.
AreLists(l) ==
  /\ DOMAIN l.head = CommandNames /\ DOMAIN l.tail = CommandNames /\ DOMAIN l.next = Cells
  /\ l = [head |-> l.head, tail |-> l.tail, next |-> l.next]
  /\ \A o \in Cells : l.next[o] = Null \/ l.next[o] = CellBehind(o)

\* Row k has nr[k] of its options hanging on the list of its command.
Hanging(l, nr) ==
  /\ AreLists(l)
  /\ \A k \in 1..36 : nr[k] \in Nat /\ nr[k] <= Len(OptsOf(k)) /\ Holds(l, NameOf(k), OptsOf(k), nr[k])

\* The counts m are the counts nr with one more, the i-th, for row k, which had q.
OneMore(nr, m, k, q, i) ==
  /\ q \in Nat /\ i = q + 1 /\ nr[k] = q /\ i <= Len(OptsOf(k))
  /\ \A j \in 1..36 : m[j] = IF j = k THEN i ELSE nr[j]

\* r are the lists l when option i of array a was hung behind the q that c had.
HungBehind(l, r, c, a, q, i) ==
  /\ q \in Nat /\ i = q + 1 /\ i <= Len(a)
  /\ r = [head |-> r.head, tail |-> r.tail, next |-> r.next]
  /\ DOMAIN r.head = CommandNames /\ DOMAIN r.tail = CommandNames /\ DOMAIN r.next = Cells
  /\ r.tail[c] = a[i] /\ r.head[c] = a[1]
  /\ \A d \in CommandNames : d # c => r.head[d] = l.head[d] /\ r.tail[d] = l.tail[d]
  /\ \A o \in Cells : r.next[o] = IF q > 0 /\ o = a[q] THEN a[i] ELSE l.next[o]

\* What is known of a row.
LEMMA RowFacts ==
  ASSUME NEW k \in 1..36
  PROVE  IsArray(OptsOf(k)) /\ NameOf(k) \in CommandNames
<1>1. Orderly(OptsOf(k)) /\ Len(OptsOf(k)) \in 0..6
  BY RowsOfTable, ArraysOrderly DEF OptsOf, Orderly
<1>2. NameOf(k) \in CommandNames
  BY RowsOfTable DEF CommandNames, NameOf
<1>3. ASSUME NEW i \in 1..Len(OptsOf(k)) PROVE OptsOf(k)[i] \in Cells
  <2>1. i \in DOMAIN OptsOf(k)
    BY <1>1 DEF Orderly
  <2>2. OptsOf(k)[i] \in ToSet(OptsOf(k))
    BY <2>1 DEF ToSet
  <2>3. QED BY <2>2, RowsOfTable DEF Cells, OptsOf
<1>4. QED BY <1>1, <1>2, <1>3, CommandLineAssumption DEF IsArray

\* What one call does to the lists.
LEMMA AddOptDoes ==
  ASSUME NEW l, NEW c \in CommandNames, NEW a, NEW q \in Nat, NEW i \in Nat, i = q + 1, IsArray(a),
         i <= Len(a), AreLists(l), Holds(l, c, a, q), NEW r, r = ucmd__addopt(l, c, a[i])
  PROVE  HungBehind(l, r, c, a, q, i)
<1>0. PICK h, t, x : l = [head |-> h, tail |-> t, next |-> x] /\ h = l.head /\ t = l.tail /\ x = l.next
  BY DEF AreLists
<1>1. DOMAIN h = CommandNames /\ DOMAIN t = CommandNames /\ DOMAIN x = Cells
  BY <1>0 DEF AreLists
<1>2. i \in 1..Len(a) /\ 1 \in 1..Len(a) /\ Len(a) \in Nat
  BY DEF IsArray
<1>3. a[i] \in Cells /\ a[1] # Null
  BY <1>2 DEF IsArray
<1>4. CASE q = 0
  <2>1. h[c] = Null /\ i = 1
    BY <1>0, <1>4 DEF Holds
  <2>2. r = [head |-> [h EXCEPT ![c] = a[i]], tail |-> [t EXCEPT ![c] = a[i]], next |-> x]
    BY <1>0, <2>1 DEF ucmd__addopt
  <2>3. r.head = [h EXCEPT ![c] = a[i]] /\ r.tail = [t EXCEPT ![c] = a[i]] /\ r.next = x
    BY <2>2
  <2>4. r.head[c] = a[1] /\ r.tail[c] = a[i]
    BY <1>1, <2>1, <2>3
  <2>5. \A d \in CommandNames : d # c => r.head[d] = l.head[d] /\ r.tail[d] = l.tail[d]
    BY <1>0, <1>1, <2>3
  <2>6. \A o \in Cells : r.next[o] = IF q > 0 /\ o = a[q] THEN a[i] ELSE l.next[o]
    BY <1>0, <1>4, <2>3
  <2>7. DOMAIN r.head = CommandNames /\ DOMAIN r.tail = CommandNames /\ DOMAIN r.next = Cells
    BY <1>1, <2>3
  <2>8. r = [head |-> r.head, tail |-> r.tail, next |-> r.next]
    BY <2>2, <2>3
  <2>9. QED BY <2>4, <2>5, <2>6, <2>7, <2>8 DEF HungBehind
<1>5. CASE q > 0
  <2>1. h[c] = a[1] /\ t[c] = a[q] /\ h[c] # Null
    BY <1>0, <1>3, <1>5 DEF Holds
  <2>2. r = [head |-> h, tail |-> [t EXCEPT ![c] = a[i]], next |-> [x EXCEPT ![a[q]] = a[i]]]
    BY <1>0, <2>1 DEF ucmd__addopt
  <2>3. r.head = h /\ r.tail = [t EXCEPT ![c] = a[i]] /\ r.next = [x EXCEPT ![a[q]] = a[i]]
    BY <2>2
  <2>4. r.head[c] = a[1] /\ r.tail[c] = a[i]
    BY <1>1, <2>1, <2>3
  <2>5. \A d \in CommandNames : d # c => r.head[d] = l.head[d] /\ r.tail[d] = l.tail[d]
    BY <1>0, <1>1, <2>3
  <2>6. \A o \in Cells : r.next[o] = IF q > 0 /\ o = a[q] THEN a[i] ELSE l.next[o]
    BY <1>0, <1>1, <1>5, <2>3
  <2>7. DOMAIN r.head = CommandNames /\ DOMAIN r.tail = CommandNames /\ DOMAIN r.next = Cells
    BY <1>1, <2>3
  <2>8. r = [head |-> r.head, tail |-> r.tail, next |-> r.next]
    BY <2>2, <2>3
  <2>9. QED BY <2>4, <2>5, <2>6, <2>7, <2>8 DEF HungBehind
<1>6. QED BY <1>4, <1>5

\* In an array the cell after a cell is the one behind it.
LEMMA BehindInArray ==
  ASSUME NEW a, IsArray(a), NEW p \in Nat, 1 <= p, p < Len(a)
  PROVE  a[p] \in Cells /\ CellBehind(a[p]) = a[p + 1] /\ p \in 1..Len(a)
<1>1. p \in 1..Len(a)
  BY DEF IsArray
<1>2. QED BY <1>1 DEF IsArray, Orderly

\* A cell that is followed by what is behind it stays so, and no cell gets another follower.
LEMMA BehindStays ==
  ASSUME NEW l, NEW r, NEW c, NEW a, NEW q, NEW i, IsArray(a), AreLists(l), HungBehind(l, r, c, a, q, i)
  PROVE  /\ AreLists(r)
         /\ Follows(l, r)
         /\ CellsJoined(r, a, q, i)
<1>0. q \in Nat /\ i = q + 1 /\ i <= Len(a)
  BY DEF HungBehind
<1>1. q > 0 => a[q] \in Cells /\ CellBehind(a[q]) = a[i]
  <2> SUFFICES ASSUME q > 0 PROVE a[q] \in Cells /\ CellBehind(a[q]) = a[i]
    OBVIOUS
  <2>1. 1 <= q /\ q < Len(a)
    BY <1>0 DEF IsArray
  <2>2. QED BY <1>0, <2>1, BehindInArray
<1>2. \A o \in Cells : r.next[o] = IF q > 0 /\ o = a[q] THEN a[i] ELSE l.next[o]
  BY DEF HungBehind
<1>3. \A o \in Cells : l.next[o] = Null \/ l.next[o] = CellBehind(o)
  BY DEF AreLists
<1>4. \A o \in Cells : r.next[o] = Null \/ r.next[o] = CellBehind(o)
  BY <1>1, <1>2, <1>3
<1>5. Follows(l, r)
  BY <1>1, <1>2 DEF Follows
<1>6. AreLists(r)
  BY <1>4 DEF AreLists, HungBehind
<1>7. CellsJoined(r, a, q, i)
  BY <1>1, <1>2 DEF CellsJoined
<1>8. QED BY <1>5, <1>6, <1>7

\* What hangs on a list stays there.
LEMMA HoldsStays ==
  ASSUME NEW l, NEW r, NEW d, NEW b, NEW nr \in Nat, IsArray(b), nr <= Len(b), Holds(l, d, b, nr),
         Follows(l, r)
  PROVE  Linked(r, b, nr)
<1> SUFFICES ASSUME NEW p \in Nat, 1 <= p, p < nr PROVE r.next[b[p]] = b[p + 1]
  BY DEF Linked
<1>1. p < Len(b)
  BY DEF IsArray
<1>2. b[p] \in Cells /\ CellBehind(b[p]) = b[p + 1]
  BY <1>1, BehindInArray
<1>3. l.next[b[p]] = b[p + 1]
  BY DEF Holds, Linked
<1>4. QED BY <1>2, <1>3 DEF Follows

\* One more option is hung behind the others, and nothing else changes for any list.
LEMMA AddOptKeeps ==
  ASSUME NEW l, NEW nr, NEW k \in 1..36, Hanging(l, nr), NEW q, NEW i, NEW m, OneMore(nr, m, k, q, i),
         NEW r, r = ucmd__addopt(l, NameOf(k), OptsOf(k)[i])
  PROVE  Hanging(r, m)
<1>0. /\ q \in Nat /\ i \in Nat /\ i = q + 1 /\ nr[k] = q /\ i <= Len(OptsOf(k))
      /\ \A j \in 1..36 : m[j] = IF j = k THEN i ELSE nr[j]
  BY DEF OneMore
<1>1. PICK c, a : c = NameOf(k) /\ a = OptsOf(k)
  OBVIOUS
<1>2. c \in CommandNames /\ IsArray(a) /\ i <= Len(a) /\ r = ucmd__addopt(l, c, a[i])
  BY <1>0, <1>1, RowFacts
<1>3. AreLists(l) /\ Holds(l, c, a, q)
  BY <1>0, <1>1 DEF Hanging
<1>4. HungBehind(l, r, c, a, q, i)
  BY <1>0, <1>2, <1>3, AddOptDoes
<1>5. /\ AreLists(r)
      /\ Follows(l, r)
      /\ CellsJoined(r, a, q, i)
  BY <1>2, <1>3, <1>4, BehindStays
<1>6. Holds(r, c, a, i)
  <2>0. PICK len \in Nat : len = Len(a)
    BY <1>2 DEF IsArray
  <2>1. q <= Len(a)
    BY <1>0, <1>2, <2>0
  <2>2. Linked(r, a, q)
    BY <1>0, <1>2, <1>3, <1>5, <2>1, HoldsStays
  <2>3. ASSUME NEW p \in Nat, 1 <= p, p < i PROVE r.next[a[p]] = a[p + 1]
    <3>1. CASE p = q
      <4>1. q > 0 /\ p + 1 = i
        BY <1>0, <2>3, <3>1
      <4>2. QED BY <1>5, <3>1, <4>1 DEF CellsJoined
    <3>2. CASE p < q
      BY <1>0, <2>2, <2>3, <3>2 DEF Linked
    <3>3. q \in Nat /\ i = q + 1
      BY <1>0
    <3>4. p = q \/ p < q
      BY <2>3, <3>3
    <3>5. QED BY <3>1, <3>2, <3>4
  <2>4. r.head[c] = a[1] /\ r.tail[c] = a[i]
    BY <1>4 DEF HungBehind
  <2>5. i # 0
    BY <1>0
  <2>6. QED BY <2>3, <2>4, <2>5 DEF Holds, Linked
<1>7. ASSUME NEW j \in 1..36
      PROVE  m[j] \in Nat /\ m[j] <= Len(OptsOf(j)) /\ Holds(r, NameOf(j), OptsOf(j), m[j])
  <2>1. CASE j = k
    <3>1. m[j] = i
      BY <1>0, <2>1
    <3>2. QED BY <1>0, <1>1, <1>2, <1>6, <2>1, <3>1
  <2>2. CASE j # k
    <3>1. PICK d, b, s : d = NameOf(j) /\ b = OptsOf(j) /\ s = nr[j]
      OBVIOUS
    <3>2. m[j] = s
      BY <1>0, <2>2, <3>1
    <3>3. s \in Nat /\ s <= Len(b) /\ Holds(l, d, b, s)
      BY <3>1 DEF Hanging
    <3>4. d \in CommandNames /\ IsArray(b)
      BY <3>1, RowFacts
    <3>5. d # c
      BY <1>1, <2>2, <3>1, RowsOfTable DEF NameOf
    <3>6. r.head[d] = l.head[d] /\ r.tail[d] = l.tail[d]
      BY <1>4, <3>4, <3>5 DEF HungBehind
    <3>7. Linked(r, b, s)
      BY <1>5, <3>3, <3>4, HoldsStays
    <3>8. Holds(r, d, b, s)
      BY <3>3, <3>6, <3>7 DEF Holds
    <3>9. QED BY <3>1, <3>2, <3>3, <3>8
  <2>3. QED BY <2>1, <2>2
<1>8. QED BY <1>5, <1>7 DEF Hanging

\* The counts nr, with q for row k; and the counts when the first t commands were added.
With(nr, k, q) == [j \in 1..36 |-> IF j = k THEN q ELSE nr[j]]
Done(t) == [j \in 1..36 |-> IF j <= t THEN Len(OptsOf(j)) ELSE 0]

\* Only the counts of the 36 rows matter.
LEMMA SameCounts ==
  ASSUME NEW l, NEW nr, NEW m, Hanging(l, nr), \A j \in 1..36 : m[j] = nr[j]
  PROVE  Hanging(l, m)
BY DEF Hanging

\* uclop__addcmd hangs all the options of its row (uclop.c: the loop over the array).
LEMMA AddcmdKeeps ==
  ASSUME NEW l, NEW nr, NEW k \in 1..36, Hanging(l, nr), nr[k] = 0
  PROVE  Hanging(uclop__addcmd(l, CommandTable[k]), With(nr, k, Len(OptsOf(k))))
<1>1. PICK len \in Nat : len = Len(OptsOf(k))
  BY RowFacts DEF IsArray
<1>2. PICK row : row = CommandTable[k]
  OBVIOUS
<1>3. PICK g : IsHung(g, l, row, len)
  BY HungExists
<1>4. len = Len(row.opts) /\ \E f : IsHung(f, l, row, len) /\ uclop__addcmd(l, row) = f[len]
  BY <1>1, <1>2, <1>3 DEF uclop__addcmd, IsHung, OptsOf
<1>5. PICK f : IsHung(f, l, row, len) /\ uclop__addcmd(l, row) = f[len]
  BY <1>4
<1>6. f[0] = l /\ \A i \in Nat : i + 1 <= len => f[i + 1] = ucmd__addopt(f[i], row.name, row.opts[i + 1])
  BY <1>5, HungSteps
<1> DEFINE S == {q \in Nat : q <= len => Hanging(f[q], With(nr, k, q))}
<1>7. 0 \in S
  <2>1. \A j \in 1..36 : With(nr, k, 0)[j] = nr[j]
    BY DEF With
  <2>2. QED BY <1>6, <2>1, SameCounts
<1>8. ASSUME NEW q \in S PROVE q + 1 \in S
  <2>1. q \in Nat /\ q + 1 \in Nat
    OBVIOUS
  <2>2. ASSUME q + 1 <= len PROVE Hanging(f[q + 1], With(nr, k, q + 1))
    <3>1. PICK i \in Nat : i = q + 1
      BY <2>1
    <3>2. Hanging(f[q], With(nr, k, q))
      BY <2>1, <2>2
    <3>3. With(nr, k, q)[k] = q /\ \A j \in 1..36 : With(nr, k, i)[j] = IF j = k THEN i ELSE With(nr, k, q)[j]
      BY DEF With
    <3>4. f[i] = ucmd__addopt(f[q], NameOf(k), OptsOf(k)[i])
      BY <1>2, <1>6, <2>1, <2>2, <3>1 DEF NameOf, OptsOf
    <3>5. i <= Len(OptsOf(k))
      BY <1>1, <2>2, <3>1
    <3>6. PICK u, v, w : u = With(nr, k, q) /\ v = With(nr, k, i) /\ w = f[q]
      OBVIOUS
    <3>7. Hanging(f[i], v)
      <4>1. OneMore(u, v, k, q, i)
        BY <2>1, <3>1, <3>3, <3>5, <3>6 DEF OneMore
      <4>2. QED BY <3>2, <3>4, <3>6, <4>1, AddOptKeeps
    <3>8. QED BY <3>1, <3>6, <3>7
  <2>3. QED BY <2>1, <2>2
<1>9. S \in SUBSET Nat
  OBVIOUS
<1> HIDE DEF S
<1>10. S = Nat
  BY <1>7, <1>8, <1>9, EveryNumber
<1>11. Hanging(f[len], With(nr, k, len))
  BY <1>10 DEF S
<1>12. QED BY <1>1, <1>2, <1>5, <1>11

\* When main has added its commands, every option of every row hangs on its command's list.
LEMMA ListsHold ==
  ASSUME NEW k \in 1..36
  PROVE  AreLists(Lists) /\ Holds(Lists, NameOf(k), OptsOf(k), Len(OptsOf(k)))
<1>1. PICK g : IsBuilt(g, 36)
  BY BuiltExists
<1>2. \E f : IsBuilt(f, 36) /\ Lists = f[36]
  BY <1>1, RowsOfTable, ZenonT(40) DEF Lists, IsBuilt
<1>3. PICK f : IsBuilt(f, 36) /\ Lists = f[36]
  BY <1>2
<1>4. f[0] = NoLists /\ \A t \in Nat : t + 1 <= 36 => f[t + 1] = uclop__addcmd(f[t], CommandTable[t + 1])
  BY <1>3, BuiltSteps
<1> DEFINE S == {t \in Nat : t <= 36 => Hanging(f[t], Done(t))}
<1>5. 0 \in S
  <2>1. AreLists(NoLists)
    BY DEF AreLists, NoLists
  <2>2. ASSUME NEW j \in 1..36
        PROVE  /\ Done(0)[j] \in Nat /\ Done(0)[j] <= Len(OptsOf(j))
               /\ Holds(NoLists, NameOf(j), OptsOf(j), Done(0)[j])
    <3>1. Done(0)[j] = 0
      BY DEF Done
    <3>2. 0 <= Len(OptsOf(j)) /\ NameOf(j) \in CommandNames
      <4>1. IsArray(OptsOf(j)) /\ NameOf(j) \in CommandNames
        BY RowFacts
      <4>2. PICK len \in Nat : len = Len(OptsOf(j))
        BY <4>1 DEF IsArray
      <4>3. QED BY <4>1, <4>2
    <3>3. NoLists.head[NameOf(j)] = Null
      BY <3>2 DEF NoLists
    <3>4. Holds(NoLists, NameOf(j), OptsOf(j), 0)
      BY <3>3 DEF Holds, Linked
    <3>5. QED BY <3>1, <3>2, <3>4
  <2>3. QED BY <1>4, <2>1, <2>2 DEF Hanging
<1>6. ASSUME NEW t \in S PROVE t + 1 \in S
  <2>1. t \in Nat /\ t + 1 \in Nat
    OBVIOUS
  <2>2. ASSUME t + 1 <= 36 PROVE Hanging(f[t + 1], Done(t + 1))
    <3>1. PICK k1 \in 1..36 : k1 = t + 1
      BY <2>1, <2>2
    <3>2. Hanging(f[t], Done(t))
      BY <2>1, <2>2
    <3>3. Done(t)[k1] = 0
      BY <2>1, <3>1 DEF Done
    <3>4. f[k1] = uclop__addcmd(f[t], CommandTable[k1])
      BY <1>4, <2>1, <3>1
    <3>5. Hanging(f[k1], With(Done(t), k1, Len(OptsOf(k1))))
      BY <3>2, <3>3, <3>4, AddcmdKeeps
    <3>6. \A j \in 1..36 : Done(k1)[j] = With(Done(t), k1, Len(OptsOf(k1)))[j]
      <4> SUFFICES ASSUME NEW j \in 1..36
                   PROVE  Done(k1)[j] = With(Done(t), k1, Len(OptsOf(k1)))[j]
        OBVIOUS
      <4>1. Done(k1)[j] = IF j <= k1 THEN Len(OptsOf(j)) ELSE 0
        BY DEF Done
      <4>2. Done(t)[j] = IF j <= t THEN Len(OptsOf(j)) ELSE 0
        BY DEF Done
      <4>3. With(Done(t), k1, Len(OptsOf(k1)))[j] = IF j = k1 THEN Len(OptsOf(k1)) ELSE Done(t)[j]
        BY DEF With
      <4>4. j <= k1 <=> j = k1 \/ j <= t
        BY <2>1, <3>1
      <4>5. ~(k1 <= t)
        BY <2>1, <3>1
      <4>6. QED BY <4>1, <4>2, <4>3, <4>4, <4>5
    <3>7. Hanging(f[k1], Done(k1))
      BY <3>5, <3>6, SameCounts
    <3>8. QED BY <3>1, <3>7
  <2>3. QED BY <2>1, <2>2
<1>7. S \in SUBSET Nat
  OBVIOUS
<1> HIDE DEF S
<1>8. S = Nat
  BY <1>5, <1>6, <1>7, EveryNumber
<1>9. Hanging(Lists, Done(36))
  BY <1>3, <1>8 DEF S
<1>10. Done(36)[k] = Len(OptsOf(k))
  BY DEF Done
<1>11. QED BY <1>9, <1>10 DEF Hanging

\* CellBehind the last cell of an array nothing is linked.
LEMMA LastIsLast ==
  ASSUME NEW a, IsArray(a), Len(a) > 0
  PROVE  Lists.next[a[Len(a)]] = Null
<1>1. PICK len \in Nat : len = Len(a)
  BY DEF IsArray
<1>2. len \in 1..Len(a)
  BY <1>1
<1>3. a[len] \in Cells /\ CellBehind(a[len]) = Null
  BY <1>1, <1>2 DEF IsArray, Orderly
<1>4. 1 \in 1..36
  OBVIOUS
<1>5. QED BY <1>1, <1>3, <1>4, ListsHold DEF AreLists

\* What a walk has met after i cells of array a.
HasMet(w, a, i) ==
  w = [at |-> IF i < Len(a) THEN a[i + 1] ELSE Null, met |-> [p \in 1..i |-> a[p]]]

\* One more cell.
LEMMA StepMeets ==
  ASSUME NEW k \in 1..36, NEW a, a = OptsOf(k), NEW q \in Nat, q < Len(a), NEW w, HasMet(w, a, q)
  PROVE  HasMet(StepOn(w), a, q + 1)
<1>1. IsArray(a) /\ Linked(Lists, a, Len(a))
  BY RowFacts, ListsHold DEF Holds
<1>0. PICK len \in Nat : len = Len(a)
  BY <1>1 DEF IsArray
<1>2. PICK i \in Nat : i = q + 1 /\ len = Len(a)
  BY <1>0
<1>3. i \in 1..Len(a)
  BY <1>2
<1>4. a[i] # Null
  BY <1>1, <1>3 DEF IsArray
<1>5. w.at = a[i] /\ w.met = [p \in 1..q |-> a[p]]
  BY <1>2 DEF HasMet
<1>6. StepOn(w) = [at |-> Lists.next[a[i]], met |-> Append(w.met, a[i])]
  BY <1>4, <1>5 DEF StepOn
<1>7. Lists.next[a[i]] = IF i < Len(a) THEN a[i + 1] ELSE Null
  <2>1. CASE i < len
    <3>1. Lists.next[a[i]] = a[i + 1]
      BY <1>1, <1>2, <2>1 DEF Linked
    <3>2. QED BY <1>2, <2>1, <3>1
  <2>2. CASE i = len
    <3>1. Lists.next[a[len]] = Null
      BY <1>1, <1>2, LastIsLast
    <3>2. QED BY <1>2, <2>2, <3>1
  <2>3. QED BY <1>2, <2>1, <2>2
<1>8. Append(w.met, a[i]) = [p \in 1..i |-> a[p]]
  <2>1. PICK s : s = [p \in 1..q |-> a[p]]
    OBVIOUS
  <2>2. PICK T : T = {a[p] : p \in 1..i}
    OBVIOUS
  <2>3. s \in Seq(T) /\ Len(s) = q /\ a[i] \in T
    BY <1>2, <2>1, <2>2
  <2>4. Append(s, a[i]) \in Seq(T) /\ Len(Append(s, a[i])) = i
    BY <1>2, <2>3
  <2>5. ASSUME NEW p \in 1..i PROVE Append(s, a[i])[p] = a[p]
    BY <1>2, <2>1, <2>3, <2>4
  <2>6. Append(s, a[i]) = [p \in 1..i |-> Append(s, a[i])[p]]
    BY <2>4
  <2>7. QED BY <1>5, <2>1, <2>5, <2>6
<1>9. QED BY <1>2, <1>6, <1>7, <1>8 DEF HasMet

\* Each command has the options of its row and no others, in their order: though the lists
\* share cells, no list runs into another one's (uclop.c, main.c).
LEMMA TableHolds ==
  ASSUME NEW k \in 1..36
  PROVE  OptionTable[NameOf(k)] = OptsOf(k)
<1>1. PICK a, c : a = OptsOf(k) /\ c = NameOf(k)
  OBVIOUS
<1>2. IsArray(a) /\ c \in CommandNames /\ Holds(Lists, c, a, Len(a))
  BY <1>1, RowFacts, ListsHold
<1>3. PICK len \in Nat : len = Len(a) /\ len <= 6
  BY <1>2 DEF IsArray
<1>4. PICK g : IsWalk(g, Lists.head[c], 20)
  BY WalkExists
<1>5. \E f : IsWalk(f, Lists.head[c], 20) /\ OptionsOf(c) = f[20].met
  BY <1>4 DEF OptionsOf, IsWalk, MaxWalk
<1>6. PICK f : IsWalk(f, Lists.head[c], 20) /\ OptionsOf(c) = f[20].met
  BY <1>5
<1>7. f[0] = [at |-> Lists.head[c], met |-> <<>>] /\ \A i \in Nat : i + 1 <= 20 => f[i + 1] = StepOn(f[i])
  <2>1. PICK first, m : first = Lists.head[c] /\ m = 20
    OBVIOUS
  <2>2. IsWalk(f, first, m)
    BY <1>6, <2>1
  <2>3. f[0] = [at |-> first, met |-> <<>>] /\ \A i \in Nat : i + 1 <= m => f[i + 1] = StepOn(f[i])
    BY <2>2, WalkSteps, ZenonT(40)
  <2>4. QED BY <2>1, <2>3
<1> DEFINE S == {i \in Nat : i <= 20 => HasMet(f[i], a, IF i < len THEN i ELSE len)}
<1>8. 0 \in S
  <2>1. Lists.head[c] = IF 0 < Len(a) THEN a[0 + 1] ELSE Null
    BY <1>2, <1>3 DEF Holds
  <2>2. <<>> = [p \in 1..0 |-> a[p]]
    OBVIOUS
  <2>3. HasMet(f[0], a, 0)
    BY <1>7, <2>1, <2>2 DEF HasMet
  <2>4. (IF 0 < len THEN 0 ELSE len) = 0
    OBVIOUS
  <2>5. QED BY <2>3, <2>4
<1>9. ASSUME NEW i \in S PROVE i + 1 \in S
  <2>1. i \in Nat /\ i + 1 \in Nat
    OBVIOUS
  <2>2. ASSUME i + 1 <= 20 PROVE HasMet(f[i + 1], a, IF i + 1 < len THEN i + 1 ELSE len)
    <3>0. HasMet(f[i], a, IF i < len THEN i ELSE len) /\ f[i + 1] = StepOn(f[i])
      BY <1>7, <2>1, <2>2
    <3>1. CASE i < len
      <4>1. HasMet(f[i], a, i)
        BY <3>0, <3>1
      <4>2. HasMet(StepOn(f[i]), a, i + 1)
        BY <1>1, <1>3, <2>1, <3>1, <4>1, StepMeets
      <4>3. (IF i + 1 < len THEN i + 1 ELSE len) = i + 1
        BY <2>1, <3>1
      <4>4. QED BY <3>0, <4>2, <4>3
    <3>2. CASE ~(i < len)
      <4>1. HasMet(f[i], a, len)
        BY <3>0, <3>2
      <4>2. f[i].at = Null
        BY <1>3, <4>1 DEF HasMet
      <4>3. StepOn(f[i]) = f[i]
        BY <4>2 DEF StepOn
      <4>4. (IF i + 1 < len THEN i + 1 ELSE len) = len
        BY <2>1, <3>2
      <4>5. QED BY <3>0, <4>1, <4>3, <4>4
    <3>3. QED BY <3>1, <3>2
  <2>3. QED BY <2>1, <2>2
<1>10. S \in SUBSET Nat
  OBVIOUS
<1> HIDE DEF S
<1>11. S = Nat
  BY <1>8, <1>9, <1>10, EveryNumber
<1>12. HasMet(f[20], a, IF 20 < len THEN 20 ELSE len)
  BY <1>11 DEF S
<1>13. f[20].met = [p \in 1..len |-> a[p]]
  BY <1>3, <1>12 DEF HasMet
<1>14. \E T : a \in Seq(T)
  BY <1>2 DEF IsArray, Orderly
<1>15. a = [p \in 1..len |-> a[p]]
  BY <1>3, <1>14
<1>16. OptionTable[c] = OptionsOf(c)
  BY <1>2 DEF OptionTable
<1>17. QED BY <1>1, <1>6, <1>13, <1>15, <1>16

-----------------------------------------------------------------------------
(* Reading the words.                                                       *)

\* The words of a command line that names a command.
AreWords(ws) == ws \in Seq(ToSet(ws) \ {Null}) /\ ws # <<>>

\* An array and words to be read with it.
Given(opts, ws) == IsArray(opts) /\ AreWords(ws)

\* A name of an option of the array, and of one that takes a value.
IsName(opts, name) == \E k \in 1..Len(opts) : opts[k].name = name
IsTaking(opts, name) == \E k \in 1..Len(opts) : opts[k].name = name /\ opts[k].type = "value"

\* The places where the words are.
LEMMA Places ==
  ASSUME NEW ws, AreWords(ws)
  PROVE  /\ Len(ws) \in Nat /\ Len(ws) >= 1 /\ DOMAIN ws = 1..Len(ws)
         /\ \A i \in 1..Len(ws) : ws[i] # Null /\ WordAt(ws, i) = ws[i]
         /\ \A i : i \notin 1..Len(ws) => WordAt(ws, i) = Null
<1>1. ws \in Seq(ToSet(ws) \ {Null}) /\ ws # <<>>
  BY DEF AreWords
<1>2. Len(ws) \in Nat /\ Len(ws) >= 1 /\ DOMAIN ws = 1..Len(ws)
  BY <1>1
<1>3. \A i \in 1..Len(ws) : ws[i] # Null
  BY <1>1
<1>4. QED BY <1>2, <1>3 DEF WordAt

\* ucmd__find_opt gives the option of that name, if there is one.
LEMMA FindOpt ==
  ASSUME NEW opts, IsArray(opts), NEW name
  PROVE  /\ ucmd__find_opt(opts, name) # Null =>
              \E k \in 1..Len(opts) : ucmd__find_opt(opts, name) = opts[k] /\ opts[k].name = name
         /\ \A k \in 1..Len(opts) : opts[k].name = name => ucmd__find_opt(opts, name) = opts[k]
<1>1. DOMAIN opts = 1..Len(opts) /\ Len(opts) \in Nat
  BY DEF IsArray, Orderly
<1>2. \A i, j \in 1..Len(opts) : opts[i].name = opts[j].name => i = j
  BY DEF IsArray, Orderly
<1>3. ASSUME NEW k \in 1..Len(opts), opts[k].name = name
      PROVE  ucmd__find_opt(opts, name) = opts[k]
  <2>1. \A j \in 1..k - 1 : ~(opts[j].name = name)
    BY <1>1, <1>2, <1>3
  <2>2. \A q \in DOMAIN opts : opts[q].name = name => q = k
    BY <1>1, <1>2, <1>3
  <2>3. k = CHOOSE q \in DOMAIN opts : opts[q].name = name /\ \A j \in 1..q - 1 : ~(opts[j].name = name)
    BY <1>1, <1>3, <2>1, <2>2
  <2>4. QED BY <1>1, <1>3, <2>3 DEF ucmd__find_opt
<1>4. ASSUME ucmd__find_opt(opts, name) # Null
      PROVE  \E k \in 1..Len(opts) : ucmd__find_opt(opts, name) = opts[k] /\ opts[k].name = name
  <2>1. \E k \in DOMAIN opts : opts[k].name = name
    BY <1>4 DEF ucmd__find_opt
  <2>2. PICK k \in 1..Len(opts) : opts[k].name = name
    BY <1>1, <2>1
  <2>3. QED BY <1>3, <2>2
<1>5. QED BY <1>3, <1>4

\* What is an option is a word, takes a value or is a flag, and has its name in the array.
LEMMA OptionIs ==
  ASSUME NEW opts, NEW ws, Given(opts, ws), NEW i, OptionAt(opts, ws, i) # Null
  PROVE  /\ i \in 1..Len(ws) /\ ws[i] \in DashWords /\ IsName(opts, ws[i])
         /\ Takes(opts, ws, i, "flag") \/ Takes(opts, ws, i, "value")
<1>1. WordAt(ws, i) \in DashWords /\ OptionAt(opts, ws, i) = ucmd__find_opt(opts, WordAt(ws, i))
  BY DEF OptionAt
<1>2. i \in 1..Len(ws) /\ WordAt(ws, i) = ws[i]
  BY <1>1, Places, CommandLineAssumption DEF Given
<1>3. PICK k \in 1..Len(opts) : OptionAt(opts, ws, i) = opts[k] /\ opts[k].name = ws[i]
  BY <1>1, <1>2, FindOpt DEF Given
<1>4. opts[k].type \in {"flag", "value"}
  BY <1>3 DEF Given, IsArray, Orderly
<1>5. QED BY <1>1, <1>2, <1>3, <1>4 DEF IsName, Takes

\* Where a value is taken, the word is the name of an option that takes one.
LEMMA TakingIs ==
  ASSUME NEW opts, NEW ws, Given(opts, ws), NEW i
  PROVE  /\ Takes(opts, ws, i, "value") => i \in 1..Len(ws) /\ IsTaking(opts, ws[i])
         /\ OptionAt(opts, ws, i) # Null /\ IsTaking(opts, ws[i]) => Takes(opts, ws, i, "value")
         /\ ~(Takes(opts, ws, i, "value") /\ Takes(opts, ws, i, "flag"))
<1>1. ~(Takes(opts, ws, i, "value") /\ Takes(opts, ws, i, "flag"))
  BY DEF Takes
<1>2. ASSUME OptionAt(opts, ws, i) # Null
      PROVE  i \in 1..Len(ws) /\ OptionAt(opts, ws, i) = ucmd__find_opt(opts, ws[i])
  BY <1>2, OptionIs, Places DEF Given, OptionAt
<1>3. ASSUME Takes(opts, ws, i, "value")
      PROVE  i \in 1..Len(ws) /\ IsTaking(opts, ws[i])
  <2>1. OptionAt(opts, ws, i) # Null /\ OptionAt(opts, ws, i).type = "value"
    BY <1>3 DEF Takes
  <2>2. i \in 1..Len(ws) /\ OptionAt(opts, ws, i) = ucmd__find_opt(opts, ws[i])
    BY <1>2, <2>1
  <2>3. PICK k \in 1..Len(opts) : ucmd__find_opt(opts, ws[i]) = opts[k] /\ opts[k].name = ws[i]
    BY <2>1, <2>2, FindOpt DEF Given
  <2>4. QED BY <2>1, <2>2, <2>3 DEF IsTaking
<1>4. ASSUME OptionAt(opts, ws, i) # Null, IsTaking(opts, ws[i])
      PROVE  Takes(opts, ws, i, "value")
  <2>1. PICK k \in 1..Len(opts) : opts[k].name = ws[i] /\ opts[k].type = "value"
    BY <1>4 DEF IsTaking
  <2>2. ucmd__find_opt(opts, ws[i]) = opts[k]
    BY <2>1, FindOpt DEF Given
  <2>3. OptionAt(opts, ws, i) = opts[k]
    BY <1>2, <1>4, <2>2
  <2>4. QED BY <1>4, <2>1, <2>3 DEF Takes
<1>5. QED BY <1>1, <1>3, <1>4

\* f[i] says that the loop gets to word i, up to m.
LooksOn(f, opts, ws, i) ==
  \/ i = 2
  \/ i > 2 /\ Takes(opts, ws, i - 1, "flag") /\ f[i - 1]
  \/ i > 2 + 1 /\ Takes(opts, ws, i - 2, "value") /\ f[i - 2]
IsLooks(f, opts, ws, m) == f = [i \in 2..m |-> LooksOn(f, opts, ws, i)]

\* There is such a function.
LEMMA LooksExist ==
  ASSUME NEW opts, NEW ws, NEW m \in Nat
  PROVE  \E f : IsLooks(f, opts, ws, m)
<1> DEFINE S == {k \in Nat : \E f : IsLooks(f, opts, ws, k)}
<1>1. 0 \in S
  <2>1. PICK f : f = [i \in 2..0 |-> TRUE]
    OBVIOUS
  <2>2. f = [i \in 2..0 |-> LooksOn(f, opts, ws, i)]
    BY <2>1
  <2>3. QED BY <2>2 DEF IsLooks
<1>2. ASSUME NEW k \in S PROVE k + 1 \in S
  <2>0. k \in Nat
    OBVIOUS
  <2>1. PICK f : IsLooks(f, opts, ws, k)
    BY <1>2
  <2> DEFINE g == [i \in 2..k + 1 |-> IF i <= k THEN f[i] ELSE LooksOn(f, opts, ws, i)]
  <2>2. ASSUME NEW i \in 2..k + 1 PROVE g[i] = LooksOn(f, opts, ws, i)
    <3>1. CASE i <= k
      <4>1. i \in 2..k
        BY <2>0, <2>2, <3>1
      <4>2. f[i] = LooksOn(f, opts, ws, i)
        BY <2>1, <4>1 DEF IsLooks
      <4>3. QED BY <3>1, <4>2
    <3>2. CASE ~(i <= k)
      BY <3>2
    <3>3. QED BY <3>1, <3>2
  <2>3. ASSUME NEW i \in 2..k + 1 PROVE LooksOn(f, opts, ws, i) = LooksOn(g, opts, ws, i)
    <3>1. i > 2 => g[i - 1] = f[i - 1]
      <4> SUFFICES ASSUME i > 2 PROVE g[i - 1] = f[i - 1]
        OBVIOUS
      <4>1. i - 1 \in 2..k + 1 /\ i - 1 <= k
        BY <2>0
      <4>2. QED BY <4>1
    <3>2. i > 2 + 1 => g[i - 2] = f[i - 2]
      <4> SUFFICES ASSUME i > 2 + 1 PROVE g[i - 2] = f[i - 2]
        OBVIOUS
      <4>1. i - 2 \in 2..k + 1 /\ i - 2 <= k
        BY <2>0
      <4>2. QED BY <4>1
    <3> HIDE DEF g
    <3>3. QED BY <3>1, <3>2 DEF LooksOn
  <2>4. g = [i \in 2..k + 1 |-> LooksOn(g, opts, ws, i)]
    BY <2>2, <2>3
  <2> HIDE DEF g
  <2>5. IsLooks(g, opts, ws, k + 1)
    BY <2>4 DEF IsLooks
  <2>6. k + 1 \in Nat
    BY <2>0
  <2>7. QED BY <2>5, <2>6
<1>3. S \in SUBSET Nat
  OBVIOUS
<1> HIDE DEF S
<1>4. S = Nat
  BY <1>1, <1>2, <1>3, EveryNumber
<1>5. QED BY <1>4 DEF S

\* L are the places the loop gets to.
Gets(L, opts, ws) ==
  /\ L \subseteq 2..Len(ws) + 2 /\ 2 \in L
  /\ \A i \in L : \/ i = 2
                  \/ i - 1 \in L /\ Takes(opts, ws, i - 1, "flag")
                  \/ i - 2 \in L /\ Takes(opts, ws, i - 2, "value")
  /\ \A i \in L : Takes(opts, ws, i, "flag") => i + 1 \in L
  /\ \A i \in L : Takes(opts, ws, i, "value") => i + 2 \in L

\* They are those for which the function says so.
LEMMA LooksGet ==
  ASSUME NEW opts, NEW ws, Given(opts, ws), NEW f, IsLooks(f, opts, ws, Len(ws) + 2)
  PROVE  Gets({i \in 2..Len(ws) + 2 : f[i]}, opts, ws)
<1>1. PICK len \in Nat : len = Len(ws) /\ len >= 1
  BY Places DEF Given
<1> DEFINE L == {i \in 2..len + 2 : f[i]}
<1>2. \A i \in 2..len + 2 : f[i] = LooksOn(f, opts, ws, i)
  BY <1>1 DEF IsLooks
<1>3. 2 \in L
  <2>1. 2 \in 2..len + 2
    BY <1>1
  <2>2. LooksOn(f, opts, ws, 2)
    BY DEF LooksOn
  <2>3. QED BY <1>2, <2>1, <2>2
<1>4. ASSUME NEW i \in L
      PROVE  \/ i = 2
             \/ i - 1 \in L /\ Takes(opts, ws, i - 1, "flag")
             \/ i - 2 \in L /\ Takes(opts, ws, i - 2, "value")
  <2>1. i \in 2..len + 2 /\ LooksOn(f, opts, ws, i)
    BY <1>2
  <2>2. i > 2 => i - 1 \in 2..len + 2
    BY <2>1
  <2>3. i > 2 + 1 => i - 2 \in 2..len + 2
    BY <2>1
  <2>4. QED BY <2>1, <2>2, <2>3 DEF LooksOn
<1>5. ASSUME NEW i \in L, Takes(opts, ws, i, "flag") PROVE i + 1 \in L
  <2>1. i \in 1..len /\ i \in 2..len + 2 /\ f[i]
    BY <1>1, <1>5, OptionIs DEF Takes
  <2>2. PICK j : j = i + 1
    OBVIOUS
  <2>3. j \in 2..len + 2 /\ j > 2 /\ j - 1 = i
    BY <2>1, <2>2
  <2>4. LooksOn(f, opts, ws, j)
    BY <1>5, <2>1, <2>3 DEF LooksOn
  <2>5. QED BY <1>2, <2>2, <2>3, <2>4
<1>6. ASSUME NEW i \in L, Takes(opts, ws, i, "value") PROVE i + 2 \in L
  <2>1. i \in 1..len /\ i \in 2..len + 2 /\ f[i]
    BY <1>1, <1>6, OptionIs DEF Takes
  <2>2. PICK j : j = i + 2
    OBVIOUS
  <2>3. j \in 2..len + 2 /\ j > 2 + 1 /\ j - 2 = i
    BY <2>1, <2>2
  <2>4. LooksOn(f, opts, ws, j)
    BY <1>6, <2>1, <2>3 DEF LooksOn
  <2>5. QED BY <1>2, <2>2, <2>3, <2>4
<1> HIDE DEF L
<1>7. L \subseteq 2..len + 2
  BY DEF L
<1>8. Gets(L, opts, ws)
  BY <1>1, <1>3, <1>4, <1>5, <1>6, <1>7 DEF Gets
<1>9. L = {i \in 2..Len(ws) + 2 : f[i]}
  BY <1>1 DEF L
<1>10. QED BY <1>8, <1>9

\* A set of numbers below a bound has a greatest one.
LEMMA Greatest ==
  ASSUME NEW m \in Nat, NEW S \in SUBSET (0..m), S # {}
  PROVE  \E g \in S : \A j \in S : j <= g
<1> DEFINE Full(k) == \A T \in SUBSET (0..k) : T # {} => \E g \in T : \A j \in T : j <= g
           P == {k \in Nat : Full(k)}
<1>1. 0 \in P
  <2> SUFFICES ASSUME NEW T \in SUBSET (0..0), T # {} PROVE \E g \in T : \A j \in T : j <= g
    OBVIOUS
  <2>1. \A j \in T : j = 0
    OBVIOUS
  <2>2. PICK g : g \in T
    OBVIOUS
  <2>3. \A j \in T : j <= g
    BY <2>1, <2>2
  <2>4. QED BY <2>2, <2>3
<1>2. ASSUME NEW k \in P PROVE k + 1 \in P
  <2>1. k \in Nat /\ Full(k)
    OBVIOUS
  <2>2. ASSUME NEW T \in SUBSET (0..k + 1), T # {} PROVE \E g \in T : \A j \in T : j <= g
    <3>1. CASE k + 1 \in T
      <4>1. \A j \in T : j <= k + 1
        BY <2>1
      <4>2. QED BY <3>1, <4>1
    <3>2. CASE k + 1 \notin T
      <4>1. T \in SUBSET (0..k)
        BY <2>1, <3>2
      <4>2. QED BY <2>1, <2>2, <4>1
    <3>3. QED BY <3>1, <3>2
  <2>3. Full(k + 1)
    BY <2>2
  <2> HIDE DEF Full
  <2>4. QED BY <2>1, <2>3
<1>3. P \in SUBSET Nat
  OBVIOUS
<1> HIDE DEF P
<1>4. P = Nat
  BY <1>1, <1>2, <1>3, EveryNumber
<1>5. QED BY <1>4 DEF P

\* Below a place the loop gets to, one it gets to is an option with its value, if it takes one,
\* before that place: the loop never takes for an option what is the value of another.
OptionBefore(opts, ws, i, j) ==
  \/ Takes(opts, ws, i, "flag") /\ i + 1 <= j
  \/ Takes(opts, ws, i, "value") /\ i + 2 <= j
Apart(L, opts, ws, j) == \A i \in L : i < j => OptionBefore(opts, ws, i, j)

\* So it is for each place.
LEMMA PlacesApart ==
  ASSUME NEW opts, NEW ws, Given(opts, ws), NEW L, Gets(L, opts, ws), NEW j \in L
  PROVE  Apart(L, opts, ws, j)
<1>0. PICK len \in Nat : len = Len(ws)
  BY Places DEF Given
<1>1. L \subseteq 2..len + 2
  BY <1>0 DEF Gets
<1> DEFINE S == {k \in Nat : \A i \in L : i <= k => Apart(L, opts, ws, i)}
<1>2. 0 \in S
  BY <1>1
<1>3. ASSUME NEW k \in S PROVE k + 1 \in S
  <2>1. k \in Nat /\ \A i \in L : i <= k => Apart(L, opts, ws, i)
    OBVIOUS
  <2>2. ASSUME NEW h \in L, h <= k + 1 PROVE Apart(L, opts, ws, h)
    <3>1. CASE h <= k
      BY <2>1, <3>1
    <3>2. CASE h = 2
      BY <1>1, <3>2 DEF Apart
    <3>3. CASE h = k + 1 /\ h # 2
      <4>1. h \in Nat /\ h \in 2..len + 2
        BY <1>1
      <4>2. PICK p \in L : \/ p = h - 1 /\ Takes(opts, ws, p, "flag")
                           \/ p = h - 2 /\ Takes(opts, ws, p, "value")
        BY <3>3 DEF Gets
      <4>3. p \in Nat /\ p <= k
        BY <1>1, <3>3, <4>1, <4>2
      <4>4. ASSUME NEW i \in L, i < h PROVE OptionBefore(opts, ws, i, h)
        <5>0. i \in Nat
          BY <1>1
        <5>1. CASE i = p
          BY <4>1, <4>2, <5>1 DEF OptionBefore
        <5>2. CASE i < p
          <6>1. OptionBefore(opts, ws, i, p)
            BY <2>1, <4>3, <5>2 DEF Apart
          <6>2. QED BY <4>1, <4>2, <4>3, <5>0, <6>1 DEF OptionBefore
        <5>3. CASE p < i
          <6>1. p = h - 2 /\ i = p + 1 /\ Takes(opts, ws, p, "value")
            BY <4>1, <4>2, <4>3, <4>4, <5>0, <5>3
          <6>2. i <= k
            BY <2>1, <3>3, <4>3, <6>1
          <6>3. OptionBefore(opts, ws, p, i)
            BY <2>1, <5>3, <6>2 DEF Apart
          <6>4. ~Takes(opts, ws, p, "flag")
            BY <6>1, TakingIs
          <6>5. QED BY <4>3, <5>0, <6>1, <6>3, <6>4 DEF OptionBefore
        <5>4. QED BY <4>3, <5>0, <5>1, <5>2, <5>3
      <4>5. QED BY <4>4 DEF Apart
    <3>4. QED BY <1>1, <2>1, <2>2, <3>1, <3>2, <3>3
  <2>3. k + 1 \in Nat
    BY <2>1
  <2>4. QED BY <2>2, <2>3
<1>4. S \in SUBSET Nat
  OBVIOUS
<1> HIDE DEF S
<1>5. S = Nat
  BY <1>2, <1>3, <1>4, EveryNumber
<1>6. j \in S /\ j <= j
  BY <1>1, <1>5
<1>7. QED BY <1>6 DEF S

\* The place where the loop stops: what it gets to, and is no option.
StopsAt(L, opts, ws, s) == s \in L /\ OptionAt(opts, ws, s) = Null

\* It stops somewhere.
LEMMA LoopStops ==
  ASSUME NEW opts, NEW ws, Given(opts, ws), NEW L, Gets(L, opts, ws)
  PROVE  \E s : StopsAt(L, opts, ws, s)
<1>0. PICK len \in Nat : len = Len(ws)
  BY Places DEF Given
<1>1. L \subseteq 2..len + 2 /\ 2 \in L
  BY <1>0 DEF Gets
<1>2. PICK m \in Nat : m = len + 2
  OBVIOUS
<1>3. L \in SUBSET (0..m) /\ L # {}
  BY <1>1, <1>2
<1>4. PICK g \in L : \A j \in L : j <= g
  BY <1>3, Greatest
<1>5. ASSUME OptionAt(opts, ws, g) # Null PROVE FALSE
  <2>1. Takes(opts, ws, g, "flag") \/ Takes(opts, ws, g, "value")
    BY <1>5, OptionIs
  <2>2. g + 1 \in L \/ g + 2 \in L
    BY <2>1 DEF Gets
  <2>3. g \in Nat
    BY <1>1
  <2>4. QED BY <1>4, <2>2, <2>3
<1>6. QED BY <1>5 DEF StopsAt

\* It gets no further, and everything before is an option, or the value behind one.
LEMMA LoopReads ==
  ASSUME NEW opts, NEW ws, Given(opts, ws), NEW L, Gets(L, opts, ws), NEW s,
         StopsAt(L, opts, ws, s)
  PROVE  /\ \A i \in L : i <= s
         /\ \A i \in L : i < s => OptionAt(opts, ws, i) # Null
         /\ \A i \in Nat : 2 <= i /\ i < s =>
              i \in L \/ (i - 1 \in L /\ Takes(opts, ws, i - 1, "value"))
<1>0. PICK len \in Nat : len = Len(ws)
  BY Places DEF Given
<1>1. L \subseteq 2..len + 2 /\ 2 \in L
  BY <1>0 DEF Gets
<1>2. s \in L /\ OptionAt(opts, ws, s) = Null /\ s \in Nat
  BY <1>1 DEF StopsAt
<1>3. \A i \in L : i <= s
  <2> SUFFICES ASSUME NEW i \in L, s < i PROVE FALSE
    BY <1>1, <1>2
  <2>1. OptionBefore(opts, ws, s, i)
    BY <1>2, PlacesApart DEF Apart
  <2>2. QED BY <1>2, <2>1 DEF OptionBefore, Takes
<1>4. \A i \in L : i < s => OptionBefore(opts, ws, i, s)
  BY <1>2, PlacesApart DEF Apart
<1>5. \A i \in L : i < s => OptionAt(opts, ws, i) # Null
  BY <1>4 DEF OptionBefore, Takes
<1>6. ASSUME NEW i \in Nat, 2 <= i, i < s
      PROVE  i \in L \/ (i - 1 \in L /\ Takes(opts, ws, i - 1, "value"))
  <2> DEFINE T == {j \in L : j <= i}
  <2>0. \A j \in L : j \in Nat
    BY <1>1
  <2>1. T \in SUBSET (0..i) /\ 2 \in T
    <3>1. \A j \in T : j \in 0..i
      BY <1>6, <2>0
    <3>2. 2 \in T
      BY <1>1, <1>6
    <3>3. QED BY <3>1, <3>2
  <2>2. PICK p \in T : \A j \in T : j <= p
    BY <2>1, Greatest
  <2>3. p \in L /\ p <= i /\ p \in Nat /\ \A j \in L : j <= i => j <= p
    BY <1>1, <2>2
  <2> HIDE DEF T
  <2>4. CASE p = i
    BY <2>3, <2>4
  <2>5. CASE p < i
    <3>1. p < s
      BY <1>2, <1>6, <2>3
    <3>2. Takes(opts, ws, p, "flag") \/ Takes(opts, ws, p, "value")
      BY <1>4, <2>3, <3>1 DEF OptionBefore
    <3>3. Takes(opts, ws, p, "flag") => p + 1 \in L
      BY <2>3 DEF Gets
    <3>4. Takes(opts, ws, p, "value") => p + 2 \in L
      BY <2>3 DEF Gets
    <3>5. ~(p + 1 \in L)
      BY <2>3, <2>5
    <3>6. Takes(opts, ws, p, "value") /\ p + 2 \in L
      BY <3>2, <3>3, <3>4, <3>5
    <3>7. ~(p + 2 <= i)
      BY <2>3, <3>6
    <3>8. p = i - 1
      BY <2>3, <2>5, <3>7
    <3>9. QED BY <2>3, <3>6, <3>8
  <2>6. QED BY <2>3, <2>4, <2>5
<1>7. QED BY <1>3, <1>5, <1>6

\* What the reader of the options returns, told by the places the loop gets to.
ReadAs(r, L, s, opts, ws) ==
  /\ r.i = s /\ r.known = (WordAt(ws, s) \notin DashWords)
  /\ DOMAIN r.vals = {o.name : o \in ToSet(opts)}
  /\ \A name \in DOMAIN r.vals : r.vals[name] # Null =>
       \E i \in L : /\ i < s /\ WordAt(ws, i) = name
                    /\ ~Takes(opts, ws, i, "flag") => r.vals[name] = WordAt(ws, i + 1)

\* So the words are read.
LEMMA OptionsRead ==
  ASSUME NEW opts, NEW ws, Given(opts, ws)
  PROVE  \E L, s : /\ Gets(L, opts, ws) /\ StopsAt(L, opts, ws, s)
                   /\ ReadAs(ReadOptions(opts, ws, 2), L, s, opts, ws)
<1>1. PICK len \in Nat : len = Len(ws)
  BY Places DEF Given
<1>2. PICK m \in Nat : m = len + 2
  OBVIOUS
<1>3. PICK g : IsLooks(g, opts, ws, m)
  BY LooksExist
<1> DEFINE Says(f, s, name) == {i \in 2..s - 1 : f[i] /\ WordAt(ws, i) = name}
           Latest(S) == CHOOSE i \in S : \A j \in S : j <= i
           Value(f, s, name) ==
             IF Says(f, s, name) = {} THEN Null
             ELSE IF Takes(opts, ws, Latest(Says(f, s, name)), "flag") THEN "true"
             ELSE WordAt(ws, Latest(Says(f, s, name)) + 1)
           Stopping(f) == CHOOSE i \in 2..Len(ws) + 2 : f[i] /\ OptionAt(opts, ws, i) = Null
           Result(f, s) ==
             [i |-> s, known |-> WordAt(ws, s) \notin DashWords,
              vals |-> [name \in {o.name : o \in ToSet(opts)} |-> Value(f, s, name)]]
<1>4. \E f : IsLooks(f, opts, ws, Len(ws) + 2) /\ ReadOptions(opts, ws, 2) = Result(f, Stopping(f))
  <2> DEFINE F == CHOOSE f : IsLooks(f, opts, ws, Len(ws) + 2)
  <2>1. IsLooks(g, opts, ws, Len(ws) + 2)
    BY <1>1, <1>2, <1>3
  <2>2. IsLooks(F, opts, ws, Len(ws) + 2)
    BY <2>1
  <2>3. ReadOptions(opts, ws, 2) = Result(F, Stopping(F))
    BY Zenon DEF ReadOptions, IsLooks, LooksOn
  <2>4. QED BY <2>2, <2>3
<1>5. PICK f : IsLooks(f, opts, ws, m) /\ ReadOptions(opts, ws, 2) = Result(f, Stopping(f))
  BY <1>1, <1>2, <1>4
<1>6. PICK L : L = {i \in 2..m : f[i]}
  OBVIOUS
<1>7. Gets(L, opts, ws)
  BY <1>1, <1>2, <1>5, <1>6, LooksGet
<1>8. PICK s : s = Stopping(f)
  OBVIOUS
<1>9. StopsAt(L, opts, ws, s)
  <2>1. PICK t : StopsAt(L, opts, ws, t)
    BY <1>7, LoopStops
  <2>2. t \in 2..m /\ f[t] /\ OptionAt(opts, ws, t) = Null
    BY <1>6, <2>1 DEF StopsAt
  <2>3. s \in 2..m /\ f[s] /\ OptionAt(opts, ws, s) = Null
    BY <1>1, <1>2, <1>8, <2>2
  <2>4. QED BY <1>6, <2>3 DEF StopsAt
<1>10. s \in 2..m
  BY <1>6, <1>9 DEF StopsAt
<1>11. ASSUME NEW name, Value(f, s, name) # Null
       PROVE  \E i \in L : /\ i < s /\ WordAt(ws, i) = name
                           /\ ~Takes(opts, ws, i, "flag") => Value(f, s, name) = WordAt(ws, i + 1)
  <2>1. PICK S : S = Says(f, s, name)
    OBVIOUS
  <2>2. S # {}
    BY <1>11, <2>1
  <2>3. S \in SUBSET (0..m)
    BY <1>10, <2>1
  <2>4. \E i \in S : \A j \in S : j <= i
    BY <2>2, <2>3, Greatest
  <2>5. PICK i : i = Latest(S)
    OBVIOUS
  <2>6. i \in S
    BY <2>4, <2>5
  <2>7. i \in 2..m /\ i < s /\ f[i] /\ WordAt(ws, i) = name
    BY <1>10, <2>1, <2>6
  <2>8. i \in L
    BY <1>6, <2>7
  <2>9. ~Takes(opts, ws, i, "flag") => Value(f, s, name) = WordAt(ws, i + 1)
    BY <2>1, <2>2, <2>5
  <2>10. QED BY <2>7, <2>8, <2>9
<1>12. PICK r : r = ReadOptions(opts, ws, 2)
  OBVIOUS
<1>13. r = Result(f, s)
  <2> HIDE DEF Result, Stopping
  <2>1. QED BY <1>5, <1>8, <1>12
<1> HIDE DEF Value
<1>14. /\ r.i = s /\ r.known = (WordAt(ws, s) \notin DashWords)
       /\ r.vals = [name \in {o.name : o \in ToSet(opts)} |-> Value(f, s, name)]
  BY <1>13
<1>15. ReadAs(r, L, s, opts, ws)
  BY <1>11, <1>14 DEF ReadAs
<1>16. QED BY <1>7, <1>9, <1>12, <1>15

\* What it means that words were read well: what r says of them is what they say.
ReadWell(ws, r) ==
  LET taking == {o.name : o \in {c \in ToSet(r.opts) : c.type = "value"}}
      spent  == {i \in 2..(Len(ws) - r.argc) : i <= Len(ws)}
  IN  /\ \/ r.argc = Len(r.argv)
         \/ r.argc = -1 /\ r.argv = <<>> /\ Last(ws) \in taking
      /\ r.argv # <<>> => Head(r.argv) \notin DashWords
      /\ \A i \in spent : ws[i] \in DOMAIN r.vals \/ ws[i - 1] \in taking
      /\ \A name \in DOMAIN r.vals : r.vals[name] # Null =>
           \E i \in spent : ws[i] = name /\ (name \in taking => r.vals[name] = ws[i + 1])

\* The names of an array, as sets.
LEMMA NamesAre ==
  ASSUME NEW opts, IsArray(opts), NEW name
  PROVE  /\ name \in {o.name : o \in ToSet(opts)} <=> IsName(opts, name)
         /\ name \in {o.name : o \in {c \in ToSet(opts) : c.type = "value"}} <=> IsTaking(opts, name)
<1>1. DOMAIN opts = 1..Len(opts)
  BY DEF IsArray, Orderly
<1>2. ToSet(opts) = {opts[k] : k \in 1..Len(opts)}
  BY <1>1 DEF ToSet
<1>3. QED BY <1>2 DEF IsName, IsTaking

\* What is left of the words where the loop stops.
LEMMA RestIs ==
  ASSUME NEW opts, NEW ws, Given(opts, ws), NEW L, Gets(L, opts, ws), NEW s,
         StopsAt(L, opts, ws, s)
  PROVE  LET rest == RestOf(ws, s)
         IN  /\ \/ rest.argc = Len(rest.argv)
                \/ rest.argc = -1 /\ rest.argv = <<>> /\ IsTaking(opts, Last(ws))
             /\ rest.argv # <<>> => Head(rest.argv) = WordAt(ws, s)
             /\ Len(ws) - rest.argc = s - 1
<1>1. PICK len \in Nat : len = Len(ws) /\ len >= 1
  BY Places DEF Given
<1>2. s \in 2..len + 2
  BY <1>1 DEF Gets, StopsAt
<1>3. \E T : ws \in Seq(T)
  BY DEF Given, AreWords
<1>4. PICK T : ws \in Seq(T)
  BY <1>3
<1>5. RestOf(ws, s) = [argc |-> len - s + 1, argv |-> SubSeq(ws, s, len)]
  BY <1>1 DEF RestOf
<1>6. PICK v : v = SubSeq(ws, s, len)
  OBVIOUS
<1>7. CASE s <= len
  <2>1. v \in Seq(T) /\ Len(v) = len - s + 1 /\ v[1] = ws[s]
    BY <1>1, <1>2, <1>4, <1>6, <1>7
  <2>2. Head(v) = ws[s]
    BY <2>1
  <2>3. WordAt(ws, s) = ws[s]
    BY <1>1, <1>2, <1>7, Places DEF Given
  <2>4. QED BY <1>1, <1>2, <1>5, <1>6, <2>1, <2>2, <2>3
<1>8. CASE s > len
  <2>1. v = <<>>
    BY <1>1, <1>2, <1>4, <1>6, <1>8
  <2>2. CASE s = len + 1
    BY <1>1, <1>5, <1>6, <2>1, <2>2
  <2>3. CASE s = len + 2
    <3>1. s # 2 /\ s \in L
      BY <1>1, <2>3 DEF StopsAt
    <3>2. \/ s - 1 \in L /\ Takes(opts, ws, s - 1, "flag")
          \/ s - 2 \in L /\ Takes(opts, ws, s - 2, "value")
      BY <3>1 DEF Gets
    <3>3. ~Takes(opts, ws, s - 1, "flag")
      <4>1. s - 1 \notin 1..Len(ws)
        BY <1>1, <2>3
      <4>2. QED BY <4>1, OptionIs DEF Takes
    <3>4. Takes(opts, ws, len, "value")
      BY <1>1, <2>3, <3>2, <3>3
    <3>5. IsTaking(opts, ws[len])
      BY <3>4, TakingIs
    <3>6. Last(ws) = ws[len]
      BY <1>1 DEF Last
    <3>7. QED BY <1>1, <1>5, <1>6, <2>1, <2>3, <3>5, <3>6
  <2>4. QED BY <1>2, <1>8, <2>2, <2>3
<1>9. QED BY <1>1, <1>2, <1>7, <1>8

\* Words that the reader accepts are read well.
LEMMA ReadsWell ==
  ASSUME NEW opts, NEW ws, Given(opts, ws), NEW q, q = ReadOptions(opts, ws, 2), q.known,
         NEW r, r.opts = opts, r.vals = q.vals, r.argc = RestOf(ws, q.i).argc,
         r.argv = RestOf(ws, q.i).argv
  PROVE  ReadWell(ws, r)
<1>1. PICK L, s : Gets(L, opts, ws) /\ StopsAt(L, opts, ws, s) /\ ReadAs(q, L, s, opts, ws)
  BY OptionsRead
<1>2. PICK len \in Nat : len = Len(ws) /\ len >= 1
  BY Places DEF Given
<1>3. s \in 2..len + 2 /\ L \subseteq 2..len + 2 /\ q.i = s /\ WordAt(ws, s) \notin DashWords
  BY <1>1, <1>2 DEF Gets, StopsAt, ReadAs
<1>4. PICK taking : taking = {o.name : o \in {c \in ToSet(opts) : c.type = "value"}}
  OBVIOUS
<1>5. \A name : name \in taking <=> IsTaking(opts, name)
  BY <1>4, NamesAre DEF Given
<1>6. DOMAIN r.vals = {o.name : o \in ToSet(opts)}
  BY <1>1 DEF ReadAs
<1>7. \A name : name \in DOMAIN r.vals <=> IsName(opts, name)
  BY <1>6, NamesAre DEF Given
<1>8. PICK rest : rest = RestOf(ws, s)
  OBVIOUS
<1>9. /\ \/ rest.argc = Len(rest.argv)
         \/ rest.argc = -1 /\ rest.argv = <<>> /\ IsTaking(opts, Last(ws))
      /\ rest.argv # <<>> => Head(rest.argv) = WordAt(ws, s)
      /\ len - rest.argc = s - 1
  BY <1>1, <1>2, <1>8, RestIs
<1>10. r.argc = rest.argc /\ r.argv = rest.argv
  BY <1>3, <1>8
<1>11. PICK spent : spent = {i \in 2..s - 1 : i <= len}
  OBVIOUS
<1>12. ASSUME NEW i \in spent PROVE ws[i] \in DOMAIN r.vals \/ ws[i - 1] \in taking
  <2>1. i \in Nat /\ 2 <= i /\ i < s
    BY <1>3, <1>11
  <2>2. CASE i \in L
    <3>1. OptionAt(opts, ws, i) # Null
      BY <1>1, <2>1, <2>2, LoopReads
    <3>2. QED BY <1>7, <3>1, OptionIs
  <2>3. CASE i - 1 \in L /\ Takes(opts, ws, i - 1, "value")
    BY <1>5, <2>3, TakingIs
  <2>4. QED BY <1>1, <2>1, <2>2, <2>3, LoopReads
<1>13. ASSUME NEW name \in DOMAIN r.vals, r.vals[name] # Null
       PROVE  \E i \in spent : ws[i] = name /\ (name \in taking => r.vals[name] = ws[i + 1])
  <2>1. PICK i \in L : /\ i < s /\ WordAt(ws, i) = name
                       /\ ~Takes(opts, ws, i, "flag") => r.vals[name] = WordAt(ws, i + 1)
    BY <1>1, <1>13 DEF ReadAs
  <2>2. OptionAt(opts, ws, i) # Null
    BY <1>1, <2>1, LoopReads
  <2>3. i \in 1..len /\ i \in 2..len + 2
    BY <1>2, <1>3, <2>2, OptionIs
  <2>4. ws[i] = name
    BY <1>2, <2>1, <2>3, Places DEF Given
  <2>5. i \in spent
    BY <1>3, <1>11, <2>1, <2>3
  <2>6. ASSUME name \in taking PROVE r.vals[name] = ws[i + 1]
    <3>1. Takes(opts, ws, i, "value")
      BY <1>5, <2>2, <2>4, <2>6, TakingIs
    <3>2. r.vals[name] = WordAt(ws, i + 1)
      BY <2>1, <3>1, TakingIs
    <3>3. WordAt(ws, i + 1) # Null
      BY <1>13, <3>2
    <3>4. WordAt(ws, i + 1) = ws[i + 1]
      BY <3>3 DEF WordAt
    <3>5. QED BY <3>2, <3>4
  <2>7. QED BY <2>4, <2>5, <2>6
<1>14. spent = {i \in 2..(Len(ws) - r.argc) : i <= Len(ws)}
  BY <1>2, <1>9, <1>10, <1>11
<1>15. \/ r.argc = Len(r.argv)
       \/ r.argc = -1 /\ r.argv = <<>> /\ Last(ws) \in taking
  BY <1>5, <1>9, <1>10
<1>16. r.argv # <<>> => Head(r.argv) \notin DashWords
  BY <1>3, <1>9, <1>10
<1>17. QED BY <1>4, <1>12, <1>13, <1>14, <1>15, <1>16 DEF ReadWell

\* When a command runs, it is one of the table, has the options of its row, and its words
\* were read well (uclop.c:151-214).
LEMMA RunReads ==
  ASSUME NEW ws, ws \in Seq(ToSet(ws) \ {Null}), NEW r, r = uclop__run(ws),
         r.outcome = "run"
  PROVE  /\ \E k \in 1..36 : r.cmd = NameOf(k) /\ r.opts = OptsOf(k)
         /\ ReadWell(ws, r)
<1> DEFINE named == ws # <<>> /\ ws[1] \notin DashWords
           cmd == IF named THEN ws[1] ELSE "default"
           q == ReadOptions(OptionTable[cmd], ws, IF named THEN 2 ELSE 1)
           rest == RestOf(ws, q.i)
<1>1. cmd \in CommandNames
  BY DEF uclop__run
<1>2. PICK outcome : r = [outcome |-> outcome, cmd |-> cmd, opts |-> OptionTable[cmd],
                          vals |-> q.vals, argc |-> rest.argc, argv |-> rest.argv]
  BY <1>1 DEF uclop__run
<1>3. q.known /\ cmd # "default"
  BY <1>1 DEF uclop__run
<1>4. named
  BY <1>3
<1>5. PICK k \in 1..36 : NameOf(k) = cmd
  BY <1>1, RowsOfTable DEF CommandNames, NameOf
<1>6. OptionTable[cmd] = OptsOf(k)
  BY <1>5, TableHolds
<1>7. PICK opts : opts = OptsOf(k)
  OBVIOUS
<1>8. Given(opts, ws)
  BY <1>4, <1>7, RowFacts DEF Given, AreWords
<1>9. q = ReadOptions(opts, ws, 2)
  BY <1>4, <1>6, <1>7
<1>10. /\ r.cmd = NameOf(k) /\ r.opts = opts /\ r.vals = q.vals /\ r.argc = rest.argc
       /\ r.argv = rest.argv
  BY <1>2, <1>5, <1>6, <1>7
<1> HIDE DEF q
<1>11. ReadWell(ws, r)
  BY <1>3, <1>8, <1>9, <1>10, ReadsWell
<1>12. QED BY <1>7, <1>10, <1>11

-----------------------------------------------------------------------------
(* Steps and rows.                                                          *)

Up   == [op |-> "up"]
Down == [op |-> "down"]
Misses == {"report", "go", "return", "crash", "exit0", "exit1"}

\* What a callback does outside a session, between opening and closing one, and
\* the steps of list and detectloop.
PlainSteps ==
  {Sample, Fetch, Serve, Listen("return"), Listen("go"), Exit("exit0"), Exit("exit1"), Path,
   Check("exit0"), Check("exit1"), Use("null"), Use("any")}
    \cup {Arg(k) : k \in Int} \cup {Need(k) : k \in Int}
    \cup {Ask(miss) : miss \in Misses} \cup {Found(name) : name \in {"-bi", "-appname"}}
InnerSteps == {Start("report"), Start("go"), House, Serve, Tell, Use("any"), Ask("crash")}
Steps == PlainSteps \cup InnerSteps \cup {Up, Down, Filter, Show, Return}
           \cup {NoWords(to) : to \in Nat}

\* Steps that never go on to a next one.
Final == {"exit", "return", "listen", "serve"}

\* Row s has its session from step u to step v, and looks for -id only first.
Bracket(s, u, v) ==
  /\ s \in Seq(Steps) /\ u < v /\ u \in DOMAIN s /\ v \in DOMAIN s
  /\ s[u] = Up /\ s[v] = Down
  /\ \A k \in DOMAIN s : k < u \/ v < k => s[k] \in PlainSteps \/ (k = 1 /\ s[k] = Filter)
  /\ \A k \in DOMAIN s : u < k /\ k < v => s[k] \in InnerSteps
Session(s) == \E u, v \in Nat : Bracket(s, u, v)

\* Steps before a session.
Lead(p) ==
  /\ p \in Seq(PlainSteps \cup {Filter})
  /\ \A k \in DOMAIN p : k > 1 => p[k] \in PlainSteps

\* The operations of the steps, none of which is another's.
LEMMA StepKinds ==
  /\ \A x \in PlainSteps : x.op \in {"sample", "fetch", "serve", "listen", "exit", "arg",
                                     "need", "ask", "found", "check", "use"}
  /\ \A x \in InnerSteps : /\ x.op \in {"start", "house", "serve", "tell", "use", "ask"}
                           /\ x.op = "ask" => x.miss = "crash"
  /\ Up.op = "up" /\ Down.op = "down" /\ Filter.op = "filter" /\ Show.op = "show"
  /\ Return.op = "return"
  /\ \A x \in Steps : /\ x.op = "ask" => x.miss \in Misses
                      /\ x.op = "start" => x.miss \in {"report", "go"}
                      /\ x.op = "check" => x.miss \in {"exit0", "exit1", "crash"}
                      /\ x.op = "listen" => x.miss \in {"return", "go"}
                      /\ x.op = "exit" => x.c \in {"exit0", "exit1"}
                      /\ x.op = "up" => x = Up
                      /\ x.op = "down" => x = Down
<1>1. /\ \A x \in PlainSteps : x.op \in {"sample", "fetch", "serve", "listen", "exit", "arg",
                                         "need", "ask", "found", "check", "use"}
  BY DEF PlainSteps, Sample, Fetch, Serve, Listen, Exit, Arg, Need, Ask, Found, Path, Check, Use
<1>2. \A x \in InnerSteps : /\ x.op \in {"start", "house", "serve", "tell", "use", "ask"}
                            /\ x.op = "ask" => x.miss = "crash"
                            /\ x.op = "start" => x.miss \in {"report", "go"}
  BY DEF InnerSteps, Start, House, Serve, Tell, Use, Ask
<1>3. /\ Up.op = "up" /\ Down.op = "down" /\ Filter.op = "filter" /\ Show.op = "show"
      /\ Return.op = "return"
  BY DEF Up, Down, Filter, Show, Return
<1>4. \A x \in PlainSteps : /\ x.op = "ask" => x.miss \in Misses
                            /\ x.op = "check" => x.miss \in {"exit0", "exit1", "crash"}
                            /\ x.op = "listen" => x.miss \in {"return", "go"}
                            /\ x.op = "exit" => x.c \in {"exit0", "exit1"}
  BY DEF PlainSteps, Sample, Fetch, Serve, Listen, Exit, Arg, Need, Ask, Found, Path, Check, Use
<1>5. \A to \in Nat : NoWords(to).op = "noWords"
  BY DEF NoWords
<1>6. "crash" \in Misses
  BY DEF Misses
<1>7. QED BY <1>1, <1>2, <1>3, <1>4, <1>5, <1>6 DEF Steps

\* Two rows in a row.
LEMMA Joined ==
  ASSUME NEW S, NEW s \in Seq(S), NEW t \in Seq(S)
  PROVE  /\ s \o t \in Seq(S) /\ Len(s \o t) = Len(s) + Len(t)
         /\ DOMAIN s = 1 .. Len(s) /\ DOMAIN t = 1 .. Len(t)
         /\ DOMAIN (s \o t) = 1 .. Len(s) + Len(t) /\ Len(s) \in Nat /\ Len(t) \in Nat
         /\ \A i \in 1 .. Len(s) : (s \o t)[i] = s[i]
         /\ \A i \in 1 .. Len(t) : (s \o t)[Len(s) + i] = t[i]
         /\ \A i \in Len(s) + 1 .. Len(s) + Len(t) : (s \o t)[i] = t[i - Len(s)]
BY ConcatProperties, LenProperties

\* What comes before a session keeps it whole.
LEMMA Before ==
  ASSUME NEW p, Lead(p), p # <<>>, NEW s, Session(s), s[1].op = "up"
  PROVE  Session(p \o s) /\ (p \o s)[1] = p[1]
<1>1. PICK u \in Nat, v \in Nat : Bracket(s, u, v)
  BY DEF Session
<1>2. p \in Seq(Steps) /\ s \in Seq(Steps)
  BY <1>1, SeqMonotonic DEF Bracket, Lead, Steps
<1>3. /\ p \o s \in Seq(Steps) /\ DOMAIN (p \o s) = 1 .. Len(p) + Len(s)
      /\ DOMAIN p = 1 .. Len(p) /\ DOMAIN s = 1 .. Len(s) /\ Len(p) \in Nat /\ Len(s) \in Nat
      /\ \A i \in 1 .. Len(p) : (p \o s)[i] = p[i]
      /\ \A i \in 1 .. Len(s) : (p \o s)[Len(p) + i] = s[i]
      /\ \A i \in Len(p) + 1 .. Len(p) + Len(s) : (p \o s)[i] = s[i - Len(p)]
  BY <1>2, Joined
<1>4. Len(p) >= 1
  BY <1>2, <1>3, EmptySeq
<1>5. u = 1
  <2>1. s[1].op # "filter" /\ \A x \in PlainSteps : x.op # "up"
    BY StepKinds
  <2>2. u \in 1 .. Len(s) /\ (1 < u => s[1] \in PlainSteps \/ s[1] = Filter)
    BY <1>1, <1>3 DEF Bracket
  <2>3. QED BY <2>1, <2>2, StepKinds
<1>6. Bracket(p \o s, Len(p) + 1, Len(p) + v)
  <2>1. /\ Len(p) + 1 < Len(p) + v /\ v \in 1 .. Len(s) /\ s[1] = Up /\ s[v] = Down
        /\ \A k \in 1 .. Len(s) : v < k => s[k] \in PlainSteps \/ (k = 1 /\ s[k] = Filter)
        /\ \A k \in 1 .. Len(s) : 1 < k /\ k < v => s[k] \in InnerSteps
    <3>1. Bracket(s, 1, v)
      BY <1>1, <1>5
    <3>2. 1 < v /\ v \in 1 .. Len(s) /\ s[1] = Up /\ s[v] = Down
      BY <1>3, <3>1 DEF Bracket
    <3>3. \A k \in 1 .. Len(s) : 1 < k /\ k < v => s[k] \in InnerSteps
      BY <1>3, <3>1 DEF Bracket
    <3>4. \A k \in 1 .. Len(s) : v < k => s[k] \in PlainSteps \/ (k = 1 /\ s[k] = Filter)
      BY <1>3, <3>1 DEF Bracket
    <3>5. QED BY <1>3, <3>2, <3>3, <3>4
  <2>2. (p \o s)[Len(p) + 1] = Up /\ (p \o s)[Len(p) + v] = Down
    BY <1>3, <2>1
  <2>3. \A k \in 1 .. Len(p) + Len(s) :
          k < Len(p) + 1 => (p \o s)[k] \in PlainSteps \/ (k = 1 /\ (p \o s)[k] = Filter)
    BY <1>3, ElementOfSeq DEF Lead
  <2>4. \A k \in 1 .. Len(p) + Len(s) : Len(p) + v < k => (p \o s)[k] \in PlainSteps
    <3> SUFFICES ASSUME NEW k \in 1 .. Len(p) + Len(s), Len(p) + v < k
                 PROVE  (p \o s)[k] \in PlainSteps
      OBVIOUS
    <3>1. k - Len(p) \in 1 .. Len(s) /\ v < k - Len(p) /\ k - Len(p) # 1
      BY <1>3, <2>1
    <3>2. QED BY <1>3, <2>1, <3>1
  <2>5. \A k \in 1 .. Len(p) + Len(s) :
          Len(p) + 1 < k /\ k < Len(p) + v => (p \o s)[k] \in InnerSteps
    <3> SUFFICES ASSUME NEW k \in 1 .. Len(p) + Len(s), Len(p) + 1 < k, k < Len(p) + v
                 PROVE  (p \o s)[k] \in InnerSteps
      OBVIOUS
    <3>1. k - Len(p) \in 1 .. Len(s) /\ 1 < k - Len(p) /\ k - Len(p) < v
      BY <1>3, <2>1
    <3>2. QED BY <1>3, <2>1, <3>1
  <2>6. QED BY <1>3, <2>1, <2>2, <2>3, <2>4, <2>5 DEF Bracket
<1>7. QED BY <1>3, <1>4, <1>6 DEF Session

\* So does what comes after it.
LEMMA Behind ==
  ASSUME NEW s, Session(s), NEW t \in Seq(PlainSteps), t # <<>>
  PROVE  /\ Session(s \o t) /\ (s \o t)[1] = s[1]
         /\ (s \o t)[Len(s \o t)] = t[Len(t)]
<1>1. PICK u \in Nat, v \in Nat : Bracket(s, u, v)
  BY DEF Session
<1>2. s \in Seq(Steps) /\ t \in Seq(Steps)
  BY <1>1, SeqMonotonic DEF Bracket, Steps
<1>3. /\ s \o t \in Seq(Steps) /\ DOMAIN (s \o t) = 1 .. Len(s) + Len(t)
      /\ Len(s \o t) = Len(s) + Len(t)
      /\ DOMAIN s = 1 .. Len(s) /\ DOMAIN t = 1 .. Len(t) /\ Len(s) \in Nat /\ Len(t) \in Nat
      /\ \A i \in 1 .. Len(s) : (s \o t)[i] = s[i]
      /\ \A i \in 1 .. Len(t) : (s \o t)[Len(s) + i] = t[i]
      /\ \A i \in Len(s) + 1 .. Len(s) + Len(t) : (s \o t)[i] = t[i - Len(s)]
  BY <1>2, Joined
<1>4. Len(t) >= 1
  BY <1>2, <1>3, EmptySeq
<1>5. u \in 1 .. Len(s) /\ v \in 1 .. Len(s)
  BY <1>1, <1>3 DEF Bracket
<1>6. \A k \in Len(s) + 1 .. Len(s) + Len(t) : (s \o t)[k] \in PlainSteps
  <2> SUFFICES ASSUME NEW k \in Len(s) + 1 .. Len(s) + Len(t)
               PROVE  (s \o t)[k] \in PlainSteps
    OBVIOUS
  <2>1. k - Len(s) \in 1 .. Len(t)
    BY <1>3
  <2>2. t[k - Len(s)] \in PlainSteps
    BY <2>1, ElementOfSeq
  <2>3. QED BY <1>3, <2>2
<1>7. Bracket(s \o t, u, v)
  <2>1. \A k \in 1 .. Len(s) + Len(t) :
          k < u \/ v < k => (s \o t)[k] \in PlainSteps \/ (k = 1 /\ (s \o t)[k] = Filter)
    BY <1>1, <1>3, <1>5, <1>6, SMTT(30) DEF Bracket
  <2>2. \A k \in 1 .. Len(s) + Len(t) : u < k /\ k < v => (s \o t)[k] \in InnerSteps
    BY <1>1, <1>3, <1>5 DEF Bracket
  <2>3. QED BY <1>1, <1>3, <1>5, <2>1, <2>2 DEF Bracket
<1>8. QED BY <1>3, <1>4, <1>5, <1>7 DEF Session

\* A session is opened, something is asked, and it is closed.
LEMMA Between ==
  ASSUME NEW m \in Seq(InnerSteps)
  PROVE  /\ Session(devUp \o m \o devDown)
         /\ (devUp \o m \o devDown)[1] = Up
<1> DEFINE s == devUp \o m
           r == s \o devDown
<1>1. /\ devUp \in Seq(Steps) /\ Len(devUp) = 1 /\ devUp[1] = Up
      /\ devDown \in Seq(Steps) /\ Len(devDown) = 1 /\ devDown[1] = Down
  <2>1. devUp = <<Up>> /\ devDown = <<Down>>
    BY DEF devUp, devDown, Up, Down
  <2>2. Up \in Steps /\ Down \in Steps
    BY DEF Steps
  <2>3. QED BY <2>1, <2>2
<1>2. m \in Seq(Steps)
  BY SeqMonotonic DEF Steps
<1>3. /\ s \in Seq(Steps) /\ Len(s) = 1 + Len(m) /\ Len(m) \in Nat /\ s[1] = Up
      /\ \A i \in 2 .. Len(m) + 1 : s[i] = m[i - 1]
  BY <1>1, <1>2, Joined, SMTT(30)
<1>4. /\ r \in Seq(Steps) /\ DOMAIN r = 1 .. Len(m) + 2
      /\ \A i \in 1 .. Len(m) + 1 : r[i] = s[i]
      /\ r[Len(m) + 2] = Down
  <2>1. /\ r \in Seq(Steps) /\ DOMAIN r = 1 .. Len(s) + Len(devDown)
        /\ \A i \in 1 .. Len(s) : r[i] = s[i]
        /\ r[Len(s) + 1] = devDown[1]
    BY <1>1, <1>3, Joined
  <2>2. QED BY <1>1, <1>3, <2>1
<1>5. \A i \in 2 .. Len(m) + 1 : r[i] \in InnerSteps
  <2> SUFFICES ASSUME NEW i \in 2 .. Len(m) + 1 PROVE r[i] \in InnerSteps
    OBVIOUS
  <2>1. i - 1 \in 1 .. Len(m)
    BY <1>3
  <2>2. m[i - 1] \in InnerSteps
    BY <2>1, ElementOfSeq
  <2>3. QED BY <1>3, <1>4, <2>2
<1>6. Bracket(r, 1, Len(m) + 2)
  <2>1. r[1] = Up
    BY <1>3, <1>4
  <2>2. QED BY <1>3, <1>4, <1>5, <2>1 DEF Bracket
<1>7. QED BY <1>3, <1>4, <1>6 DEF Session

\* The steps the rows are made of.
LEMMA Made ==
  /\ Start("report") \in InnerSteps /\ Start("go") \in InnerSteps /\ House \in InnerSteps
  /\ Tell \in InnerSteps /\ Use("any") \in InnerSteps /\ Ask("crash") \in InnerSteps
  /\ Ask("report") \in PlainSteps /\ Path \in PlainSteps
  /\ Check("exit0") \in PlainSteps /\ Check("exit1") \in PlainSteps
  /\ Use("null") \in PlainSteps /\ Use("any") \in PlainSteps
  /\ Ask("go") \in PlainSteps /\ Ask("crash") \in PlainSteps /\ Ask("return") \in PlainSteps
  /\ Ask("exit0") \in PlainSteps
  /\ Sample \in PlainSteps /\ Fetch \in PlainSteps /\ Serve \in PlainSteps
  /\ Listen("return") \in PlainSteps /\ Listen("go") \in PlainSteps
  /\ Exit("exit0") \in PlainSteps /\ Exit("exit1") \in PlainSteps
  /\ Arg(-1) \in PlainSteps /\ Arg(0) \in PlainSteps /\ Arg(1) \in PlainSteps
  /\ Arg(2) \in PlainSteps /\ Need(1) \in PlainSteps
  /\ Found("-bi") \in PlainSteps /\ Found("-appname") \in PlainSteps
<1>1. {"report", "go", "crash", "return", "exit0", "exit1"} \subseteq Misses
  BY DEF Misses
<1>2. -1 \in Int /\ 0 \in Int /\ 1 \in Int /\ 2 \in Int
  OBVIOUS
<1>3. \A miss \in Misses : Ask(miss) \in PlainSteps
  BY DEF PlainSteps
<1>4. \A k \in Int : Arg(k) \in PlainSteps /\ Need(k) \in PlainSteps
  BY DEF PlainSteps
<1>5. Found("-bi") \in PlainSteps /\ Found("-appname") \in PlainSteps
  BY DEF PlainSteps
<1>6. QED BY <1>1, <1>2, <1>3, <1>4, <1>5 DEF PlainSteps, InnerSteps

\* How the listening ones, the serving one and the exits end.
LEMMA Ends ==
  /\ Exit("exit0").op \in Final /\ Exit("exit1").op \in Final /\ Serve.op \in Final
  /\ Listen("return").op \in Final /\ Listen("go").op \in Final
BY DEF Exit, Serve, Listen, Final

\* The rows of the services.
LEMMA Services ==
  /\ Session(activateService) /\ activateService[1] = Up
  /\ Session(service__new) /\ service__new[1] = Up
  /\ Session(service__new_instruments) /\ service__new_instruments[1] = Up
  /\ Session(initScreenshotService) /\ initScreenshotService[1] = Up
  /\ Session(channel__new_processcontrol) /\ channel__new_processcontrol[1] = Up
  /\ Session(deviceinfo) /\ deviceinfo[1] = Filter
<1>1. <<Start("report")>> \in Seq(InnerSteps)
  BY Made
<1>2. /\ Session(activateService) /\ activateService[1] = Up
      /\ Session(service__new) /\ service__new[1] = Up
  BY <1>1, Between DEF activateService, service__new
<1>3. /\ <<Ask("go")>> \in Seq(PlainSteps) /\ <<Ask("go")>> # <<>>
      /\ <<Ask("crash")>> \in Seq(PlainSteps) /\ <<Ask("crash")>> # <<>>
      /\ <<Ask("report"), Ask("report"), Ask("report")>> \in Seq(PlainSteps)
      /\ <<Ask("report"), Ask("report"), Ask("report")>> # <<>>
  BY Made
<1>4. Session(service__new_instruments) /\ service__new_instruments[1] = Up
  BY <1>2, <1>3, Behind DEF service__new_instruments
<1>5. Session(initScreenshotService) /\ initScreenshotService[1] = Up
  BY <1>2, <1>3, Behind DEF initScreenshotService
<1>6. Session(channel__new_processcontrol) /\ channel__new_processcontrol[1] = Up
  BY <1>3, <1>4, Behind DEF channel__new_processcontrol
<1>7. Lead(<<Filter>>) /\ <<Filter>> # <<>> /\ <<Filter>>[1] = Filter
  BY DEF Lead
<1>8. Session(<<Filter>> \o service__new_instruments)
      /\ (<<Filter>> \o service__new_instruments)[1] = Filter
  BY <1>4, <1>7, Before, StepKinds
<1>9. Session(deviceinfo) /\ deviceinfo[1] = Filter
  BY <1>3, <1>8, Behind DEF deviceinfo
<1>10. QED BY <1>2, <1>4, <1>5, <1>6, <1>9

\* A row that ends, and one that looks for -id first.
Row(s) == Session(s) /\ s[Len(s)].op \in Final
FilteredRow(s) == Row(s) /\ s[1] = Filter

\* A row is made by what comes after a session.
LEMMA Ending ==
  ASSUME NEW s, Session(s), NEW t \in Seq(PlainSteps), t # <<>>, t[Len(t)].op \in Final
  PROVE  Row(s \o t) /\ (s \o t)[1] = s[1]
BY Behind DEF Row

\* The words are looked at between the look for -id and the session.
LEMMA AfterFilter ==
  ASSUME NEW p, Lead(p), p # <<>>, p[1] = Filter, NEW s, Session(s), s[1] = Up
  PROVE  Session(p \o s) /\ (p \o s)[1] = Filter
BY Before, StepKinds

\* What comes before the sessions.
LEMMA Leads ==
  /\ Lead(<<Filter>>) /\ <<Filter>> # <<>> /\ <<Filter>>[1] = Filter
  /\ Lead(<<Filter, Arg(0)>>) /\ <<Filter, Arg(0)>> # <<>> /\ <<Filter, Arg(0)>>[1] = Filter
  /\ Lead(<<Filter, Arg(-1)>>) /\ <<Filter, Arg(-1)>> # <<>> /\ <<Filter, Arg(-1)>>[1] = Filter
  /\ Lead(<<Filter, Arg(1), Arg(2), Arg(0)>>) /\ <<Filter, Arg(1), Arg(2), Arg(0)>> # <<>>
  /\ <<Filter, Arg(1), Arg(2), Arg(0)>>[1] = Filter
  /\ Lead(<<Need(1)>>) /\ <<Need(1)>> # <<>> /\ Lead(<<Path>>) /\ <<Path>> # <<>>
BY Made DEF Lead

\* A step and then a session, however the steps are put together.
LEMMA StepBefore ==
  ASSUME NEW x \in Steps, NEW m \in Seq(InnerSteps)
  PROVE  <<x>> \o devUp \o m \o devDown = <<x>> \o (devUp \o m \o devDown)
<1>1. <<x>> \in Seq(Steps) /\ devUp \in Seq(Steps) /\ devDown \in Seq(Steps)
  BY DEF Steps, devUp, devDown, Up, Down
<1>2. m \in Seq(Steps)
  BY SeqMonotonic DEF Steps
<1>3. devUp \o m \in Seq(Steps)
  BY <1>1, <1>2, ConcatProperties
<1>4. <<x>> \o devUp \o m = <<x>> \o (devUp \o m)
  BY <1>1, <1>2, ConcatAssociative
<1>5. <<x>> \o (devUp \o m) \o devDown = <<x>> \o (devUp \o m \o devDown)
  BY <1>1, <1>3, ConcatAssociative, SMTT(30)
<1>6. QED BY <1>4, <1>5

\* The rows on a device information service.
LEMMA DeviceInfoRows ==
  /\ FilteredRow(runSysInfo) /\ FilteredRow(runSmProcList) /\ FilteredRow(runSmSysList)
  /\ FilteredRow(runSmCoalList) /\ FilteredRow(runMachTimeInfo) /\ FilteredRow(runLs)
  /\ FilteredRow(runPs) /\ FilteredRow(runNotices) /\ FilteredRow(runSysmon)
<1> DEFINE Tails == {<<Ask("crash"), Exit("exit0")>>, <<Arg(0), Ask("crash"), Exit("exit0")>>,
                     <<Ask("exit0"), Found("-appname"), Exit("exit0")>>,
                     <<Ask("return"), Listen("return")>>,
                     <<Ask("return"), Ask("return"), Sample, Ask("return"), Exit("exit0")>>}
<1>1. \A t \in Tails : t \in Seq(PlainSteps) /\ t # <<>> /\ t[Len(t)].op \in Final
  <2> SUFFICES ASSUME NEW t \in Tails
               PROVE  t \in Seq(PlainSteps) /\ t # <<>> /\ t[Len(t)].op \in Final
    OBVIOUS
  <2>1. CASE t = <<Ask("crash"), Exit("exit0")>>
    BY <2>1, Made, Ends
  <2>2. CASE t = <<Arg(0), Ask("crash"), Exit("exit0")>>
    BY <2>2, Made, Ends
  <2>3. CASE t = <<Ask("exit0"), Found("-appname"), Exit("exit0")>>
    BY <2>3, Made, Ends
  <2>4. CASE t = <<Ask("return"), Listen("return")>>
    BY <2>4, Made, Ends
  <2>5. CASE t = <<Ask("return"), Ask("return"), Sample, Ask("return"), Exit("exit0")>>
    BY <2>5, Made, Ends
  <2>6. QED BY <2>1, <2>2, <2>3, <2>4, <2>5
<1>2. \A t \in Tails : FilteredRow(deviceinfo \o t)
  BY <1>1, Services, Ending DEF FilteredRow
<1>3. QED BY <1>2 DEF runSysInfo, runSmProcList, runSmSysList, runSmCoalList, runMachTimeInfo,
                      runLs, runPs, runNotices, runSysmon

\* The rows of process control.
LEMMA ProcessRows ==
  FilteredRow(runTail) /\ FilteredRow(runKill) /\ FilteredRow(runLaunch)
<1>1. /\ <<Ask("go"), Listen("go")>> \in Seq(PlainSteps) /\ <<Ask("go"), Listen("go")>> # <<>>
      /\ <<Ask("go"), Listen("go")>>[Len(<<Ask("go"), Listen("go")>>)].op \in Final
      /\ <<Ask("exit0")>> \in Seq(PlainSteps) /\ <<Ask("exit0")>> # <<>>
      /\ <<Exit("exit0")>> \in Seq(PlainSteps) /\ <<Exit("exit0")>> # <<>>
      /\ <<Exit("exit0")>>[Len(<<Exit("exit0")>>)].op \in Final
  BY Made, Ends
<1>2. /\ Session(killPid) /\ killPid[1] = Up /\ Session(launchProcess) /\ launchProcess[1] = Up
  BY <1>1, Services, Behind DEF killPid, launchProcess
<1>3. \A s : Session(s) /\ s[1] = Up => /\ Session(<<Filter, Arg(0)>> \o s)
                                        /\ (<<Filter, Arg(0)>> \o s)[1] = Filter
  BY Leads, AfterFilter
<1>4. FilteredRow(runKill) /\ FilteredRow(runLaunch)
  BY <1>1, <1>2, <1>3, Ending DEF FilteredRow, runKill, runLaunch
<1>5. FilteredRow(runTail)
  BY <1>1, <1>3, Services, Ending, ZenonT(40) DEF FilteredRow, runTail
<1>6. QED BY <1>4, <1>5

\* The rows of the log and of pictures.
LEMMA PictureRows ==
  FilteredRow(runSysLog) /\ FilteredRow(runImage) /\ FilteredRow(runIServer)
<1> DEFINE image == <<Ask("report"), Ask("crash"), Check("exit1"), Exit("exit0")>>
<1>1. /\ <<Listen("return")>> \in Seq(PlainSteps) /\ <<Listen("return")>> # <<>>
      /\ <<Listen("return")>>[Len(<<Listen("return")>>)].op \in Final
      /\ <<Serve>> \in Seq(PlainSteps) /\ <<Serve>> # <<>> /\ <<Serve>>[Len(<<Serve>>)].op \in Final
      /\ image \in Seq(PlainSteps) /\ image # <<>> /\ image[Len(image)].op \in Final
  BY Made, Ends
<1>2. \A s : Session(s) /\ s[1] = Up => /\ Session(<<Filter>> \o s)
                                        /\ (<<Filter>> \o s)[1] = Filter
  BY Leads, AfterFilter
<1>3. FilteredRow(runSysLog)
  BY <1>1, <1>2, Services, Ending, ZenonT(40) DEF FilteredRow, runSysLog
<1>4. FilteredRow(runImage)
  <2>1. Session(<<Filter>> \o initScreenshotService)
        /\ (<<Filter>> \o initScreenshotService)[1] = Filter
    BY <1>2, Services
  <2>2. QED BY <1>1, <2>1, Ending DEF FilteredRow, runImage
<1>5. FilteredRow(runIServer)
  BY <1>1, <1>2, Services, Ending, ZenonT(40) DEF FilteredRow, runIServer
<1>6. QED BY <1>3, <1>4, <1>5

\* The rows of queries that look for -id.
LEMMA FilteredQueryRows ==
  FilteredRow(runMg) /\ FilteredRow(runInfo) /\ FilteredRow(runIosVersion) /\ FilteredRow(runListApps)
<1> DEFINE mg == <<Ask("report"), Ask("crash"), Check("exit1"), Check("exit1"), Check("exit1")>>
           found == <<Use("any"), Found("-bi"), Exit("exit0")>>
           version == <<Use("null"), Exit("exit0")>>
<1>1. /\ mg \in Seq(PlainSteps) /\ mg # <<>>
      /\ <<Exit("exit0")>> \in Seq(PlainSteps) /\ <<Exit("exit0")>> # <<>>
      /\ <<Exit("exit0")>>[Len(<<Exit("exit0")>>)].op \in Final
      /\ found \in Seq(PlainSteps) /\ found # <<>> /\ found[Len(found)].op \in Final
      /\ version \in Seq(PlainSteps) /\ version # <<>> /\ version[Len(version)].op \in Final
      /\ <<Tell>> \in Seq(InnerSteps) /\ <<Start("go")>> \in Seq(InnerSteps)
  BY Made, Ends
<1>2. \A s : Session(s) /\ s[1] = Up => /\ Session(<<Filter>> \o s)
                                        /\ (<<Filter>> \o s)[1] = Filter
                                        /\ Session(<<Filter, Arg(-1)>> \o s)
                                        /\ (<<Filter, Arg(-1)>> \o s)[1] = Filter
  BY Leads, AfterFilter
<1>3. FilteredRow(runMg)
  <2>1. Session(runMgRaw) /\ runMgRaw[1] = Up
    BY <1>1, Services, Behind DEF runMgRaw
  <2>2. QED BY <1>1, <1>2, <2>1, Ending, SMTT(30) DEF FilteredRow, runMg
<1>4. \A m \in Seq(InnerSteps) : /\ Session(devUp \o m \o devDown)
                                 /\ (devUp \o m \o devDown)[1] = Up
  BY Between
<1>5. \A m \in Seq(InnerSteps) : /\ Session(<<Filter>> \o devUp \o m \o devDown)
                                 /\ (<<Filter>> \o devUp \o m \o devDown)[1] = Filter
  <2>1. Filter \in Steps
    BY DEF Steps
  <2>2. QED BY <1>2, <1>4, <2>1, StepBefore
<1>6. FilteredRow(runInfo)
  <2>1. /\ Session(<<Filter>> \o devUp \o <<Tell>> \o devDown)
        /\ (<<Filter>> \o devUp \o <<Tell>> \o devDown)[1] = Filter
    BY <1>1, <1>5
  <2>2. QED BY <1>1, <2>1, Ending DEF FilteredRow, runInfo
<1>7. FilteredRow(runIosVersion) /\ FilteredRow(runListApps)
  <2>1. /\ Session(<<Filter>> \o devUp \o <<Start("go")>> \o devDown)
        /\ (<<Filter>> \o devUp \o <<Start("go")>> \o devDown)[1] = Filter
    BY <1>1, <1>5
  <2>2. FilteredRow(runIosVersion)
    BY <1>1, <2>1, Ending DEF FilteredRow, runIosVersion
  <2>3. FilteredRow(runListApps)
    BY <1>1, <2>1, Ending DEF FilteredRow, runListApps
  <2>4. QED BY <2>2, <2>3
<1>8. QED BY <1>3, <1>6, <1>7

\* The rows that do not look for -id: of the commands that take none, and install.
LEMMA UnfilteredRows ==
  Row(runGG) /\ Row(runBattery) /\ Row(runIoreg) /\ Row(runSysCfg) /\ Row(runInstall)
<1> DEFINE tail == <<Ask("report"), Ask("crash"), Exit("exit0")>>
           install == <<Start("go"), Tell, Use("any"), Tell>>
<1>1. /\ tail \in Seq(PlainSteps) /\ tail # <<>> /\ tail[Len(tail)].op \in Final
      /\ <<Exit("exit0")>> \in Seq(PlainSteps) /\ <<Exit("exit0")>> # <<>>
      /\ <<Exit("exit0")>>[Len(<<Exit("exit0")>>)].op \in Final
      /\ <<Ask("crash")>> \in Seq(InnerSteps)
      /\ install \in Seq(InnerSteps)
  BY Made, Ends
<1>2. Row(runGG) /\ Row(runBattery)
  BY <1>1, Services, Ending DEF runGG, runBattery
<1>3. Row(runIoreg)
  <2>1. Session(<<Need(1)>> \o activateService)
    BY Services, Leads, Before, StepKinds
  <2>2. QED BY <1>1, <2>1, Ending DEF runIoreg
<1>4. Row(runSysCfg)
  <2>1. Session(devUp \o <<Ask("crash")>> \o devDown)
    BY <1>1, Between
  <2>2. QED BY <1>1, <2>1, Ending DEF runSysCfg
<1>5. Row(runInstall)
  <2>1. Session(devUp \o install \o devDown) /\ (devUp \o install \o devDown)[1] = Up
    BY <1>1, Between
  <2>2. Session(<<Path>> \o (devUp \o install \o devDown))
    BY <2>1, Leads, Before, StepKinds
  <2>3. Path \in Steps
    BY Made DEF Steps
  <2>4. Session(<<Path>> \o devUp \o install \o devDown)
    BY <1>1, <2>2, <2>3, StepBefore
  <2>5. QED BY <1>1, <2>4, Ending DEF runInstall
<1>6. QED BY <1>2, <1>3, <1>4, <1>5

\* The row of list, step by step.
LEMMA ListRow ==
  /\ runList \in Seq(Steps) /\ Len(runList) = 2
  /\ runList[1] = Show /\ runList[2] = Return
BY DEF runList, Steps

\* The row of detectloop, step by step.
LEMMA DetectRow ==
  /\ detectConnect \in Seq(Steps) /\ Len(detectConnect) = 6
  /\ detectConnect[1] = Up /\ detectConnect[2] = Start("go") /\ detectConnect[3] = Down
  /\ detectConnect[4] = Use("null") /\ detectConnect[5] = Show /\ detectConnect[6] = Return
<1> DEFINE a == devUp \o <<Start("go")>>
           b == a \o devDown
           c == b \o <<Use("null"), Show, Return>>
<1>1. /\ devUp \in Seq(Steps) /\ Len(devUp) = 1 /\ devUp[1] = Up
      /\ devDown \in Seq(Steps) /\ Len(devDown) = 1 /\ devDown[1] = Down
  BY DEF devUp, devDown, Up, Down, Steps
<1>2. <<Start("go")>> \in Seq(Steps) /\ <<Use("null"), Show, Return>> \in Seq(Steps)
  BY Made DEF Steps
<1>3. a \in Seq(Steps) /\ Len(a) = 2 /\ a[1] = Up /\ a[2] = Start("go")
  BY <1>1, <1>2, Joined, SMTT(30)
<1>4. /\ b \in Seq(Steps) /\ Len(b) = 3
      /\ b[1] = Up /\ b[2] = Start("go") /\ b[3] = Down
  BY <1>1, <1>3, Joined
<1>5. /\ c \in Seq(Steps) /\ Len(c) = 6 /\ \A i \in 1 .. 3 : c[i] = b[i]
      /\ c[4] = Use("null") /\ c[5] = Show /\ c[6] = Return
  BY <1>2, <1>4, Joined
<1>6. QED BY <1>4, <1>5 DEF detectConnect

\* The row of tunnel, step by step.
LEMMA TunnelRow ==
  /\ runTunnel \in Seq(Steps) /\ Len(runTunnel) = 6
  /\ runTunnel[1] = Filter /\ runTunnel[2] = Up /\ runTunnel[3] = NoWords(5)
  /\ runTunnel[4] = Serve /\ runTunnel[5] = Down /\ runTunnel[6] = Exit("exit1")
<1> DEFINE a == <<Filter>> \o devUp
           b == a \o <<NoWords(5), Serve>>
           c == b \o devDown
           d == c \o <<Exit("exit1")>>
<1>1. /\ devUp \in Seq(Steps) /\ Len(devUp) = 1 /\ devUp[1] = Up
      /\ devDown \in Seq(Steps) /\ Len(devDown) = 1 /\ devDown[1] = Down
  BY DEF devUp, devDown, Up, Down, Steps
<1>2. /\ <<Filter>> \in Seq(Steps) /\ <<NoWords(5), Serve>> \in Seq(Steps)
      /\ <<Exit("exit1")>> \in Seq(Steps)
  BY Made DEF Steps
<1>3. a \in Seq(Steps) /\ Len(a) = 2 /\ a[1] = Filter /\ a[2] = Up
  BY <1>1, <1>2, Joined
<1>4. /\ b \in Seq(Steps) /\ Len(b) = 4 /\ \A i \in 1 .. 2 : b[i] = a[i]
      /\ b[3] = NoWords(5) /\ b[4] = Serve
  BY <1>2, <1>3, Joined
<1>5. c \in Seq(Steps) /\ Len(c) = 5 /\ (\A i \in 1 .. 4 : c[i] = b[i]) /\ c[5] = Down
  BY <1>1, <1>4, Joined
<1>6. /\ d \in Seq(Steps) /\ Len(d) = 6 /\ \A i \in 1 .. 5 : d[i] = c[i]
      /\ d[6] = Exit("exit1")
  BY <1>2, <1>5, Joined
<1>7. QED BY <1>3, <1>4, <1>5, <1>6 DEF runTunnel

\* The row of dl: it starts with the words, and the download ends it.
LEMMA DownloadRow ==
  /\ FilteredRow(runGetFile)
  /\ \A k \in DOMAIN runGetFile : runGetFile[k].op = "exit" =>
       k > 1 /\ runGetFile[k - 1] = Fetch
<1> DEFINE front == <<Filter, Arg(1), Arg(2), Arg(0)>>
           house == devUp \o <<House>> \o devDown
           fetch == <<Ask("exit0"), Check("exit0"), Fetch>>
           exit == <<Exit("exit0")>>
           S == {x \in Steps : x.op # "exit"}
<1>1. /\ <<House>> \in Seq(InnerSteps) /\ fetch \in Seq(PlainSteps) /\ fetch # <<>>
      /\ exit \in Seq(PlainSteps) /\ exit # <<>> /\ exit[Len(exit)].op \in Final
  BY Made, Ends
<1>2. Session(house) /\ house[1] = Up
  BY <1>1, Between
<1>3. Session(dlAppFile) /\ dlAppFile[1] = Up
  BY <1>1, <1>2, Behind DEF dlAppFile
<1>4. Session(front \o dlAppFile) /\ (front \o dlAppFile)[1] = Filter
  BY <1>3, Leads, AfterFilter
<1>5. FilteredRow(runGetFile)
  BY <1>1, <1>4, Ending DEF FilteredRow, runGetFile
<1>6. /\ Filter \in S /\ Arg(0) \in S /\ Arg(1) \in S /\ Arg(2) \in S /\ Up \in S
      /\ House \in S /\ Down \in S /\ Ask("exit0") \in S /\ Check("exit0") \in S /\ Fetch \in S
  <2>1. Filter \in Steps /\ Up \in Steps /\ Down \in Steps
    BY DEF Steps
  <2>2. /\ House \in Steps /\ Arg(0) \in Steps /\ Arg(1) \in Steps /\ Arg(2) \in Steps
        /\ Ask("exit0") \in Steps /\ Check("exit0") \in Steps /\ Fetch \in Steps
    BY Made DEF Steps
  <2>3. QED BY <2>1, <2>2 DEF Filter, Up, Down, House, Arg, Ask, Check, Fetch
<1>7. /\ front \in Seq(S) /\ <<House>> \in Seq(S) /\ devUp \in Seq(S) /\ devDown \in Seq(S)
      /\ fetch \in Seq(S)
  <2>1. devUp = <<Up>> /\ devDown = <<Down>>
    BY DEF devUp, devDown, Up, Down
  <2>2. QED BY <1>6, <2>1
<1>8. house \in Seq(S)
  BY <1>7, ConcatProperties
<1>9. /\ dlAppFile \in Seq(S) /\ Len(dlAppFile) = Len(house) + 3 /\ Len(house) \in Nat
      /\ dlAppFile[Len(house) + 3] = Fetch
  <2>1. Len(fetch) = 3 /\ fetch[3] = Fetch
    OBVIOUS
  <2>2. QED BY <1>7, <1>8, <2>1, Joined DEF dlAppFile
<1>10. PICK r : r = front \o dlAppFile
  OBVIOUS
<1>11. /\ r \in Seq(S) /\ Len(r) = Len(front) + Len(dlAppFile) /\ Len(front) = 4
       /\ r[Len(r)] = Fetch
  <2>1. Len(front) = 4
    OBVIOUS
  <2>2. QED BY <1>7, <1>9, <1>10, <2>1, Joined, SMTT(30)
<1>12. /\ r \in Seq(Steps) /\ exit \in Seq(Steps) /\ Len(exit) = 1 /\ Len(r) \in Nat /\ Len(r) > 0
  <2>1. r \in Seq(Steps)
    BY <1>11, SeqMonotonic
  <2>2. exit \in Seq(Steps)
    BY Made DEF Steps
  <2>3. QED BY <1>9, <1>11, <2>1, <2>2
<1>13. /\ DOMAIN runGetFile = 1 .. Len(r) + 1
       /\ \A i \in 1 .. Len(r) : runGetFile[i] = r[i]
  BY <1>10, <1>12, Joined DEF runGetFile
<1>14. \A i \in 1 .. Len(r) : r[i].op # "exit"
  BY <1>11, ElementOfSeq
<1>15. ASSUME NEW k \in DOMAIN runGetFile, runGetFile[k].op = "exit"
       PROVE  k > 1 /\ runGetFile[k - 1] = Fetch
  <2>1. k = Len(r) + 1
    BY <1>12, <1>13, <1>14, <1>15
  <2>2. QED BY <1>11, <1>12, <1>13, <2>1
<1>16. QED BY <1>5, <1>15

-----------------------------------------------------------------------------
(* What the rows have in common.                                            *)

\* The commands that have a callback here.
Working ==
  {"list", "detectloop", "log", "img", "iserver", "gas", "battery", "ioreg", "syscfg", "install",
   "listapps", "mg", "info", "iosversion", "dl", "sysinfo", "smproclist", "smsyslist",
   "smcoallist", "machtimeinfo", "ls", "ps", "notices", "sysmon", "tail", "kill", "launch",
   "tunnel"}

\* A row has at most one session, from step u to step v.
Shaped(s, u, v) ==
  /\ s \in Seq(Steps) /\ Len(s) >= 1 /\ s[Len(s)].op \in Final
  /\ u < v => u >= 1 /\ v <= Len(s) /\ s[u].op = "up" /\ s[v].op = "down"
  /\ \A k \in 1 .. Len(s) :
       /\ s[k].op = "up" => k = u /\ u < v
       /\ s[k].op = "down" => k = v /\ u < v
       /\ u < k /\ k < v => s[k] \in InnerSteps \/ s[k].op = "noWords"
       /\ s[k].op = "noWords" => u < k /\ k < v /\ s[k].to \in u + 1 .. v
       /\ s[k].op = "filter" => k = 1

\* Step k of row s is taken in the row's session.
Inside(s, k) ==
  \E i, j \in DOMAIN s : s[i].op = "up" /\ s[j].op = "down" /\ i < k /\ k <= j

\* The rows built in the common way have this shape.
LEMMA RowShape ==
  ASSUME NEW s, Row(s)
  PROVE  /\ \E u, v \in Nat : Shaped(s, u, v)
         /\ \A k \in DOMAIN s : s[k].op \notin {"show", "return"}
<1>1. PICK u \in Nat, v \in Nat : Bracket(s, u, v)
  BY DEF Row, Session
<1>2. /\ s \in Seq(Steps) /\ DOMAIN s = 1 .. Len(s) /\ Len(s) \in Nat
      /\ u < v /\ u \in 1 .. Len(s) /\ v \in 1 .. Len(s) /\ s[u] = Up /\ s[v] = Down
  BY <1>1, LenProperties DEF Bracket
<1>3. \A k \in 1 .. Len(s) : k < u \/ v < k => s[k] \in PlainSteps \/ (k = 1 /\ s[k] = Filter)
  BY <1>1, <1>2 DEF Bracket
<1>4. \A k \in 1 .. Len(s) : u < k /\ k < v => s[k] \in InnerSteps
  BY <1>1, <1>2 DEF Bracket
<1>5. /\ \A x \in PlainSteps : x.op \notin {"up", "down", "noWords", "filter", "show", "return"}
      /\ \A x \in InnerSteps : x.op \notin {"up", "down", "noWords", "filter", "show", "return"}
  BY StepKinds
<1>6. ASSUME NEW k \in 1 .. Len(s)
      PROVE  /\ s[k].op = "up" => k = u
             /\ s[k].op = "down" => k = v
             /\ s[k].op \notin {"noWords", "show", "return"}
             /\ s[k].op = "filter" => k = 1
  <2>1. CASE k = u
    BY <1>2, <2>1, StepKinds
  <2>2. CASE k = v
    BY <1>2, <2>2, StepKinds
  <2>3. CASE u < k /\ k < v
    BY <1>4, <1>5, <2>3
  <2>4. CASE k < u \/ v < k
    BY <1>3, <1>5, <2>4, StepKinds
  <2>5. QED BY <1>2, <2>1, <2>2, <2>3, <2>4
<1>7. Shaped(s, u, v)
  BY <1>2, <1>4, <1>6, StepKinds DEF Shaped, Row
<1>8. QED BY <1>2, <1>6, <1>7

\* So have the three that are not.
LEMMA SpecialShapes ==
  /\ Shaped(runList, 0, 0) /\ Shaped(detectConnect, 1, 3) /\ Shaped(runTunnel, 2, 5)
<1>1. Shaped(runList, 0, 0)
  BY ListRow, StepKinds DEF Shaped, Final
<1>2. /\ Start("go") \in InnerSteps /\ Serve \in InnerSteps /\ Start("go").op = "start"
      /\ Serve.op = "serve" /\ Exit("exit1").op = "exit" /\ NoWords(5).op = "noWords"
      /\ NoWords(5).to = 5 /\ Use("null").op = "use"
  BY Made DEF InnerSteps, Start, Serve, Exit, NoWords, Use
<1>3. Shaped(detectConnect, 1, 3)
  <2>1. \A k \in 1 .. 6 : k = 1 \/ k = 2 \/ k = 3 \/ k = 4 \/ k = 5 \/ k = 6
    OBVIOUS
  <2>2. QED BY <1>2, <2>1, DetectRow, StepKinds DEF Shaped, Final
<1>4. Shaped(runTunnel, 2, 5)
  <2>1. \A k \in 1 .. 6 : k = 1 \/ k = 2 \/ k = 3 \/ k = 4 \/ k = 5 \/ k = 6
    OBVIOUS
  <2>2. QED BY <1>2, <2>1, TunnelRow, StepKinds DEF Shaped, Final
<1>5. QED BY <1>1, <1>3, <1>4

\* Which row a command has.
LEMMA RowOf ==
  ASSUME NEW cmd \in Working
  PROVE  \/ cmd = "list" /\ Callback(cmd) = runList
         \/ cmd = "detectloop" /\ Callback(cmd) = detectConnect
         \/ cmd = "tunnel" /\ Callback(cmd) = runTunnel
         \/ cmd = "dl" /\ Callback(cmd) = runGetFile
         \/ cmd \in {"gas", "battery", "ioreg", "syscfg", "install"} /\ Row(Callback(cmd))
         \/ cmd \notin {"list", "detectloop", "tunnel", "dl"} /\ FilteredRow(Callback(cmd))
<1>1. /\ cmd = "list" => Callback(cmd) = runList
      /\ cmd = "detectloop" => Callback(cmd) = detectConnect
      /\ cmd = "tunnel" => Callback(cmd) = runTunnel
      /\ cmd = "dl" => Callback(cmd) = runGetFile
  BY DEF Callback
<1>2. cmd \in {"gas", "battery", "ioreg", "syscfg", "install"} => Row(Callback(cmd))
  BY UnfilteredRows DEF Callback
<1>3. cmd \in {"log", "img", "iserver", "listapps", "mg", "info", "iosversion"}
        => FilteredRow(Callback(cmd))
  BY PictureRows, FilteredQueryRows DEF Callback
<1>4. cmd \in {"sysinfo", "smproclist", "smsyslist", "smcoallist", "machtimeinfo", "ls", "ps",
               "notices", "sysmon"}
        => FilteredRow(Callback(cmd))
  BY DeviceInfoRows DEF Callback
<1>5. cmd \in {"tail", "kill", "launch"} => FilteredRow(Callback(cmd))
  BY ProcessRows DEF Callback
<1>6. QED BY <1>1, <1>2, <1>3, <1>4, <1>5 DEF Working

\* Only the callbacks of install and of commands without options do not look
\* for -id first, and list, which works with no device.
LEMMA RowStarts ==
  ASSUME NEW cmd \in Working
  PROVE  /\ cmd \notin Unfiltered \cup {"install", "list"} => Callback(cmd)[1] = Filter
         /\ \A k \in DOMAIN runList : runList[k].op # "up"
<1>1. cmd \notin Unfiltered \cup {"install", "list"} => Callback(cmd)[1] = Filter
  BY RowOf, TunnelRow, DownloadRow DEF FilteredRow, Unfiltered
<1>2. DOMAIN runList = 1 .. 2
  BY ListRow, LenProperties
<1>3. QED BY <1>1, <1>2, ListRow, StepKinds

\* What the dynamic part has to know of a row: where a step may go, where the
\* session begins, and that nothing leaves the callback in it.
LEMMA Moves ==
  ASSUME NEW cmd \in Working, NEW k \in DOMAIN Callback(cmd)
  PROVE  LET row == Callback(cmd) IN
         /\ row[k] \in Steps /\ k \in Nat /\ k >= 1 /\ 1 \in DOMAIN row
         /\ row[k].op \notin Final => k + 1 \in DOMAIN row
         /\ row[k].op = "up" => Inside(row, k + 1) /\ ~Inside(row, k)
         /\ Inside(row, k) /\ row[k].op \notin {"down", "noWords"} =>
              row[k] \in InnerSteps /\ Inside(row, k + 1)
         /\ row[k].op = "noWords" =>
              /\ row[k].to \in DOMAIN row /\ Inside(row, row[k].to) /\ Inside(row, k + 1)
         /\ row[k].op = "filter" => k = 1
         /\ ~Inside(row, 1)
<1> DEFINE row == Callback(cmd)
<1>1. PICK u \in Nat, v \in Nat : Shaped(row, u, v)
  BY RowOf, RowShape, SpecialShapes, DownloadRow DEF FilteredRow
<1>2. /\ row \in Seq(Steps) /\ DOMAIN row = 1 .. Len(row) /\ Len(row) \in Nat /\ Len(row) >= 1
      /\ row[Len(row)].op \in Final
      /\ u < v => u >= 1 /\ v <= Len(row) /\ row[u].op = "up" /\ row[v].op = "down"
  BY <1>1, LenProperties DEF Shaped
<1>3. \A i \in 1 .. Len(row) :
       /\ row[i].op = "up" => i = u /\ u < v
       /\ row[i].op = "down" => i = v /\ u < v
       /\ u < i /\ i < v => row[i] \in InnerSteps \/ row[i].op = "noWords"
       /\ row[i].op = "noWords" => u < i /\ i < v /\ row[i].to \in u + 1 .. v
       /\ row[i].op = "filter" => i = 1
  BY <1>1 DEF Shaped
<1>4. \A i \in Nat : Inside(row, i) => u < i /\ i <= v /\ u < v
  BY <1>2, <1>3 DEF Inside
<1>5. \A i \in Nat : u < i /\ i <= v => Inside(row, i)
  <2> SUFFICES ASSUME NEW i \in Nat, u < i, i <= v PROVE Inside(row, i)
    OBVIOUS
  <2>1. u \in DOMAIN row /\ v \in DOMAIN row /\ row[u].op = "up" /\ row[v].op = "down"
    BY <1>2
  <2>2. QED BY <2>1 DEF Inside
<1>6. k \in 1 .. Len(row) /\ row[k] \in Steps /\ 1 \in DOMAIN row
  BY <1>2, ElementOfSeq
<1>7. row[k].op \notin Final => k + 1 \in DOMAIN row
  BY <1>2, <1>6
<1>8. row[k].op = "up" => Inside(row, k + 1) /\ ~Inside(row, k)
  BY <1>3, <1>4, <1>5, <1>6
<1>9. Inside(row, k) /\ row[k].op \notin {"down", "noWords"} =>
        row[k] \in InnerSteps /\ Inside(row, k + 1)
  <2> SUFFICES ASSUME Inside(row, k), row[k].op \notin {"down", "noWords"}
               PROVE  row[k] \in InnerSteps /\ Inside(row, k + 1)
    OBVIOUS
  <2>1. u < k /\ k <= v /\ u < v
    BY <1>4, <1>6
  <2>2. k < v
    BY <1>2, <1>6, <2>1
  <2>3. QED BY <1>3, <1>5, <1>6, <2>1, <2>2
<1>10. row[k].op = "noWords" => /\ row[k].to \in DOMAIN row /\ Inside(row, row[k].to)
                                /\ Inside(row, k + 1)
  <2> SUFFICES ASSUME row[k].op = "noWords"
               PROVE  /\ row[k].to \in DOMAIN row /\ Inside(row, row[k].to)
                      /\ Inside(row, k + 1)
    OBVIOUS
  <2>1. u < k /\ k < v /\ row[k].to \in u + 1 .. v
    BY <1>3, <1>6
  <2>2. QED BY <1>2, <1>5, <1>6, <2>1
<1>11. row[k].op = "filter" => k = 1
  BY <1>3, <1>6
<1>12. ~Inside(row, 1)
  <2> SUFFICES ASSUME Inside(row, 1) PROVE FALSE
    OBVIOUS
  <2>1. u < 1 /\ u < v
    BY <1>4
  <2>2. QED BY <1>2, <2>1
<1>13. QED BY <1>6, <1>7, <1>8, <1>9, <1>10, <1>11, <1>12

\* Only list and detectloop show devices or go back to the run loop of
\* themselves.
LEMMA Showing ==
  ASSUME NEW cmd \in Working, cmd \notin {"list", "detectloop"},
         NEW k \in DOMAIN Callback(cmd)
  PROVE  Callback(cmd)[k].op \notin {"show", "return"}
<1>1. CASE cmd = "tunnel"
  <2>1. DOMAIN runTunnel = 1 .. 6 /\ Callback(cmd) = runTunnel
    BY <1>1, RowOf, TunnelRow, LenProperties
  <2>2. QED BY <2>1, TunnelRow, StepKinds DEF NoWords, Serve, Exit
<1>2. CASE cmd # "tunnel"
  BY <1>2, RowOf, RowShape, DownloadRow DEF FilteredRow
<1>3. QED BY <1>1, <1>2

-----------------------------------------------------------------------------
(* What is kept of the notices.                                             *)

Notices == [type : {1, 2, 3}, device : Devices]

\* f[k] is what the first k of s have of these types.
IsKept(f, s, types, m) ==
  /\ m \in Nat
  /\ f = [k \in 0..m |->
            IF k = 0 THEN <<>>
            ELSE IF s[k].type \in types THEN Append(f[k - 1], s[k]) ELSE f[k - 1]]

\* There is such a function, so that the definition says what it looks like.
LEMMA KeptExists ==
  ASSUME NEW s, NEW types, NEW m \in Nat
  PROVE  \E f : IsKept(f, s, types, m)
<1> DEFINE S == {k \in Nat : \E f : IsKept(f, s, types, k)}
<1>1. 0 \in S
  <2>1. IsKept([k \in 0..0 |-> <<>>], s, types, 0)
    BY DEF IsKept
  <2>2. QED BY <2>1
<1>2. ASSUME NEW k \in S PROVE k + 1 \in S
  <2>1. PICK f : IsKept(f, s, types, k)
    BY <1>2
  <2> DEFINE g == [i \in 0..k + 1 |->
                     IF i <= k THEN f[i]
                     ELSE IF s[k + 1].type \in types THEN Append(f[k], s[k + 1]) ELSE f[k]]
  <2>2. ASSUME NEW i \in 0..k + 1
        PROVE  g[i] = IF i = 0 THEN <<>>
                      ELSE IF s[i].type \in types THEN Append(g[i - 1], s[i]) ELSE g[i - 1]
    <3>1. CASE i = 0
      BY <2>1, <3>1 DEF IsKept
    <3>2. CASE i # 0 /\ i <= k
      <4>1. i \in 0..k /\ i - 1 \in 0..k
        BY <3>2
      <4>2. g[i] = f[i] /\ g[i - 1] = f[i - 1]
        BY <4>1
      <4>3. f[i] = IF s[i].type \in types THEN Append(f[i - 1], s[i]) ELSE f[i - 1]
        BY <2>1, <3>2, <4>1 DEF IsKept
      <4>4. QED BY <3>2, <4>2, <4>3
    <3>3. CASE i = k + 1
      <4>1. k \in 0..k + 1 /\ g[k] = f[k]
        OBVIOUS
      <4>2. QED BY <3>3, <4>1
    <3>4. QED BY <3>1, <3>2, <3>3
  <2>3. g = [i \in 0..k + 1 |->
              IF i = 0 THEN <<>>
              ELSE IF s[i].type \in types THEN Append(g[i - 1], s[i]) ELSE g[i - 1]]
    BY <2>2
  <2> HIDE DEF g
  <2>4. IsKept(g, s, types, k + 1)
    <3>1. k + 1 \in Nat
      BY <1>2
    <3>2. QED BY <2>3, <3>1 DEF IsKept
  <2>5. QED BY <2>4
<1>3. S \in SUBSET Nat
  OBVIOUS
<1> HIDE DEF S
<1>4. S = Nat
  BY <1>1, <1>2, <1>3, EveryNumber
<1>5. QED BY <1>4 DEF S

\* What is kept, step by step.
LEMMA KeptIs ==
  ASSUME NEW s, NEW types, Len(s) \in Nat
  PROVE  \E f : IsKept(f, s, types, Len(s)) /\ OfTypes(s, types) = f[Len(s)]
<1>1. PICK g : IsKept(g, s, types, Len(s))
  BY KeptExists
<1>2. QED BY <1>1 DEF OfTypes, IsKept

\* The same, said of each step.
LEMMA KeptSteps ==
  ASSUME NEW s, NEW types, NEW m, NEW f, IsKept(f, s, types, m)
  PROVE  /\ f[0] = <<>>
         /\ \A k \in Nat : k + 1 <= m =>
              f[k + 1] = IF s[k + 1].type \in types THEN Append(f[k], s[k + 1]) ELSE f[k]
<1>0. m \in Nat
  BY DEF IsKept
<1>1. f[0] = <<>>
  BY <1>0 DEF IsKept
<1>2. ASSUME NEW k \in Nat, k + 1 <= m
      PROVE  f[k + 1] = IF s[k + 1].type \in types THEN Append(f[k], s[k + 1]) ELSE f[k]
  <2>1. PICK i : i = k + 1
    OBVIOUS
  <2>2. i \in 0..m /\ i # 0 /\ i - 1 = k
    BY <1>0, <1>2, <2>1
  <2>3. f[i] = IF s[i].type \in types THEN Append(f[i - 1], s[i]) ELSE f[i - 1]
    BY <2>2 DEF IsKept
  <2>4. QED BY <2>1, <2>2, <2>3
<1>3. QED BY <1>1, <1>2

\* What is kept is a sequence of the same elements.
LEMMA KeptType ==
  ASSUME NEW E, NEW s \in Seq(E), NEW types, NEW m \in 0..Len(s), NEW f, IsKept(f, s, types, m)
  PROVE  \A k \in 0..m : f[k] \in Seq(E)
<1> DEFINE S == {k \in Nat : k <= m => f[k] \in Seq(E)}
<1>0. m \in Nat /\ Len(s) \in Nat /\ m <= Len(s)
  BY LenProperties
<1>1. f[0] \in Seq(E)
  <2>1. f[0] = <<>>
    BY KeptSteps
  <2>2. QED BY <2>1
<1>2. 0 \in S
  BY <1>1
<1>3. ASSUME NEW k \in S PROVE k + 1 \in S
  <2> SUFFICES ASSUME k + 1 <= m PROVE f[k + 1] \in Seq(E)
    OBVIOUS
  <2>1. k \in Nat /\ k + 1 \in 1..Len(s)
    BY <1>0, <1>3
  <2>2. f[k] \in Seq(E) /\ s[k + 1] \in E
    BY <1>0, <2>1, ElementOfSeq
  <2>4. f[k + 1] = IF s[k + 1].type \in types THEN Append(f[k], s[k + 1]) ELSE f[k]
    BY <1>0, <2>1, KeptSteps
  <2>5. Append(f[k], s[k + 1]) \in Seq(E)
    BY <2>2, AppendProperties
  <2>6. QED BY <2>2, <2>4, <2>5
<1> HIDE DEF S
<1>4. S = Nat
  <2>1. S \in SUBSET Nat
    BY DEF S
  <2>2. QED BY <1>2, <1>3, <2>1, EveryNumber
<1>5. QED BY <1>0, <1>4 DEF S

\* Of no notices none are kept.
LEMMA KeptOfNone ==
  ASSUME NEW types
  PROVE  OfTypes(<<>>, types) = <<>>
<1>1. Len(<<>>) = 0
  OBVIOUS
<1>2. PICK f : IsKept(f, <<>>, types, 0) /\ OfTypes(<<>>, types) = f[0]
  BY <1>1, KeptIs
<1>3. QED BY <1>2 DEF IsKept

\* One more notice at the end.
LEMMA KeptOfMore ==
  ASSUME NEW E, NEW s \in Seq(E), NEW x \in E, NEW types
  PROVE  /\ OfTypes(s, types) \in Seq(E)
         /\ OfTypes(Append(s, x), types) =
              IF x.type \in types THEN Append(OfTypes(s, types), x) ELSE OfTypes(s, types)
<1>0. PICK l \in Nat : l = Len(s)
  BY LenProperties
<1>1. PICK f : IsKept(f, s, types, l) /\ OfTypes(s, types) = f[l]
  BY <1>0, KeptIs
<1>2. PICK t : t = Append(s, x)
  OBVIOUS
<1>3. t \in Seq(E) /\ Len(t) = l + 1 /\ t[l + 1] = x /\ \A i \in 1..l : t[i] = s[i]
  BY <1>0, <1>2, AppendProperties
<1>4. PICK g : IsKept(g, t, types, l + 1) /\ OfTypes(t, types) = g[l + 1]
  BY <1>3, KeptIs
<1> DEFINE S == {k \in Nat : k <= l => f[k] = g[k]}
<1>5. 0 \in S
  BY <1>1, <1>4, KeptSteps
<1>6. ASSUME NEW k \in S PROVE k + 1 \in S
  <2> SUFFICES ASSUME k + 1 <= l PROVE f[k + 1] = g[k + 1]
    OBVIOUS
  <2>1. k \in Nat /\ f[k] = g[k] /\ s[k + 1] = t[k + 1]
    BY <1>3
  <2>2. k + 1 <= l + 1 /\ l + 1 \in Nat
    BY <2>1
  <2>3. f[k + 1] = IF s[k + 1].type \in types THEN Append(f[k], s[k + 1]) ELSE f[k]
    BY <2>1, <1>1, KeptSteps
  <2>4. g[k + 1] = IF t[k + 1].type \in types THEN Append(g[k], t[k + 1]) ELSE g[k]
    BY <1>4, <2>1, <2>2, KeptSteps
  <2>5. QED BY <2>1, <2>3, <2>4
<1> HIDE DEF S
<1>7. S = Nat
  <2>1. S \in SUBSET Nat
    BY DEF S
  <2>2. QED BY <1>5, <1>6, <2>1, EveryNumber
<1>8. f[l] = g[l]
  BY <1>7 DEF S
<1>9. g[l + 1] = IF x.type \in types THEN Append(g[l], x) ELSE g[l]
  <2>1. \A k \in Nat : k + 1 <= l + 1 =>
          g[k + 1] = IF t[k + 1].type \in types THEN Append(g[k], t[k + 1]) ELSE g[k]
    BY <1>4, KeptSteps
  <2>2. g[l + 1] = IF t[l + 1].type \in types THEN Append(g[l], t[l + 1]) ELSE g[l]
    BY <2>1
  <2>3. QED BY <1>3, <2>2
<1>10. f[l] \in Seq(E)
  <2>1. l \in 0..Len(s) /\ l \in 0..l
    BY <1>0
  <2>2. QED BY <1>1, <2>1, KeptType
<1>11. QED BY <1>1, <1>2, <1>4, <1>8, <1>9, <1>10

\* An element behind two sequences is behind the second; under a name that the
\* solver does not rewrite.
Appends(p, q, x) ==
  Append(p \o q, x) = p \o Append(q, x) /\ Append(p \o q, x) = (p \o q) \o <<x>>

\* So it is for sequences of one kind.
LEMMA AppendBehind ==
  ASSUME NEW E, NEW p \in Seq(E), NEW q \in Seq(E), NEW x \in E
  PROVE  Appends(p, q, x)
<1>1. p \o q \in Seq(E) /\ <<x>> \in Seq(E)
  BY ConcatProperties
<1>2. Append(p \o q, x) = (p \o q) \o <<x>> /\ Append(q, x) = q \o <<x>>
  BY <1>1, AppendIsConcat
<1>3. (p \o q) \o <<x>> = p \o (q \o <<x>>)
  BY <1>1, ConcatAssociative
<1>4. QED BY <1>2, <1>3 DEF Appends

\* One notice less at the front.
LEMMA KeptOfRest ==
  ASSUME NEW E, NEW s \in Seq(E), s # <<>>, NEW types
  PROVE  /\ Head(s) \in E /\ Tail(s) \in Seq(E) /\ OfTypes(Tail(s), types) \in Seq(E)
         /\ OfTypes(s, types) =
              IF Head(s).type \in types THEN <<Head(s)>> \o OfTypes(Tail(s), types)
                                        ELSE OfTypes(Tail(s), types)
<1>0. PICK l \in Nat : l + 1 = Len(s)
  <2>1. Len(s) \in Nat /\ Len(s) # 0
    BY LenProperties, EmptySeq
  <2>2. Len(s) - 1 \in Nat /\ Len(s) - 1 + 1 = Len(s)
    BY <2>1
  <2>3. QED BY <2>2
<1>1. PICK h, t : h = Head(s) /\ t = Tail(s)
  OBVIOUS
<1>2. /\ h \in E /\ t \in Seq(E) /\ Len(t) = l /\ h = s[1] /\ \A i \in 1..l : t[i] = s[i + 1]
  BY <1>0, <1>1, HeadTailProperties
<1>3. PICK f : IsKept(f, s, types, l + 1) /\ OfTypes(s, types) = f[l + 1]
  BY <1>0, KeptIs
<1>4. PICK g : IsKept(g, t, types, l) /\ OfTypes(t, types) = g[l]
  BY <1>2, KeptIs
<1>5. \A k \in 0..l : g[k] \in Seq(E)
  <2>1. l \in 0..Len(t)
    BY <1>2
  <2>2. QED BY <1>2, <1>4, <2>1, KeptType
<1>6. PICK front : front = IF h.type \in types THEN <<h>> ELSE <<>>
  OBVIOUS
<1>7. front \in Seq(E)
  BY <1>2, <1>6
<1> DEFINE S == {k \in Nat : k <= l => f[k + 1] = front \o g[k]}
<1>8. 0 \in S
  <2>1. g[0] = <<>> /\ f[0] = <<>>
    BY <1>3, <1>4, KeptSteps
  <2>2. l + 1 \in Nat /\ 0 + 1 <= l + 1 /\ 0 \in Nat /\ 0 + 1 = 1
    OBVIOUS
  <2>3. f[1] = IF s[1].type \in types THEN Append(f[0], s[1]) ELSE f[0]
    BY <1>3, <2>2, KeptSteps
  <2>4. f[1] = front
    BY <1>2, <1>6, <2>1, <2>3
  <2>5. front \o <<>> = front
    BY <1>7, ConcatEmptySeq
  <2>6. f[0 + 1] = front \o g[0]
    BY <2>1, <2>2, <2>4, <2>5
  <2>7. QED BY <2>6
<1>9. ASSUME NEW k \in S PROVE k + 1 \in S
  <2> SUFFICES ASSUME k + 1 <= l PROVE f[k + 1 + 1] = front \o g[k + 1]
    OBVIOUS
  <2>1. k \in Nat /\ f[k + 1] = front \o g[k] /\ s[k + 1 + 1] = t[k + 1] /\ t[k + 1] \in E
    BY <1>2, ElementOfSeq
  <2>2. k + 1 \in Nat /\ k + 1 + 1 <= l + 1 /\ l + 1 \in Nat /\ k \in 0..l
    BY <2>1
  <2>3. f[k + 1 + 1] = IF s[k + 1 + 1].type \in types THEN Append(f[k + 1], s[k + 1 + 1])
                                                      ELSE f[k + 1]
    BY <1>3, <2>2, KeptSteps
  <2>4. g[k + 1] = IF t[k + 1].type \in types THEN Append(g[k], t[k + 1]) ELSE g[k]
    BY <1>4, <2>1, <2>2, KeptSteps
  <2>5. Append(front \o g[k], t[k + 1]) = front \o Append(g[k], t[k + 1])
    <3>1. front \in Seq(E) /\ g[k] \in Seq(E) /\ t[k + 1] \in E
      BY <1>5, <1>7, <2>1, <2>2
    <3>2. PICK q, x : q = g[k] /\ x = t[k + 1]
      OBVIOUS
    <3>3. q \in Seq(E) /\ x \in E
      BY <3>1, <3>2
    <3>4. Appends(front, q, x)
      BY <1>7, <3>3, AppendBehind
    <3>5. QED BY <3>2, <3>4 DEF Appends
  <2>6. QED BY <2>1, <2>3, <2>4, <2>5
<1> HIDE DEF S
<1>10. S = Nat
  <2>1. S \in SUBSET Nat
    BY DEF S
  <2>2. QED BY <1>8, <1>9, <2>1, EveryNumber
<1>11. f[l + 1] = front \o g[l]
  <2>1. l \in S
    BY <1>10
  <2>2. QED BY <2>1 DEF S
<1>12. g[l] \in Seq(E)
  BY <1>5
<1>13. <<>> \o g[l] = g[l]
  BY <1>12, ConcatEmptySeq
<1>14. QED BY <1>1, <1>2, <1>3, <1>4, <1>6, <1>11, <1>12, <1>13

-----------------------------------------------------------------------------
(* The inductive invariant.                                                 *)

Contents == ToSet(RemoteFile) \cup {Null}
Doing == Callback(line.cmd)

\* Every variable has its type, and a callback is on one of its steps.
Typed ==
  /\ words \in CmdLines
  /\ pc \in {"start", "subscribe", "loop", "handler", "ended"}
  /\ code \in {Null, "exit0", "exit1", "crash"} /\ (pc = "ended" <=> code # Null)
  /\ queue \in Seq(Notices) /\ sent \in Seq(Notices) /\ feed \in Seq(Notices)
  /\ dev \in Devices \cup {Null} /\ n \in 0..Samples
  /\ offset \in 0..Len(RemoteFile) /\ local \in Seq(Contents)
  /\ plugged \subseteq Devices /\ open \subseteq plugged /\ touched \subseteq Devices
Placed ==
  /\ pc # "start" => line = uclop__run(words)
  /\ pc \in {"subscribe", "loop", "handler"} => line.outcome = "run" /\ line.cmd \in Working
  /\ pc = "handler" => dev \in Devices /\ at \in DOMAIN Doing
Subscribed ==
  /\ pc \in {"start", "subscribe"} =>
       /\ queue = <<>> /\ sent = <<>> /\ feed = <<>> /\ offset = 0 /\ local = <<>>
       /\ open = {} /\ touched = {} /\ mishaps = {} /\ timer = FALSE
  /\ pc \in {"loop", "handler"} => onConnect = TRUE /\ onDisconnect = (line.cmd = "detectloop")
  /\ timer = TRUE => line.cmd = "list"

\* Unless closing failed or house arrest was refused, a session is open only
\* between the steps that open and close it.
ClosedAgain ==
  mishaps \cap {"down", "house"} = {} =>
    /\ pc = "loop" => open = {}
    /\ pc = "ended" /\ code # "crash" => open = {}
    /\ pc = "handler" => open \subseteq {dev} /\ (open # {} => Inside(Doing, at))

Runs == pc # "start" /\ line.outcome = "run"

\* Unless a request failed, the device of this callback is the first; a callback
\* uses it only behind the look for -id.
UsedAlone ==
  Runs /\ line.cmd # "detectloop" /\ "ask" \notin mishaps =>
    /\ touched \subseteq {dev}
    /\ pc = "loop" \/ (pc = "handler" /\ at = 1) => touched = {}
UsedAsAsked ==
  Runs =>
    /\ line.cmd = "list" => touched = {}
    /\ line.cmd # "install" => \A d \in touched : Asked(d)
    /\ pc = "handler" /\ at > 1 /\ line.cmd \notin {"install", "list"} => Asked(dev)

\* What is shown, what the callback is about to show and what waits are what was
\* sent of the types the command is for.
ShowAt == IF line.cmd = "list" THEN 1 ELSE 5
Feeding ==
  Runs /\ line.cmd \in {"list", "detectloop"} =>
    /\ pc = "loop" => feed \o For(queue) = For(sent)
    /\ pc = "handler" =>
         IF at <= ShowAt THEN feed \o <<Notice(1, dev)>> \o For(queue) = For(sent)
                         ELSE feed \o For(queue) = For(sent)

\* A download has the file up to its position, and ends of itself only behind it.
Downloading ==
  Runs /\ line.cmd = "dl" =>
    /\ mishaps \cap {"staleRead", "write"} = {} => local = SubSeq(RemoteFile, 1, offset)
    /\ mishaps \subseteq {"up", "down", "word"} =>
         /\ pc = "handler" /\ Doing[at].op = "exit" => offset = Len(RemoteFile)
         /\ code = "exit0" => offset = Len(RemoteFile)

IInv == Typed /\ Placed /\ Subscribed /\ ClosedAgain /\ UsedAlone /\ UsedAsAsked /\ Feeding /\ Downloading

-----------------------------------------------------------------------------
(* The words and the outcome.                                               *)

\* The command table's names.
LEMMA NamesOfCommands ==
  CommandNames \subseteq Working \cup Elsewhere \cup {"default", "version"}
<1> SUFFICES ASSUME NEW k \in DOMAIN CommandTable
             PROVE  CommandTable[k].name \in Working \cup Elsewhere \cup {"default", "version"}
  BY DEF CommandNames
<1>1. k \in 1..36
  BY DEF CommandTable
<1>2. /\ CommandTable[1].name = "default" /\ CommandTable[2].name = "log"
      /\ CommandTable[3].name = "list" /\ CommandTable[4].name = "detectloop"
      /\ CommandTable[5].name = "img" /\ CommandTable[6].name = "gas"
  BY DEF CommandTable
<1>3. /\ CommandTable[7].name = "syscfg" /\ CommandTable[8].name = "ps"
      /\ CommandTable[9].name = "btest" /\ CommandTable[10].name = "sysmon"
      /\ CommandTable[11].name = "smproclist" /\ CommandTable[12].name = "smsyslist"
  BY DEF CommandTable
<1>4. /\ CommandTable[13].name = "smcoallist" /\ CommandTable[14].name = "machtimeinfo"
      /\ CommandTable[15].name = "notices" /\ CommandTable[16].name = "battery"
      /\ CommandTable[17].name = "install" /\ CommandTable[18].name = "listapps"
  BY DEF CommandTable
<1>5. /\ CommandTable[19].name = "version" /\ CommandTable[20].name = "dl"
      /\ CommandTable[21].name = "launch" /\ CommandTable[22].name = "kill"
      /\ CommandTable[23].name = "tail" /\ CommandTable[24].name = "sysinfo"
  BY DEF CommandTable
<1>6. /\ CommandTable[25].name = "wda" /\ CommandTable[26].name = "cfa"
      /\ CommandTable[27].name = "dd" /\ CommandTable[28].name = "ddf"
      /\ CommandTable[29].name = "xctest" /\ CommandTable[30].name = "iserver"
  BY DEF CommandTable
<1>7. /\ CommandTable[31].name = "iosversion" /\ CommandTable[32].name = "mg"
      /\ CommandTable[33].name = "info" /\ CommandTable[34].name = "ls"
      /\ CommandTable[35].name = "ioreg" /\ CommandTable[36].name = "tunnel"
  BY DEF CommandTable
<1>8. k = 1 \/ k = 2 \/ k = 3 \/ k = 4 \/ k = 5 \/ k = 6 \/ k = 7 \/ k = 8 \/ k = 9
        \/ k = 10 \/ k = 11 \/ k = 12 \/ k = 13 \/ k = 14 \/ k = 15 \/ k = 16 \/ k = 17
        \/ k = 18 \/ k = 19 \/ k = 20 \/ k = 21 \/ k = 22 \/ k = 23 \/ k = 24 \/ k = 25
        \/ k = 26 \/ k = 27 \/ k = 28 \/ k = 29 \/ k = 30 \/ k = 31 \/ k = 32 \/ k = 33
        \/ k = 34 \/ k = 35 \/ k = 36
  BY <1>1
<1>9. QED BY <1>2, <1>3, <1>4, <1>5, <1>6, <1>7, <1>8 DEF Working, Elsewhere

\* Commands whose callbacks do not look for -id have no options.
LEMMA NoOptions ==
  ASSUME NEW cmd \in CommandNames, cmd \in Unfiltered
  PROVE  OptionTable[cmd] = <<>>
<1>1. /\ CommandTable[4].name = "detectloop" /\ CommandTable[6].name = "gas"
      /\ CommandTable[7].name = "syscfg" /\ CommandTable[16].name = "battery"
      /\ CommandTable[35].name = "ioreg"
  BY DEF CommandTable
<1>2. /\ CommandTable[4].opts = <<>> /\ CommandTable[6].opts = <<>> /\ CommandTable[7].opts = <<>>
      /\ CommandTable[16].opts = <<>> /\ CommandTable[35].opts = <<>>
  BY DEF CommandTable
<1>3. PICK k \in {4, 6, 7, 16, 35} : CommandTable[k].name = cmd
  BY <1>1 DEF Unfiltered
<1>4. k \in 1..36 /\ NameOf(k) = cmd /\ OptsOf(k) = <<>>
  <2>1. k \in 1..36 /\ CommandTable[k].opts = <<>>
    BY <1>2
  <2>2. QED BY <1>3, <2>1 DEF NameOf, OptsOf
<1>5. QED BY <1>4, TableHolds

\* A command line that is run names a command that has a callback here, or asks
\* for the version; a command without options is given no id.
LEMMA WordsThatRun ==
  ASSUME NEW argv \in CmdLines, NEW r, r = uclop__run(argv)
  PROVE  /\ r.outcome \in {"usage", "exit1", "run"}
         /\ r.outcome = "run" => r.cmd \in Working \cup {"version"}
         /\ r.outcome = "run" /\ r.cmd \in Unfiltered => ucmd__get(r.vals, "-id") = Null
<1> DEFINE named == argv # <<>> /\ argv[1] \notin DashWords
           cmd   == IF named THEN argv[1] ELSE "default"
           opts  == OptionTable[cmd]
           q     == ReadOptions(opts, argv, IF named THEN 2 ELSE 1)
           rest  == RestOf(argv, q.i)
           res(o) == [outcome |-> o, cmd |-> cmd, opts |-> opts, vals |-> q.vals,
                      argc |-> rest.argc, argv |-> rest.argv]
<1>1. r = IF cmd \notin CommandNames
          THEN [outcome |-> "usage", cmd |-> cmd, opts |-> <<>>, vals |-> <<>>, argc |-> 0,
                argv |-> <<>>]
          ELSE res(CASE ~q.known -> "exit1"
                     [] q.known /\ ~ucmd__ensure_required(opts, q.vals) -> "exit1"
                     [] OTHER -> IF cmd = "default" THEN "usage" ELSE "run")
  BY DEF uclop__run
<1>2. cmd \notin Elsewhere
  BY CommandsAssumption DEF Elsewhere
<1>3. opts = <<>> => "-id" \notin DOMAIN q.vals
  <2> SUFFICES ASSUME opts = <<>> PROVE "-id" \notin DOMAIN q.vals
    OBVIOUS
  <2> HIDE DEF opts, cmd
  <2>1. PICK first : first = IF named THEN 2 ELSE 1
    OBVIOUS
  <2>2. DOMAIN ReadOptions(opts, argv, first).vals = {x.name : x \in ToSet(opts)}
    BY DEF ReadOptions
  <2>3. ToSet(opts) = {}
    BY DEF ToSet
  <2>4. QED BY <2>1, <2>2, <2>3
<1> HIDE DEF q, opts, cmd, rest
<1>4. PICK o : o = CASE ~q.known -> "exit1"
                     [] q.known /\ ~ucmd__ensure_required(opts, q.vals) -> "exit1"
                     [] OTHER -> IF cmd = "default" THEN "usage" ELSE "run"
  OBVIOUS
<1>5. o \in {"usage", "exit1", "run"} /\ (o = "run" => cmd # "default")
  BY <1>4
<1>6. CASE cmd \notin CommandNames
  BY <1>1, <1>6
<1>7. CASE cmd \in CommandNames
  <2>1. r = res(o)
    BY <1>1, <1>4, <1>7
  <2>2. r.outcome = o /\ r.cmd = cmd /\ r.vals = q.vals
    BY <2>1
  <2>3. o = "run" => cmd \in Working \cup {"version"}
    BY <1>2, <1>5, <1>7, NamesOfCommands
  <2>4. cmd \in Unfiltered => opts = <<>>
    BY <1>7, NoOptions DEF opts
  <2>5. cmd \in Unfiltered => ucmd__get(q.vals, "-id") = Null
    BY <1>3, <2>4 DEF ucmd__get
  <2>6. QED BY <1>5, <2>2, <2>3, <2>5
<1>8. QED BY <1>6, <1>7

\* Every working command has a first step.
LEMMA FirstStep ==
  ASSUME NEW cmd \in Working
  PROVE  1 \in DOMAIN Callback(cmd)
<1>1. PICK u \in Nat, v \in Nat : Shaped(Callback(cmd), u, v)
  BY RowOf, RowShape, SpecialShapes, DownloadRow DEF FilteredRow
<1>2. QED BY <1>1, LenProperties DEF Shaped

-----------------------------------------------------------------------------
(* The first state.                                                         *)

\* Nothing is registered, shown or open at the start.
LEMMA InitInv == Init => IInv
<1> SUFFICES ASSUME Init PROVE IInv
  OBVIOUS
<1>1. Typed
  BY CommandsAssumption, LenProperties DEF Init, Typed
<1>2. Placed /\ Subscribed /\ ClosedAgain /\ UsedAlone /\ UsedAsAsked /\ Feeding /\ Downloading
  BY DEF Init, Placed, Subscribed, ClosedAgain, UsedAlone, UsedAsAsked, Feeding, Downloading, Runs
<1>3. QED BY <1>1, <1>2 DEF IInv

\* The words are read.
LEMMA ParseKeeps ==
  ASSUME IInv, Parse
  PROVE  IInv'
<1>0. Typed /\ Placed /\ Subscribed /\ pc = "start" /\ words \in CmdLines
  BY DEF IInv, Parse, Typed
<1>1. PICK r : r = uclop__run(words)
  OBVIOUS
<1>2. /\ r.outcome \in {"usage", "exit1", "run"}
      /\ r.outcome = "run" => r.cmd \in Working \cup {"version"}
  BY <1>0, <1>1, WordsThatRun
<1>3. /\ line' = r /\ words' = words
      /\ \/ pc' = "ended" /\ code' \in {"exit0", "exit1"} /\ (r.outcome # "run" \/ r.cmd = "version")
         \/ pc' = "subscribe" /\ code' = code /\ r.outcome = "run" /\ r.cmd \in Working
      /\ UNCHANGED <<queue, onConnect, onDisconnect, timer, dev, n, offset, local, plugged, sent,
                     open, feed, touched, mishaps>>
  BY <1>1, <1>2 DEF Parse, loopVars, outside
<1>4. Typed'
  BY <1>0, <1>3, CommandsAssumption DEF Typed
<1>5. Placed'
  BY <1>0, <1>1, <1>3 DEF Placed
<1>6. /\ queue = <<>> /\ sent = <<>> /\ feed = <<>> /\ offset = 0 /\ local = <<>>
      /\ open = {} /\ touched = {} /\ mishaps = {} /\ timer = FALSE
  BY <1>0 DEF Subscribed
<1>7. Subscribed'
  BY <1>3, <1>6 DEF Subscribed
<1>8. ClosedAgain' /\ UsedAlone' /\ UsedAsAsked' /\ Feeding'
  BY <1>3, <1>6 DEF ClosedAgain, UsedAlone, UsedAsAsked, Feeding, Runs
<1>9. Downloading'
  <2>1. SubSeq(RemoteFile, 1, 0) = <<>>
    BY CommandsAssumption, SubSeqEmpty
  <2>2. Runs' /\ line'.cmd = "dl" => pc' = "subscribe" /\ code' = code
    BY <1>3 DEF Runs
  <2>3. code = Null
    BY <1>0 DEF Typed
  <2>4. QED BY <1>3, <1>6, <2>1, <2>2, <2>3, CommandsAssumption DEF Downloading
<1>10. QED BY <1>4, <1>5, <1>7, <1>8, <1>9 DEF IInv

-----------------------------------------------------------------------------
(* The run loop and the outside.                                            *)

\* What is kept of a sequence is a sequence of the same kind.
LEMMA KeptIsSeq ==
  ASSUME NEW E, NEW s \in Seq(E), NEW types
  PROVE  OfTypes(s, types) \in Seq(E)
<1>0. Len(s) \in Nat /\ Len(s) \in 0..Len(s)
  BY LenProperties
<1>1. PICK f : IsKept(f, s, types, Len(s)) /\ OfTypes(s, types) = f[Len(s)]
  BY <1>0, KeptIs
<1>2. QED BY <1>0, <1>1, KeptType

\* The subscription: every device that is there is announced, or the program
\* ends.
LEMMA SubscribeKeeps ==
  ASSUME IInv, waitForConnect
  PROVE  IInv'
<1>0. Typed /\ Placed /\ Subscribed /\ ClosedAgain /\ UsedAlone /\ UsedAsAsked /\ Feeding
      /\ Downloading /\ pc = "subscribe"
  BY DEF IInv, waitForConnect
<1>1. /\ words' = words /\ line' = line /\ dev' = dev /\ n' = n /\ offset' = offset
      /\ local' = local /\ plugged' = plugged /\ open' = open /\ feed' = feed
      /\ touched' = touched /\ mishaps' = mishaps
      /\ onConnect' = TRUE /\ onDisconnect' = (line.cmd = "detectloop")
      /\ timer' = (line.cmd = "list")
  BY DEF waitForConnect, cli, loopVars, setupTimeout, waitForConnectDisconnect
<1>2. /\ queue = <<>> /\ sent = <<>> /\ feed = <<>> /\ offset = 0 /\ local = <<>>
      /\ open = {} /\ touched = {} /\ mishaps = {}
  BY <1>0 DEF Subscribed
<1>3. \/ pc' = "ended" /\ code' = "exit1" /\ queue' = queue /\ sent' = sent
      \/ pc' = "loop" /\ code' = code /\ queue' \in Seq(Notices) /\ sent' = queue'
  <2>1. CASE pc' = "ended" /\ code' = "exit1" /\ UNCHANGED <<queue, sent>>
    BY <2>1
  <2>2. ASSUME pc' = "loop", code' = code,
               NEW order \in [1..Cardinality(plugged) -> plugged],
               queue' = [k \in DOMAIN order |-> Notice(1, order[k])], sent' = queue'
        PROVE  pc' = "loop" /\ code' = code /\ queue' \in Seq(Notices) /\ sent' = queue'
    <3>1. PICK c \in Nat : c = Cardinality(plugged)
      BY <1>0, CommandsAssumption, FS_Subset, FS_CardinalityType DEF Typed
    <3>2. \A k \in 1..c : Notice(1, order[k]) \in Notices
      BY <1>0, <3>1 DEF Typed, Notice, Notices
    <3>3. queue' \in [1..c -> Notices]
      BY <2>2, <3>1, <3>2
    <3>4. QED BY <2>2, <3>1, <3>3, SMTT(30)
  <2>3. QED BY <2>1, <2>2 DEF waitForConnect
<1>4. Typed'
  BY <1>0, <1>1, <1>3, CommandsAssumption DEF Typed
<1>5. Placed'
  BY <1>0, <1>1, <1>3 DEF Placed
<1>6. Subscribed'
  BY <1>0, <1>1, <1>3 DEF Subscribed
<1>7. ClosedAgain' /\ UsedAlone' /\ UsedAsAsked'
  BY <1>1, <1>2, <1>3 DEF ClosedAgain, UsedAlone, UsedAsAsked, Runs
<1>8. Feeding'
  <2>1. PICK q, types : q = queue' /\ types = IF line.cmd = "list" THEN {1} ELSE {1, 2}
    OBVIOUS
  <2>2. pc' = "loop" => <<>> \o OfTypes(q, types) = OfTypes(q, types)
    BY <1>3, <2>1, KeptIsSeq, ConcatEmptySeq
  <2>3. For(queue)' = OfTypes(q, types) /\ (pc' = "loop" => For(sent)' = OfTypes(q, types))
    BY <1>1, <1>3, <2>1 DEF For
  <2>4. feed' = <<>>
    BY <1>1, <1>2
  <2>5. pc' # "handler"
    BY <1>3
  <2>6. QED BY <2>2, <2>3, <2>4, <2>5 DEF Feeding
<1>9. Downloading'
  <2>1. code' # "exit0" /\ pc' # "handler"
    BY <1>0, <1>3, CommandsAssumption DEF Typed
  <2>2. local' = SubSeq(RemoteFile, 1, offset)'
    <3>1. SubSeq(RemoteFile, 1, 0) = <<>>
      BY CommandsAssumption, SubSeqEmpty
    <3>2. QED BY <1>1, <1>2, <3>1
  <2>3. QED BY <2>1, <2>2 DEF Downloading
<1>10. QED BY <1>4, <1>5, <1>6, <1>7, <1>8, <1>9 DEF IInv

\* The timer's turn.
LEMMA TimeoutKeeps ==
  ASSUME IInv, onTimeout
  PROVE  IInv'
<1>0. Typed /\ Placed /\ Subscribed /\ ClosedAgain /\ UsedAlone /\ UsedAsAsked /\ Feeding
      /\ Downloading /\ pc = "loop" /\ timer
  BY DEF IInv, onTimeout
<1>1. /\ pc' = "ended" /\ code' = "exit0"
      /\ UNCHANGED <<words, line, queue, onConnect, onDisconnect, timer, dev, n, offset, local,
                     plugged, sent, open, feed, touched, mishaps>>
  BY DEF onTimeout, cli, loopVars, outside
<1>2. timer = TRUE => line.cmd = "list"
  BY <1>0 DEF Subscribed
<1>3. Typed'
  BY <1>0, <1>1, CommandsAssumption DEF Typed
<1>4. Placed' /\ Subscribed' /\ ClosedAgain' /\ UsedAlone' /\ UsedAsAsked' /\ Feeding'
  BY <1>0, <1>1, <1>2 DEF Placed, Subscribed, ClosedAgain, UsedAlone, UsedAsAsked, Feeding,
                          Runs, Asked
<1>5. Downloading'
  BY <1>0, <1>1, <1>2 DEF Downloading, Subscribed
<1>6. QED BY <1>3, <1>4, <1>5 DEF IInv

\* A notice between what is shown and what waits; named, like Appends.
Moved(p, h, q) == (p \o <<h>>) \o q = p \o (<<h>> \o q) /\ Append(p, h) = p \o <<h>>

\* Of a notice and two sequences of notices.
LEMMA NoticeMoves ==
  ASSUME NEW E, NEW p \in Seq(E), NEW h \in E, NEW q \in Seq(E)
  PROVE  Moved(p, h, q)
<1>1. <<h>> \in Seq(E)
  OBVIOUS
<1>2. (p \o <<h>>) \o q = p \o (<<h>> \o q)
  BY <1>1, ConcatAssociative
<1>3. Append(p, h) = p \o <<h>>
  BY AppendIsConcat
<1>4. QED BY <1>2, <1>3 DEF Moved

\* The run loop delivers a notice.
LEMMA NoticeKeeps ==
  ASSUME IInv, onNotice
  PROVE  IInv'
<1>0. Typed /\ Placed /\ Subscribed /\ ClosedAgain /\ UsedAlone /\ UsedAsAsked /\ Feeding
      /\ Downloading /\ pc = "loop" /\ queue # <<>>
  BY DEF IInv, onNotice
<1>1. PICK h, t : h = Head(queue) /\ t = Tail(queue)
  OBVIOUS
<1>2. PICK types : types = IF line.cmd = "list" THEN {1} ELSE {1, 2}
  OBVIOUS
<1>3. /\ queue \in Seq(Notices) /\ sent \in Seq(Notices) /\ feed \in Seq(Notices)
  BY <1>0 DEF Typed
<1>4. /\ h \in Notices /\ t \in Seq(Notices) /\ OfTypes(t, types) \in Seq(Notices)
      /\ OfTypes(queue, types) =
           IF h.type \in types THEN <<h>> \o OfTypes(t, types) ELSE OfTypes(t, types)
  BY <1>0, <1>1, <1>3, KeptOfRest
<1>5. h.type \in {1, 2, 3} /\ h.device \in Devices /\ h = [type |-> h.type, device |-> h.device]
  BY <1>4 DEF Notices
<1>6. /\ onConnect = TRUE /\ onDisconnect = (line.cmd = "detectloop")
      /\ line.outcome = "run" /\ line.cmd \in Working /\ code = Null
  BY <1>0 DEF Subscribed, Placed, Typed
<1>7. /\ queue' = t /\ UNCHANGED <<words, line, code, onConnect, onDisconnect, timer, n, offset,
                                   local, plugged, sent, open, touched, mishaps>>
  BY <1>1 DEF onNotice, cli, loopVars, outside
<1>8. \/ h.type = 1 /\ pc' = "handler" /\ dev' = h.device /\ at' = 1 /\ feed' = feed
      \/ h.type = 2 /\ line.cmd = "detectloop" /\ feed' = Append(feed, h) /\ UNCHANGED <<pc, dev, at>>
      \/ /\ h.type = 3 \/ (h.type = 2 /\ line.cmd # "detectloop")
         /\ UNCHANGED <<pc, dev, at, feed>>
  BY <1>1, <1>5, <1>6 DEF onNotice
<1>9. Append(feed, h) \in Seq(Notices)
  BY <1>3, <1>4, AppendProperties
<1>10. Typed'
  BY <1>0, <1>4, <1>5, <1>7, <1>8, <1>9 DEF Typed
<1>11. Placed'
  <2>1. 1 \in DOMAIN Callback(line.cmd)
    BY <1>6, FirstStep
  <2>2. Doing' = Callback(line.cmd)
    BY <1>7 DEF Doing
  <2>3. pc' \in {"loop", "handler"} /\ (pc' = "handler" => dev' \in Devices /\ at' = 1)
    BY <1>0, <1>5, <1>8
  <2>4. QED BY <1>0, <1>6, <1>7, <2>1, <2>2, <2>3 DEF Placed
<1>12. pc' \in {"loop", "handler"} /\ (pc' = "handler" => at' = 1)
  BY <1>0, <1>8
<1>13. Subscribed'
  BY <1>0, <1>6, <1>7, <1>12 DEF Subscribed
<1>14. ClosedAgain'
  BY <1>0, <1>7, <1>12 DEF ClosedAgain
<1>15. UsedAlone'
  BY <1>0, <1>7, <1>12 DEF UsedAlone, Runs
<1>16. UsedAsAsked'
  BY <1>0, <1>7, <1>12 DEF UsedAsAsked, Runs, Asked
<1>17. Feeding'
  <2> SUFFICES ASSUME line.cmd \in {"list", "detectloop"} PROVE Feeding'
    BY <1>7 DEF Feeding
  <2>1. feed \o OfTypes(queue, types) = OfTypes(sent, types)
    BY <1>0, <1>2, <1>6 DEF Feeding, Runs, For
  <2>2. For(queue)' = OfTypes(t, types) /\ For(sent)' = OfTypes(sent, types)
    BY <1>2, <1>7 DEF For
  <2>3. Moved(feed, h, OfTypes(t, types))
    BY <1>3, <1>4, NoticeMoves
  <2>4. ShowAt' = ShowAt /\ ShowAt \in {1, 5}
    BY <1>7 DEF ShowAt
  <2>5. CASE h.type = 1 /\ pc' = "handler" /\ dev' = h.device /\ at' = 1 /\ feed' = feed
    <3>1. Notice(1, dev)' = h
      BY <1>5, <2>5 DEF Notice
    <3>2. 1 \in types
      BY <1>2
    <3>3. (feed \o <<h>>) \o OfTypes(t, types) = OfTypes(sent, types)
      BY <1>4, <2>1, <2>3, <2>5, <3>2 DEF Moved
    <3>4. at' <= ShowAt'
      BY <2>4, <2>5
    <3>5. QED BY <2>2, <2>5, <3>1, <3>3, <3>4 DEF Feeding
  <2>6. CASE h.type = 2 /\ line.cmd = "detectloop" /\ feed' = Append(feed, h) /\ UNCHANGED <<pc, dev, at>>
    <3>1. 2 \in types
      BY <1>2, <2>6
    <3>2. feed' \o OfTypes(t, types) = OfTypes(sent, types)
      BY <1>4, <2>1, <2>3, <2>6, <3>1 DEF Moved
    <3>3. QED BY <1>0, <2>2, <2>6, <3>2 DEF Feeding
  <2>7. CASE /\ h.type = 3 \/ (h.type = 2 /\ line.cmd # "detectloop")
             /\ UNCHANGED <<pc, dev, at, feed>>
    <3>1. h.type \notin types
      BY <1>2, <2>7
    <3>2. QED BY <1>0, <1>4, <2>1, <2>2, <2>7, <3>1 DEF Feeding
  <2>8. QED BY <1>8, <2>5, <2>6, <2>7
<1>18. Downloading'
  <2> SUFFICES ASSUME line.cmd = "dl" PROVE Downloading'
    BY <1>7 DEF Downloading
  <2>1. Doing' = runGetFile /\ (pc' = "handler" => Doing'[at'] = Filter)
    BY <1>7, <1>12, RowStarts, RowOf, <1>6 DEF Doing, Unfiltered
  <2>2. Filter.op # "exit"
    BY StepKinds
  <2>3. Runs /\ code' = Null
    BY <1>0, <1>6, <1>7 DEF Runs
  <2>4. QED BY <1>0, <1>7, <2>1, <2>2, <2>3, CommandsAssumption DEF Downloading
<1>19. QED BY <1>10, <1>11, <1>13, <1>14, <1>15, <1>16, <1>17, <1>18 DEF IInv

\* A device comes or goes, or a subscription is dropped.
LEMMA PlugKeeps ==
  ASSUME IInv, NEW d \in Devices, Plug(d)
  PROVE  IInv'
<1>0. Typed /\ Placed /\ Subscribed /\ ClosedAgain /\ UsedAlone /\ UsedAsAsked /\ Feeding
      /\ Downloading /\ pc # "ended"
  BY DEF IInv, Plug
<1>1. PICK types : types = IF line.cmd = "list" THEN {1} ELSE {1, 2}
  OBVIOUS
<1>2. /\ queue \in Seq(Notices) /\ sent \in Seq(Notices) /\ feed \in Seq(Notices)
      /\ plugged \subseteq Devices /\ open \subseteq plugged
  BY <1>0 DEF Typed
<1>3. UNCHANGED <<words, line, pc, code, onConnect, onDisconnect, timer, dev, at, n, offset,
                  local, feed, touched, mishaps>>
  BY DEF Plug, cli, loopVars
<1>4. /\ plugged' \subseteq Devices /\ open' \subseteq plugged' /\ open' \subseteq open
      /\ \E type \in {1, 2, 3} : Announce(type, d)
  BY <1>2 DEF Plug
<1>5. PICK x \in Notices :
        IF pc \in {"loop", "handler"}
        THEN queue' = Append(queue, x) /\ sent' = Append(sent, x)
        ELSE UNCHANGED <<queue, sent>>
  <2>1. \A type \in {1, 2, 3} : Notice(type, d) \in Notices
    BY DEF Notice, Notices
  <2>2. QED BY <1>4, <2>1 DEF Announce
<1>6. queue' \in Seq(Notices) /\ sent' \in Seq(Notices)
  <2>1. Append(queue, x) \in Seq(Notices) /\ Append(sent, x) \in Seq(Notices)
    BY <1>2, AppendProperties
  <2>2. QED BY <1>2, <1>5, <2>1
<1>7. Typed'
  BY <1>0, <1>3, <1>4, <1>6 DEF Typed
<1>8. Placed' /\ UsedAlone' /\ UsedAsAsked'
  BY <1>0, <1>3 DEF Placed, UsedAlone, UsedAsAsked, Runs, Asked, Doing
<1>9. Subscribed'
  BY <1>0, <1>3, <1>4, <1>5 DEF Subscribed
<1>10. ClosedAgain'
  <2>1. Doing' = Doing
    BY <1>3 DEF Doing
  <2>2. Inside(Doing, at)' <=> Inside(Doing, at)
    BY <1>3, <2>1 DEF Inside
  <2>3. QED BY <1>0, <1>3, <1>4, <2>2 DEF ClosedAgain
<1>11. Feeding'
  <2> SUFFICES ASSUME line.cmd \in {"list", "detectloop"}, pc \in {"loop", "handler"}
               PROVE  Feeding'
    BY <1>3 DEF Feeding
  <2>1. PICK q, s : q = OfTypes(queue, types) /\ s = OfTypes(sent, types)
    OBVIOUS
  <2>2. /\ q \in Seq(Notices) /\ s \in Seq(Notices)
        /\ For(queue)' = IF x.type \in types THEN Append(q, x) ELSE q
        /\ For(sent)' = IF x.type \in types THEN Append(s, x) ELSE s
    <3>1. /\ OfTypes(queue, types) \in Seq(Notices)
          /\ OfTypes(Append(queue, x), types) =
               IF x.type \in types THEN Append(OfTypes(queue, types), x) ELSE OfTypes(queue, types)
      BY <1>2, KeptOfMore
    <3>2. /\ OfTypes(sent, types) \in Seq(Notices)
          /\ OfTypes(Append(sent, x), types) =
               IF x.type \in types THEN Append(OfTypes(sent, types), x) ELSE OfTypes(sent, types)
      BY <1>2, KeptOfMore
    <3>3. For(queue)' = OfTypes(queue', types) /\ For(sent)' = OfTypes(sent', types)
      BY <1>1, <1>3 DEF For
    <3>4. QED BY <1>5, <2>1, <3>1, <3>2, <3>3
  <2>3. Runs /\ For(queue) = q /\ For(sent) = s
    BY <1>0, <1>1, <2>1 DEF For, Runs, Placed
  <2>4. ASSUME NEW p \in Seq(Notices), p \o q = s
        PROVE  p \o For(queue)' = For(sent)'
    <3>1. Appends(p, q, x)
      BY <2>2, AppendBehind
    <3>2. QED BY <2>2, <2>4, <3>1 DEF Appends
  <2>5. ShowAt' = ShowAt /\ Notice(1, dev)' = Notice(1, dev)
    BY <1>3 DEF ShowAt, Notice
  <2>6. CASE pc = "loop"
    <3>1. feed \o q = s
      BY <1>0, <2>3, <2>6 DEF Feeding
    <3>2. QED BY <1>2, <1>3, <2>4, <2>6, <3>1 DEF Feeding
  <2>7. CASE pc = "handler" /\ at <= ShowAt
    <3>1. feed \o <<Notice(1, dev)>> \o q = s
      BY <1>0, <2>3, <2>7 DEF Feeding
    <3>2. Notice(1, dev) \in Notices
      BY <1>0, <2>7 DEF Placed, Notice, Notices
    <3>3. feed \o <<Notice(1, dev)>> \in Seq(Notices)
      BY <1>2, <3>2, ConcatProperties
    <3>4. feed \o <<Notice(1, dev)>> \o For(queue)' = For(sent)'
      BY <2>4, <3>1, <3>3
    <3>5. QED BY <1>3, <2>5, <2>7, <3>4 DEF Feeding
  <2>8. CASE pc = "handler" /\ ~(at <= ShowAt)
    <3>1. feed \o q = s
      BY <1>0, <2>3, <2>8 DEF Feeding
    <3>2. feed \o For(queue)' = For(sent)'
      BY <1>2, <2>4, <3>1
    <3>3. QED BY <1>3, <2>5, <2>8, <3>2 DEF Feeding
  <2>9. QED BY <2>6, <2>7, <2>8
<1>12. Downloading'
  <2>1. Doing' = Doing
    BY <1>3 DEF Doing
  <2>2. QED BY <1>0, <1>3, <2>1 DEF Downloading, Runs
<1>13. QED BY <1>7, <1>8, <1>9, <1>10, <1>11, <1>12 DEF IInv

-----------------------------------------------------------------------------
(* What a step of a callback does, whichever it is.                         *)

\* How the callback goes on: to the next step, over some, with the same step
\* again, back to the run loop, or not at all.
Onward ==
  /\ at' = at + 1 /\ UNCHANGED <<pc, code>> /\ step.op \notin Final
  /\ step.op = "filter" => Asked(dev)
  /\ step.op = "fetch" => (offset = Len(RemoteFile) /\ offset' = offset) \/ "read" \in mishaps'
Skips == step.op = "noWords" /\ at' = step.to /\ UNCHANGED <<pc, code>>
Stays == step.op \in {"listen", "sample", "fetch"} /\ UNCHANGED <<pc, code, at>>
Leaves ==
  /\ pc' = "loop" /\ code' = code
  /\ \/ step.op \in {"filter", "return"}
     \/ "ask" \in mishaps' /\ step.op \in {"listen", "sample"}
     \/ "ask" \in mishaps' /\ step.op = "ask" /\ step.miss = "return"
Stops ==
  /\ pc' = "ended" /\ code' \in {"exit0", "exit1", "crash"}
  /\ \/ code' = "crash" \/ step.op = "exit"
     \/ code' = "exit1" /\ step.op \in {"need", "found"}
     \/ "ask" \in mishaps' /\ step.op = "ask" /\ step.miss = code'
     \/ "house" \in mishaps' /\ step.op = "house"
     \/ "check" \in mishaps' /\ step.op = "check"

\* What it may change of a download.
Fetches ==
  \/ UNCHANGED <<offset, local>>
  \/ /\ step.op = "fetch" /\ offset < Len(RemoteFile) /\ offset' = offset + 1
     /\ local' = Put(RemoteFile[offset + 1]) \/ (local' = local /\ "write" \in mishaps')
  \/ /\ step.op = "fetch" /\ offset' = offset /\ "staleRead" \in mishaps'
     /\ local' = Put(IF offset = 0 THEN Null ELSE RemoteFile[offset])

Effect ==
  /\ pc = "handler" /\ Quiet /\ dev' = dev /\ mishaps \subseteq mishaps' /\ n' \in 0..Samples
  /\ Onward \/ Skips \/ Stays \/ Leaves \/ Stops
  /\ Fetches
  /\ touched' = IF step.op = "up" THEN touched \cup {dev} ELSE touched
  /\ feed' = IF step.op = "show" THEN Append(feed, Notice(1, dev)) ELSE feed
  /\ \/ step.op \notin {"up", "down"} /\ open' = open
     \/ step.op \in {"up", "down"} /\ Stops /\ open' = open
     \/ step.op = "up" /\ Onward /\ (open' = open \/ (dev \in plugged /\ open' = open \cup {dev}))
     \/ step.op = "down" /\ Onward /\ (open' = open \ {dev} \/ (open' = open /\ "down" \in mishaps'))
  /\ step.op = "show" => Onward

\* What there is to know of the step a callback is on.
LEMMA StepFacts ==
  ASSUME IInv, pc = "handler"
  PROVE  /\ Typed /\ line.cmd \in Working /\ line.outcome = "run" /\ code = Null
         /\ at \in DOMAIN Doing /\ step = Doing[at] /\ step \in Steps
         /\ at \in Nat /\ at >= 1 /\ dev \in Devices
         /\ step.op = "ask" => step.miss \in Misses
         /\ step.op = "start" => step.miss \in {"report", "go"}
         /\ step.op = "check" => step.miss \in {"exit0", "exit1", "crash"}
         /\ step.op = "listen" => step.miss \in {"return", "go"}
         /\ step.op = "exit" => step.c \in {"exit0", "exit1"}
<1>1. Typed /\ Placed
  BY DEF IInv
<1>2. /\ line.cmd \in Working /\ line.outcome = "run" /\ code = Null /\ dev \in Devices
      /\ at \in DOMAIN Callback(line.cmd)
  BY <1>1 DEF Typed, Placed, Doing
<1>3. PICK cmd, k : cmd = line.cmd /\ k = at
  OBVIOUS
<1>4. Callback(cmd)[k] \in Steps /\ k \in Nat /\ k >= 1
  BY <1>2, <1>3, Moves
<1>5. step = Callback(cmd)[k] /\ Doing = Callback(cmd)
  BY <1>3 DEF step, Doing
<1>6. \A x \in Steps : /\ x.op = "ask" => x.miss \in Misses
                       /\ x.op = "start" => x.miss \in {"report", "go"}
                       /\ x.op = "check" => x.miss \in {"exit0", "exit1", "crash"}
                       /\ x.op = "listen" => x.miss \in {"return", "go"}
                       /\ x.op = "exit" => x.c \in {"exit0", "exit1"}
  BY StepKinds
<1>7. QED BY <1>1, <1>2, <1>3, <1>4, <1>5, <1>6

\* Every callback action is such a step.
LEMMA CallbackEffect ==
  ASSUME IInv, Callbacks
  PROVE  Effect
<1>0. pc = "handler"
  BY DEF Callbacks, LocalSteps, Requests, desired_device, UseWord, CountWords, LocalCheck, Connect,
         Disconnect, StartService, UseValue, Request, TellDevice, houseArrest, LookFor, ListenOn,
         TakeSample, ReadBlock, ShowDevice, EndCallback, InStep
<1>1. /\ step.op = "ask" => step.miss \in Misses
      /\ step.op = "start" => step.miss \in {"report", "go"}
      /\ step.op = "check" => step.miss \in {"exit0", "exit1", "crash"}
      /\ step.op = "listen" => step.miss \in {"return", "go"}
      /\ step.op = "exit" => step.c \in {"exit0", "exit1"}
      /\ n \in 0..Samples /\ Samples \in Nat
  BY <1>0, StepFacts, CommandsAssumption DEF Typed
<1> USE DEF InStep, Goto, GoOn, Leave, Stop, Mishap, loopVars
<1>2. CASE desired_device
  <2>1. ucmd__get(line.vals, "-id") \in {Null, dev} <=> Asked(dev)
    BY DEF Asked
  <2>2. Onward \/ Leaves
    BY <1>2, <2>1 DEF desired_device, Onward, Leaves, Final
  <2>3. QED BY <1>0, <1>1, <1>2, <2>2 DEF desired_device, Effect, Fetches
<1>3. CASE UseWord
  <2>1. Onward \/ Stops
    BY <1>3 DEF UseWord, Onward, Stops, Final
  <2>2. QED BY <1>0, <1>1, <1>3, <2>1 DEF UseWord, Effect, Fetches
<1>4. CASE CountWords
  <2>1. Onward \/ Skips \/ Stops
    BY <1>4 DEF CountWords, Onward, Skips, Stops, Final
  <2>2. QED BY <1>0, <1>1, <1>4, <2>1 DEF CountWords, Effect, Fetches
<1>5. CASE Connect
  <2>1. /\ step.op = "up" /\ Quiet /\ UNCHANGED <<dev, n, offset, local, feed>>
        /\ touched' = touched \cup {dev}
    BY <1>5 DEF Connect
  <2>2. mishaps \subseteq mishaps'
    BY <1>5 DEF Connect, Reported
  <2>3. \/ Stops /\ open' = open
        \/ Onward /\ (open' = open \/ (dev \in plugged /\ open' = open \cup {dev}))
    BY <1>5 DEF Connect, Reported, Onward, Stops, Final
  <2>4. QED BY <1>0, <1>1, <2>1, <2>2, <2>3 DEF Effect, Fetches
<1>6. CASE Disconnect
  <2>1. step.op = "down" /\ Quiet /\ UNCHANGED <<dev, n, offset, local, feed, touched>>
    BY <1>6 DEF Disconnect
  <2>2. mishaps \subseteq mishaps'
    BY <1>6 DEF Disconnect, Reported
  <2>3. \/ Stops /\ open' = open
        \/ Onward /\ (open' = open \ {dev} \/ (open' = open /\ "down" \in mishaps'))
    BY <1>6 DEF Disconnect, Reported, Onward, Stops, Final
  <2>4. QED BY <1>0, <1>1, <2>1, <2>2, <2>3 DEF Effect, Fetches
<1>7. CASE StartService
  <2>1. Onward \/ Stops
    BY <1>1, <1>7 DEF StartService, Fails, Reported, Missed, Onward, Stops, Final
  <2>2. mishaps \subseteq mishaps'
    BY <1>7 DEF StartService, Fails, Reported
  <2>3. QED BY <1>0, <1>1, <1>7, <2>1, <2>2 DEF StartService, Effect, Fetches
<1>8. CASE Request
  <2>1. Missed(step.miss) /\ step.miss # "report" /\ "ask" \in mishaps' =>
          Onward \/ Leaves \/ Stops
    BY <1>1, <1>8 DEF Request, Missed, Misses, Onward, Leaves, Stops, Final
  <2>2. Reported("ask") => Onward \/ Stops
    BY <1>8 DEF Request, Reported, Onward, Stops, Final
  <2>3. Onward \/ Leaves \/ Stops
    BY <1>8, <2>1, <2>2 DEF Request, Fails, Onward, Stops, Final
  <2>4. mishaps \subseteq mishaps'
    BY <1>8 DEF Request, Fails, Reported
  <2>5. QED BY <1>0, <1>1, <1>8, <2>3, <2>4 DEF Request, Effect, Fetches
<1>9. CASE houseArrest
  <2>1. Onward \/ Stops
    BY <1>9 DEF houseArrest, Onward, Stops, Final
  <2>2. QED BY <1>0, <1>1, <1>9, <2>1 DEF houseArrest, Effect, Fetches
<1>10. CASE LookFor
  <2>1. Onward \/ Stops
    BY <1>10 DEF LookFor, Onward, Stops, Final
  <2>2. QED BY <1>0, <1>1, <1>10, <2>1 DEF LookFor, Effect, Fetches
<1>11. CASE ListenOn
  <2>1. Leaves \/ Stays \/ Stops
    BY <1>11 DEF ListenOn, Leaves, Stays, Stops
  <2>2. QED BY <1>0, <1>1, <1>11, <2>1 DEF ListenOn, Effect, Fetches
<1>12. CASE TakeSample
  <2>1. Onward \/ Stays \/ Leaves
    BY <1>12 DEF TakeSample, Onward, Stays, Leaves, Final
  <2>2. n' \in 0..Samples
    BY <1>1, <1>12 DEF TakeSample
  <2>3. QED BY <1>0, <1>12, <2>1, <2>2 DEF TakeSample, Effect, Fetches
<1>13. CASE ReadBlock
  <2>1. Onward \/ Stays
    BY <1>13 DEF ReadBlock, Onward, Stays, Final
  <2>2. Fetches
    BY <1>13 DEF ReadBlock, Fetches
  <2>3. QED BY <1>0, <1>1, <1>13, <2>1, <2>2 DEF ReadBlock, Effect
<1>14. CASE ShowDevice
  <2>1. Onward
    BY <1>14 DEF ShowDevice, Onward, Final
  <2>2. QED BY <1>0, <1>1, <1>14, <2>1 DEF ShowDevice, Effect, Fetches
<1>15. CASE EndCallback
  <2>1. Leaves \/ Stops
    BY <1>1, <1>15 DEF EndCallback, Leaves, Stops
  <2>2. QED BY <1>0, <1>1, <1>15, <2>1 DEF EndCallback, Effect, Fetches
<1>16. CASE LocalCheck
  <2>1. Onward \/ Stops
    BY <1>1, <1>16 DEF LocalCheck, Onward, Stops, Final
  <2>2. QED BY <1>0, <1>1, <1>16, <2>1 DEF LocalCheck, Effect, Fetches
<1>17. CASE UseValue
  <2>1. Onward \/ Stops
    BY <1>17 DEF UseValue, Onward, Stops, Final
  <2>2. QED BY <1>0, <1>1, <1>17, <2>1 DEF UseValue, Effect, Fetches
<1>18. CASE TellDevice
  <2>1. Onward
    BY <1>18 DEF TellDevice, Onward, Final
  <2>2. QED BY <1>0, <1>1, <1>18, <2>1 DEF TellDevice, Effect, Fetches
<1>19. QED BY <1>2, <1>3, <1>4, <1>5, <1>6, <1>7, <1>8, <1>9, <1>10, <1>11, <1>12, <1>13, <1>14,
              <1>15, <1>16, <1>17, <1>18 DEF Callbacks, LocalSteps, Requests

\* Nothing that a callback's step is decided by changes under it.
LEMMA EffectBasics ==
  ASSUME IInv, Effect
  PROVE  /\ UNCHANGED <<words, line, queue, onConnect, onDisconnect, timer, plugged, sent, dev>>
         /\ Doing' = Doing /\ pc' \in {"handler", "loop", "ended"}
         /\ pc' = "handler" => Onward \/ Skips \/ Stays
         /\ \A d : Asked(d)' <=> Asked(d)
<1>1. UNCHANGED <<words, line, queue, onConnect, onDisconnect, timer, plugged, sent, dev>>
  BY DEF Effect, Quiet, cli, outside
<1>2. pc' \in {"handler", "loop", "ended"} /\ (pc' = "handler" => Onward \/ Skips \/ Stays)
  BY DEF Effect, Onward, Skips, Stays, Leaves, Stops
<1>3. QED BY <1>1, <1>2 DEF Doing, Asked

\* The callback lands on a step of its own, in the session exactly if it was in
\* it or opened it; what leaves the callback is outside.
LEMMA Lands ==
  ASSUME IInv, Effect
  PROVE  /\ pc' = "handler" => at' \in DOMAIN Doing
         /\ pc' = "handler" /\ Inside(Doing, at) /\ step.op # "down" => Inside(Doing, at')
         /\ pc' = "handler" /\ step.op = "up" => Inside(Doing, at')
         /\ pc' # "handler" /\ Inside(Doing, at) /\ code' # "crash" =>
              "house" \in mishaps'
         /\ pc' = "handler" => at' # 1 \/ (Stays /\ at = 1)
<1>0. PICK cmd, k, row : cmd = line.cmd /\ k = at /\ row = Doing
  OBVIOUS
<1>1. /\ cmd \in Working /\ k \in DOMAIN row /\ row = Callback(cmd) /\ step = row[k]
      /\ k \in Nat /\ k >= 1 /\ pc = "handler" /\ code = Null
  BY <1>0, StepFacts DEF Effect, Doing
<1>2. /\ row[k] \in Steps /\ 1 \in DOMAIN row
      /\ row[k].op \notin Final => k + 1 \in DOMAIN row
      /\ row[k].op = "up" => Inside(row, k + 1)
      /\ Inside(row, k) /\ row[k].op \notin {"down", "noWords"} =>
           row[k] \in InnerSteps /\ Inside(row, k + 1)
      /\ row[k].op = "noWords" =>
           /\ row[k].to \in DOMAIN row /\ Inside(row, row[k].to) /\ Inside(row, k + 1)
      /\ ~Inside(row, 1)
  BY <1>1, Moves
<1>3. row[k] \in InnerSteps => /\ row[k].op \in {"start", "house", "serve", "tell", "use", "ask"}
                               /\ row[k].op = "ask" => row[k].miss = "crash"
  BY StepKinds
<1>4. CASE Onward
  BY <1>0, <1>1, <1>2, <1>4 DEF Onward
<1>5. CASE Skips
  BY <1>0, <1>1, <1>2, <1>5 DEF Skips
<1>6. CASE Stays
  <2>1. step.op \notin {"up", "noWords"} /\ at' = at /\ pc' = "handler"
    BY <1>1, <1>6 DEF Stays
  <2>2. QED BY <1>0, <1>1, <1>6, <2>1
<1>7. CASE Leaves
  <2>1. Inside(row, k) => row[k].op \in {"down", "noWords", "start", "house", "serve", "tell", "use", "ask"}
    BY <1>2, <1>3
  <2>2. pc' = "loop" /\ (Inside(row, k) => row[k].op = "ask" /\ row[k].miss = "return")
    BY <1>1, <1>7, <2>1 DEF Leaves
  <2>3. Inside(row, k) => FALSE
    BY <1>2, <1>3, <2>2
  <2>4. QED BY <1>0, <2>2, <2>3
<1>8. CASE Stops
  <2>1. ASSUME Inside(row, k), code' # "crash" PROVE "house" \in mishaps'
    <3>1. row[k].op \in {"down", "noWords", "start", "house", "serve", "tell", "use", "ask"}
      BY <1>2, <1>3, <2>1
    <3>2. "house" \in mishaps' \/ (row[k].op = "ask" /\ row[k].miss = code')
      BY <1>1, <1>8, <2>1, <3>1 DEF Stops
    <3>3. row[k].op = "ask" => row[k].miss = "crash"
      BY <1>2, <1>3, <2>1
    <3>4. code' \in {"exit0", "exit1", "crash"}
      BY <1>8 DEF Stops
    <3>5. QED BY <2>1, <3>2, <3>3, <3>4
  <2>2. pc' = "ended"
    BY <1>8 DEF Stops
  <2>3. QED BY <1>0, <2>1, <2>2
<1>9. QED BY <1>4, <1>5, <1>6, <1>7, <1>8 DEF Effect

-----------------------------------------------------------------------------
(* A step of a callback keeps the invariant, part by part.                  *)

\* The types, the callback's place, and what was registered.
LEMMA EffectKeepsShape ==
  ASSUME IInv, Effect
  PROVE  Typed' /\ Placed' /\ Subscribed'
<1>0. Typed /\ Placed /\ Subscribed /\ pc = "handler"
  BY DEF IInv, Effect
<1>1. /\ UNCHANGED <<words, line, queue, onConnect, onDisconnect, timer, plugged, sent, dev>>
      /\ Doing' = Doing /\ pc' \in {"handler", "loop", "ended"}
  BY EffectBasics
<1>2. /\ line.cmd \in Working /\ line.outcome = "run" /\ code = Null /\ dev \in Devices
  BY <1>0, StepFacts
<1>3. code' \in {Null, "exit0", "exit1", "crash"} /\ (pc' = "ended" <=> code' # Null)
  <2>1. Null \notin {"exit0", "exit1", "crash"}
    BY CommandsAssumption
  <2>2. QED BY <1>0, <1>2, <2>1 DEF Effect, Onward, Skips, Stays, Leaves, Stops
<1>4. offset' \in 0..Len(RemoteFile) /\ local' \in Seq(Contents)
  <2>1. offset \in 0..Len(RemoteFile) /\ local \in Seq(Contents) /\ Len(RemoteFile) \in Nat
    BY <1>0, CommandsAssumption, LenProperties DEF Typed
  <2>2. \A b \in Contents : Put(b) \in Seq(Contents)
    BY <2>1, AppendProperties DEF Put
  <2>3. CASE UNCHANGED <<offset, local>>
    BY <2>1, <2>3
  <2>4. CASE /\ step.op = "fetch" /\ offset < Len(RemoteFile) /\ offset' = offset + 1
             /\ local' = Put(RemoteFile[offset + 1]) \/ (local' = local /\ "write" \in mishaps')
    <3>1. offset + 1 \in 1..Len(RemoteFile)
      BY <2>1, <2>4
    <3>2. RemoteFile[offset + 1] \in Contents
      BY <3>1, CommandsAssumption, ElementOfSeq DEF Contents
    <3>3. QED BY <2>1, <2>2, <2>4, <3>1, <3>2
  <2>5. CASE /\ step.op = "fetch" /\ offset' = offset /\ "staleRead" \in mishaps'
             /\ local' = Put(IF offset = 0 THEN Null ELSE RemoteFile[offset])
    <3>1. offset # 0 => offset \in 1..Len(RemoteFile)
      BY <2>1
    <3>2. offset # 0 => RemoteFile[offset] \in Contents
      BY <3>1, CommandsAssumption, ElementOfSeq DEF Contents
    <3>3. (IF offset = 0 THEN Null ELSE RemoteFile[offset]) \in Contents
      BY <3>2 DEF Contents
    <3>4. QED BY <2>1, <2>2, <2>5, <3>3
  <2>6. QED BY <2>3, <2>4, <2>5 DEF Effect, Fetches
<1>5. feed' \in Seq(Notices)
  <2>1. Notice(1, dev) \in Notices /\ feed \in Seq(Notices)
    BY <1>0, <1>2 DEF Notice, Notices, Typed
  <2>2. Append(feed, Notice(1, dev)) \in Seq(Notices)
    BY <2>1, AppendProperties
  <2>3. QED BY <2>1, <2>2 DEF Effect
<1>6. open' \subseteq plugged /\ touched' \subseteq Devices /\ n' \in 0..Samples
  BY <1>0, <1>2 DEF Effect, Typed
<1>7. Typed'
  BY <1>0, <1>1, <1>3, <1>4, <1>5, <1>6 DEF Typed
<1>8. Placed'
  BY <1>0, <1>1, <1>2, Lands DEF Placed
<1>9. Subscribed'
  BY <1>0, <1>1 DEF Subscribed
<1>10. QED BY <1>7, <1>8, <1>9

\* A session is left open only where closing failed or house arrest was refused.
LEMMA EffectKeepsClosed ==
  ASSUME IInv, Effect
  PROVE  ClosedAgain'
<1> SUFFICES ASSUME mishaps' \cap {"down", "house"} = {} PROVE ClosedAgain'
  BY DEF ClosedAgain
<1>1. pc = "handler" /\ mishaps \cap {"down", "house"} = {} /\ dev' = dev /\ Doing' = Doing
  BY EffectBasics DEF Effect
<1>2. open \subseteq {dev} /\ (open # {} => Inside(Doing, at))
  BY <1>1 DEF IInv, ClosedAgain
<1>3. open' \subseteq {dev}
  BY <1>2 DEF Effect
<1>4. CASE pc' = "handler"
  <2>1. open' # {} => Inside(Doing, at')
    <3>1. CASE step.op = "down"
      BY <1>1, <1>2, <1>4, <3>1 DEF Effect, Stops
    <3>2. CASE step.op = "up"
      BY <1>4, <3>2, Lands
    <3>3. CASE step.op \notin {"up", "down"}
      BY <1>2, <1>4, <3>3, Lands DEF Effect
    <3>4. QED BY <3>1, <3>2, <3>3
  <2>2. Inside(Doing, at)' <=> Inside(Doing, at')
    BY <1>1 DEF Inside
  <2>3. QED BY <1>1, <1>3, <1>4, <2>1, <2>2 DEF ClosedAgain
<1>5. CASE pc' # "handler"
  <2>1. ~Onward
    BY <1>1, <1>5 DEF Onward
  <2>2. open' = open
    BY <2>1 DEF Effect
  <2>3. code' # "crash" => open = {}
    BY <1>1, <1>2, <1>5, Lands
  <2>4. pc' = "loop" => code' # "crash"
    <3>1. pc' = "loop" => code' = code
      BY <1>1 DEF Effect, Onward, Skips, Stays, Leaves, Stops
    <3>2. code = Null /\ Null # "crash"
      BY <1>1, StepFacts, CommandsAssumption
    <3>3. QED BY <3>1, <3>2
  <2>5. QED BY <1>5, <2>2, <2>3, <2>4 DEF ClosedAgain
<1>6. QED BY <1>4, <1>5

\* A callback that does not begin with the look for -id is install's, list's,
\* or works with the device whose notice came, no id being given.
LEMMA AskedBehindFilter ==
  ASSUME IInv, pc = "handler", line.cmd \notin {"install", "list"}, step.op # "filter"
  PROVE  Asked(dev)
<1>1. UsedAsAsked /\ Placed /\ Typed
  BY DEF IInv
<1>2. line.cmd \in Working /\ line.outcome = "run" /\ at \in Nat /\ at >= 1 /\ step = Doing[at]
  BY StepFacts
<1>3. CASE at > 1
  BY <1>1, <1>2, <1>3 DEF UsedAsAsked, Runs
<1>4. CASE at = 1
  <2>1. Callback(line.cmd)[1] # Filter
    BY <1>2, <1>4, StepKinds DEF Doing
  <2>2. line.cmd \in Unfiltered
    BY <1>2, <2>1, RowStarts
  <2>3. line = uclop__run(words) /\ words \in CmdLines
    BY <1>1 DEF Placed, Typed
  <2>4. ucmd__get(line.vals, "-id") = Null
    BY <1>2, <2>2, <2>3, WordsThatRun
  <2>5. QED BY <2>4 DEF Asked
<1>5. QED BY <1>2, <1>3, <1>4

\* Which devices were used, and that they are those asked for.
LEMMA EffectKeepsUse ==
  ASSUME IInv, Effect
  PROVE  UsedAlone' /\ UsedAsAsked'
<1>0. UsedAlone /\ UsedAsAsked /\ pc = "handler" /\ line.outcome = "run"
  BY StepFacts DEF IInv, Effect
<1>1. /\ line' = line /\ dev' = dev /\ Doing' = Doing /\ \A d : Asked(d)' <=> Asked(d)
      /\ pc' \in {"handler", "loop", "ended"} /\ mishaps \subseteq mishaps'
      /\ touched' = IF step.op = "up" THEN touched \cup {dev} ELSE touched
      /\ Runs
  BY <1>0, EffectBasics DEF Effect, Runs
<1>2. line.cmd = "list" => step.op \notin {"up", "filter"}
  <2> SUFFICES ASSUME line.cmd = "list" PROVE step.op \notin {"up", "filter"}
    OBVIOUS
  <2>1. Doing = runList /\ DOMAIN runList = 1 .. 2
    BY RowOf, ListRow, LenProperties DEF Doing, Working
  <2>2. at \in 1 .. 2 /\ step = runList[at]
    BY <1>0, <2>1, StepFacts
  <2>3. QED BY <2>2, ListRow, StepKinds
<1>3. UsedAsAsked'
  <2>1. line.cmd = "list" => touched' = {}
    BY <1>0, <1>1, <1>2 DEF UsedAsAsked
  <2>2. line.cmd # "install" => \A d \in touched' : Asked(d)
    <3>1. CASE step.op = "up" /\ line.cmd \notin {"install", "list"}
      BY <1>0, <1>1, <3>1, AskedBehindFilter DEF UsedAsAsked
    <3>2. CASE ~(step.op = "up" /\ line.cmd \notin {"install", "list"})
      BY <1>0, <1>1, <1>2, <3>2 DEF UsedAsAsked
    <3>3. QED BY <3>1, <3>2
  <2>3. pc' = "handler" /\ at' > 1 /\ line.cmd \notin {"install", "list"} => Asked(dev)
    <3> SUFFICES ASSUME pc' = "handler", at' > 1, line.cmd \notin {"install", "list"}
                 PROVE  Asked(dev)
      OBVIOUS
    <3>1. CASE step.op = "filter"
      <4>1. Onward
        BY <1>0, <3>1, EffectBasics DEF Skips, Stays
      <4>2. QED BY <3>1, <4>1 DEF Onward
    <3>2. CASE step.op # "filter"
      BY <1>0, <3>2, AskedBehindFilter
    <3>3. QED BY <3>1, <3>2
  <2>4. QED BY <1>1, <2>1, <2>2, <2>3 DEF UsedAsAsked
<1>4. UsedAlone'
  <2> SUFFICES ASSUME line.cmd # "detectloop", "ask" \notin mishaps' PROVE UsedAlone'
    BY <1>1 DEF UsedAlone
  <2>1. touched \subseteq {dev} /\ (at = 1 => touched = {})
    BY <1>0, <1>1 DEF UsedAlone
  <2>2. touched' \subseteq {dev}
    BY <1>1, <2>1
  <2>3. pc' = "loop" => touched' = {}
    <3> SUFFICES ASSUME pc' = "loop" PROVE touched' = {}
      OBVIOUS
    <3>1. Leaves
      BY <1>0 DEF Effect, Onward, Skips, Stays, Stops
    <3>2. step.op \in {"filter", "return"}
      BY <3>1 DEF Leaves
    <3>3. CASE step.op = "filter"
      <4>1. at = 1
        <5>1. PICK cmd, k : cmd = line.cmd /\ k = at
          OBVIOUS
        <5>2. cmd \in Working /\ k \in DOMAIN Callback(cmd) /\ Callback(cmd)[k].op = "filter"
          BY <1>0, <3>3, <5>1, StepFacts DEF Doing
        <5>3. k = 1
          BY <5>2, Moves
        <5>4. QED BY <5>1, <5>3
      <4>2. QED BY <1>1, <2>1, <3>3, <4>1
    <3>4. CASE step.op = "return"
      <4>1. line.cmd = "list"
        <5>1. PICK cmd, k : cmd = line.cmd /\ k = at
          OBVIOUS
        <5>2. cmd \in Working /\ k \in DOMAIN Callback(cmd) /\ Callback(cmd)[k].op = "return"
          BY <1>0, <3>4, <5>1, StepFacts DEF Doing
        <5>3. cmd \in {"list", "detectloop"}
          BY <5>2, Showing
        <5>4. QED BY <5>1, <5>3
      <4>2. QED BY <1>0, <1>1, <3>4, <4>1 DEF UsedAsAsked
    <3>5. QED BY <3>2, <3>3, <3>4
  <2>4. pc' = "handler" /\ at' = 1 => touched' = {}
    <3> SUFFICES ASSUME pc' = "handler", at' = 1 PROVE touched' = {}
      OBVIOUS
    <3>1. Stays /\ at = 1
      BY Lands
    <3>2. QED BY <1>1, <2>1, <3>1 DEF Stays
  <2>5. QED BY <1>1, <2>2, <2>3, <2>4 DEF UsedAlone
<1>5. QED BY <1>3, <1>4

\* What list and detectloop show, with the notice the callback is for.
LEMMA EffectKeepsFeed ==
  ASSUME IInv, Effect
  PROVE  Feeding'
<1> SUFFICES ASSUME line.cmd \in {"list", "detectloop"} PROVE Feeding'
  BY EffectBasics DEF Feeding
<1>0. Feeding /\ Typed /\ pc = "handler" /\ Runs /\ at \in Nat /\ dev \in Devices
  BY StepFacts DEF IInv, Effect, Runs
<1>1. /\ UNCHANGED <<line, queue, sent, dev>> /\ pc' \in {"handler", "loop", "ended"}
      /\ feed' = IF step.op = "show" THEN Append(feed, Notice(1, dev)) ELSE feed
      /\ pc' = "handler" => Onward \/ Skips \/ Stays
      /\ step.op = "show" => Onward
  BY EffectBasics DEF Effect
<1>2. /\ step.op = "show" <=> at = ShowAt
      /\ step.op = "return" => at > ShowAt
      /\ step.op \notin {"noWords", "filter", "listen", "sample", "fetch"}
      /\ step.op = "ask" => step.miss # "return"
      /\ ShowAt \in Nat
  <2>1. CASE line.cmd = "list"
    <3>1. Doing = runList /\ DOMAIN runList = 1 .. 2 /\ ShowAt = 1
      BY <2>1, RowOf, ListRow, LenProperties DEF Doing, Working, ShowAt
    <3>2. at \in 1 .. 2 /\ step = runList[at]
      BY <1>0, <3>1, StepFacts
    <3>3. (at = 1 /\ step = Show) \/ (at = 2 /\ step = Return)
      BY <3>2, ListRow
    <3>4. QED BY <3>1, <3>3, StepKinds
  <2>2. CASE line.cmd = "detectloop"
    <3>1. Doing = detectConnect /\ DOMAIN detectConnect = 1 .. 6 /\ ShowAt = 5
      BY <2>2, RowOf, DetectRow, LenProperties DEF Doing, Working, ShowAt
    <3>2. at \in 1 .. 6 /\ step = detectConnect[at]
      BY <1>0, <3>1, StepFacts
    <3>3. \/ at = 1 /\ step = Up
          \/ at = 2 /\ step = Start("go")
          \/ at = 3 /\ step = Down
          \/ at = 4 /\ step = Use("null")
          \/ at = 5 /\ step = Show
          \/ at = 6 /\ step = Return
      <4>1. at = 1 \/ at = 2 \/ at = 3 \/ at = 4 \/ at = 5 \/ at = 6
        BY <3>2
      <4>2. QED BY <3>2, <4>1, DetectRow
    <3>4. Start("go").op = "start" /\ Use("null").op = "use"
      BY DEF Start, Use
    <3>5. QED BY <3>1, <3>3, <3>4, StepKinds
  <2>3. QED BY <2>1, <2>2
<1>3. PICK q, s, x : q = For(queue) /\ s = For(sent) /\ x = Notice(1, dev)
  OBVIOUS
<1>4. /\ For(queue)' = q /\ For(sent)' = s /\ Notice(1, dev)' = x /\ ShowAt' = ShowAt
  BY <1>1, <1>3 DEF For, Notice, ShowAt
<1>5. IF at <= ShowAt THEN (feed \o <<x>>) \o q = s ELSE feed \o q = s
  BY <1>0, <1>3 DEF Feeding
<1>6. Append(feed, x) = feed \o <<x>>
  BY <1>0, <1>3, AppendIsConcat DEF Typed
<1>7. CASE pc' = "loop"
  <2>1. Leaves
    BY <1>0, <1>7 DEF Effect, Onward, Skips, Stays, Stops
  <2>2. step.op = "return"
    BY <1>2, <2>1 DEF Leaves
  <2>3. feed' = feed /\ ~(at <= ShowAt)
    BY <1>0, <1>1, <1>2, <2>2
  <2>4. feed' \o q = s
    BY <1>5, <2>3
  <2>5. QED BY <1>4, <1>7, <2>4 DEF Feeding
<1>8. CASE pc' = "handler"
  <2>1. at' = at + 1
    BY <1>1, <1>2, <1>8 DEF Onward, Skips, Stays
  <2>2. CASE step.op = "show"
    <3>1. at = ShowAt /\ feed' = feed \o <<x>>
      BY <1>1, <1>2, <1>3, <1>6, <2>2
    <3>2. ~(at' <= ShowAt) /\ at <= ShowAt
      BY <1>0, <1>2, <2>1, <3>1
    <3>3. feed' \o q = s
      BY <1>5, <3>1, <3>2
    <3>4. QED BY <1>4, <1>8, <3>2, <3>3 DEF Feeding
  <2>3. CASE step.op # "show"
    <3>1. feed' = feed /\ at # ShowAt
      BY <1>1, <1>2, <2>3
    <3>2. at' <= ShowAt <=> at <= ShowAt
      BY <1>0, <1>2, <2>1, <3>1
    <3>3. IF at' <= ShowAt THEN (feed' \o <<x>>) \o q = s ELSE feed' \o q = s
      BY <1>5, <3>1, <3>2
    <3>4. QED BY <1>4, <1>8, <3>3 DEF Feeding
  <2>4. QED BY <2>2, <2>3
<1>9. CASE pc' = "ended"
  BY <1>9 DEF Feeding
<1>10. QED BY <1>1, <1>7, <1>8, <1>9

\* A download's file is the beginning that was read, and all of it when the
\* callback comes to its end.
LEMMA EffectKeepsFile ==
  ASSUME IInv, Effect
  PROVE  Downloading'
<1> SUFFICES ASSUME line.cmd = "dl" PROVE Downloading'
  BY EffectBasics DEF Downloading
<1>0. /\ Downloading /\ pc = "handler" /\ Runs /\ code = Null /\ at \in Nat /\ at >= 1
      /\ step = Doing[at] /\ at \in DOMAIN Doing /\ dev \in Devices
  BY StepFacts DEF IInv, Effect, Runs
<1>1. /\ offset \in 0..Len(RemoteFile) /\ Len(RemoteFile) \in Nat
      /\ RemoteFile \in Seq(ToSet(RemoteFile)) /\ Null # "exit0"
  BY CommandsAssumption, LenProperties DEF IInv, Typed
<1>2. /\ line' = line /\ Doing' = Doing /\ mishaps \subseteq mishaps'
      /\ pc' \in {"handler", "loop", "ended"}
      /\ pc' = "handler" => Onward \/ Skips \/ Stays
  BY EffectBasics DEF Effect
<1>3. /\ Doing = runGetFile
      /\ \A k \in DOMAIN runGetFile : /\ runGetFile[k].op = "exit" =>
                                           k > 1 /\ runGetFile[k - 1] = Fetch
                                      /\ k \in Nat
  <2>1. line.cmd \in Working
    BY DEF Working
  <2>2. Doing = runGetFile
    BY <2>1, RowOf DEF Doing
  <2>3. \A k \in DOMAIN Callback(line.cmd) : k \in Nat
    BY <2>1, Moves
  <2>4. QED BY <2>2, <2>3, DownloadRow DEF Doing
<1>4. Fetch.op = "fetch"
  BY DEF Fetch
<1>5. mishaps' \cap {"staleRead", "write"} = {} => local' = SubSeq(RemoteFile, 1, offset')
  <2> SUFFICES ASSUME mishaps' \cap {"staleRead", "write"} = {}
               PROVE  local' = SubSeq(RemoteFile, 1, offset')
    OBVIOUS
  <2>1. local = SubSeq(RemoteFile, 1, offset)
    BY <1>0, <1>2 DEF Downloading
  <2>2. CASE UNCHANGED <<offset, local>>
    BY <2>1, <2>2
  <2>3. CASE /\ offset < Len(RemoteFile) /\ offset' = offset + 1
             /\ local' = Put(RemoteFile[offset + 1])
    <3>1. PICK o \in Nat : o = offset
      BY <1>1
    <3>2. /\ SubSeq(RemoteFile, 1, o) \in Seq(ToSet(RemoteFile))
          /\ Len(SubSeq(RemoteFile, 1, o)) = o
          /\ \A i \in 1..o : SubSeq(RemoteFile, 1, o)[i] = RemoteFile[i]
      BY <1>1, <3>1, SubSeqProperties
    <3>3. o + 1 \in Nat /\ o + 1 <= Len(RemoteFile)
      BY <1>1, <2>3, <3>1
    <3>4. /\ SubSeq(RemoteFile, 1, o + 1) \in Seq(ToSet(RemoteFile))
          /\ Len(SubSeq(RemoteFile, 1, o + 1)) = o + 1
          /\ \A i \in 1..o + 1 : SubSeq(RemoteFile, 1, o + 1)[i] = RemoteFile[i]
      BY <1>1, <3>3, SubSeqProperties
    <3>5. PICK p, b, w : p = SubSeq(RemoteFile, 1, o) /\ b = RemoteFile[o + 1]
                         /\ w = SubSeq(RemoteFile, 1, o + 1)
      OBVIOUS
    <3>6. local' = Append(p, b)
      BY <1>1, <2>1, <2>3, <3>1, <3>2, <3>5 DEF Put
    <3>7. b \in ToSet(RemoteFile)
      BY <1>1, <3>3, <3>5, ElementOfSeq
    <3>8. PICK a : a = Append(p, b)
      OBVIOUS
    <3>9. /\ a \in Seq(ToSet(RemoteFile)) /\ Len(a) = o + 1
          /\ \A i \in 1..o : a[i] = p[i]
          /\ a[o + 1] = b
      BY <3>2, <3>5, <3>7, <3>8, AppendProperties
    <3>10. \A i \in 1..o + 1 : a[i] = w[i]
      <4> TAKE i \in 1..o + 1
      <4>1. CASE i \in 1..o
        BY <3>2, <3>4, <3>5, <3>9, <4>1
      <4>2. CASE i = o + 1
        BY <3>4, <3>5, <3>9, <4>2
      <4>3. QED BY <3>1, <4>1, <4>2
    <3>11. w \in Seq(ToSet(RemoteFile)) /\ Len(w) = o + 1
      BY <3>4, <3>5
    <3>12. a = w
      BY <3>9, <3>10, <3>11, SeqEqual
    <3>13. QED BY <2>3, <3>1, <3>5, <3>6, <3>8, <3>12
  <2>4. QED BY <2>2, <2>3 DEF Effect, Fetches
<1>6. ASSUME mishaps' \subseteq {"up", "down", "word"}, pc' = "handler", Doing'[at'].op = "exit"
      PROVE  offset' = Len(RemoteFile)
  <2>1. CASE Onward
    <3>1. at' = at + 1 /\ at' \in DOMAIN runGetFile
      BY <1>3, <1>6, <2>1, Lands DEF Onward
    <3>2. runGetFile[at' - 1] = Fetch
      BY <1>2, <1>3, <1>6, <3>1
    <3>3. at' - 1 = at
      BY <1>0, <3>1
    <3>4. step.op = "fetch"
      BY <1>0, <1>3, <1>4, <3>2, <3>3
    <3>5. QED BY <1>6, <2>1, <3>4 DEF Onward
  <2>2. CASE Skips
    <3>1. PICK cmd, k : cmd = line.cmd /\ k = at
      OBVIOUS
    <3>2. cmd \in Working /\ k \in DOMAIN Callback(cmd) /\ Callback(cmd)[k].op = "noWords"
          /\ Callback(cmd)[k] = step
      BY <1>0, <2>2, <3>1 DEF Skips, Doing, Working
    <3>3. PICK to : to = step.to
      OBVIOUS
    <3>4. to \in DOMAIN Callback(cmd) /\ Inside(Callback(cmd), to)
      BY <3>2, <3>3, Moves
    <3>5. Callback(cmd)[to].op \notin {"down", "noWords"} => Callback(cmd)[to] \in InnerSteps
      BY <3>2, <3>4, Moves
    <3>6. Callback(cmd)[to].op # "exit"
      BY <3>5, StepKinds
    <3>7. at' = to /\ Doing' = Callback(cmd)
      BY <1>2, <2>2, <3>1, <3>3 DEF Skips, Doing
    <3>8. QED BY <1>6, <3>6, <3>7
  <2>3. CASE Stays
    BY <1>0, <1>2, <1>6, <2>3 DEF Stays
  <2>4. QED BY <1>2, <1>6, <2>1, <2>2, <2>3
<1>7. ASSUME mishaps' \subseteq {"up", "down", "word"}, code' = "exit0"
      PROVE  offset' = Len(RemoteFile)
  <2>1. Stops
    BY <1>0, <1>1, <1>7 DEF Effect, Onward, Skips, Stays, Leaves
  <2>2. step.op = "exit"
    BY <1>7, <2>1 DEF Stops
  <2>3. mishaps \subseteq {"up", "down", "word"}
    BY <1>2, <1>7
  <2>4. offset = Len(RemoteFile)
    BY <1>0, <2>2, <2>3 DEF Downloading
  <2>5. QED BY <2>2, <2>4 DEF Effect, Fetches
<1>8. QED BY <1>5, <1>6, <1>7 DEF Downloading

-----------------------------------------------------------------------------
(* The theorems.                                                            *)

\* A step that changes nothing.
LEMMA StutterKeeps ==
  ASSUME IInv, UNCHANGED vars
  PROVE  IInv'
<1>1. UNCHANGED <<words, line, pc, code, queue, onConnect, onDisconnect, timer, dev, at, n, offset,
                  local, plugged, open, sent, feed, touched, mishaps>>
  BY DEF vars
<1>2. Typed' /\ Subscribed'
  BY <1>1 DEF IInv, Typed, Subscribed
<1>3. Doing' = Doing
  BY <1>1 DEF Doing
<1>4. Placed' /\ Downloading'
  BY <1>1, <1>3 DEF IInv, Placed, Downloading, Runs
<1>5. ClosedAgain'
  <2>1. Inside(Doing, at)' <=> Inside(Doing, at)
    BY <1>1, <1>3 DEF Inside
  <2>2. QED BY <1>1, <2>1 DEF IInv, ClosedAgain
<1>6. UsedAlone' /\ UsedAsAsked'
  BY <1>1 DEF IInv, UsedAlone, UsedAsAsked, Runs, Asked
<1>7. Feeding'
  <2>1. /\ For(queue)' = For(queue) /\ For(sent)' = For(sent) /\ ShowAt' = ShowAt
        /\ Notice(1, dev)' = Notice(1, dev)
    BY <1>1 DEF For, ShowAt, Notice
  <2>2. QED BY <1>1, <2>1 DEF IInv, Feeding, Runs
<1>8. QED BY <1>2, <1>4, <1>5, <1>6, <1>7 DEF IInv

\* Whatever is announced, answered or fails, the invariant holds.
THEOREM AlwaysIInv == Spec => []IInv
<1>1. Init => IInv
  BY InitInv
<1>2. IInv /\ [Next]_vars => IInv'
  <2> SUFFICES ASSUME IInv, [Next]_vars PROVE IInv'
    OBVIOUS
  <2>1. CASE Parse
    BY <2>1, ParseKeeps
  <2>2. CASE waitForConnect
    BY <2>2, SubscribeKeeps
  <2>3. CASE onNotice
    BY <2>3, NoticeKeeps
  <2>4. CASE onTimeout
    BY <2>4, TimeoutKeeps
  <2>5. CASE Callbacks
    <3>1. Effect
      BY <2>5, CallbackEffect
    <3>2. QED BY <3>1, EffectKeepsShape, EffectKeepsClosed, EffectKeepsUse, EffectKeepsFeed,
                 EffectKeepsFile DEF IInv
  <2>6. CASE \E d \in Devices : Plug(d)
    BY <2>6, PlugKeeps
  <2>7. CASE UNCHANGED vars
    BY <2>7, StutterKeeps
  <2>8. QED BY <2>1, <2>2, <2>3, <2>4, <2>5, <2>6, <2>7 DEF Next
<1>3. QED BY <1>1, <1>2, PTL DEF Spec

\* Every variable has its type, and a callback is on one of its steps, whatever
\* the words, the devices and what fails.
THEOREM TypeCorrect == Spec => []TypeOK
<1>1. IInv => TypeOK
  <2> SUFFICES ASSUME IInv PROVE TypeOK
    OBVIOUS
  <2>1. Typed /\ Placed
    BY DEF IInv
  <2>2. pc = "handler" => dev # Null /\ at \in DOMAIN Callback(line.cmd)
    BY <2>1, CommandsAssumption DEF Placed, Doing
  <2>3. {open, touched} \subseteq SUBSET Devices
    BY <2>1 DEF Typed
  <2>4. QED BY <2>1, <2>2, <2>3 DEF TypeOK, Typed
<1>2. QED BY <1>1, AlwaysIInv, PTL

\* Whatever fails while devices come and go: a callback works with the device
\* that was asked for only, with a second one only after a request of the first
\* failed, and leaves no session open behind it, except install's, a failed
\* closing and a refused house arrest.
THEOREM AlwaysOneDevice == Spec => []OneDeviceAtATime
<1>1. IInv => OneDeviceAtATime
  <2> SUFFICES ASSUME IInv PROVE OneDeviceAtATime
    OBVIOUS
  <2>0. Typed /\ ClosedAgain /\ UsedAlone /\ UsedAsAsked /\ (Started <=> Runs)
    BY DEF IInv, Started, Runs
  <2>1. FiltersHold
    BY <2>0 DEF UsedAsAsked, FiltersHold
  <2>2. SessionsClosed
    BY <2>0 DEF ClosedAgain, SessionsClosed
  <2>3. SecondOnlyAfterFailure
    <3> SUFFICES ASSUME Started, line.cmd # "detectloop", "ask" \notin mishaps
                 PROVE  ~(Cardinality(touched) > 1)
      BY DEF SecondOnlyAfterFailure
    <3>1. touched = {} \/ touched = {dev}
      BY <2>0 DEF UsedAlone
    <3>2. Cardinality({}) = 0 /\ Cardinality({dev}) = 1
      BY FS_EmptySet, FS_Singleton
    <3>3. QED BY <3>1, <3>2
  <2>4. QED BY <2>1, <2>2, <2>3 DEF OneDeviceAtATime
<1>2. QED BY <1>1, AlwaysIInv, PTL

\* What list and detectloop have shown, with the notices that wait, is what was
\* sent of the types they are for, in order; a download is a beginning of the
\* file unless a write failed or a failed read's count was taken, and all of it
\* when the program ends well and nothing else failed.
THEOREM OutputAlwaysExact == Spec => []OutputIsExact
<1>1. IInv => FeedIsExact
  BY DEF IInv, FeedIsExact, Feeding, Is, Started, Runs
<1>2. IInv => LocalIsRemote
  <2> SUFFICES ASSUME IInv, Is({"dl"}) PROVE LocalIsRemote
    BY DEF LocalIsRemote
  <2>1. PICK o, R : o = offset /\ R = RemoteFile
    OBVIOUS
  <2>2. /\ R \in Seq(ToSet(R)) /\ Len(R) \in Nat /\ o \in 0..Len(R)
    BY <2>1, CommandsAssumption, LenProperties DEF IInv, Typed
  <2>3. /\ mishaps \cap {"staleRead", "write"} = {} => local = SubSeq(R, 1, o)
        /\ mishaps \subseteq {"up", "down", "word"} /\ code = "exit0" => o = Len(R)
    BY <2>1 DEF IInv, Downloading, Is, Started, Runs
  <2>4. mishaps \subseteq {"up", "down", "word"} => mishaps \cap {"staleRead", "write"} = {}
    OBVIOUS
  <2>5. Len(SubSeq(R, 1, o)) = o /\ SubSeq(R, 1, o) \in Seq(ToSet(R))
    BY <2>2, SubSeqProperties, ElementOfSeq
  <2>6. SubSeq(SubSeq(R, 1, o), 1, o) = SubSeq(R, 1, o)
    <3>1. PICK p : p = SubSeq(R, 1, o)
      OBVIOUS
    <3>2. SubSeq(p, 1, Len(p)) = p /\ Len(p) = o
      BY <2>5, <3>1, SubSeqFull
    <3>3. QED BY <3>1, <3>2
  <2>7. IsPrefix(SubSeq(R, 1, o), R)
    BY <2>2, <2>5, <2>6 DEF IsPrefix
  <2>8. SubSeq(R, 1, Len(R)) = R
    BY <2>2, SubSeqFull
  <2>9. QED BY <2>1, <2>3, <2>4, <2>7, <2>8 DEF LocalIsRemote
<1>3. QED BY <1>1, <1>2, AlwaysIInv, PTL DEF OutputIsExact

\* However the lists of options share their cells and whatever the words are: a command that
\* runs has the options main gave it; each word before the rest is the command, an option of
\* it or the value after one, what an option says is the word after it, and the rest is
\* counted, but for the -1 of a last word whose value is missing.
THEOREM WordsAlwaysRead == Spec => []WordsAreRead
<1>1. IInv => WordsAreRead
  <2> SUFFICES ASSUME IInv, Started PROVE WordsAreRead
    BY DEF WordsAreRead, TableIsOwn
  <2>1. line = uclop__run(words) /\ words \in CmdLines /\ line.outcome = "run"
    BY DEF IInv, Placed, Typed, Started
  <2>2. words \in Seq(ToSet(words) \ {Null})
    BY <2>1, CommandsAssumption
  <2>3. (\E k \in 1..36 : line.cmd = NameOf(k) /\ line.opts = OptsOf(k)) /\ ReadWell(words, line)
    BY <2>1, <2>2, RunReads
  <2>4. PICK k \in 1..36 : line.cmd = NameOf(k) /\ line.opts = OptsOf(k)
    BY <2>3
  <2>5. TableIsOwn
    <3> SUFFICES ASSUME NEW j \in DOMAIN CommandTable, CommandTable[j].name = line.cmd
                 PROVE  CommandTable[j].opts = line.opts
      BY DEF TableIsOwn
    <3>1. j \in 1..36 /\ CommandTable[j].name = CommandTable[k].name
      BY <2>4, RowsOfTable DEF NameOf
    <3>2. j = k
      BY <3>1, RowsOfTable
    <3>3. QED BY <2>4, <3>2 DEF OptsOf
  <2>6. QED BY <2>3, <2>5 DEF WordsAreRead, ReadWell
<1>2. QED BY <1>1, AlwaysIInv, PTL

\* A version of one to three numbers of up to three digits is shown as it was said, and the
\* hours a battery counts are all shown as long as an int16_t holds them.
THEOREM AnswersAlwaysRead == Spec => []AnswersAreRead
<1>1. IInv => AnswersAreRead
  BY VersionsRead, HoursAddUp DEF AnswersAreRead
<1>2. QED BY <1>1, AlwaysIInv, PTL
=============================================================================
