------------------------------ MODULE Answers ------------------------------
(* What the commands compute from an answer of the device before they show  *)
(* it: the version of iOS, and the time a battery was in use.                 *)
EXTENDS Integers, Sequences

CONSTANTS Parts,       \* the numbers a version is made of
          HourWord     \* the values of int16_t (2^16)

\* The buffers for the numbers of a version hold three digits, and a dot behind
\* them (cmd_info.c:85, cmd_info.c:93).
ASSUME AnswersAssumption == Parts \subseteq 0..999 /\ HourWord \in Nat

-----------------------------------------------------------------------------
(* A version is text: digits, and Dot between the numbers. *)
Dot == 10
ReadOn(b, x) ==
  IF b.on /\ x # Dot THEN [v |-> 10 * b.v + x, on |-> TRUE] ELSE [v |-> b.v, on |-> FALSE]
atoi(text) ==
  LET value[k \in 0..Len(text)] ==
        IF k = 0 THEN [v |-> 0, on |-> TRUE] ELSE ReadOn(value[k - 1], text[k])
  IN  value[Len(text)].v

(* Places are counted from 0, so that 0 is "no dot": the first dot from      *)
(* place k on.                                                               *)
DotFrom(vStr, k) ==
  LET At(i) == vStr[i + 1] = Dot
      on == k..Len(vStr) - 1
  IN  IF \E i \in on : At(i) THEN CHOOSE i \in on : At(i) /\ \A j \in k..i - 1 : ~At(j) ELSE 0

(* Mutant: numbers are read from the dots. *)
getIosVersionAtDot(vStr) ==
  LET first  == DotFrom(vStr, 0)
      second == DotFrom(vStr, first + 1)
      From(k) == SubSeq(vStr, k + 1, Len(vStr))
  IN  IF first = 0 THEN <<atoi(vStr), 0, 0>>
      ELSE IF second = 0 THEN <<atoi(vStr), atoi(From(first)), 0>>
      ELSE <<atoi(vStr), atoi(From(first)), atoi(From(second))>>

getIosVersion(vStr) ==
  LET first  == DotFrom(vStr, 0)
      second == DotFrom(vStr, first + 1)
      From(k) == SubSeq(vStr, k + 1, Len(vStr))
      Some(k, count) == SubSeq(vStr, k + 1, k + count)
  IN  IF first = 0 THEN <<atoi(vStr), 0, 0>>
      ELSE IF second = 0 THEN <<atoi(Some(0, first)), atoi(From(first + 1)), 0>>
      ELSE <<atoi(Some(0, first)), atoi(Some(first + 1, second - first)), atoi(From(second + 1))>>

(* Hours come as an int16_t; C divides towards zero. *)
Wrap16(h) == ((h + HourWord \div 2) % HourWord) - HourWord \div 2
Quot(a, b) == IF a >= 0 THEN a \div b ELSE -((-a) \div b)
Rem(a, b) == a - b * Quot(a, b)
OperatingTime(hours) ==
  LET opHours == Wrap16(hours)
      opDays  == Quot(opHours - Rem(opHours, 24), 24)
  IN  [years |-> Quot(opDays - Rem(opDays, 365), 365), days |-> Rem(opDays, 365), hours |-> Rem(opHours, 24)]

-----------------------------------------------------------------------------
Digits(x) ==
  IF x < 10 THEN <<x>>
  ELSE IF x < 100 THEN <<x \div 10, x % 10>> ELSE <<x \div 100, (x \div 10) % 10, x % 10>>
Text(v) ==
  CASE Len(v) = 1 -> Digits(v[1])
    [] Len(v) = 2 -> Digits(v[1]) \o <<Dot>> \o Digits(v[2])
    [] OTHER -> Digits(v[1]) \o <<Dot>> \o Digits(v[2]) \o <<Dot>> \o Digits(v[3])
Versions == UNION {[1..k -> Parts] : k \in 1..3}

(* A version is read as its numbers, the missing ones as 0. *)
VersionIsRead ==
  \A v \in Versions : getIosVersion(Text(v)) = [k \in 1..3 |-> IF k \in DOMAIN v THEN v[k] ELSE 0]

(* The years, days and hours of a battery are its hours. *)
OperatingTimeAddsUp ==
  \A h \in 0..(HourWord \div 2 - 1) :
    LET t == OperatingTime(h)
    IN  t.hours \in 0..23 /\ t.days \in 0..364 /\ h = (t.years * 365 + t.days) * 24 + t.hours
=============================================================================
