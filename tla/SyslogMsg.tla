------------------------------ MODULE SyslogMsg ------------------------------
(***************************************************************************)
(* cmd_syslog.c: runSysLog puts the log records of a device together from  *)
(* the chunks it receives, in a block that msg__append makes larger.       *)
(*                                                                         *)
(* The relay's stream is a sequence of bytes: Nul before each record, then *)
(* the record's text, every byte of which is the record's number.  Lines    *)
(* are those of -raw, where all of a line is printed with one format.       *)
(***************************************************************************)
EXTENDS Naturals, Sequences, FiniteSets

CONSTANTS
  BufSize,     \* BUFSIZE
  U16,         \* 2^w for the width w of the uint16_t sizes
  MaxRecords,  \* bound: records in the stream
  MaxLength    \* the longest record

ASSUME ConstantsAssumption ==
  /\ BufSize \in Nat \ {0, 1} /\ U16 \in Nat /\ BufSize < U16
  /\ MaxRecords \in Nat /\ MaxLength \in Nat \ {0}

VARIABLES
  stream,    \* the bytes the device has written
  rd,        \* how many of them have been received
  pc,        \* "receive", "grow" (in msg__append's loop) or "end"
  buf,       \* the bytes that msg__append was called with
  data,      \* the first `size` bytes of the block of curmsg
  cap,       \* how many bytes the block has
  newsize,   \* local `newsize`
  printed,   \* the lines printed
  opened     \* history: where in the stream the Nuls are that began a chunk

history == <<printed, opened>>
vars == <<stream, rd, pc, buf, data, cap, newsize, printed, opened>>

Nul == 0
Byte == 0 .. MaxRecords
Size == Len(data)

\* `maxsize` is set once and never follows the block.
MaxSize == BufSize

-----------------------------------------------------------------------------
(* The device. *)

Begun == IF stream = <<>> THEN 0 ELSE stream[Len(stream)]

Length(k) == Cardinality({i \in DOMAIN stream : stream[i] = k})

DeviceBegins ==
  /\ Begun < MaxRecords
  /\ stream' = stream \o <<Nul, Begun + 1>>
  /\ UNCHANGED <<rd, pc, buf, data, cap, newsize, history>>

DeviceContinues ==
  /\ Begun > 0 /\ Length(Begun) < MaxLength
  /\ stream' = Append(stream, Begun)
  /\ UNCHANGED <<rd, pc, buf, data, cap, newsize, history>>

-----------------------------------------------------------------------------
(* runSysLog. *)

\* What one receive hands out: at most BUFSIZE - 1 bytes, cut anywhere.
Chunk(n) == SubSeq(stream, rd + 1, rd + n)
Receivable(n) == rd + n <= Len(stream)

\* The part of msg__append before its loop; the copy if there is room, as
\* MaxSize has it.
AppendTo(old, new) ==
  IF Len(old) + Len(new) > MaxSize
    THEN /\ pc' = "grow" /\ buf' = new /\ data' = old
         /\ newsize' = (Len(old) * 2) % U16
    ELSE data' = old \o new /\ UNCHANGED <<pc, buf, newsize>>

\* The first n bytes of s are those before its first Nul, or all of them.
IsCut(s, n) ==
  /\ \A i \in 1 .. n : s[i] # Nul
  /\ n < Len(s) => s[n + 1] = Nul

\* What "%.*s" prints of s: it stops at a Nul.
Printable(s) == SubSeq(s, 1, CHOOSE n \in 0 .. Len(s) : IsCut(s, n))

\* msg__output prints the block, up to a Nul, and empties it; an empty block is
\* not given to it.
Output == printed' = IF Size > 0 THEN Append(printed, Printable(data)) ELSE printed

\* A chunk that does not start with Nul goes on with the record.
ReceiveMore ==
  /\ pc = "receive"
  /\ \E n \in 1 .. BufSize - 1 :
       /\ Receivable(n) /\ stream[rd + 1] # Nul
       /\ AppendTo(data, Chunk(n))
       /\ rd' = rd + n
  /\ UNCHANGED <<stream, cap, history>>

\* Mutant: the block is not emptied when it has been printed.
ReceiveNextKeeps ==
  /\ pc = "receive"
  /\ \E n \in 1 .. BufSize - 1 :
       /\ Receivable(n) /\ stream[rd + 1] = Nul
       /\ AppendTo(data, Tail(Chunk(n)))
       /\ rd' = rd + n
  /\ Output /\ opened' = Append(opened, rd + 1)
  /\ UNCHANGED <<stream, cap>>

\* A chunk that does has msg__output print what there is, and starts anew.
ReceiveNext ==
  /\ pc = "receive"
  /\ \E n \in 1 .. BufSize - 1 :
       /\ Receivable(n) /\ stream[rd + 1] = Nul
       /\ AppendTo(<<>>, Tail(Chunk(n)))
       /\ rd' = rd + n
  /\ Output /\ opened' = Append(opened, rd + 1)
  /\ UNCHANGED <<stream, cap>>

ReceiveFails ==
  /\ pc = "receive" /\ rd = Len(stream)
  /\ pc' = "end"
  /\ UNCHANGED <<stream, rd, buf, data, cap, newsize, history>>

\* Mutants: a counter of half the width; a counter without a width.
DoubleNarrow ==
  /\ pc = "grow" /\ newsize < Size + Len(buf)
  /\ newsize' = (newsize * 2) % (U16 \div 2)
  /\ UNCHANGED <<stream, rd, pc, buf, data, cap, history>>

DoubleWide ==
  /\ pc = "grow" /\ newsize < Size + Len(buf)
  /\ newsize' = newsize * 2
  /\ UNCHANGED <<stream, rd, pc, buf, data, cap, history>>

\* `while( newsize < ... ) newsize *= 2`, in 16 bits.
Double ==
  /\ pc = "grow" /\ newsize < Size + Len(buf)
  /\ newsize' = (newsize * 2) % U16
  /\ UNCHANGED <<stream, rd, pc, buf, data, cap, history>>

\* Mutant: the loop only looks at what is already there.
GrownEarly ==
  /\ pc = "grow" /\ newsize >= Size
  /\ cap' = newsize /\ data' = data \o buf
  /\ pc' = "receive"
  /\ UNCHANGED <<stream, rd, buf, newsize, history>>

\* The block is replaced, and the bytes are copied.
Grown ==
  /\ pc = "grow" /\ newsize >= Size + Len(buf)
  /\ cap' = newsize /\ data' = data \o buf
  /\ pc' = "receive"
  /\ UNCHANGED <<stream, rd, buf, newsize, history>>

Init ==
  /\ stream = <<>> /\ rd = 0 /\ pc = "receive" /\ buf = <<>>
  /\ data = <<>> /\ cap = BufSize + 1 /\ newsize = 0
  /\ printed = <<>> /\ opened = <<>>

Device == DeviceBegins \/ DeviceContinues
Program == ReceiveMore \/ ReceiveNext \/ ReceiveFails \/ Double \/ Grown

Next == Device \/ Program

Spec == Init /\ [][Next]_vars

\* The program runs; the device need not write anything.
FairSpec == Spec /\ WF_vars(Program)
-----------------------------------------------------------------------------
(* Properties. *)

\* Every variable has the type of what it stands for; `newsize` fits 16 bits.
TypeOK ==
  /\ stream \in Seq(Byte) /\ rd \in 0 .. Len(stream)
  /\ pc \in {"receive", "grow", "end"}
  /\ buf \in Seq(Byte) /\ data \in Seq(Byte)
  /\ cap \in 1 .. U16 - 1 \cup {BufSize + 1}
  /\ newsize \in 0 .. U16 - 1
  /\ printed \in Seq(Seq(Byte)) /\ opened \in Seq(1 .. rd)

\* msg__append never writes behind its block, although `maxsize` is not what
\* the block has.
FitsBlock == Size <= cap

\* As long as a record is not longer than half of what 16 bits count, the loop
\* that looks for a larger size ends.
AppendReturns ==
  pc = "grow" /\ Size + Len(buf) <= U16 \div 2 ~> pc = "receive"

Pending == IF pc = "grow" THEN buf ELSE <<>>

\* The record behind the Nul at p, as far as it has been written.
RecordAt(p) == Printable(SubSeq(stream, p + 1, Len(stream)))

\* Each line is one record, whole, and none of a later one: the records whose
\* Nul was the first byte of a chunk, once each, in the order of the stream, each
\* when the next of them comes.
LinesAreRecords ==
  /\ printed = [i \in 1 .. Len(opened) - 1 |-> RecordAt(opened[i])]
  /\ \A i \in DOMAIN opened : stream[opened[i]] = Nul
  /\ \A i, j \in DOMAIN opened : i < j => opened[i] < opened[j]

\* Nothing received behind the last of these Nuls is missing, doubled or moved in
\* the block, also while it is replaced.
BlockIsTheRest ==
  opened # <<>> =>
    data \o Pending = SubSeq(stream, opened[Len(opened)] + 1, rd)

\* However the stream is cut into chunks, a line is a whole record and the block
\* has all that came since.  (A record whose Nul came inside a chunk is in the
\* block too, behind that Nul, and is not printed.)
RecordsStayWhole == LinesAreRecords /\ BlockIsTheRest
=============================================================================
