----------------------------- MODULE PlistRead -----------------------------
(***************************************************************************)
(* Reading an argument block (deserialize2t of cfutil.c) and the archives  *)
(* in it (archiver/plist_read.c).  Objects live in a heap, and the elements *)
(* of an array, the keys and the values of a dictionary are linked through *)
(* one field, next, of the elements themselves: an object that is put in a *)
(* second list takes the tail of the first one with it.                    *)
(*                                                                         *)
(* How a block and its archives were written and how their objects are     *)
(* expanded are constants: Unarchiver has the operators for them.          *)
(***************************************************************************)
EXTENDS Integers, Sequences

CONSTANTS Sources,          \* whose block is read: records with who, "call" or a device
          ChunkMax,         \* pointers in one block of a pointer array (30)
          BlockOf(_),       \* the block of a source, a sequence of [kind, v]
          FileOf(_, _),     \* the file of the archive v of a source: its objects and their count
          Dearchived(_, _)  \* the heap and the value that expanding the root object leaves

\* A file of at most 65535 objects: their numbers have one byte or two, so that no
\* uid is longer either.  An object is [t, v, refs]; a container names its elements
\* by numbers, a dictionary its keys and then as many values, and nothing in a file
\* is a reference of the reader.
FileWhole(f) ==
  /\ f.count \in Nat \ {0} /\ f.count < 2^16 /\ DOMAIN f.toks = 1 .. f.count
  /\ \A n \in 1 .. f.count :
       LET tok == f.toks[n]
       IN /\ tok.t # "REF" /\ tok.refs \in Seq(0 .. f.count - 1)
          /\ tok.t = "DICT" => \E half \in 0 .. Len(tok.refs) : Len(tok.refs) = 2 * half

\* Only this program puts bytes in a block that are no archive.
ASSUME BlocksAssumption ==
  /\ ChunkMax \in Nat \ {0}
  /\ \A s \in Sources :
       /\ BlockOf(s) = [i \in 1 .. Len(BlockOf(s)) |-> BlockOf(s)[i]] /\ Len(BlockOf(s)) \in Nat
       /\ \A i \in 1 .. Len(BlockOf(s)) :
            LET item == BlockOf(s)[i]
            IN /\ item.kind \in {"i32", "object", "raw"}
               /\ item.kind = "raw" => s.who = "call"
               /\ item.kind = "object" => FileWhole(FileOf(item.v, s))

VARIABLES source,   \* whose block it is
          aux,      \* the primitives of the block not read yet
          array,    \* the values read from it
          pc,       \* "next", "pass1", "pass2", "expand", "done", "failed"
          file,     \* the archive being read
          heap,     \* the objects made while reading it
          obs,      \* the pointer array of its objects, a sequence of blocks
          at,       \* the block pass 1 adds to
          onum,     \* objects seen by the pass
          maxo,     \* the largest number an object named in pass 1
          iter,     \* the place pass 2 has reached in obs: [block, pos]
          used      \* numbers already taken as elements in pass 2

vars == <<source, aux, array, pc, file, heap, obs, at, onum, maxo, iter, used>>

(***************************************************************************)
(* Objects.  A node has a list of values and, if a dictionary, of keys.    *)
(***************************************************************************)
Sides == {"key", "val"}
NoObject == [s \in Sides |-> 0]
Node(t, v) == [t |-> t, v |-> v, next |-> 0, head |-> NoObject, tail |-> NoObject, shift |-> 0]
New(h, t, v) == [h |-> Append(h, Node(t, v)), r |-> Len(h) + 1]

\* The list that starts with object o.
List(h, o) ==
  LET from[x \in 0 .. Len(h)] == IF x = 0 THEN <<>> ELSE <<x>> \o from[h[x].next]
  IN from[o]

\* The object becomes the head of the list, or what is behind its tail.
Link(h, d, side, o) ==
  LET linked == IF h[d].head[side] = 0 THEN [h EXCEPT ![d].head[side] = o]
                                       ELSE [h EXCEPT ![h[d].tail[side]].next = o]
  IN [linked EXCEPT ![d].tail[side] = o]

tARR__add(h, a, o) == Link(h, a, "val", o)
tDICT__seto(h, d, key, val) == Link(Link(h, d, "key", key), d, "val", val)
tDICT__set(h, d, key, val) == LET k == New(h, "STR", key) IN tDICT__seto(k.h, d, k.r, val)

Vals(h, d) == List(h, h[d].head["val"])
Keys(h, d) == List(h, h[d].head["key"])
Deref(h, o) == IF h[o].t = "REF" THEN h[o].v ELSE o
\* Keys, the only objects duplicated, are strings.
tBASE__dup(h, o) == New(h, h[o].t, h[o].v)

(***************************************************************************)
(* The pointer array: blocks of ChunkMax pointers.                         *)
(***************************************************************************)
PushLast(blocks, o) ==
  LET last == Len(blocks)
  IN IF Len(blocks[last]) = ChunkMax THEN Append(blocks, <<o>>)
                                     ELSE [blocks EXCEPT ![last] = Append(@, o)]
\* A new block is returned when one is made; the last block when an earlier was given.
ptrArr__add(blocks, b, o) ==
  LET more == PushLast(blocks, o)
  IN [blocks |-> more,
      ret |-> IF b # Len(blocks) THEN Len(blocks) ELSE IF more[b] = blocks[b] THEN b + 1 ELSE 0]

\* left[b] is what is left of the position when the walk gets to block b.
ptrArr__get(blocks, pos) ==
  LET left[b \in DOMAIN blocks] ==
        IF b = 1 THEN pos ELSE left[b - 1] - Len(blocks[b - 1])
      Here(b) == left[b] < Len(blocks[b])
  IN IF \E b \in DOMAIN blocks : Here(b)
     THEN LET b == CHOOSE b \in DOMAIN blocks : Here(b) /\ \A c \in 1 .. b - 1 : ~Here(c)
          IN blocks[b][left[b] + 1]
     ELSE 0

ptrArr__iter(blocks, it) ==
  IF it.pos < Len(blocks[it.block])
  THEN [it |-> [it EXCEPT !.pos = @ + 1], r |-> blocks[it.block][it.pos + 1]]
  ELSE IF it.block = Len(blocks)
       THEN [it |-> it, r |-> 0]
       ELSE [it |-> [block |-> it.block + 1, pos |-> 1], r |-> blocks[it.block + 1][1]]

(***************************************************************************)
(* The machine.                                                            *)
(***************************************************************************)
NoFile == [toks |-> <<>>, count |-> 0]

Init ==
  /\ source \in Sources
  /\ aux = BlockOf(source)
  /\ array = <<>> /\ pc = "next" /\ file = NoFile /\ heap = <<>> /\ obs = << <<>> >>
  /\ at = 1 /\ onum = 0 /\ maxo = 0 /\ iter = [block |-> 1, pos |-> 0] /\ used = {}

reading == <<file, heap, obs, at, onum, maxo, iter, used>>

\* Mutated: the place of the next primitive is not moved.
ReadNumberAgain ==
  /\ pc = "next" /\ aux # <<>> /\ aux[1].kind = "i32"
  /\ array' = Append(array, [t |-> "I32", v |-> aux[1].v])
  /\ UNCHANGED <<source, aux, pc, reading>>

\* A number of the block.
ReadNumber ==
  /\ pc = "next" /\ aux # <<>> /\ aux[1].kind = "i32"
  /\ array' = Append(array, [t |-> "I32", v |-> aux[1].v])
  /\ aux' = Tail(aux)
  /\ UNCHANGED <<source, pc, reading>>

bpList__new(data) ==
  /\ file' = data
  /\ heap' = <<>> /\ obs' = << <<>> >> /\ at' = 1 /\ onum' = 0 /\ maxo' = 0
  /\ iter' = [block |-> 1, pos |-> 0] /\ used' = {0}

\* An object of the block: its archive is opened.  Bytes that are no archive
\* end the reading of the block, which is given up as a whole.
ReadObject ==
  /\ pc = "next" /\ aux # <<>> /\ aux[1].kind \in {"object", "raw"}
  /\ IF aux[1].kind = "raw"
     THEN pc' = "failed" /\ UNCHANGED reading
     ELSE bpList__new(FileOf(aux[1].v, source)) /\ pc' = "pass1"
  /\ aux' = Tail(aux)
  /\ UNCHANGED <<source, array>>

EndOfBlock ==
  /\ pc = "next" /\ aux = <<>>
  /\ pc' = "done"
  /\ UNCHANGED <<source, aux, array, reading>>

maxObNum == file.count - 1
InPass1 == onum <= maxo \/ onum <= maxObNum

Largest(S) == CHOOSE m \in S : \A k \in S : k <= m

\* A number of a file that is shorter than 8 bytes has no sign; the reader's has.
Signed(n, top) == IF n <= top THEN n ELSE n - (2 * top + 2)
\* A text of 16-bit units is copied as if it were one of bytes: up to a zero byte,
\* which every Latin letter of it has.  A text of one byte a letter has none.
UpToZero(bytes) ==
  SubSeq(bytes, 1, Largest({n \in 0 .. Len(bytes) : \A i \in 1 .. n : bytes[i] # 0}))
\* The number that has the bytes of v in the other order.
Swapped(v) == [swapped |-> v]

\* What the reader keeps of the content of a token; a date is the only number it
\* takes as it lies in the file.
Kept(tok) ==
  CASE tok.t = "I8" -> Signed(tok.v, 127)
    [] tok.t = "I16" -> Signed(tok.v, 32767)
    [] tok.t = "I32" -> Signed(tok.v, 2147483647)
    [] tok.t = "UTF16" -> UpToZero(tok.v)
    [] tok.t = "TIME" -> Swapped(tok.v)
    [] OTHER -> tok.v
KindOf(tok) == IF tok.t = "UTF16" THEN "STR" ELSE tok.t

\* The object of a token: its type and, if it is no container, its content.
Parsed(tok) == New(heap, KindOf(tok), Kept(tok))

\* Pass 1 makes an object for the next one of the file; containers are empty.
bpList__pass1 ==
  /\ pc = "pass1" /\ InPass1
  /\ LET tok == file.toks[onum + 1]
         ob == Parsed(tok)
         put == ptrArr__add(obs, at, ob.r)
     IN /\ heap' = ob.h
        /\ obs' = put.blocks
        /\ at' = IF put.ret = 0 THEN at ELSE put.ret
        /\ maxo' = Largest({maxo} \union {tok.refs[i] : i \in DOMAIN tok.refs})
  /\ onum' = onum + 1
  /\ UNCHANGED <<source, aux, array, pc, file, iter, used>>

\* The first object is the one pass 2 starts with.
StartPass2 ==
  /\ pc = "pass1" /\ ~InPass1
  /\ pc' = "pass2" /\ onum' = 0
  /\ iter' = ptrArr__iter(obs, iter).it
  /\ UNCHANGED <<source, aux, array, file, heap, obs, at, maxo, used>>

\* Mutated: a later element is the object itself as well.
ElementAgain(acc, key) == [acc EXCEPT !.r = ptrArr__get(obs, key), !.used = @ \union {key}]
\* An element is the object itself the first time and a reference later.
Element(acc, key) ==
  LET o == ptrArr__get(obs, key)
      ref == New(acc.h, "REF", o)
  IN IF key \in acc.used THEN [acc EXCEPT !.h = ref.h, !.r = ref.r]
                         ELSE [acc EXCEPT !.r = o, !.used = @ \union {key}]
\* A key is duplicated instead.
KeyElement(acc, key) ==
  LET o == ptrArr__get(obs, key)
      dup == tBASE__dup(acc.h, o)
  IN IF key \in acc.used THEN [acc EXCEPT !.h = dup.h, !.r = dup.r]
                         ELSE [acc EXCEPT !.r = o, !.used = @ \union {key}]

\* One element of an array; one key of a dictionary and its value.
AddElement(acc, cur, key) ==
  LET e == Element(acc, key) IN [e EXCEPT !.h = tARR__add(e.h, cur, e.r)]
AddPair(acc, cur, key, val) ==
  LET k == KeyElement(acc, key)
      e == Element(k, val)
  IN [e EXCEPT !.h = tDICT__seto(e.h, cur, k.r, e.r)]

FillArray(acc, cur, refs) ==
  LET filled[i \in 0 .. Len(refs)] ==
        IF i = 0 THEN acc ELSE AddElement(filled[i - 1], cur, refs[i])
  IN filled[Len(refs)]
FillDict(acc, cur, refs) ==
  LET half == Len(refs) \div 2
      filled[i \in 0 .. half] ==
        IF i = 0 THEN acc ELSE AddPair(filled[i - 1], cur, refs[i], refs[half + i])
  IN filled[half]

\* Pass 2 goes through the file again and fills the containers.
bpList__pass2 ==
  /\ pc = "pass2" /\ onum < maxObNum
  /\ LET tok == file.toks[onum + 1]
         cur == obs[iter.block][iter.pos]
         acc == [h |-> heap, used |-> used, r |-> 0]
         full == CASE tok.t = "ARR" -> FillArray(acc, cur, tok.refs)
                   [] tok.t = "DICT" -> FillDict(acc, cur, tok.refs)
                   [] OTHER -> acc
     IN heap' = full.h /\ used' = full.used
  /\ onum' = onum + 1
  /\ iter' = ptrArr__iter(obs, iter).it
  /\ UNCHANGED <<source, aux, array, pc, file, obs, at, maxo>>

EndPass2 ==
  /\ pc = "pass2" /\ onum >= maxObNum
  /\ pc' = "expand"
  /\ UNCHANGED <<source, aux, array, reading>>

\* The objects are expanded from the first one after "$null".  A value of an
\* earlier object of the block stays as it was.
Expand ==
  /\ pc = "expand"
  /\ LET whole == Dearchived(heap, obs[1][1])
     IN heap' = whole.heap /\ array' = Append(array, whole.value)
  /\ pc' = "next"
  /\ UNCHANGED <<source, aux, file, obs, at, onum, maxo, iter, used>>

Stopped == pc \in {"done", "failed"} /\ UNCHANGED vars

Next == \/ ReadNumber \/ ReadObject \/ EndOfBlock \/ bpList__pass1 \/ StartPass2
        \/ bpList__pass2 \/ EndPass2 \/ Expand \/ Stopped

Spec == Init /\ [][Next]_vars

(***************************************************************************)
(* Properties.                                                             *)
(***************************************************************************)
Held(o) == [key |-> Keys(heap, o), val |-> Vals(heap, o)]

\* Each place of a list, with the object that is there.
Places ==
  UNION {LET held == Held(o)[s]
         IN {[of |-> o, side |-> s, place |-> i, ob |-> held[i]] : i \in DOMAIN held} :
         o \in DOMAIN heap, s \in Sides}

\* Until the objects are expanded no object is in two lists, or twice in one.
InOneList ==
  pc \in {"pass2", "expand"} => \A p, q \in Places : p.ob = q.ob => p = q

\* An element is the object of its number, or refers to it; a key may be a copy.
Stands(h, side, o, key) ==
  \/ Deref(h, o) = ptrArr__get(obs, key)
  \/ side = "key" /\ h[o].v = Kept(file.toks[key + 1])

\* After pass 2 every container but the last object holds what the file says.
FilledButTheLast ==
  pc = "expand" =>
    \A n \in 1 .. maxObNum :
      LET tok == file.toks[n]
          held == Held(ptrArr__get(obs, n - 1))
          keys == IF tok.t = "DICT" THEN Len(tok.refs) \div 2 ELSE 0
      IN tok.t \in {"ARR", "DICT"} =>
           /\ Len(held.key) = keys /\ Len(held.val) = Len(tok.refs) - keys
           /\ \A i \in DOMAIN held.key : Stands(heap, "key", held.key[i], tok.refs[i])
           /\ \A i \in DOMAIN held.val : Stands(heap, "val", held.val[i], tok.refs[keys + i])

\* The two passes meet at every object, in whatever block of ChunkMax pointers it
\* is (ptrarr.c:17), and fill all containers but the last object
\* (plist_read.c:371), whoever else names their elements: linking one into a list
\* does not cut the rest of another list off (archiver.c:236).
ListsAreWhole ==
  /\ \A b \in DOMAIN obs : Len(obs[b]) <= ChunkMax
  /\ InOneList
  /\ FilledButTheLast

\* Every step brings the end of the block nearer: fewer primitives are left, or
\* a later phase of the archive is reached, or fewer objects are left to a pass.
\* With no deadlock, reading ends for every block; it is given up only for bytes
\* that are no archive, which only this program sends.
Left == <<Len(aux), CASE pc = "pass1" -> 4 [] pc = "pass2" -> 3 [] pc = "expand" -> 2
                      [] pc = "next" -> 1 [] OTHER -> 0, file.count - onum>>
Nearer ==
  \/ Left[1]' < Left[1]
  \/ Left[1]' = Left[1] /\ Left[2]' < Left[2]
  \/ Left[1]' = Left[1] /\ Left[2]' = Left[2] /\ Left[3]' < Left[3]
ReadingEnds == [][Nearer /\ (pc' = "failed" => source.who = "call")]_vars
=============================================================================
