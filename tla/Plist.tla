-------------------------------- MODULE Plist --------------------------------
(***************************************************************************)
(* The binary property list: how it is written (archiver/plist.c) and what *)
(* it says to a reader that follows the format.  A file is the sequence of *)
(* its objects, in the order they lie in it, the position each starts at,  *)
(* and the table of offsets; a container names its elements by number.     *)
(* The writer of this program keeps offsets and numbers in one word, and   *)
(* writes equal strings again; the writer of the device shares them.       *)
(***************************************************************************)
EXTENDS Archiver

CONSTANT WordMod    \* 2^16: what an offset and a number are cut to
ASSUME WordModAssumption == WordMod \in Nat \ {0}

\* A text that is not ASCII is two bytes for each letter; it and the date of a
\* property list only come from the device.
Scalars == {"STR", "UTF16", "I8", "I16", "I32", "I64", "F2", "TIME", "DATA"}

\* Bytes of a length that does not fit beside the type.
encodeSize(n) == CASE n < 15 -> 0 [] n < 127 -> 2 [] n < 32767 -> 3 [] OTHER -> 5

LongBytes(n) == 1 + encodeSize(n) + n
UidBytes(n) == IF n <= 127 THEN 2 ELSE 3    \* larger numbers need no model: WordMod comes first

\* Bytes of an object, its elements not counted.
Bytes(x) ==
  CASE x.t \in {"BOOL", "NULL"} -> 1
    [] x.t = "I8" -> 2
    [] x.t = "I16" -> 3
    [] x.t = "I32" -> 5
    [] x.t \in {"I64", "F2", "TIME"} -> 9
    [] x.t = "ARCID" -> UidBytes(x.v)
    [] x.t \in {"STR", "DATA"} -> LongBytes(Len(x.v))
    [] x.t = "UTF16" -> 1 + encodeSize(Len(x.v) \div 2) + Len(x.v)
    [] x.t = "ARR" -> 1 + encodeSize(Len(x.v)) + 2 * Len(x.v)
    [] x.t = "DICT" -> 1 + encodeSize(Len(x.v)) + 4 * Len(x.v)

\* What a container holds, in the order it is written: all keys, then all values.
Elements(x) ==
  CASE x.t = "ARR" -> x.v
    [] x.t = "DICT" -> [i \in DOMAIN x.v |-> STR(x.v[i][1])] \o [i \in DOMAIN x.v |-> x.v[i][2]]
    [] OTHER -> <<>>

\* Mutated: an offset is kept in half the bits.
tOFFS__addShort(offs, off) == Append(offs, off % (WordMod \div 4))
tOFFS__add(offs, off) == Append(offs, off % WordMod)

\* The bytes of an object go to the end of the file so far.
bytearr__append(out, x) ==
  [out EXCEPT !.toks = Append(@, [t |-> x.t, refs |-> <<>>,
                                  v |-> IF Elements(x) = <<>> THEN x.v ELSE ""]),
              !.starts = Append(@, out.size),
              !.offs = tOFFS__add(@, out.size),
              !.count = (@ + 1) % WordMod,
              !.size = @ + Bytes(x)]

RECURSIVE tBASE__plist(_, _)

\* An object is given its number and its place before its elements are written,
\* and the places for their numbers are filled when they are known.
tBASE__plist(out, x) ==
  LET n == Len(out.toks) + 1
      same == {i \in DOMAIN out.toks : out.toks[i].t = x.t /\ out.toks[i].v = x.v}
      all == FoldLeft(LAMBDA acc, y : LET r == tBASE__plist(acc.out, y)
                                      IN [out |-> r.out, ids |-> Append(acc.ids, r.id)],
                      [out |-> bytearr__append(out, x), ids |-> <<>>], Elements(x))
  IN IF out.sharing /\ x.t \in Scalars /\ same # {}
     THEN [out |-> out, id |-> (CHOOSE i \in same : TRUE) - 1]
     ELSE [out |-> [all.out EXCEPT !.toks[n].refs = all.ids], id |-> (n - 1) % WordMod]

\* The file of a value: the magic is the first 8 bytes, the table of offsets and
\* the trailer, with the count of the objects, follow the objects.
tBASE__tobin(x, sharing) ==
  tBASE__plist([toks |-> <<>>, starts |-> <<>>, offs |-> <<>>, size |-> 8, count |-> 0,
                sharing |-> sharing], x).out

(***************************************************************************)
(* A reader that follows the format, by the table of offsets.              *)
(***************************************************************************)
\* Every entry of the table leads to the object it is the entry of.
OffsetsTrue(file) == file.offs = file.starts

RECURSIVE Plain(_, _)
Plain(file, n) ==
  LET at == SelectInSeq(file.starts, LAMBDA s : s = file.offs[n + 1])
      o == file.toks[at]
      refs == o.refs
      half == Len(refs) \div 2
  IN CASE at = 0 -> Val("LOST", "")
       [] o.t = "ARR" -> ARR([i \in DOMAIN refs |-> Plain(file, refs[i])])
       [] o.t = "DICT" -> DICT([i \in 1 .. half |-> <<Plain(file, refs[i]).v,
                                                     Plain(file, refs[half + i])>>])
       [] OTHER -> Val(o.t, o.v)

Objects(file) == Field(Plain(file, 0).v, "$objects").v

(***************************************************************************)
(* What the objects of an archive mean: the value numbered u.  Leaves that *)
(* are objects keep "at", the number that tells two of them apart: of its  *)
(* class for a UUID and a URL, its own for a date.                         *)
(***************************************************************************)
Leaf(t, v, at) == [t |-> t, v |-> v, at |-> at]

RECURSIVE Meaning(_, _)
Meaning(objs, u) ==
  LET o == objs[u + 1]
      cls == Field(o.v, "$class").v
      name == Field(objs[cls + 1].v, "$classname").v
      Text(key) == objs[Field(o.v, key).v + 1].v
      Named(key) == LET ids == Field(o.v, key).v IN [i \in DOMAIN ids |-> Meaning(objs, ids[i].v)]
      Pairs(d) == LET ks == Field(d, "NS.keys").v
                      vs == Field(d, "NS.objects").v
                  IN [i \in DOMAIN ks |-> <<objs[ks[i].v + 1].v, Meaning(objs, vs[i].v)>>]
  IN CASE o.t # "DICT" -> o
       [] name \in {"NSArray", "NSMutableArray", "NSSet", "NSMutableSet"} -> ARR(Named("NS.objects"))
       [] name \in {"NSDictionary", "NSMutableDictionary"} -> DICT(Pairs(o.v))
       [] name = "NSUUID" -> Leaf("UUID", Field(o.v, "NS.uuidbytes").v, cls)
       [] name = "NSURL" -> Leaf("URL", Text("NS.relative"), cls)
       [] name = "NSDate" -> Leaf("DATE", Field(o.v, "NS.time").v, u)
       [] name = "NSNull" -> Val("NULL", "")
       [] name = "NSError" -> Val("ERROR", <<Field(o.v, "NSCode"),
                                             Meaning(objs, Field(o.v, "NSUserInfo").v)>>)
       [] name = "DTSysmonTapMessage" -> Meaning(objs, Field(o.v, "DTTapMessagePlist").v)
       [] name = "XCTCapabilities" ->
            Val("CAPS", Meaning(objs, Field(o.v, "capabilities-dictionary").v).v)
       [] name = "XCTestConfiguration" ->
            Val("TESTCONF", [i \in 1 .. Len(o.v) - 1 |->
                  <<o.v[i + 1][1], IF o.v[i + 1][2].t = "ARCID" THEN Meaning(objs, o.v[i + 1][2].v)
                                                                ELSE o.v[i + 1][2]>>])
=============================================================================
