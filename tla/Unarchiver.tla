----------------------------- MODULE Unarchiver -----------------------------
(***************************************************************************)
(* The objects an archive describes (archiver/unarchiver.c), and the blocks *)
(* and files PlistRead reads: blocks this program made of the arguments of *)
(* a call, and blocks the device made, whose archives share classes, dates *)
(* and equal scalars.                                                      *)
(***************************************************************************)
EXTENDS PlistRead, Plist

CONSTANTS Calls,        \* the arguments this program sends, a set of values
          Archives      \* the archives the device sends, each its "$objects"

(***************************************************************************)
(* Expanding: the object a described object stands for.                    *)
(***************************************************************************)
tDICT__get(h, d, key) ==
  LET i == SelectInSeq(Keys(h, d), LAMBDA k : h[k].v = key)
  IN IF i = 0 THEN 0 ELSE Vals(h, d)[i]

willExpand(h, o) == h[Deref(h, o)].t \in {"DICT", "ARR"}

RECURSIVE tARCHIVE__expand(_, _, _)

Expanded(h, objs, o) ==
  IF willExpand(h, o) THEN tARCHIVE__expand(h, objs, o) ELSE [h |-> h, r |-> o]

\* The object an element names.
Named(h, objs, id) == objs[h[Deref(h, id)].v + 1]

expandArray(h, objs, o) ==
  LET ids == Vals(h, tDICT__get(h, o, "NS.objects"))
      Step(acc, id) == LET e == Expanded(acc.h, objs, Named(acc.h, objs, id))
                           ref == New(e.h, "REF", e.r)
                       IN [acc EXCEPT !.h = tARR__add(ref.h, acc.r, ref.r)]
  IN FoldLeft(Step, New(h, "ARR", ""), ids)

expandDict(h, objs, o) ==
  LET ks == Vals(h, tDICT__get(h, o, "NS.keys"))
      vs == Vals(h, tDICT__get(h, o, "NS.objects"))
      Step(acc, i) == LET e == Expanded(acc.h, objs, Named(acc.h, objs, vs[i]))
                          key == tBASE__dup(e.h, Named(h, objs, ks[i]))
                          ref == New(key.h, "REF", e.r)
                      IN [acc EXCEPT !.h = tDICT__seto(ref.h, acc.r, key.r, ref.r)]
  IN IF h[o].head["key"] = 0 THEN [h |-> h, r |-> o]
     ELSE FoldLeft(Step, New(h, "DICT", ""), [i \in DOMAIN ks |-> i])

expandCaps(h, objs, o) ==
  LET d == expandDict(h, objs, Named(h, objs, tDICT__get(h, o, "capabilities-dictionary")))
  IN New(d.h, "CAPS", d.r)

expandTestConf(h, objs, o) ==
  LET Step(acc, k) ==
        LET held == Deref(acc.h, tDICT__get(acc.h, o, acc.h[k].v))
            val == IF acc.h[held].t = "ARCID" THEN Named(acc.h, objs, held) ELSE held
            e == IF acc.h[k].v = "$class" THEN [h |-> acc.h, r |-> val]
                                          ELSE Expanded(acc.h, objs, val)
            key == tBASE__dup(e.h, k)
            ref == New(key.h, "REF", e.r)
        IN [acc EXCEPT !.h = tDICT__seto(ref.h, acc.r, key.r, ref.r)]
  IN FoldLeft(Step, New(h, "DICT", ""), Keys(h, o))

\* The name of the class, the object itself, becomes a value of the new dictionary.
ClassName(h, objs, o) ==
  tDICT__get(h, Deref(h, Named(h, objs, tDICT__get(h, o, "$class"))), "$classname")

\* Each key of "keys" is set to what it names, or to what it holds.
WithClass(h, objs, o, keys) ==
  LET d == New(h, "DICT", "")
      Step(acc, key) ==
        LET held == Deref(acc.h, tDICT__get(acc.h, o, key))
            val == IF acc.h[held].t = "ARCID" THEN Named(acc.h, objs, held) ELSE held
            ref == New(acc.h, "REF", val)
        IN [acc EXCEPT !.h = tDICT__set(ref.h, acc.r, key, ref.r)]
  IN FoldLeft(Step, [d EXCEPT !.h = tDICT__set(d.h, d.r, "$class", ClassName(h, objs, o))], keys)

expandUUID(h, objs, o) == WithClass(h, objs, o, <<"NS.uuidbytes">>)
expandURL(h, objs, o) == WithClass(h, objs, o, <<"NS.base", "NS.relative">>)

\* The time is moved in place; where it is a reference, the reference is spoilt.
expandDate(h, o) ==
  LET time == tDICT__get(h, o, "NS.time")
  IN [h |-> IF h[time].t = "REF" THEN [h EXCEPT ![time].t = "WILD", ![time].v = 0]
                                 ELSE [h EXCEPT ![time].shift = @ + 1],
      r |-> time]

expandError(h, objs, o) ==
  LET d == New(h, "DICT", "")
      type == New(d.h, "STR", "NSError")
      h1 == tDICT__set(type.h, d.r, "Type", type.r)
      h2 == tDICT__set(h1, d.r, "NSCode", tDICT__get(h1, o, "NSCode"))
      info == expandDict(h2, objs, Named(h2, objs, tDICT__get(h2, o, "NSUserInfo")))
  IN [h |-> tDICT__set(info.h, d.r, "NSUserInfo", info.r), r |-> d.r]

tARCHIVE__expand(h, objs, ref) ==
  LET o == Deref(h, ref)
      class == h[Deref(h, ClassName(h, objs, o))].v
  IN CASE h[o].t # "DICT" -> [h |-> h, r |-> o]
       [] class = "NSURL" -> expandURL(h, objs, o)
       [] class = "NSUUID" -> expandUUID(h, objs, o)
       [] class \in {"NSDictionary", "NSMutableDictionary"} -> expandDict(h, objs, o)
       [] class = "XCTestConfiguration" -> expandTestConf(h, objs, o)
       [] class = "XCTCapabilities" -> expandCaps(h, objs, o)
       [] class \in {"NSArray", "NSMutableArray", "NSSet", "NSMutableSet"} -> expandArray(h, objs, o)
       [] class = "NSDate" -> expandDate(h, o)
       [] class = "DTSysmonTapMessage" ->
            expandDict(h, objs, Named(h, objs, tDICT__get(h, o, "DTTapMessagePlist")))
       [] class = "NSError" -> expandError(h, objs, o)
       [] class = "NSNull" -> New(h, "NULL", "")
       [] OTHER -> [h |-> h, r |-> o]

\* What an object looks like from outside, references followed.
RECURSIVE Tree(_, _)
Tree(h, o) ==
  LET x == h[o]
      vs == Vals(h, o)
  IN CASE x.t = "REF" -> Tree(h, x.v)
       [] x.t = "ARR" -> ARR([i \in DOMAIN vs |-> Tree(h, vs[i])])
       [] x.t = "DICT" -> LET ks == Keys(h, o)
                          IN DICT([i \in DOMAIN ks |-> <<h[ks[i]].v, Tree(h, vs[i])>>])
       [] x.t = "CAPS" -> Val("CAPS", Tree(h, x.v).v)
       [] x.t = "F2" -> Leaf("F2", x.v, x.shift)
       [] OTHER -> Val(x.t, x.v)

\* The value of the first object after "$null", and what expanding it left of the
\* heap.
dearchive(h, root) ==
  LET objs == Vals(h, tDICT__get(h, root, "$objects"))
      whole == tARCHIVE__expand(h, objs, objs[2])
  IN [heap |-> whole.h, value |-> Tree(whole.h, whole.r)]

(***************************************************************************)
(* Blocks and files.                                                       *)
(***************************************************************************)
Senders == [who : {"call"}, x : Calls] \union [who : {"early", "late"}, x : Archives]

ArchiveOf(objs) ==
  DICT(<< <<"$version", Val("I32", 100000)>>, <<"$archiver", STR("NSKeyedArchiver")>>,
          <<"$objects", ARR(objs)>>, <<"$top", DICT(<< <<"root", ARCID(1)>> >>)>> >>)
\* The device orders the keys of a dictionary as it likes.
LastFirst(x) == DICT(<<x.v[1], x.v[2], x.v[4], x.v[3]>>)

Block(s) ==
  IF s.who = "call" THEN tBASE__asaux(s.x)
  ELSE <<[kind |-> "object", v |-> IF s.who = "late" THEN LastFirst(ArchiveOf(s.x))
                                                     ELSE ArchiveOf(s.x)]>>

\* The device writes each scalar once.
File(v, s) == tBASE__tobin(v, s.who # "call")

(***************************************************************************)
(* Properties.                                                             *)
(***************************************************************************)
RECURSIVE Arrives(_)
\* What an argument is to the device: data inside another value is lost.
Arrives(x) ==
  CASE x.t = "ARR" -> ARR([i \in DOMAIN x.v |-> Arrives(x.v[i])])
    [] x.t \in {"DICT", "CAPS", "TESTCONF"} ->
         Val(x.t, [i \in DOMAIN x.v |-> <<x.v[i][1], Arrives(x.v[i][2])>>])
    [] x.t \in Archivable -> x
    [] OTHER -> STR("$null")

RECURSIVE Plainly(_)
\* A meaning without the numbers of its leaves.
Plainly(x) ==
  CASE x.t = "ARR" -> ARR([i \in DOMAIN x.v |-> Plainly(x.v[i])])
    [] x.t \in {"DICT", "CAPS", "TESTCONF"} ->
         Val(x.t, [i \in DOMAIN x.v |-> <<x.v[i][1], Plainly(x.v[i][2])>>])
    [] OTHER -> Val(x.t, x.v)

\* A lone argument of capabilities arrives as the dictionary it holds.
ArrivesAlone(x) == IF x.t = "CAPS" THEN [Arrives(x) EXCEPT !.t = "DICT"] ELSE Arrives(x)

\* Every argument of a call is where the device looks for it and means what was
\* sent, as long as its archive is shorter than the largest offset; only an
\* argument of data puts one more primitive in the block and moves the rest.
ArgumentsArrive ==
  (source.who = "call" /\ pc = "next" /\ array = <<>> /\ aux = BlockOf(source)) =>
    LET args == IF source.x.t = "ARR" THEN source.x.v ELSE <<source.x>>
        Before(i) == Len(SelectSeq(SubSeq(args, 1, i - 1), LAMBDA x : x.t = "DATA"))
    IN /\ Len(aux) = Len(args) + Before(Len(args) + 1)
       /\ \A i \in DOMAIN args :
            LET item == aux[i + Before(i)]
                out == tBASE__tobin(item.v, FALSE)
            IN IF item.kind # "object" THEN item.v = args[i].v
               ELSE out.size <= WordMod =>
                      OffsetsTrue(out) /\ Plainly(Meaning(Objects(out), 1)) = ArrivesAlone(args[i])

RECURSIVE Leaves(_)
\* The objects of a meaning that are expanded in a way of their own, in order.
Leaves(x) ==
  CASE x.t = "ARR" -> FlattenSeq([i \in DOMAIN x.v |-> Leaves(x.v[i])])
    [] x.t \in {"DICT", "CAPS", "TESTCONF"} ->
         FlattenSeq([i \in DOMAIN x.v |-> Leaves(x.v[i][2])])
    [] x.t = "ERROR" -> Leaves(x.v[2])
    [] x.t \in {"UUID", "URL", "DATE"} -> <<x>>
    [] OTHER -> <<>>

RECURSIVE Shown(_, _)
\* How the program shows a meaning.  Objects of one class show the last of them,
\* a date is moved once for each time it is named, and is spoilt where another
\* date made its time first.  A text that is not ASCII ends at its first zero byte,
\* the date of a property list has its bytes in the wrong order, and a number too
\* large for its bytes with a sign is shown below zero.
Shown(x, leaves) ==
  LET Of(pairs) == [i \in DOMAIN pairs |-> <<pairs[i][1], Shown(pairs[i][2], leaves)>>]
      alike == SelectSeq(leaves, LAMBDA y : y.t = x.t /\ y.at = x.at)
      last == alike[Len(alike)].v
      spoilt == \E y \in ToSet(leaves) : y.t = "DATE" /\ y.v = x.v /\ y.at < x.at
  IN CASE x.t = "ARR" -> ARR([i \in DOMAIN x.v |-> Shown(x.v[i], leaves)])
       [] x.t \in {"DICT", "CAPS"} -> Val(x.t, Of(x.v))
       [] x.t = "TESTCONF" -> DICT(<< <<"$class", Class("XCTestConfiguration")>> >> \o Of(x.v))
       [] x.t = "UUID" -> DICT(<< <<"$class", STR("NSUUID")>>,
                                  <<"NS.uuidbytes", Val("DATA", last)>> >>)
       [] x.t = "URL" -> DICT(<< <<"$class", STR("NSURL")>>, <<"NS.base", STR("$null")>>,
                                 <<"NS.relative", STR(last)>> >>)
       [] x.t = "DATE" -> IF spoilt THEN Val("WILD", 0) ELSE Leaf("F2", x.v, Len(alike))
       [] x.t = "ERROR" -> DICT(<< <<"Type", STR("NSError")>>, <<"NSCode", Shown(x.v[1], leaves)>>,
                                   <<"NSUserInfo", Shown(x.v[2], leaves)>> >>)
       [] OTHER -> Val(KindOf(x), Kept(x))

=============================================================================
