------------------------------ MODULE Archiver ------------------------------
(***************************************************************************)
(* How arguments become keyed archives (archiver/archiver.c, bytearr.c).   *)
(* A value is a record of its type and its content; tOBS__add flattens a   *)
(* tree of values to the numbered "$objects" of an archive, in which one   *)
(* object names another by its number, and toaux puts the archives in the  *)
(* argument block of a call.  Everything here is a pure function; module   *)
(* Unarchiver is the machine that uses it.                                 *)
(***************************************************************************)
EXTENDS Integers, Sequences, SequencesExt

Val(t, v) == [t |-> t, v |-> v]
STR(s) == Val("STR", s)
ARCID(n) == Val("ARCID", n)
ARR(xs) == Val("ARR", xs)
DICT(pairs) == Val("DICT", pairs)      \* a sequence of <<key, value>>

\* The types the dispatcher of tOBS__add knows; any other gets the number 0.
Archivable == {"I8", "I16", "I32", "I64", "BOOL", "STR", "ARR", "DICT", "UUID",
               "CAPS", "TESTCONF", "URL", "NULL"}

Field(pairs, key) == pairs[SelectInSeq(pairs, LAMBDA p : p[1] = key)][2]

\* The dictionary that names the class of an object.
Class(name) == DICT(<< <<"$classes", ARR(<<STR(name), STR("NSObject")>>)>>,
                       <<"$classname", STR(name)>> >>)

\* An object takes the next number; scalars are added by reference.
tOBS__rawadd(obs, x) == [obs |-> Append(obs, x), id |-> Len(obs) + 1]

RECURSIVE tOBS__add(_, _)

\* The numbers of several values, added one after the other.
AddAll(obs, xs) ==
  FoldLeft(LAMBDA acc, x : LET r == tOBS__add(acc.obs, x)
                           IN [obs |-> r.obs, ids |-> Append(acc.ids, r.id)],
           [obs |-> obs, ids |-> <<>>], xs)

Ids(ids) == ARR([i \in DOMAIN ids |-> ARCID(ids[i])])

tARR__toobs(obs, xs) ==
  LET self == Len(obs) + 1
      r == AddAll(obs \o <<DICT(<<>>), Class("NSArray")>>, xs)
  IN [obs |-> [r.obs EXCEPT ![self] = DICT(<< <<"$class", ARCID(self + 1)>>,
                                              <<"NS.objects", Ids(r.ids)>> >>)],
      id |-> self]

\* Key and value of a pair are added in turn.
tDICT__toobs(obs, pairs) ==
  LET self == Len(obs) + 1
      turns == [i \in 1 .. 2 * Len(pairs) |->
                  IF i % 2 = 1 THEN STR(pairs[(i + 1) \div 2][1]) ELSE pairs[i \div 2][2]]
      r == AddAll(obs \o <<DICT(<<>>), Class("NSDictionary")>>, turns)
  IN [obs |-> [r.obs EXCEPT ![self] =
                 DICT(<< <<"$class", ARCID(self + 1)>>,
                         <<"NS.keys", Ids([i \in DOMAIN pairs |-> r.ids[2 * i - 1]])>>,
                         <<"NS.objects", Ids([i \in DOMAIN pairs |-> r.ids[2 * i]])>> >>)],
      id |-> self]

tUUID__toobs(obs, bytes) ==
  LET self == Len(obs) + 1
  IN [obs |-> obs \o <<DICT(<< <<"$class", ARCID(self + 1)>>,
                               <<"NS.uuidbytes", Val("DATA", bytes)>> >>),
                       Class("NSUUID")>>,
      id |-> self]

tURL__toobs(obs, relative) ==
  LET self == Len(obs) + 1
  IN [obs |-> obs \o <<DICT(<< <<"$class", ARCID(self + 1)>>, <<"NS.base", ARCID(self + 2)>>,
                               <<"NS.relative", ARCID(self + 3)>> >>),
                       Class("NSURL"), STR("$null"), STR(relative)>>,
      id |-> self]

\* The dictionary of capabilities comes before the object that holds it.
tCAPS__toobs(obs, pairs) ==
  LET dict == tDICT__toobs(obs, pairs)
      self == Len(dict.obs) + 1
  IN [obs |-> dict.obs \o <<DICT(<< <<"capabilities-dictionary", ARCID(dict.id)>>,
                                    <<"$class", ARCID(self + 1)>> >>),
                            Class("XCTCapabilities")>>,
      id |-> self]

\* Small values stay in the configuration, the others are objects of their own.
tTESTCONF__toobs(obs, pairs) ==
  LET self == Len(obs) + 1
      Put(acc, p) ==
        LET keyed == tOBS__rawadd(acc.obs, STR(p[1])).obs
            r == tOBS__add(keyed, p[2])
        IN IF p[2].t \in {"BOOL", "I8"}
           THEN [obs |-> keyed, flat |-> Append(acc.flat, p)]
           ELSE [obs |-> r.obs, flat |-> Append(acc.flat, <<p[1], ARCID(r.id)>>)]
      all == FoldLeft(Put, [obs |-> obs \o <<DICT(<<>>), Class("XCTestConfiguration")>>,
                            flat |-> << <<"$class", ARCID(self + 1)>> >>], pairs)
  IN [obs |-> [all.obs EXCEPT ![self] = DICT(all.flat)], id |-> self]

\* Adding a value and all it holds: the objects so far and the number it got.
tOBS__add(obs, x) ==
  CASE x.t \notin Archivable -> [obs |-> obs, id |-> 0]
    [] x.t = "ARR" -> tARR__toobs(obs, x.v)
    [] x.t = "DICT" -> tDICT__toobs(obs, x.v)
    [] x.t = "UUID" -> tUUID__toobs(obs, x.v)
    [] x.t = "URL" -> tURL__toobs(obs, x.v)
    [] x.t = "CAPS" -> tCAPS__toobs(obs, x.v)
    [] x.t = "TESTCONF" -> tTESTCONF__toobs(obs, x.v)
    [] OTHER -> tOBS__rawadd(obs, x)

tOBS__2arr(obs) == ARR(<<STR("$null")>> \o obs)

\* The property list of an archive, before it is turned to bytes.
tBASE__archivebin(x) ==
  DICT(<< <<"$objects", tOBS__2arr(tOBS__add(<<>>, x).obs)>>,
          <<"$top", DICT(<< <<"root", ARCID(1)>> >>)>>,
          <<"$version", Val("I32", 100000)>>,
          <<"$archiver", STR("NSKeyedArchiver")>> >>)

\* The argument block: what is not archived is a primitive or is left out.
Object(x) == [kind |-> "object", v |-> tBASE__archivebin(x)]
Primitive(kind, v) == [kind |-> kind, v |-> v]

\* The case of data has no break: the number case below it runs as well, and
\* takes the low half of the address of the bytes, which is null, for a number.
tBASE__toaux(x) ==
  CASE x.t \in {"I8", "STR", "ARR", "DICT", "CAPS", "TESTCONF", "URL", "I16", "I64", "NULL",
                "UUID"} -> <<Object(x)>>
    [] x.t = "DATA" -> <<Primitive("raw", x.v), Primitive("i32", 0)>>
    [] x.t = "I32" -> <<Primitive("i32", x.v)>>
    [] OTHER -> <<>>

tARR__asaux(xs) == FlattenSeq([i \in DOMAIN xs |-> tBASE__toaux(xs[i])])
tBASE__asaux(args) == IF args.t = "ARR" THEN tARR__asaux(args.v) ELSE <<Object(args)>>
=============================================================================
