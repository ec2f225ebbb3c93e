------------------------------ MODULE MCArchive ------------------------------
(***************************************************************************)
(* Calls of every type of argument this program sends, and archives of     *)
(* every class it knows, two of a class and two of a date among them, and  *)
(* texts of two bytes a letter, dates and numbers that are no objects.     *)
(***************************************************************************)
EXTENDS Unarchiver

I8(n) == Val("I8", n)
BOOL(b) == Val("BOOL", b)
UUID(b) == Val("UUID", b)

MCCalls ==
  {STR("a"), I8(1), Val("I16", 300), Val("I64", 7), Val("NULL", ""),
   ARR(<<STR("a"), STR("a"), I8(1)>>),
   ARR(<<Val("I32", 9), UUID("idid"), Val("CAPS", << <<"k", I8(1)>> >>)>>),
   ARR(<<Val("DATA", ""), I8(3)>>),
   ARR(<<UUID("idid"), Val("DATA", ""), Val("I32", 2), STR("b")>>),
   DICT(<< <<"k", BOOL("1")>>, <<"l", ARR(<<I8(1), UUID("u1"), UUID("u2")>>)>> >>),
   DICT(<< <<"d", Val("DATA", "xy")>>, <<"e", DICT(<<>>)>>, <<"f", Val("URL", "f")>> >>),
   Val("CAPS", << <<"k", I8(1)>>, <<"l", STR("k")>> >>),
   Val("TESTCONF", << <<"a", BOOL("1")>>, <<"b", STR("a")>>, <<"u", Val("URL", "u")>>,
                      <<"c", Val("CAPS", << <<"k", I8(1)>> >>)>>, <<"n", Val("DATA", "x")>> >>),
   ARR([i \in 1 .. 16 |-> STR("a text that is not so short")]),
   ARR(<<ARR([i \in 1 .. 16 |-> STR("a text that is longer than the others, so that a few are a long file")])>>)}

Name(c) == DICT(<< <<"$classname", STR(c)>>, <<"$classes", ARR(<<STR(c), STR("NSObject")>>)>> >>)
Of(c, pairs) == DICT(Append(pairs, <<"$class", ARCID(c)>>))
Arr(c, ids) == Of(c, << <<"NS.objects", Ids(ids)>> >>)
Dict(c, ks, vs) == Of(c, << <<"NS.keys", Ids(ks)>>, <<"NS.objects", Ids(vs)>> >>)
Null == STR("$null")
Text(bytes) == Val("UTF16", bytes)
Date(c, t) == Of(c, << <<"NS.time", Val("F2", t)>> >>)

MCArchives ==
  {<<Null, STR("text")>>,
   <<Null, Arr(2, <<3, 3, 4>>), Name("NSArray"), STR("a"), STR("NSArray")>>,
   <<Null, Arr(5, <<2, 3, 2>>), Of(4, << <<"NS.uuidbytes", Val("DATA", "one")>> >>),
     Of(4, << <<"NS.uuidbytes", Val("DATA", "two")>> >>), Name("NSUUID"), Name("NSMutableArray")>>,
   <<Null, Arr(6, <<2, 3>>), Of(5, << <<"NS.base", ARCID(0)>>, <<"NS.relative", ARCID(4)>> >>),
     Of(5, << <<"NS.base", ARCID(0)>>, <<"NS.relative", ARCID(7)>> >>), STR("one"),
     Name("NSURL"), Name("NSSet"), STR("two")>>,
   <<Null, Arr(5, <<2, 3, 2>>), Date(4, "100"), Date(4, "200"), Name("NSDate"), Name("NSArray")>>,
   <<Null, Arr(5, <<3, 2>>), Date(4, "100"), Date(4, "100"), Name("NSDate"), Name("NSArray")>>,
   <<Null, Dict(6, <<2, 3>>, <<4, 5>>), STR("k"), STR("l"), STR("k"), Dict(6, <<>>, <<>>),
     Name("NSDictionary")>>,
   <<Null, Of(5, << <<"NSDomain", ARCID(2)>>, <<"NSUserInfo", ARCID(3)>>, <<"NSCode", Val("I8", 4)>> >>),
     STR("domain"), Dict(4, <<2>>, <<0>>), Name("NSDictionary"), Name("NSError")>>,
   <<Null, Of(3, << <<"DTTapMessagePlist", ARCID(2)>> >>), Dict(4, <<5>>, <<6>>),
     Name("DTSysmonTapMessage"), Name("NSMutableDictionary"), STR("pid"), Val("I64", 7)>>,
   <<Null, Arr(3, <<2, 0>>), Of(4, <<>>), Name("NSMutableSet"), Name("NSNull")>>,
   <<Null, Arr(5, <<2, 3, 4, 2, 6, 7>>), Text(<<78, 45, 0, 97>>), Text(<<0, 233>>),
     Text(<<78, 45, 101, 135>>), Name("NSArray"), I8(200), Val("I16", 40000)>>,
   <<Null, Dict(6, <<2, 3>>, <<4, 5>>), STR("name"), STR("when"), Text(<<104, 13, 0, 49>>),
     Val("TIME", "100"), Name("NSDictionary")>>}
=============================================================================
