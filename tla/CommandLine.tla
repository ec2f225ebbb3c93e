--------------------------- MODULE CommandLine ---------------------------
(* The commands and options of the program (main.c) and the reader of its  *)
(* command line (uclop.c).  The options of a command hang on an intrusive   *)
(* list: the one cell of "-id" is linked into the lists of many commands,   *)
(* so every list shares what comes after it.                                *)
EXTENDS Integers, Sequences, SequencesExt, FiniteSets

CONSTANTS Null,       \* a value that was not given
          DashWords   \* the words that start with a dash

(* A cell is named by its option and by the list that created it. *)
uopt__new(name, list, type, required) ==
  [name |-> name, list |-> list, type |-> type, required |-> required]
UOPT(name, list) == uopt__new(name, list, "value", FALSE)
UOPT_FLAG(name, list) == uopt__new(name, list, "flag", FALSE)
UOPT_REQUIRED(name, list) == uopt__new(name, list, "value", TRUE)
idopt == UOPT("-id", "any")

opts_list          == <<UOPT_FLAG("-json", "list")>>
udid_option        == <<idopt>>
idoptFirst         == <<idopt, UOPT_FLAG("-json", "udid")>>
udid_w_json_option == <<UOPT_FLAG("-json", "udid"), idopt>>
opts_install       == <<UOPT_REQUIRED("-path", "install"), idopt>>
opts_ps == <<UOPT_FLAG("-subsec", "ps"), UOPT_FLAG("-short", "ps"), UOPT_FLAG("-apps", "ps"),
             UOPT("-appname", "ps"), UOPT_FLAG("-raw", "ps"), idopt>>
opts_iserver  == <<UOPT("-port", "iserver"), idopt>>
opts_listapps == <<UOPT("-bi", "listapps"), idopt>>
opts_syslog   == <<UOPT_FLAG("-raw", "syslog"), idopt>>

(* What main adds, in its order: a command and the array of its options. *)
CommandTable ==
  LET cmd(name, opts) == [name |-> name, opts |-> opts]
  IN  << cmd("default", <<>>), cmd("log", opts_syslog), cmd("list", opts_list), cmd("detectloop", <<>>),
         cmd("img", udid_option), cmd("gas", <<>>), cmd("syscfg", <<>>), cmd("ps", opts_ps),
         cmd("btest", <<>>), cmd("sysmon", <<>>), cmd("smproclist", <<>>), cmd("smsyslist", <<>>),
         cmd("smcoallist", <<>>), cmd("machtimeinfo", <<>>), cmd("notices", <<>>), cmd("battery", <<>>),
         cmd("install", opts_install), cmd("listapps", opts_listapps), cmd("version", <<>>),
         cmd("dl", udid_option), cmd("launch", udid_option), cmd("kill", udid_option),
         cmd("tail", udid_option), cmd("sysinfo", udid_option), cmd("wda", udid_option),
         cmd("cfa", udid_option), cmd("dd", <<>>), cmd("ddf", <<>>), cmd("xctest", udid_option),
         cmd("iserver", opts_iserver), cmd("iosversion", udid_option), cmd("mg", udid_w_json_option),
         cmd("info", udid_w_json_option), cmd("ls", <<>>), cmd("ioreg", <<>>), cmd("tunnel", udid_option) >>

CommandNames == {CommandTable[k].name : k \in DOMAIN CommandTable}
Cells == UNION {ToSet(CommandTable[k].opts) : k \in DOMAIN CommandTable}

(* "Nothing" is neither an option nor a word. *)
ASSUME CommandLineAssumption == Null \notin Cells /\ Null \notin DashWords

MaxWalk == 20   \* bound: the cells a walk looks at; there are fewer

(* The first option becomes head and tail of the command's list; another   *)
(* is hung behind the tail, whose cell other lists may hold too.            *)
ucmd__addopt(lists, cmd, opt) ==
  IF lists.head[cmd] = Null
  THEN [lists EXCEPT !.head[cmd] = opt, !.tail[cmd] = opt]
  ELSE [lists EXCEPT !.next[lists.tail[cmd]] = opt, !.tail[cmd] = opt]

uclop__addcmd(lists, row) ==
  LET with[k \in 0..Len(row.opts)] ==
        IF k = 0 THEN lists ELSE ucmd__addopt(with[k - 1], row.name, row.opts[k])
  IN  with[Len(row.opts)]

NoLists == [head |-> [c \in CommandNames |-> Null], tail |-> [c \in CommandNames |-> Null],
            next |-> [o \in Cells |-> Null]]
Lists ==
  LET with[k \in 0..Len(CommandTable)] ==
        IF k = 0 THEN NoLists ELSE uclop__addcmd(with[k - 1], CommandTable[k])
  IN  with[Len(CommandTable)]

(* The cells a walk from the head of a command's list meets, in order.     *)
(* The operators below take them as the list opts.                          *)
StepOn(walk) ==
  IF walk.at = Null THEN walk
  ELSE [at |-> Lists.next[walk.at], met |-> Append(walk.met, walk.at)]
OptionsOf(cmd) ==
  LET walk[k \in 0..MaxWalk] ==
        IF k = 0 THEN [at |-> Lists.head[cmd], met |-> <<>>] ELSE StepOn(walk[k - 1])
  IN  walk[MaxWalk].met

(* main has built every list before the words are read. *)
OptionTable == [cmd \in CommandNames |-> OptionsOf(cmd)]

(* The first option of that name. *)
ucmd__find_opt(opts, name) ==
  LET Named(k) == opts[k].name = name
  IN  IF \E k \in DOMAIN opts : Named(k)
      THEN opts[CHOOSE k \in DOMAIN opts : Named(k) /\ \A j \in 1..k - 1 : ~Named(j)]
      ELSE Null

(* vals is what each option of the command says; Null if it was not given. *)
ucmd__get(vals, name) == IF name \in DOMAIN vals THEN vals[name] ELSE Null

ucmd__ensure_required(opts, vals) ==
  \A o \in ToSet(opts) : o.required => vals[o.name] # Null

(* The word at place i, and the option it is. *)
WordAt(words, i) == IF i \in DOMAIN words THEN words[i] ELSE Null
OptionAt(opts, words, i) ==
  IF WordAt(words, i) \in DashWords THEN ucmd__find_opt(opts, WordAt(words, i)) ELSE Null
Takes(opts, words, i, type) == OptionAt(opts, words, i) # Null /\ OptionAt(opts, words, i).type = type

(* Reading the options from word start on: looks[i] says that the loop gets *)
(* to word i, past a flag or past an option and the word after it, with no   *)
(* look at the end of the words.  It stops at the first that is no option.   *)
ReadOptions(opts, words, start) ==
  LET looks[i \in start..Len(words) + 2] ==
        \/ i = start
        \/ i > start /\ Takes(opts, words, i - 1, "flag") /\ looks[i - 1]
        \/ i > start + 1 /\ Takes(opts, words, i - 2, "value") /\ looks[i - 2]
      stop == CHOOSE i \in start..Len(words) + 2 : looks[i] /\ OptionAt(opts, words, i) = Null
      Says(name) == {i \in start..stop - 1 : looks[i] /\ WordAt(words, i) = name}
      Latest(S) == CHOOSE i \in S : \A j \in S : j <= i
  IN  [i |-> stop, known |-> WordAt(words, stop) \notin DashWords,
       vals |-> [n \in {o.name : o \in ToSet(opts)} |->
                   IF Says(n) = {} THEN Null
                   ELSE IF Takes(opts, words, Latest(Says(n)), "flag") THEN "true"
                   ELSE WordAt(words, Latest(Says(n)) + 1)]]

(* What is left of the words, counted without a look at their end. *)
RestOf(words, i) == [argc |-> Len(words) - i + 1, argv |-> SubSeq(words, i, Len(words))]

(* uclop__run: the command's name, its options, what is left.  words are   *)
(* argv[1..argc]; outcome is what becomes of the program.                   *)
uclop__run(words) ==
  LET named == words # <<>> /\ words[1] \notin DashWords
      cmd   == IF named THEN words[1] ELSE "default"
      opts  == OptionTable[cmd]
      r     == ReadOptions(opts, words, IF named THEN 2 ELSE 1)
      rest  == RestOf(words, r.i)
      res(outcome) == [outcome |-> outcome, cmd |-> cmd, opts |-> opts, vals |-> r.vals,
                       argc |-> rest.argc, argv |-> rest.argv]
  IN  IF cmd \notin CommandNames
      THEN [outcome |-> "usage", cmd |-> cmd, opts |-> <<>>, vals |-> <<>>, argc |-> 0, argv |-> <<>>]
      ELSE res(CASE ~r.known -> "exit1"
                 [] r.known /\ ~ucmd__ensure_required(opts, r.vals) -> "exit1"
                 [] OTHER -> IF cmd = "default" THEN "usage" ELSE "run")
=============================================================================
