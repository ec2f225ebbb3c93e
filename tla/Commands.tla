----------------------------- MODULE Commands -----------------------------
(* One run of the program: the command line, the subscription to the        *)
(* notices of devices, and what the command's callback does with each       *)
(* device.  A callback is a straight row of steps, written down per command *)
(* under the name it has in the code; a step is a call to the device or a   *)
(* decision, and says what the code makes of its failure.                   *)
EXTENDS CommandLine, Answers

CONSTANTS Devices, CmdLines,
          MaxEvents,   \* bound: devices are plugged in and out this often
          Samples,     \* what sysmon shows before it stops (8)
          RemoteFile   \* the blocks of the file a download is to fetch

(* Commands whose callbacks other modules have, or that touch no device. *)
Elsewhere == {"xctest", "wda", "cfa", "dd", "ddf", "btest"}

ASSUME CommandsAssumption ==
  /\ Samples \in Nat \ {0} /\ MaxEvents \in Nat
  /\ IsFiniteSet(Devices) /\ Null \notin Devices \cup {"exit0", "exit1", "crash"}
  /\ RemoteFile \in Seq(ToSet(RemoteFile))
  /\ \A argv \in CmdLines :
       argv \in Seq(ToSet(argv) \ {Null}) /\ (argv # <<>> => argv[1] \notin Elsewhere)

VARIABLES words, line,       \* argv, and what uclop__run made of it
          pc, code,          \* "start", "subscribe", "loop", "handler", "ended"; how it ended
          queue,             \* notices the run loop has to deliver
          onConnect, onDisconnect, timer,   \* what was registered
          dev, at, garbage,  \* the callback: its device, its step, no service was opened
          n, offset, local,  \* samples shown; a download's position and what it wrote
          plugged, open, events,            \* the outside: devices, their sessions
          sent, feed, touched, mishaps      \* history: notices, lines shown, devices used, failures

cli     == <<words, line>>
process == <<pc, code, queue, onConnect, onDisconnect, timer>>
loopVars == <<n, offset, local>>
outside == <<plugged, events, sent>>
vars == <<words, line, pc, code, queue, onConnect, onDisconnect, timer, dev, at, garbage, n,
          offset, local, plugged, open, events, sent, feed, touched, mishaps>>

-----------------------------------------------------------------------------
(* The steps.  miss is what a failure leads to: a report by exitOnError      *)
(* ("report"), nothing at all ("go"), a read of what is not there            *)
(* ("crash"), a return to the run loop, or an exit.                          *)
Filter    == [op |-> "filter"]
Arg(k)    == [op |-> "arg", k |-> k]              \* argv[k] is used unchecked
Need(k)   == [op |-> "need", k |-> k]             \* fewer than k words: exit(1)
NoWords(to) == [op |-> "noWords", to |-> to]      \* no word at all: go to that step
Ask(miss) == [op |-> "ask", miss |-> miss]        \* a request of the opened service
Tell      == [op |-> "tell"]                      \* a request of the device, unchecked
House     == [op |-> "house"]
Start(miss) == [op |-> "start", miss |-> miss]    \* a request that fills a variable
Use(what) == [op |-> "use", what |-> what]        \* it was not filled: "null", or "any" bits
Check(miss) == [op |-> "check", name |-> Null, miss |-> miss]   \* fopen, a key of the answer
Path      == [op |-> "check", name |-> "-path", miss |-> "crash"]   \* realpath of the option
Found(name) == [op |-> "found", name |-> name]    \* an option names what must be there
Listen(miss) == [op |-> "listen", miss |-> miss]  \* receive for ever
Sample    == [op |-> "sample"]
Fetch     == [op |-> "fetch"]
Serve     == [op |-> "serve"]                     \* another module's loop
Show      == [op |-> "show"]
Exit(c)   == [op |-> "exit", c |-> c]
Return    == [op |-> "return"]

devUp   == <<[op |-> "up"]>>
devDown == <<[op |-> "down"]>>
activateService == devUp \o <<Start("report")>> \o devDown
service__new    == devUp \o <<Start("report")>> \o devDown
service__new_instruments == service__new \o <<Ask("go")>>
initScreenshotService == activateService \o <<Ask("report"), Ask("report"), Ask("report")>>
(* service__connect_channel: a refusal is NULL, and no caller looks. *)
deviceinfo == <<Filter>> \o service__new_instruments \o <<Ask("crash")>>
channel__new_processcontrol == service__new_instruments \o <<Ask("crash")>>

runList       == <<Show, Return>>
detectConnect == devUp \o <<Start("go")>> \o devDown \o <<Use("null"), Show, Return>>
runSysLog     == <<Filter>> \o activateService \o <<Listen("return")>>
runImage      == <<Filter>> \o initScreenshotService
                   \o <<Ask("report"), Ask("crash"), Check("exit1"), Exit("exit0")>>
runIServer    == <<Filter>> \o initScreenshotService \o <<Serve>>
runGG         == activateService \o <<Ask("report"), Ask("crash"), Exit("exit0")>>
runBattery    == activateService \o <<Ask("report"), Ask("crash"), Exit("exit0")>>
runIoreg      == <<Need(1)>> \o activateService \o <<Ask("report"), Ask("crash"), Exit("exit0")>>
runSysCfg     == devUp \o <<Ask("crash")>> \o devDown \o <<Exit("exit0")>>
runInstall    == <<Path>> \o devUp \o <<Start("go"), Tell, Use("any"), Tell>> \o devDown \o <<Exit("exit0")>>
runListApps   == <<Filter>> \o devUp \o <<Start("go")>> \o devDown
                   \o <<Use("any"), Found("-bi"), Exit("exit0")>>
runMgRaw      == activateService
                   \o <<Ask("report"), Ask("crash"), Check("exit1"), Check("exit1"), Check("exit1")>>
runMg         == <<Filter, Arg(-1)>> \o runMgRaw \o <<Exit("exit0")>>
runInfo       == <<Filter>> \o devUp \o <<Tell>> \o devDown \o <<Exit("exit0")>>
runIosVersion == <<Filter>> \o devUp \o <<Start("go")>> \o devDown \o <<Use("null"), Exit("exit0")>>
(* dlAppFile: the device's file is opened, then the local one. *)
dlAppFile == devUp \o <<House>> \o devDown \o <<Ask("exit0"), Check("exit0"), Fetch>>
runGetFile == <<Filter, Arg(1), Arg(2), Arg(0)>> \o dlAppFile \o <<Exit("exit0")>>
runSysInfo      == deviceinfo \o <<Ask("crash"), Exit("exit0")>>
runSmProcList   == deviceinfo \o <<Ask("crash"), Exit("exit0")>>
runSmSysList    == deviceinfo \o <<Ask("crash"), Exit("exit0")>>
runSmCoalList   == deviceinfo \o <<Ask("crash"), Exit("exit0")>>
runMachTimeInfo == deviceinfo \o <<Ask("crash"), Exit("exit0")>>
runLs == deviceinfo \o <<Arg(0), Ask("crash"), Exit("exit0")>>
runPs == deviceinfo \o <<Ask("exit0"), Found("-appname"), Exit("exit0")>>
runNotices == deviceinfo \o <<Ask("return"), Listen("return")>>
runSysmon == deviceinfo \o <<Ask("return"), Ask("return"), Sample, Ask("return"), Exit("exit0")>>
runTail == <<Filter, Arg(0)>> \o channel__new_processcontrol \o <<Ask("go"), Listen("go")>>
killPid == channel__new_processcontrol \o <<Ask("exit0")>>
runKill == <<Filter, Arg(0)>> \o killPid \o <<Exit("exit0")>>
launchProcessReturns == channel__new_processcontrol \o <<Ask("return")>>
launchProcess == channel__new_processcontrol \o <<Ask("exit0")>>
runLaunch == <<Filter, Arg(0)>> \o launchProcess \o <<Exit("exit0")>>
runTunnel == <<Filter>> \o devUp \o <<NoWords(5), Serve>> \o devDown \o <<Exit("exit1")>>

(* The callback a run_... function gives to waitForConnect. *)
Callback(cmd) ==
  CASE cmd = "list" -> runList             [] cmd = "detectloop" -> detectConnect
    [] cmd = "log" -> runSysLog            [] cmd = "img" -> runImage
    [] cmd = "iserver" -> runIServer       [] cmd = "gas" -> runGG
    [] cmd = "battery" -> runBattery       [] cmd = "ioreg" -> runIoreg
    [] cmd = "syscfg" -> runSysCfg         [] cmd = "install" -> runInstall
    [] cmd = "listapps" -> runListApps     [] cmd = "mg" -> runMg
    [] cmd = "info" -> runInfo             [] cmd = "iosversion" -> runIosVersion
    [] cmd = "dl" -> runGetFile            [] cmd = "sysinfo" -> runSysInfo
    [] cmd = "smproclist" -> runSmProcList [] cmd = "smsyslist" -> runSmSysList
    [] cmd = "smcoallist" -> runSmCoalList [] cmd = "machtimeinfo" -> runMachTimeInfo
    [] cmd = "ls" -> runLs                 [] cmd = "ps" -> runPs
    [] cmd = "notices" -> runNotices       [] cmd = "sysmon" -> runSysmon
    [] cmd = "tail" -> runTail             [] cmd = "kill" -> runKill
    [] cmd = "launch" -> runLaunch         [] cmd = "tunnel" -> runTunnel

(* The callbacks that work with a device and do not look for -id: their     *)
(* commands take no option, so that there is none.                          *)
Unfiltered == {"detectloop", "gas", "battery", "ioreg", "syscfg"}

-----------------------------------------------------------------------------
Init ==
  /\ words \in CmdLines /\ line = Null
  /\ pc = "start" /\ code = Null /\ queue = <<>>
  /\ onConnect = FALSE /\ onDisconnect = FALSE /\ timer = FALSE
  /\ dev = Null /\ at = 0 /\ garbage = FALSE
  /\ n = 0 /\ offset = 0 /\ local = <<>>
  /\ plugged \in SUBSET Devices /\ open = {} /\ events = 0
  /\ sent = <<>> /\ feed = <<>> /\ touched = {} /\ mishaps = {}

Parse ==
  /\ pc = "start"
  /\ line' = uclop__run(words)
  /\ LET o == line'.outcome
     IN  CASE o = "exit1" -> pc' = "ended" /\ code' = "exit1"
           [] o = "usage" \/ line'.cmd = "version" -> pc' = "ended" /\ code' = "exit0"
           [] OTHER -> pc' = "subscribe" /\ UNCHANGED code
  /\ UNCHANGED <<words, queue, onConnect, onDisconnect, timer, dev, at, garbage, loopVars,
                 outside, open, feed, touched, mishaps>>

Notice(type, d) == [type |-> type, device |-> d]

(* run_list sets the timer first, run_detect registers both callbacks. *)
setupTimeout == timer' = (line.cmd = "list")
waitForConnectDisconnect == onConnect' = TRUE /\ onDisconnect' = (line.cmd = "detectloop")

(* The subscription fails, or announces the devices that are there. *)
waitForConnect ==
  /\ pc = "subscribe"
  /\ setupTimeout /\ waitForConnectDisconnect
  /\ \/ pc' = "ended" /\ code' = "exit1" /\ UNCHANGED <<queue, sent>>
     \/ /\ pc' = "loop" /\ UNCHANGED code
        /\ \E order \in {s \in [1..Cardinality(plugged) -> plugged] : ToSet(s) = plugged} :
             /\ queue' = [k \in DOMAIN order |-> Notice(1, order[k])]
             /\ sent' = queue'
  /\ UNCHANGED <<cli, dev, at, garbage, loopVars, plugged, events, open, feed, touched, mishaps>>

onNoticeFalls ==
  /\ pc = "loop" /\ queue # <<>>
  /\ queue' = Tail(queue)
  /\ LET note == Head(queue)
     IN  /\ IF note.type = 1 /\ onConnect
            THEN pc' = "handler" /\ dev' = note.device /\ at' = 1
            ELSE UNCHANGED <<pc, dev, at>>
         /\ feed' = IF note.type \in {1, 2} /\ onDisconnect THEN Append(feed, note) ELSE feed
  /\ UNCHANGED <<cli, code, onConnect, onDisconnect, timer, garbage, loopVars, outside, open,
                 touched, mishaps>>

(* The run loop hands the oldest notice to onNotice. *)
onNotice ==
  /\ pc = "loop" /\ queue # <<>>
  /\ queue' = Tail(queue)
  /\ LET note == Head(queue)
     IN  CASE note.type = 1 /\ onConnect ->
                pc' = "handler" /\ dev' = note.device /\ at' = 1 /\ UNCHANGED feed
           [] note.type = 2 /\ onDisconnect ->
                feed' = Append(feed, note) /\ UNCHANGED <<pc, dev, at>>
           [] OTHER -> UNCHANGED <<pc, dev, at, feed>>
  /\ UNCHANGED <<cli, code, onConnect, onDisconnect, timer, garbage, loopVars, outside, open,
                 touched, mishaps>>

(* onTimeout: the timer's turn in the run loop. *)
onTimeout ==
  /\ pc = "loop" /\ timer
  /\ pc' = "ended" /\ code' = "exit0"
  /\ UNCHANGED <<cli, queue, onConnect, onDisconnect, timer, dev, at, garbage, loopVars, outside,
                 open, feed, touched, mishaps>>

-----------------------------------------------------------------------------
step == Callback(line.cmd)[at]
InStep(op) == pc = "handler" /\ step.op = op

Goto(k)  == at' = k /\ UNCHANGED <<pc, code>>
GoOn     == Goto(at + 1)
Leave    == pc' = "loop" /\ at' = 0 /\ UNCHANGED code
Stop(c)  == pc' = "ended" /\ code' = c /\ UNCHANGED at
Missed(miss) ==
  CASE miss = "go" -> GoOn [] miss = "return" -> Leave [] miss = "crash" -> Stop("crash")
    [] OTHER -> Stop(miss)
Quiet == UNCHANGED <<cli, queue, onConnect, onDisconnect, timer, outside>>
Mishap(m) == mishaps' = mishaps \cup {m}

(* exitOnError: the failure's text is looked up and printed; that of an       *)
(* unknown number is NULL, and read all the same.                            *)
Reported(m) == \/ Mishap(m) /\ GoOn
               \/ mishaps' = mishaps \cup {m, "unknown"} /\ Stop("crash")
Fails(m, miss) == IF miss = "report" THEN Reported(m) ELSE Mishap(m) /\ Missed(miss)

desired_deviceAny ==
  /\ InStep("filter") /\ GoOn
  /\ Quiet /\ UNCHANGED <<dev, garbage, loopVars, open, feed, touched, mishaps>>

desired_device ==
  /\ InStep("filter")
  /\ IF ucmd__get(line.vals, "-id") \in {Null, dev} THEN GoOn ELSE Leave
  /\ Quiet /\ UNCHANGED <<dev, garbage, loopVars, open, feed, touched, mishaps>>

(* A word that is not there is NULL, or whatever lies behind it. *)
UseWord ==
  /\ InStep("arg")
  /\ \/ line.argc > step.k /\ GoOn /\ UNCHANGED mishaps
     \/ line.argc <= step.k /\ Mishap("word") /\ (GoOn \/ Stop("crash"))
  /\ Quiet /\ UNCHANGED <<dev, garbage, loopVars, open, feed, touched>>

CountWords ==
  /\ InStep("need") \/ InStep("noWords")
  /\ CASE step.op = "need" /\ line.argc < step.k -> Stop("exit1")
       [] step.op = "noWords" /\ line.argc = 0 -> Goto(step.to)
       [] OTHER -> GoOn
  /\ Quiet /\ UNCHANGED <<dev, garbage, loopVars, open, feed, touched, mishaps>>

(* What the program looks for itself: an option, a file, a key of an answer. *)
LocalCheck ==
  /\ InStep("check")
  /\ \/ (step.name = Null \/ ucmd__get(line.vals, step.name) # Null) /\ GoOn /\ UNCHANGED mishaps
     \/ Mishap("check") /\ Stop(step.miss)
  /\ Quiet /\ UNCHANGED <<dev, garbage, loopVars, open, feed, touched>>

(* devUp and devDown: a failure is reported and the callback goes on. *)
Connect ==
  /\ InStep("up")
  /\ touched' = touched \cup {dev}
  /\ \/ dev \in plugged /\ GoOn /\ open' = open \cup {dev} /\ UNCHANGED mishaps
     \/ Reported("up") /\ UNCHANGED open
  /\ Quiet /\ UNCHANGED <<dev, garbage, loopVars, feed>>

Disconnect ==
  /\ InStep("down")
  /\ \/ dev \in plugged /\ GoOn /\ open' = open \ {dev} /\ UNCHANGED mishaps
     \/ Reported("down") /\ UNCHANGED open
  /\ Quiet /\ UNCHANGED <<dev, garbage, loopVars, feed, touched>>

(* A request that fails leaves the variable for its result as it was. *)
StartService ==
  /\ InStep("start")
  /\ \/ dev \in plugged /\ garbage' = FALSE /\ GoOn /\ UNCHANGED mishaps
     \/ Fails("ask", step.miss) /\ garbage' = TRUE
  /\ Quiet /\ UNCHANGED <<dev, loopVars, open, feed, touched>>

UseValue ==
  /\ InStep("use")
  /\ \/ ~(garbage /\ step.what = "null") /\ GoOn
     \/ garbage /\ Stop("crash")
  /\ Quiet /\ UNCHANGED <<dev, garbage, loopVars, open, feed, touched, mishaps>>

(* One request of the device.  A service that was not opened is a pointer  *)
(* nobody set.                                                              *)
Request ==
  /\ InStep("ask")
  /\ \/ dev \in plugged /\ ~garbage /\ GoOn /\ UNCHANGED mishaps
     \/ Fails("ask", step.miss)
     \/ garbage /\ Stop("crash") /\ UNCHANGED mishaps
  /\ Quiet /\ UNCHANGED <<dev, garbage, loopVars, open, feed, touched>>

TellDevice ==
  /\ InStep("tell") /\ GoOn
  /\ \/ dev \in plugged /\ UNCHANGED mishaps
     \/ Mishap("ask")
  /\ Quiet /\ UNCHANGED <<dev, garbage, loopVars, open, feed, touched>>

(* Refused plainly and as VendDocuments, it exits inside the session. *)
houseArrest ==
  /\ InStep("house")
  /\ \/ dev \in plugged /\ GoOn /\ UNCHANGED mishaps
     \/ Mishap("house") /\ Stop("exit0")
  /\ Quiet /\ UNCHANGED <<dev, garbage, loopVars, open, feed, touched>>

LookFor ==
  /\ InStep("found")
  /\ GoOn \/ (ucmd__get(line.vals, step.name) # Null /\ Stop("exit1"))
  /\ Quiet /\ UNCHANGED <<dev, garbage, loopVars, open, feed, touched, mishaps>>

ListenOn ==
  /\ InStep("listen")
  /\ Mishap("ask")
  /\ \/ step.miss = "return" /\ Leave
     \/ step.miss = "go" /\ UNCHANGED <<pc, code, at>>
     \/ garbage /\ Stop("crash")
  /\ Quiet /\ UNCHANGED <<dev, garbage, loopVars, open, feed, touched>>

TakeSampleOver ==
  /\ InStep("sample")
  /\ \/ n <= Samples /\ dev \in plugged /\ n' = n + 1 /\ UNCHANGED <<pc, code, at, mishaps>>
     \/ n < Samples /\ Mishap("ask") /\ n' = 0 /\ Leave
     \/ n = Samples /\ n' = 0 /\ GoOn /\ UNCHANGED mishaps
  /\ Quiet /\ UNCHANGED <<dev, garbage, offset, local, open, feed, touched>>

(* sysmon: empty messages are not counted. *)
TakeSample ==
  /\ InStep("sample")
  /\ \/ n < Samples /\ dev \in plugged /\ n' = n + 1 /\ UNCHANGED <<pc, code, at, mishaps>>
     \/ n < Samples /\ Mishap("ask") /\ n' = 0 /\ Leave
     \/ n = Samples /\ n' = 0 /\ GoOn /\ UNCHANGED mishaps
  /\ Quiet /\ UNCHANGED <<dev, garbage, offset, local, open, feed, touched>>

(* One turn of the download: the error of the read is not looked at, only  *)
(* the count, which a failed read may clear or leave alone; what is written *)
(* then is what the buffer held.  bound: the last copy kept is one too many. *)
Put(block) == IF Len(local) <= Len(RemoteFile) THEN Append(local, block) ELSE local
ReadBlock ==
  /\ InStep("fetch")
  /\ \/ /\ dev \in plugged /\ offset < Len(RemoteFile)
        /\ offset' = offset + 1
        /\ \/ local' = Put(RemoteFile[offset + 1]) /\ UNCHANGED mishaps
           \/ local' = local /\ Mishap("write")
        /\ UNCHANGED <<pc, code, at>>
     \/ /\ dev \in plugged /\ offset = Len(RemoteFile) /\ GoOn
        /\ UNCHANGED <<offset, local, mishaps>>
     \/ Mishap("read") /\ GoOn /\ UNCHANGED <<offset, local>>
     \/ /\ Mishap("staleRead")
        /\ local' = Put(IF offset = 0 THEN Null ELSE RemoteFile[offset])
        /\ UNCHANGED <<pc, code, at, offset>>
  /\ Quiet /\ UNCHANGED <<dev, garbage, n, open, feed, touched>>

ShowDevice ==
  /\ InStep("show") /\ GoOn
  /\ feed' = Append(feed, Notice(1, dev))
  /\ Quiet /\ UNCHANGED <<dev, garbage, loopVars, open, touched, mishaps>>

EndCallback ==
  /\ InStep("exit") \/ InStep("return")
  /\ IF step.op = "exit" THEN Stop(step.c) ELSE Leave
  /\ Quiet /\ UNCHANGED <<dev, garbage, loopVars, open, feed, touched, mishaps>>

-----------------------------------------------------------------------------
(* The outside: a device comes, goes, or its subscription is dropped. *)
Announce(type, d) ==
  IF pc \in {"loop", "handler"}
  THEN queue' = Append(queue, Notice(type, d)) /\ sent' = Append(sent, Notice(type, d))
  ELSE UNCHANGED <<queue, sent>>

Plug(d) ==
  /\ pc # "ended" /\ events < MaxEvents /\ events' = events + 1
  /\ \/ d \notin plugged /\ plugged' = plugged \cup {d} /\ Announce(1, d) /\ UNCHANGED open
     \/ d \in plugged /\ plugged' = plugged \ {d} /\ Announce(2, d) /\ open' = open \ {d}
     \/ d \in plugged /\ Announce(3, d) /\ UNCHANGED <<plugged, open>>
  /\ UNCHANGED <<cli, pc, code, onConnect, onDisconnect, timer, dev, at, garbage, loopVars, feed,
                 touched, mishaps>>

LocalSteps ==
  \/ desired_device \/ UseWord \/ CountWords \/ LocalCheck \/ UseValue \/ LookFor
  \/ ShowDevice \/ EndCallback

(* The steps that wait for the device. *)
Requests ==
  \/ Connect \/ Disconnect \/ StartService \/ Request \/ TellDevice \/ houseArrest
  \/ ListenOn \/ TakeSample \/ ReadBlock

Callbacks == LocalSteps \/ Requests

Next == Parse \/ waitForConnect \/ onNotice \/ onTimeout \/ Callbacks \/ \E d \in Devices : Plug(d)

(* The run loop turns and the program goes on by itself; nothing is asked of *)
(* the start, of the outside, nor of a request, which has no timeout.         *)
Fairness == WF_vars(onNotice) /\ WF_vars(onTimeout) /\ WF_vars(LocalSteps)
Spec == Init /\ [][Next]_vars /\ Fairness
-----------------------------------------------------------------------------
Started == pc \notin {"start"} /\ line.outcome = "run"
Is(cmds) == Started /\ line.cmd \in cmds
Asked(d) == ucmd__get(line.vals, "-id") \in {Null, d}

(* The state is what the code's variables can hold. *)
TypeOK ==
  /\ words \in CmdLines
  /\ pc \in {"start", "subscribe", "loop", "handler", "ended"}
  /\ code \in {Null, "exit0", "exit1", "crash"} /\ (pc = "ended") = (code # Null)
  /\ dev \in Devices \cup {Null} /\ n \in 0..Samples /\ offset \in 0..Len(RemoteFile)
  /\ pc = "handler" => dev # Null /\ at \in DOMAIN Callback(line.cmd)
  /\ {open, touched} \subseteq SUBSET Devices
  /\ open \subseteq plugged

(* A command has the options main gave it, in that order. *)
TableIsOwn ==
  Started => \A k \in DOMAIN CommandTable : CommandTable[k].name = line.cmd => CommandTable[k].opts = line.opts

(* What uclop__run made of the words.  However the lists of options share   *)
(* their cells, the words are read with the command's own (uclop.c:58):       *)
(* each one before the rest is the command, an option of it or the value       *)
(* after one; an option says the word after it; the rest is counted, except    *)
(* that the count is -1 when the last word is an option whose value is         *)
(* missing (uclop.c:199, 203).                                               *)
WordsAreRead ==
  /\ TableIsOwn
  /\ Started =>
    LET taking == {o.name : o \in {c \in ToSet(line.opts) : c.type = "value"}}
        spent  == {i \in 2..(Len(words) - line.argc) : i <= Len(words)}
    IN  /\ \/ line.argc = Len(line.argv)
           \/ line.argc = -1 /\ line.argv = <<>> /\ Last(words) \in taking
        /\ line.argv # <<>> => Head(line.argv) \notin DashWords
        /\ \A i \in spent : words[i] \in DOMAIN line.vals \/ words[i - 1] \in taking
        /\ \A name \in DOMAIN line.vals : line.vals[name] # Null =>
             \E i \in spent : words[i] = name /\ (name \in taking => line.vals[name] = words[i + 1])

(* A command that was given an id works with that device and no other, but  *)
(* for install, which takes the option and never looks at it.                *)
FiltersHold == Started /\ line.cmd # "install" => \A d \in touched : Asked(d)

(* A session that a callback opened is closed when it is back in the run     *)
(* loop or ended of itself, unless the closing failed or house arrest was     *)
(* refused (service.c:370, cmd_file.c:31).                                   *)
SessionsClosed ==
  pc \in {"loop", "ended"} /\ code # "crash" => open = {} \/ mishaps \cap {"down", "house"} # {}

(* A command is for one device: another is worked with only after the first  *)
(* failed and the callback returned instead of ending the program.           *)
SecondOnlyAfterFailure ==
  Started /\ line.cmd # "detectloop" /\ Cardinality(touched) > 1 => "ask" \in mishaps

(* Whatever fails, while devices come and go: only the device that was asked *)
(* for is worked with (install is the exception, cmd_install.c:34), another    *)
(* one only where a callback that failed returns (service_sysmon.c:72,         *)
(* service_notifications.c:36, cmd_syslog.c:210), and no session stays open    *)
(* behind a callback (service.c:408).                                        *)
OneDeviceAtATime == FiltersHold /\ SessionsClosed /\ SecondOnlyAfterFailure

(* README.md: "Stay running and show devices as they are                      *)
(* connected/disconnected."  The death by a report of a number nobody knows   *)
(* (service.c:411) is left aside.                                            *)
DetectStaysRunning == Is({"detectloop"}) /\ "unknown" \notin mishaps => code # "crash"

(* The notices of s of these types, in order; those the command is for. *)
OfTypes(s, types) ==
  LET kept[k \in 0..Len(s)] ==
        IF k = 0 THEN <<>>
        ELSE IF s[k].type \in types THEN Append(kept[k - 1], s[k]) ELSE kept[k - 1]
  IN  kept[Len(s)]
For(s) == OfTypes(s, IF line.cmd = "list" THEN {1} ELSE {1, 2})

(* In the run loop, what was shown and what waits are what was sent.          *)
FeedIsExact ==
  Is({"list", "detectloop"}) /\ pc = "loop" => feed \o For(queue) = For(sent)

LocalIsRemote ==
  Is({"dl"}) =>
    /\ mishaps \cap {"staleRead", "write"} = {} => IsPrefix(local, RemoteFile)
    /\ code = "exit0" /\ mishaps \subseteq {"up", "down", "word"} => local = RemoteFile

(* What is left for the user is what was there: list and detectloop show     *)
(* each notice they are for, once and in order, while devices come and go     *)
(* (service.c:418); a download leaves the start of the remote file unless a    *)
(* write failed or a failed read's count was taken for good, and all of it     *)
(* when nothing failed (cmd_file.c:142).                                     *)
OutputIsExact == FeedIsExact /\ LocalIsRemote

(* What a command shows of an answer is what it said: every version of one   *)
(* to three numbers (cmd_info.c:81), and the hours of a battery, up to the     *)
(* most an int16_t holds, 3.7 years (cmd_ioreg.c:96).                        *)
AnswersAreRead ==
  /\ Is({"info", "iosversion"}) => VersionIsRead
  /\ Is({"battery"}) => OperatingTimeAddsUp

(* Where no request waits for ever, which the code does not see to (there is *)
(* no timeout, and channel.c:284 may turn for ever), a command for one device *)
(* ends once a device it may work with is announced: whether the requests     *)
(* succeed or fail, whatever other devices come and go, except for the        *)
(* download whose reads fail without saying so (cmd_file.c:142).  Listing ends *)
(* by its timer, whatever was announced (service.c:441).                     *)
OneShot == {"img", "gas", "battery", "ioreg", "syscfg", "install", "listapps", "mg", "info",
            "iosversion", "dl", "ps", "ls", "machtimeinfo", "kill", "launch"}
Finishes ==
  /\ WF_vars(Requests) =>
       ((Is(OneShot) /\ pc = "loop" /\ \E k \in DOMAIN queue : queue[k].type = 1 /\ Asked(queue[k].device))
          ~> (pc = "ended" \/ "staleRead" \in mishaps))
  /\ (Is({"list"}) /\ pc = "loop") ~> (pc = "ended" /\ code = "exit0")
=============================================================================
