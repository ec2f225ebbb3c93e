---------------------------- MODULE MCCommands ----------------------------
(* Command lines with every callback, and with every mistake the reader of  *)
(* the command line can meet; two devices that come and go.                  *)
EXTENDS Commands, TLC
CONSTANTS d1, d2

WithId == {<<c, "-id", d2>> : c \in {"log", "img", "iserver", "listapps", "info", "iosversion", "mg"}}
Plain == {<<c>> : c \in {"list", "detectloop", "gas", "battery", "syscfg", "ls", "ps", "notices", "sysmon",
                         "machtimeinfo", "sysinfo", "smproclist", "smsyslist", "smcoallist", "ioreg",
                         "tunnel", "version", "install"}}
Wrong == {<<>>, <<"bogus">>, <<"-id", d1>>, <<"gas", "-id", d1>>, <<"tunnel", "-id">>, <<"dl", "-id">>,
          <<"mg", "-json", "-id">>, <<"install", "-path">>, <<"dl", "app", "file">>}
Words == {<<"ioreg", "key">>, <<"kill", "7">>, <<"tail", "-id", d1, "7">>, <<"launch", "app">>,
          <<"dl", "-id", d2, "app", "file", "copy">>, <<"tunnel", "-id", d1, "80:80">>,
          <<"install", "-id", d2, "-path", "dir">>, <<"install", "-path", "dir">>,
          <<"ps", "-raw", "-appname", "app", "-id", d1>>, <<"listapps", "-bi", "app">>,
          <<"list", "-json">>, <<"info", "-json", "key", "-id">>}
AllLines == WithId \cup Plain \cup Wrong \cup Words
OneDetect == {<<"detectloop">>}
Dashes == {"-id", "-json", "-path", "-raw", "-appname", "-bi", "-port", "-short", "-apps", "-subsec"}
Blocks == <<"b1", "b2">>
=============================================================================
