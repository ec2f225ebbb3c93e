--------------------------- MODULE MCImageServer ---------------------------
(* The instance of ImageServer that TLC checks: a request with a body, one *)
(* without from a client that stops reading, and one that is not HTTP.      *)
EXTENDS ImageServer, TLC
CONSTANTS c1, c2, c3
MCRequest == (c1 :> [head |-> 1, body |-> 1, valid |-> TRUE])
          @@ (c2 :> [head |-> 1, body |-> NoLength, valid |-> TRUE])
          @@ (c3 :> [head |-> 1, body |-> NoLength, valid |-> FALSE])
MCRoom == (c1 :> 9) @@ (c2 :> 1) @@ (c3 :> 9)
=============================================================================
