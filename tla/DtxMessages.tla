---------------------------- MODULE DtxMessages ----------------------------
(***************************************************************************)
(* What a caller of channel__recv is promised, whatever the framing: the   *)
(* device puts whole messages on the connection, and the calls return      *)
(* those messages, each one once, complete and in the order sent.          *)
(***************************************************************************)
EXTENDS Naturals, Sequences

VARIABLES
  posted,   \* the messages that are completely on the connection, oldest first
  got       \* the messages returned to callers, oldest first

vars == <<posted, got>>

Init == posted = <<>> /\ got = <<>>

\* The last byte of a message reaches the connection.
Post ==
  /\ Len(posted') = Len(posted) + 1
  /\ posted = SubSeq(posted', 1, Len(posted))
  /\ UNCHANGED got

\* A call returns the oldest message nobody has been given.
Return ==
  /\ Len(got) < Len(posted)
  /\ got' = Append(got, posted[Len(got) + 1])
  /\ UNCHANGED posted

Next == Post \/ Return

Spec == Init /\ [][Next]_vars
=============================================================================
