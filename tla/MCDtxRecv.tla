----------------------------- MODULE MCDtxRecv -----------------------------
(* Values for the constants of DtxRecv. *)
EXTENDS DtxRecv

\* A message in one frame, one in three fragments, and the answer to a request
\* (conversation index 1) in a header and one body.
MCMessages ==
  { [id |-> 2, conv |-> 0, count |-> 1, len |-> 2],
    [id |-> 1, conv |-> 0, count |-> 3, len |-> 1],
    [id |-> 5, conv |-> 1, count |-> 2, len |-> 2] }

\* The shortest body that can follow half a header, and a longer one.
MCSplitMessages ==
  { [id |-> 2, conv |-> 0, count |-> 1, len |-> 1],
    [id |-> 3, conv |-> 0, count |-> 3, len |-> 2] }
=============================================================================
