---------------------------- MODULE MCDtxSession ----------------------------
(* The ways a session is opened, for the runs of DtxSession. *)
EXTENDS DtxSession

AllKinds == SessionKinds
Instruments == {"instruments"}
=============================================================================
