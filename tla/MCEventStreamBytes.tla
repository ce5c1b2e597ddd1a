------------------------- MODULE MCEventStreamBytes -------------------------
(***************************************************************************)
(* Instances of EventStreamBytes, on the texts that EventStream is checked *)
(* on.                                                                     *)
(***************************************************************************)
EXTENDS EventStreamBytes, MCText
=============================================================================
