--------------------------- MODULE MCEventStream ---------------------------
(***************************************************************************)
(* Instances of EventStream, on texts that are cut at every byte.          *)
(***************************************************************************)
EXTENDS EventStream, MCText
=============================================================================
