------------------------------ MODULE Options ------------------------------
(***************************************************************************)
(* Rust's Option: a value or None.                                         *)
(***************************************************************************)
CONSTANT None

Option(S) == S \cup {None}
=============================================================================
