------------------------------ MODULE MCParser ------------------------------
(***************************************************************************)
(* The line parser on every byte sequence up to a length, one byte after   *)
(* the other.                                                              *)
(***************************************************************************)
EXTENDS LineBuffer, MCText

MCChunks == {<<x>> : x \in {CR, LF, Colon, Space, D, A, Bad}}
=============================================================================
