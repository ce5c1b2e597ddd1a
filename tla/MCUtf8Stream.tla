---------------------------- MODULE MCUtf8Stream ----------------------------
(***************************************************************************)
(* Instances of Utf8Stream: every text up to a length, after a beginning.  *)
(***************************************************************************)
EXTENDS Utf8Stream, SequencesExt

CONSTANTS
  X, Bad,    \* a letter, and a byte that is never UTF-8
  MaxLen     \* bound: the bytes after the beginning

MCByte == {CR, LF, Colon, Space, Nul, EF, BB, BF, X, Bad}
MCIll == {Bad}
MCWires == {b \o t : b \in {<<>>, BOM, <<X>>, <<X, EF>>},
                   t \in SeqOf({EF, BB, BF, X, Bad}, MaxLen)}
=============================================================================
