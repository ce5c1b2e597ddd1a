-------------------------------- MODULE Text --------------------------------
(***************************************************************************)
(* Bytes, byte texts and the texts among them that are UTF-8.              *)
(*                                                                         *)
(* A byte is a member of the constant set Byte.  Only the bytes the code   *)
(* compares with have names; every other member of Byte stands for a byte  *)
(* (or for a whole well-formed character) that the code passes through.    *)
(***************************************************************************)
EXTENDS Options, Integers, Sequences

CONSTANTS
  Byte,            \* the bytes that streams are made of
  CR, LF,          \* the end-of-line bytes
  Colon, Space,    \* the field separator and the space stripped after it
  Nul,             \* the byte that disqualifies an id
  EF, BB, BF,      \* the three bytes of U+FEFF, the byte order mark
  Ill              \* bytes that occur in no UTF-8 text

ASSUME ByteAssumption ==
  /\ {CR, LF, Colon, Space, Nul, EF, BB, BF} \subseteq Byte
  /\ Ill \subseteq Byte
  /\ CR # LF
  /\ Colon # Space
  /\ {EF, BB, BF} \cap {CR, LF, Colon, Space, Nul} = {}
  /\ Ill \cap {CR, LF, Colon, Space, Nul, EF, BB, BF} = {}

ASSUME NoneAssumption == None \notin Seq(Byte) /\ None \notin Nat

BOM == <<EF, BB, BF>>

Str == Seq(Byte)

\* The slice from position i to the end, as in &bytes[i..].
From(b, i) == SubSeq(b, i, Len(b))

(***************************************************************************)
(* str::from_utf8: no byte is ill-formed and each byte of a multi-byte     *)
(* character is part of a complete one.  U+FEFF is the one such character. *)
(***************************************************************************)
ValidUtf8(v) ==
  \A i \in 1..Len(v) :
    /\ v[i] \notin Ill
    /\ v[i] \in {EF, BB, BF} =>
         \E k \in 1..(Len(v) - 2) : i \in k..(k + 2) /\ SubSeq(v, k, k + 2) = BOM
=============================================================================
