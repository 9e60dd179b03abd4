----------------------------- MODULE MCCommitment -----------------------------
(* Commitment over the field of 13 elements: bytes of 2 bits, chunks of 3, *)
(* so that bytes and chunks never end together before the third byte, and  *)
(* a network of four rounds.                                               *)
EXTENDS Commitment

CONSTANT MaxBytes

MCInputs == UNION {[1 .. n -> 0 .. 3] : n \in 0 .. MaxBytes}
MCRoundKeys == [i \in 0 .. 3 |-> (7 * i) % 13]
===============================================================================
