----------------------------- MODULE MCAdmission -----------------------------
(* Two connection slots; a slot whose connection created no pairing is used  *)
(* again, a pairing created by one slot is used by the other.                *)
EXTENDS Admission, TLC

Interchangeable == Permutations(Conns)
=============================================================================
