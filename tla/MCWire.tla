-------------------------------- MODULE MCWire --------------------------------
(* Constants for the runs of Wire. *)
EXTENDS Wire, TLC

CONSTANTS u1, u2, u3, m1, m2, t1

ThreeUsers == {u1, u2, u3}
TwoIds == {m1, m2}
MCTexts == {t1, "[revoked]"}

Symmetry == Permutations(Users) \cup Permutations(Ids)
=============================================================================
