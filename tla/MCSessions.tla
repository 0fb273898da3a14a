----------------------------- MODULE MCSessions -----------------------------
(***************************************************************************)
(* Sessions for TLC: one user with two devices.                            *)
(***************************************************************************)
EXTENDS Sessions, TLC

MCWalletOf == [d \in Device |-> "w1"]
MCSymmetry == Permutations(Call) \cup Permutations(Device)
=============================================================================
