------------------------------ MODULE MCMemTable ------------------------------
(* Instances of MemTable: two slots, so that three spawns must reuse one.     *)
EXTENDS MemTable, TLC

CONSTANTS s1, s2

TwoSalts == {s1, s2}
SaltSymmetry == Permutations(TwoSalts)
AllHosts == AllTiers
==============================================================================
