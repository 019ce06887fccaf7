------------------------------- MODULE MCOtaHot -------------------------------
EXTENDS OtaHot, TLC

HotSymmetry == Permutations(Files) \cup Permutations(Contents) \cup Permutations(Ops)
=============================================================================
