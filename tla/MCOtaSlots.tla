------------------------------ MODULE MCOtaSlots ------------------------------
EXTENDS OtaSlots, TLC

OtaSymmetry == Permutations(Slots) \cup Permutations(Ops)
=============================================================================
