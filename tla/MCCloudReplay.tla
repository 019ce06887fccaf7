---- MODULE MCCloudReplay ----
(* Instances of CloudReplay for TLC. *)
EXTENDS CloudReplay, TLC

RequestSymmetry == Permutations(Requests)
====
