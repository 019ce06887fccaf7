---- MODULE MCConfigApply ----
(* Instances of ConfigApply for TLC. *)
EXTENDS ConfigApply

====
