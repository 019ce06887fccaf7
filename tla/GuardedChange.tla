---------------------------- MODULE GuardedChange ----------------------------
(***************************************************************************)
(* What a guarded change of a configuration promises its user.              *)
(*                                                                          *)
(* A change is opened on the configuration of that moment, works on it, and *)
(* is reported kept, undone or unknown.  While it is open, and after it was *)
(* reported unknown, the configuration may be anything: half of it old and  *)
(* half new.  Kept means that the configuration is the change's target,     *)
(* undone that it is again what the change found; neither is said of a      *)
(* configuration that somebody else touched.  There is at most one open     *)
(* change, and once a younger one is opened an older one does nothing.      *)
(***************************************************************************)
CONSTANTS Keys,     \* the changes
          Configs,  \* the configurations
          None      \* no change

VARIABLES config,   \* the configuration
          phase,    \* what is reported of each change
          base,     \* what each change found
          target,   \* what each change means to install
          latest,   \* the change opened last
          touched   \* somebody else wrote since the last change was opened

vars == <<config, phase, base, target, latest, touched>>

Phases == {"none", "open", "kept", "undone", "unknown"}

Init ==
  /\ config \in Configs
  /\ phase = [k \in Keys |-> "none"]
  /\ base \in [Keys -> Configs] /\ target \in [Keys -> Configs]
  /\ latest = None
  /\ touched = FALSE

Open(k) ==
  /\ phase[k] = "none"
  /\ \A j \in Keys : phase[j] # "open"
  /\ phase' = [phase EXCEPT ![k] = "open"]
  /\ base' = [base EXCEPT ![k] = config]
  /\ latest' = k
  /\ touched' = FALSE
  /\ UNCHANGED <<config, target>>

\* The target is fixed, or the configuration worked on; only by the change
\* opened last, and never once it was reported kept or undone.
Work(k) ==
  /\ k = latest
  /\ phase[k] \in {"open", "unknown"}
  /\ \/ config' \in Configs /\ UNCHANGED target
     \/ target' \in [Keys -> Configs] /\ UNCHANGED config
        /\ \A j \in Keys \ {k} : target'[j] = target[j]
  /\ UNCHANGED <<phase, base, latest, touched>>

Report(k, outcome) ==
  /\ phase[k] = "open"
  /\ outcome = "kept" => touched \/ config = target[k]
  /\ outcome = "undone" => touched \/ config = base[k]
  /\ phase' = [phase EXCEPT ![k] = outcome]
  /\ UNCHANGED <<config, base, target, latest, touched>>

Touch ==
  /\ config' \in Configs
  /\ touched' = TRUE
  /\ UNCHANGED <<phase, base, target, latest>>

Next == \/ \E k \in Keys : Open(k) \/ Work(k)
        \/ \E k \in Keys, outcome \in {"kept", "undone", "unknown"} : Report(k, outcome)
        \/ Touch

Spec == Init /\ [][Next]_vars
=============================================================================
