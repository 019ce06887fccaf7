------------------------------- MODULE OtaTrial -------------------------------
(***************************************************************************)
(* The trial of a candidate: OtaSlots with what the timed check of the       *)
(* update daemon finds (otad_confirm_boot, otad_confirm_timer_cb).           *)
(*                                                                          *)
(* The state of the candidate's services changes at will; a check finds them *)
(* ready, failing in a way that does not call for a rollback, or failing     *)
(* hard with some signature.  Every step of OtaSlots is a step here, once    *)
(* the services are in the state that its check has to find.                 *)
(***************************************************************************)
EXTENDS OtaSlots

CONSTANT Failures      \* signatures of failures that require a rollback

ASSUME FailuresAssumption == {"ready", "soft", "none"} \cap Failures = {}

VARIABLES health,    \* what a check finds of the services
          signature  \* g_otad_hard_failure_signature

trialVars == <<vars, health, signature>>

TrialTypeOK ==
  /\ TypeOK
  /\ health \in {"ready", "soft"} \cup Failures
  /\ signature \in Failures \cup {"none"}

TrialInit == Init /\ health = "ready" /\ signature = "none"

\* The services of a candidate come up, go down or fail.
HealthChanges ==
  /\ Trial
  /\ health' \in ({"ready", "soft"} \cup Failures) \ {health}
  /\ UNCHANGED <<vars, signature>>

\* A check of services that are ready: by the timer, or by a request.
FindsReady ==
  /\ health = "ready"
  /\ \/ CheckReady
     \/ CheckConfirms

\* Any other failure, or no trial: the timer is armed again, without a limit.
FindsSoft == (health = "soft" \/ ~Trial) /\ CheckSoft

\* The same hard failure is counted, a different one starts the count again;
\* CountedAfresh takes every one for a different one.
CountedAfresh == 1
Counted == IF health = signature THEN hard + 1 ELSE 1

FindsHard ==
  /\ health \in Failures
  /\ CheckHard \/ CheckUndoes
  /\ hard' = Counted
  /\ signature' = health
  /\ UNCHANGED health

\* In any other step the signature is forgotten with the count.
With(A) == A /\ signature' = (IF hard' = 0 THEN "none" ELSE signature) /\ UNCHANGED health

TrialNext ==
  \/ HealthChanges
  \/ With(Unchecked)
  \/ With(FindsReady)
  \/ With(FindsSoft)
  \/ FindsHard

\* The timer goes off, whatever it finds.
TimedCheck == With(timer /\ (FindsReady \/ FindsSoft)) \/ FindsHard

\* The device is switched on; the daemon's loop, its timer and its worker run; time
\* passes.  Nothing is promised of the candidate: not that its services come up, nor
\* that they fail.
TrialSpec ==
  /\ TrialInit /\ [][TrialNext]_trialVars
  /\ WF_trialVars(With(Boot)) /\ WF_trialVars(With(Reconcile)) /\ WF_trialVars(With(Start))
  /\ WF_trialVars(With(Worker)) /\ WF_trialVars(With(WindowEnds))
  /\ WF_trialVars(With(Confirm)) /\ WF_trialVars(With(Undo))
  /\ WF_trialVars(With(Hang /\ \A s \in Slots : running = s => image[s] = Torn))
  /\ WF_trialVars(TimedCheck)

-----------------------------------------------------------------------------
(* Properties *)

\* A candidate whose services settle ends its trial, whatever they did before and
\* wherever the power went: once they stay up it is promoted, once they go on failing
\* hard in the same way it is rolled back, and one that does not start is given up by
\* the bootloader.  (One that goes on failing softly, or in changing ways, is checked
\* again for ever: otad_schedule_nonfatal_retry has no limit.)
TrialEnds ==
  \A h \in {"ready"} \cup Failures :
    <>[](health = h) => (running # None /\ env.pending = running) ~> (env.pending = None)
=============================================================================
