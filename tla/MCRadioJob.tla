----------------------------- MODULE MCRadioJob -----------------------------
EXTENDS RadioJob, TLC

\* Two of the jobs share a radio.
ThreeJobs   == {1, 2, 3}
ThreeRadios == (1 :> "a") @@ (2 :> "b") @@ (3 :> "a")

TwoJobs   == {1, 2}
TwoRadios == (1 :> "a") @@ (2 :> "b")

NoFaults  == [k \in FaultKinds |-> 0]
AllFaults == [NoFaults EXCEPT !["crash"] = 1, !["restart"] = 1, !["drop"] = 2, !["journal"] = 1]
=============================================================================
