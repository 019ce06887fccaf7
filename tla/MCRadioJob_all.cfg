CONSTANTS
  Jobs <- TwoJobs
  RadioOf <- TwoRadios
  Faults <- AllFaults
SPECIFICATION FairSpec
INVARIANTS OutcomeAgrees OutcomeIsTrue
PROPERTY FinishDelivered
