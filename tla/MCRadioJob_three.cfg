CONSTANTS
  Jobs <- ThreeJobs
  RadioOf <- ThreeRadios
  Faults <- AllFaults
SPECIFICATION Spec
INVARIANTS TypeOK OutcomeAgrees OutcomeIsTrue
