CONSTANTS
  Jobs <- TwoJobs
  RadioOf <- TwoRadios
  Faults <- AllFaults
SPECIFICATION FairSpec
PROPERTY LeaseEnds
