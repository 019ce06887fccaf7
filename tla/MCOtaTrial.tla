------------------------------ MODULE MCOtaTrial ------------------------------
EXTENDS OtaTrial

\* Two failures, so that one may take turns with the other.
TwoFailures == {"service", "data"}
=============================================================================
