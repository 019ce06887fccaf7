----------------------------- MODULE MCNetworkTx -----------------------------
EXTENDS NetworkTx

=============================================================================
