---------------------------- MODULE MCAsyncQuery ----------------------------
EXTENDS AsyncQuery

=============================================================================
