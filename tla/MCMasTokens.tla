---------------------------- MODULE MCMasTokens ----------------------------
\* The server and the simclient, which share one account.
EXTENDS MasTokens

============================================================================
