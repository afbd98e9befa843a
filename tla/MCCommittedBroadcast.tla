----------------------- MODULE MCCommittedBroadcast -----------------------
EXTENDS CommittedBroadcast
=============================================================================
