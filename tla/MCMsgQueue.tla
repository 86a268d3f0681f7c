---------------------------- MODULE MCMsgQueue ----------------------------
\* A small instance of MsgQueue for TLC, of the work queue (two workers block in
\* pop) and of the data queue (the aggregator polls).
EXTENDS MsgQueue
=============================================================================
