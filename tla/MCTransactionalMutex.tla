----------------------- MODULE MCTransactionalMutex -----------------------
EXTENDS TransactionalMutex

\* No branch of the code tests the level of a pin: pins of outputs, always low,
\* stand for all.  Inputs change meanwhile.
LowOnly ==
  /\ issued' \subseteq Outputs /\ latch' = {}
  /\ \A c \in Contexts : ~call'[c].bit

LowSpec == MutexInit /\ latch = {} /\ [][MutexNext /\ LowOnly]_mvars /\ RunFairness
=============================================================================
