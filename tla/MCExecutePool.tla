--------------------------- MODULE MCExecutePool ---------------------------
(* ExecutePool for TLC.                                                      *)
EXTENDS ExecutePool

\* Two chunks are one more than out holds, so a run nobody reads from gets
\* stuck.  To afford the liveness check the operators reject at most the
\* first.
FewRejectedInit == ExecuteInit /\ opFails \subseteq {0}
FewRejectedSpec == FewRejectedInit /\ [][ExecuteNext]_executeVars /\ ExecuteFairness
=============================================================================
