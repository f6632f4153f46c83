------------------------------- MODULE MCPool -------------------------------
(* Pool with a source long enough to fill the pipeline. *)
EXTENDS PoolInv

\* Six chunks fill every queue and every hand of a one-worker run with nobody
\* receiving (out 1, reassembler 1, results 1, worker 1, jobs 1, reader 1), so
\* each goroutine is stuck at a send when the caller cancels.  To afford them,
\* the operators reject at most the second, a Close that returns succeeds, and
\* nobody receives an error: sending one never waits for anybody.
FullPipelineInit == Init /\ opFails \subseteq {1}
FullPipelineNext == Next /\ ~closeFailed' /\ UNCHANGED errsTaken
FullPipelineSpec == FullPipelineInit /\ [][FullPipelineNext]_vars /\ Fairness
=============================================================================
