-------------------------- MODULE MCWorkerThreads --------------------------
(* The worker from its start, with files that stay as they are, and after a  *)
(* first request that had no company, with files that are replaced.          *)
EXTENDS WorkerThreads

VARIABLE cold   \* this behaviour begins with the start

WorkerInit == \/ cold = TRUE /\ Init
              \/ cold = FALSE /\ WarmInit
WorkerNext == Next /\ (cold => UNCHANGED file) /\ UNCHANGED cold

WorkerSpec == /\ WorkerInit
              /\ [][WorkerNext]_<<vars, cold>>
              /\ \A t \in Thread : WF_vars(Handler(t))

=============================================================================
