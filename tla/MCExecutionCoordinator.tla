----------------------- MODULE MCExecutionCoordinator -----------------------
(* What the sessions of each run are.                                        *)
EXTENDS ExecutionCoordinator, TLC

CONSTANTS h1, h2, b1, b2, t1, g1, p1, p2, k1   \* session ids

AllKinds ==
  h1 :> "host" @@ h2 :> "host" @@ b1 :> "bound" @@ b2 :> "bound" @@ t1 :> "temp"
    @@ g1 :> "spawned" @@ p1 :> "primary" @@ p2 :> "primary" @@ k1 :> "scoped"
\* Calls are interchangeable; workers are not, FreeWorker chooses one.
CallSymmetry == Permutations(Calls)
MCKind == [s \in Sessions |-> AllKinds[s]]
=============================================================================
