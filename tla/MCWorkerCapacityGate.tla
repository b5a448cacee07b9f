------------------------- MODULE MCWorkerCapacityGate -------------------------
(* Four clients of a gate of two slots: two hold, two queue behind them.     *)
EXTENDS WorkerCapacityGate
=============================================================================
