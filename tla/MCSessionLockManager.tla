------------------------ MODULE MCSessionLockManager ------------------------
(* Three callers on two sessions; the cap is reloaded between 1 and 2.      *)
EXTENDS SessionLockManager

MCCaps == {1, 2}
=============================================================================
