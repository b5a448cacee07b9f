------------------------------- MODULE MCChatTurn -------------------------------
(***************************************************************************)
(* The turns of a chat's page (ChatTurn), under names of their own, so     *)
(* that its theorem can stand beside those of the page's other parts.      *)
(***************************************************************************)
EXTENDS Naturals

CONSTANTS MaxTurns, MaxTurnActs, MaxReads

ASSUME TurnsAssumption == MaxTurns \in Nat \ {0}

VARIABLES
  turnSrv, turnTold, turnRev, streaming, canCancel, activeTurn, finalized, recovery, poll, streams, sending,
  stopOff, turnCalls, turnAnswers, steered, turnActs

Turn == INSTANCE ChatTurn WITH
  MaxActs <- MaxTurnActs, srv <- turnSrv, told <- turnTold, rev <- turnRev, calls <- turnCalls,
  answers <- turnAnswers, acts <- turnActs

TurnSpec == Turn!Spec

\* A steer stops the turn its user saw, and the revision it names tells that turn (ChatTurn)
SteerHitsDisplayedTurn == Turn!SteerHitsDisplayedTurn

\* The turn of a broken live response is seen to end (ChatTurn)
BrokenResponseSettles == Turn!BrokenResponseSettles

\* A Stop that was pressed comes back (ChatTurn)
StopSettles == Turn!StopSettles
=============================================================================
