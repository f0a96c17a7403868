---------------------------- MODULE MCSlaEngine ----------------------------
(* Small instances of SlaEngine for TLC.                                   *)
EXTENDS SlaEngine, TLC

\* Both targets can be overdue before the clock of the instance stops; the
\* resolution target is due for a warning one tick before.
MCMinutes == [RESPONSE |-> 1, RESOLUTION |-> 2]
MCWarnAt  == [RESPONSE |-> 0, RESOLUTION |-> 1]

MCRequests == Permutations(Requests)
=============================================================================
