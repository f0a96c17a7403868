------------------------- MODULE MCTicketLifecycle -------------------------
(* Small instances of TicketLifecycle for TLC.                             *)
EXTENDS TicketLifecycle, TLC

MCClients == Permutations(Clients)
=============================================================================
