------------------------- MODULE MCTicketsAndAssets -------------------------
(* Small instances, for TLC, of tickets and of assets, which share no state *)
(* here (AssetLinks has what joins them).  The initial state picks the one  *)
(* that runs; the other stays as it starts.                                 *)
EXTENDS TicketLifecycle, AssetLifecycle, TLC

VARIABLE part     \* the component that runs

\* A component that does not run keeps its initial state.
TicketsRest == part # "tickets" => UNCHANGED vars
AssetsRest  == part # "assets" => UNCHANGED assetVars

MCInit ==
  /\ part \in {"tickets", "assets"}
  /\ Init /\ AssetInit

MCNext ==
  /\ UNCHANGED part
  /\ TicketsRest /\ AssetsRest
  /\ \/ part = "tickets" /\ Next
     \/ part = "assets" /\ AssetNext

MCSpec == MCInit /\ [][MCNext]_<<part, vars, assetVars>>

\* Rows and calls are alike (a call's, an asset's or a ticket's id is not compared).
MCSymmetry == Permutations(Clients) \cup Permutations(Tickets) \cup Permutations(Assets)
=============================================================================
