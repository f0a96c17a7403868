--------------------------- MODULE AssetLifecycle ---------------------------
(***************************************************************************)
(* Assets: their reference, lifecycle state, assignee and assignment rows. *)
(*                                                                         *)
(* People's calls go through AssetsService and AssetsRepository, the       *)
(* change_asset_status executor writes the same rows from the transaction  *)
(* of a workflow action.  All of them run READ COMMITTED: what a           *)
(* transaction read may have changed when it writes.  Each read is a step  *)
(* below, and the writes of a transaction are one step, its commit; the    *)
(* WHERE of a write is evaluated there, as the row lock makes PostgreSQL do.*)
(*                                                                         *)
(* Abstractions: one tenant; names, categories, custom fields and the      *)
(* version counter, which nothing reads, are left out; a department or     *)
(* location assignment is an assignment row with no user.                  *)
(***************************************************************************)
EXTENDS Naturals, Sequences, FiniteSets

CONSTANTS
  Assets,           \* identities of asset rows
  NoAsset,          \* the asset of an idle caller
  AssetCallers,     \* requests and workflow actions in progress
  AssetUsers,       \* users an asset can be assigned to
  NoAssetUser,      \* assigned_user_id IS NULL
  AssetTargets,     \* lifecycle states the callers ask for
  MaxAssignments    \* bound: assignment rows ever created

AssetState == {"DRAFT", "IN_STOCK", "ASSIGNED", "IN_REPAIR", "RETIRED", "DISPOSED", "LOST",
               "ARCHIVED"}

ASSUME AssetConstants ==
  /\ NoAssetUser \notin AssetUsers
  /\ AssetTargets \subseteq AssetState
  /\ MaxAssignments \in Nat

ASSUME FiniteAssets == IsFiniteSet(Assets) /\ NoAsset \notin Assets

VARIABLES
  assets,        \* asset rows
  assignments,   \* asset_assignments in the order of their commits
  assetCall      \* the calls in progress

assetVars == <<assets, assignments, assetCall>>

AssetTransitions ==
  [DRAFT     |-> {"IN_STOCK", "ASSIGNED", "DISPOSED", "ARCHIVED"},
   IN_STOCK  |-> {"ASSIGNED", "IN_REPAIR", "RETIRED", "DISPOSED", "LOST", "ARCHIVED"},
   ASSIGNED  |-> {"IN_STOCK", "IN_REPAIR", "RETIRED", "DISPOSED", "LOST", "ARCHIVED"},
   IN_REPAIR |-> {"IN_STOCK", "ASSIGNED", "RETIRED", "DISPOSED", "LOST", "ARCHIVED"},
   RETIRED   |-> {"ARCHIVED", "IN_STOCK", "DISPOSED"},
   DISPOSED  |-> {"ARCHIVED"},
   LOST      |-> {"IN_STOCK", "ARCHIVED"},
   ARCHIVED  |-> {}]

IsAllowedAssetTransition(from, to) == to \in AssetTransitions[from]

AssetRow == [ref     : Nat,        \* the number in AST-<ref>; 0: no such row
             state   : AssetState,
             user    : AssetUsers \cup {NoAssetUser},
             deleted : BOOLEAN]

AssignmentRow == [asset : Assets, user : AssetUsers \cup {NoAssetUser}, open : BOOLEAN]

AssetCall == [op    : {"none", "create", "transition", "assign", "unassign", "automate"},
              pc    : {"idle", "checked", "read", "stamped"},
              asset : Assets \cup {NoAsset},
              to    : AssetState,                       \* the state it will write
              user  : AssetUsers \cup {NoAssetUser},    \* the user it will assign
              saw   : AssetState,                       \* the state it read
              rows  : SUBSET Assets,                    \* the assets it counted
              seen  : SUBSET Nat]                       \* the assignments it stamped

AssetTypeOK ==
  /\ assets \in [Assets -> AssetRow]
  /\ assignments \in Seq(AssignmentRow)
  /\ assetCall \in [AssetCallers -> AssetCall]

NoAssetCall == [op |-> "none", pc |-> "idle", asset |-> NoAsset, to |-> "DRAFT", user |-> NoAssetUser,
               saw |-> "DRAFT", rows |-> {}, seen |-> {}]

AssetInit ==
  /\ assets = [a \in Assets |-> [ref |-> 0, state |-> "DRAFT", user |-> NoAssetUser,
                                 deleted |-> FALSE]]
  /\ assignments = <<>>
  /\ assetCall = [c \in AssetCallers |-> NoAssetCall]

AssetRows == {a \in Assets : assets[a].ref # 0}          \* deleted ones too
Live(a) == assets[a].ref # 0 /\ ~assets[a].deleted       \* deletedAt: null

Begin(c, call) == assetCall[c].pc = "idle" /\ assetCall' = [assetCall EXCEPT ![c] = call]
Continue(c, op, pc) == assetCall[c].op = op /\ assetCall[c].pc = pc
Finish(c) == assetCall' = [assetCall EXCEPT ![c] = NoAssetCall]

-----------------------------------------------------------------------------
(* Creation: the reference is the number of rows plus one                  *)

NextAssetRef(rows) == Cardinality(rows) + 1

\* createAsset refuses ASSIGNED, then nextAssetRef counts the committed rows.
CreateAssetCount(c, st) ==
  LET unused == {a \in Assets : assets[a].ref = 0 /\ \A d \in AssetCallers : assetCall[d].asset # a}
      a == CHOOSE a \in unused : TRUE IN
  /\ unused # {}
  /\ st # "ASSIGNED"
  /\ Begin(c, [NoAssetCall EXCEPT !.asset = a, !.op = "create", !.pc = "read", !.to = st,
                                     !.rows = AssetRows])
  /\ UNCHANGED <<assets, assignments>>

CreateAssetCommit(c) ==
  LET call == assetCall[c]
      ref  == NextAssetRef(call.rows) IN
  /\ Continue(c, "create", "read")
  /\ assets[call.asset].ref = 0
  /\ \A b \in Assets : assets[b].ref # ref              \* unique (tenant_id, asset_ref)
  /\ assets' = [assets EXCEPT ![call.asset].ref = ref, ![call.asset].state = call.to]
  /\ Finish(c)
  /\ UNCHANGED assignments

\* The unique index refuses the row: nothing retries, the caller gets an error.
CreateAssetRefused(c) ==
  LET call == assetCall[c] IN
  /\ Continue(c, "create", "read")
  /\ \E b \in Assets : assets[b].ref = NextAssetRef(call.rows)
  /\ Finish(c)
  /\ UNCHANGED <<assets, assignments>>

-----------------------------------------------------------------------------
(* A person's lifecycle change                                             *)

\* AssetsService.transitionAsset: the check outside the transaction.
TransitionCheck(c, a, to) ==
  /\ Live(a)
  /\ IsAllowedAssetTransition(assets[a].state, to)
  /\ Begin(c, [NoAssetCall EXCEPT !.asset = a, !.op = "transition", !.pc = "checked", !.to = to])
  /\ UNCHANGED <<assets, assignments>>

\* AssetsRepository.transition reads and checks again, or gives up.
TransitionRead(c) ==
  LET call == assetCall[c]
      row  == assets[call.asset] IN
  /\ Continue(c, "transition", "checked")
  /\ IF Live(call.asset) /\ IsAllowedAssetTransition(row.state, call.to)
     THEN assetCall' = [assetCall EXCEPT ![c].pc = "read", ![c].saw = row.state]
     ELSE Finish(c)
  /\ UNCHANGED <<assets, assignments>>

\* The update names the state it read: a row that moved is not found.
TransitionWrite(c) ==
  LET call == assetCall[c] IN
  /\ Continue(c, "transition", "read")
  /\ assets' = IF Live(call.asset) /\ assets[call.asset].state = call.saw
               THEN [assets EXCEPT ![call.asset].state = call.to]
               ELSE assets
  /\ Finish(c)
  /\ UNCHANGED assignments

-----------------------------------------------------------------------------
(* Assignment                                                              *)

\* A USER assignment takes an asset out of stock unless told not to.
StateOnAssign(u, moves, saw) ==
  IF u # NoAssetUser /\ moves /\ saw = "IN_STOCK" THEN "ASSIGNED" ELSE saw

AssignRead(c, a, u, moves) ==
  /\ Live(a)
  /\ Begin(c, [NoAssetCall EXCEPT !.asset = a, !.op = "assign", !.pc = "read", !.user = u,
                                     !.saw = assets[a].state,
                                     !.to = StateOnAssign(u, moves, assets[a].state)])
  /\ UNCHANGED <<assets, assignments>>

\* The row is written by id, whatever its state is by now, and the assignment
\* row is committed even if the asset is gone.  Earlier assignments stay open.
AssignCommit(c) ==
  LET call == assetCall[c]
      row  == assets[call.asset] IN
  /\ Continue(c, "assign", "read")
  /\ Len(assignments) < MaxAssignments
  /\ assignments' = Append(assignments, [asset |-> call.asset, user |-> call.user, open |-> TRUE])
  /\ assets' = IF Live(call.asset)
               THEN [assets EXCEPT ![call.asset] =
                       [row EXCEPT !.user = IF call.user = NoAssetUser THEN @ ELSE call.user,
                                   !.state = IF call.to = call.saw THEN @ ELSE call.to]]
               ELSE assets
  /\ Finish(c)

\* unassign reads the asset ...
UnassignRead(c, a) ==
  /\ Live(a)
  /\ Begin(c, [NoAssetCall EXCEPT !.asset = a, !.op = "unassign", !.pc = "read"])
  /\ UNCHANGED <<assets, assignments>>

\* ... stamps every assignment committed by now, open or not (locked, not yet
\* visible) ...
UnassignStamp(c) ==
  /\ Continue(c, "unassign", "read")
  /\ assetCall' = [assetCall EXCEPT ![c].pc = "stamped",
                     ![c].seen = {i \in DOMAIN assignments :
                                    assignments[i].asset = assetCall[c].asset}]
  /\ UNCHANGED <<assets, assignments>>

\* Mutant: the asset keeps its user.
MutantUnassignCommit(c) ==
  /\ Continue(c, "unassign", "stamped")
  /\ assignments' = [i \in DOMAIN assignments |->
                       [assignments[i] EXCEPT !.open = @ /\ i \notin assetCall[c].seen]]
  /\ Finish(c)
  /\ UNCHANGED assets

\* ... and clears the asset's user; the stamps commit even if the asset is gone.
UnassignCommit(c) ==
  LET a == assetCall[c].asset IN
  /\ Continue(c, "unassign", "stamped")
  /\ assignments' = [i \in DOMAIN assignments |->
                       [assignments[i] EXCEPT !.open = @ /\ i \notin assetCall[c].seen]]
  /\ assets' = IF Live(a) THEN [assets EXCEPT ![a].user = NoAssetUser] ELSE assets
  /\ Finish(c)

\* softDelete: one conditional update, no read before it.
DeleteAsset(a) ==
  /\ Live(a)
  /\ assets' = [assets EXCEPT ![a].deleted = TRUE]
  /\ UNCHANGED <<assignments, assetCall>>

-----------------------------------------------------------------------------
(* The change_asset_status workflow action                                 *)

\* Mutant: the executor does not consult the transition table.
MutantAutomateRead(c, a, to) ==
  /\ Live(a)
  /\ assets[a].state # to
  /\ Begin(c, [NoAssetCall EXCEPT !.asset = a, !.op = "automate", !.pc = "read", !.to = to,
                                     !.saw = assets[a].state])
  /\ UNCHANGED <<assets, assignments>>

\* The executor reads a live asset; the same state or a forbidden move ends it.
AutomateRead(c, a, to) ==
  /\ Live(a)
  /\ IsAllowedAssetTransition(assets[a].state, to)
  /\ Begin(c, [NoAssetCall EXCEPT !.asset = a, !.op = "automate", !.pc = "read", !.to = to,
                                     !.saw = assets[a].state])
  /\ UNCHANGED <<assets, assignments>>

\* It writes by id: neither the state nor deletedAt is in the WHERE.
AutomateWrite(c) ==
  /\ Continue(c, "automate", "read")
  /\ assets' = [assets EXCEPT ![assetCall[c].asset].state = assetCall[c].to]
  /\ Finish(c)
  /\ UNCHANGED assignments

-----------------------------------------------------------------------------
AssetStep(c) ==
  \/ \E st \in AssetTargets : CreateAssetCount(c, st)
  \/ \E a \in Assets, st \in AssetTargets :
       \/ TransitionCheck(c, a, st)
       \/ AutomateRead(c, a, st)
  \/ \E a \in Assets, u \in AssetUsers \cup {NoAssetUser}, moves \in BOOLEAN :
       AssignRead(c, a, u, moves)
  \/ \E a \in Assets : UnassignRead(c, a)
  \/ CreateAssetCommit(c)
  \/ CreateAssetRefused(c)
  \/ TransitionRead(c)
  \/ TransitionWrite(c)
  \/ AssignCommit(c)
  \/ UnassignStamp(c)
  \/ UnassignCommit(c)
  \/ AutomateWrite(c)

AssetNext ==
  \/ \E c \in AssetCallers : AssetStep(c)
  \/ \E a \in Assets : DeleteAsset(a)

AssetSpec == AssetInit /\ [][AssetNext]_assetVars

-----------------------------------------------------------------------------
\* The user a live asset shows (assets.assigned_user_id) has an assignment row
\* that was never ended.  The two are written by assign and unassign in one
\* transaction each, but unassign ends the rows it saw and assign may commit in
\* between.
AssigneeOnRecord ==
  \A a \in Assets :
    Live(a) /\ assets[a].user # NoAssetUser =>
      \E i \in DOMAIN assignments :
        assignments[i] = [asset |-> a, user |-> assets[a].user, open |-> TRUE]

\* Call c commits on asset a what it decided on a state that a has left since.
StaleWrite(c, a) ==
  /\ assetCall[c].op \in {"assign", "automate"}
  /\ assetCall[c].asset = a
  /\ assetCall[c].saw # assets[a].state
  /\ assetCall'[c].pc = "idle"

\* An asset's state only moves along the transition table.  The one exception is
\* a write by id of an assignment or a workflow action on a state the row has left
\* (an ARCHIVED asset can come back that way); and that write makes a move
\* the table allows from the state it read.
AssetTransitionsAreLegal ==
  [][\A a \in Assets :
       LET old == assets[a].state
           new == assets'[a].state IN
       assets[a].ref # 0 /\ new # old =>
         \/ IsAllowedAssetTransition(old, new)
         \/ \E c \in AssetCallers :
              StaleWrite(c, a) /\ IsAllowedAssetTransition(assetCall[c].saw, new)]_assetVars

\* No asset reference is given twice, and a creation is refused for its
\* reference only if another asset appeared after its count: nothing a person
\* does alone, deleting included, makes createAsset fail.
AssetRefsNeverBlock ==
  [][/\ \A a, b \in Assets : assets'[a].ref = assets'[b].ref /\ a # b => assets'[a].ref = 0
     /\ \A c \in AssetCallers : CreateAssetRefused(c) => AssetRows # assetCall[c].rows]_assetVars

\* A deleted asset is final to people; only a workflow action that read it
\* before the deletion still writes its state.
DeletedAssetIsFinal ==
  [][\A a \in Assets :
       assets[a].deleted /\ assets'[a] # assets[a] =>
         /\ assets'[a] = [assets[a] EXCEPT !.state = assets'[a].state]
         /\ \E c \in AssetCallers :
              /\ assetCall[c].op = "automate"
              /\ assetCall[c].asset = a
              /\ assetCall'[c].pc = "idle"]_assetVars

\* What people and workflow actions may never do to an asset's row.
AssetRowsSound == AssetTransitionsAreLegal /\ AssetRefsNeverBlock /\ DeletedAssetIsFinal
=============================================================================
