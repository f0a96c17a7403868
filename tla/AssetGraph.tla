----------------------------- MODULE AssetGraph -----------------------------
(***************************************************************************)
(* The PARENT_CHILD relationships between assets.                          *)
(*                                                                         *)
(* createRelationship walks up from the new edge's parent before inserting  *)
(* it.  The walk is a loop of queries in a READ COMMITTED transaction, each *)
(* of which returns some parent of the current asset (findFirst without an *)
(* order); edges other people insert or remove meanwhile are seen or       *)
(* missed.  Each query is a step.  The database limits an edge to one row  *)
(* per (source, target, type), not an asset to one parent.                 *)
(***************************************************************************)

CONSTANTS
  GraphAssets,     \* assets of the tenant
  GraphCallers     \* createRelationship requests in progress

ASSUME SomeGraphAsset == GraphAssets # {}

VARIABLES
  edges,       \* asset_relationships of type PARENT_CHILD, <<parent, child>>
  hidden,      \* soft-deleted assets: their relationships stay
  walk,        \* the requests
  unchecked    \* history: an edge the walk could not judge has been inserted

graphVars == <<edges, hidden, walk, unchecked>>

Walk == [pc     : {"idle", "walking", "inserting"},
         parent : GraphAssets,
         child  : GraphAssets,
         cursor : GraphAssets,
         seen   : SUBSET GraphAssets,
         alone  : BOOLEAN]      \* history: no edge was inserted since the request began

GraphTypeOK ==
  /\ edges \subseteq GraphAssets \X GraphAssets
  /\ hidden \subseteq GraphAssets
  /\ walk \in [GraphCallers -> Walk]
  /\ unchecked \in BOOLEAN

Root == CHOOSE a \in GraphAssets : TRUE

Resting == [pc |-> "idle", parent |-> Root, child |-> Root, cursor |-> Root, seen |-> {},
            alone |-> TRUE]

GraphInit ==
  /\ edges = {}
  /\ hidden = {}
  /\ walk = [c \in GraphCallers |-> Resting]
  /\ unchecked = FALSE

ParentsOf(es, a) == {p \in GraphAssets : <<p, a>> \in es}

OneParentEach(es) == \A d, e \in es : d[2] = e[2] => d = e

-----------------------------------------------------------------------------
\* Mutant: the child may be the parent itself.
MutantRelateBegin(c, p, ch) ==
  /\ walk[c].pc = "idle"
  /\ p \notin hidden /\ ch \notin hidden
  /\ <<p, ch>> \notin edges
  /\ walk' = [walk EXCEPT ![c] = [pc |-> "walking", parent |-> p, child |-> ch, cursor |-> p,
                                  seen |-> {p}, alone |-> TRUE]]
  /\ UNCHANGED <<edges, hidden, unchecked>>

\* Both assets exist, differ and have no such edge: the walk starts at the parent.
RelateBegin(c, p, ch) ==
  /\ walk[c].pc = "idle"
  /\ p # ch
  /\ p \notin hidden /\ ch \notin hidden
  /\ <<p, ch>> \notin edges
  /\ walk' = [walk EXCEPT ![c] = [pc |-> "walking", parent |-> p, child |-> ch, cursor |-> p,
                                  seen |-> {p}, alone |-> TRUE]]
  /\ UNCHANGED <<edges, hidden, unchecked>>

\* Mutant: the walk does not remember where it has been.
MutantClimb(c) ==
  LET w == walk[c] IN
  /\ w.pc = "walking"
  /\ \/ /\ ParentsOf(edges, w.cursor) = {}
        /\ walk' = [walk EXCEPT ![c].pc = "inserting"]
     \/ \E p \in ParentsOf(edges, w.cursor) :
          walk' = IF p = w.child
                  THEN [walk EXCEPT ![c] = Resting]
                  ELSE [walk EXCEPT ![c].cursor = p, ![c].seen = @ \cup {p}]
  /\ UNCHANGED <<edges, hidden, unchecked>>

\* One query of assertNoParentCycle: no parent ends the walk, the child or an
\* asset already seen refuses the edge, another parent is climbed to.
Climb(c) ==
  LET w == walk[c] IN
  /\ w.pc = "walking"
  /\ \/ /\ ParentsOf(edges, w.cursor) = {}
        /\ walk' = [walk EXCEPT ![c].pc = "inserting"]
     \/ \E p \in ParentsOf(edges, w.cursor) :
          walk' = IF p = w.child \/ p \in w.seen
                  THEN [walk EXCEPT ![c] = Resting]
                  ELSE [walk EXCEPT ![c].cursor = p, ![c].seen = @ \cup {p}]
  /\ UNCHANGED <<edges, hidden, unchecked>>

\* The insert, or the unique index's refusal of an edge that has appeared.  The
\* history notes an insert whose walk another insert overlapped, and one after
\* which some asset has two parents: a walk follows only one of them.
InsertEdge(c) ==
  LET w     == walk[c]
      edge  == <<w.parent, w.child>>
      fresh == edge \notin edges IN
  /\ w.pc = "inserting"
  /\ edges' = edges \cup {edge}
  /\ unchecked' = (unchecked \/ (fresh /\ ~w.alone) \/ ~OneParentEach(edges'))
  /\ walk' = [d \in GraphCallers |->
                IF d = c THEN Resting
                ELSE IF walk[d].pc # "idle" /\ fresh THEN [walk[d] EXCEPT !.alone = FALSE]
                ELSE walk[d]]
  /\ UNCHANGED hidden

\* deleteRelationship.
RemoveEdge(e) ==
  /\ e \in edges
  /\ edges' = edges \ {e}
  /\ UNCHANGED <<hidden, walk, unchecked>>

\* softDelete of an asset: "relationship graph is preserved but hidden".
HideAsset(a) ==
  /\ a \notin hidden
  /\ hidden' = hidden \cup {a}
  /\ UNCHANGED <<edges, walk, unchecked>>

GraphNext ==
  \/ \E c \in GraphCallers :
       \/ \E p, ch \in GraphAssets : RelateBegin(c, p, ch)
       \/ Climb(c)
       \/ InsertEdge(c)
  \/ \E e \in edges : RemoveEdge(e)
  \/ \E a \in GraphAssets : HideAsset(a)

\* A request that has started goes on: its loop awaits one query after another.
GraphFairness == \A c \in GraphCallers : WF_graphVars(Climb(c))

GraphSpec == GraphInit /\ [][GraphNext]_graphVars /\ GraphFairness

-----------------------------------------------------------------------------
\* A cycle is a set of assets that each have a parent in the set.
Acyclic(es) ==
  \A S \in (SUBSET GraphAssets) \ {{}} : \E a \in S : ParentsOf(es, a) \cap S = {}

\* "Prevents introducing a cycle in the PARENT_CHILD hierarchy"
\* (assertNoParentCycle): there is none as long as every asset has had at most
\* one parent and no two edges were checked at the same time.
NoCheckedCycle == unchecked \/ Acyclic(edges)

\* The walk of a request ends, also in a hierarchy that has got a cycle and
\* while others go on changing it.
WalksEnd == \A c \in GraphCallers : walk[c].pc = "walking" ~> walk[c].pc # "walking"
=============================================================================
