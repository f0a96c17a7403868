-------------------------- MODULE Structures_proofs --------------------------
(***************************************************************************)
(* The hierarchy of assets, their links to tickets, permissions, and       *)
(* attachments, for any number of rows and of requests.                    *)
(*                                                                         *)
(* Hierarchy: while no edge has been inserted since the walk of            *)
(* createRelationship began, and every asset has one parent, the assets a  *)
(* walk has seen include the parents of all of them but the one it is at;  *)
(* when it ends, they include the parents of every one.  The child is not  *)
(* among them, so the new edge leads no ancestor of the parent back to it. *)
(*                                                                         *)
(* Links: a row is locked by the call between its check and its write      *)
(* (LinkInv).  Permissions: whoever checks the keys of a role holds those  *)
(* it has passed, and none came from nowhere (PermInv).  Attachments: an   *)
(* upload between its count and its insert counts as if it had its row     *)
(* (AttInv).                                                               *)
(*                                                                         *)
(* Clock: what a call has counted so far is the business time behind its   *)
(* cursor, because the intervals it has still to visit cover every open    *)
(* tick between there and the end of the day (Covers, AddsOn, MeasuresOn). *)
(* So the due date lies the promised time after the start, and what is     *)
(* left at a pause is what the target has not had (Promised).              *)
(*                                                                         *)
(* Last, these side by side, as MCStructures runs them.                    *)
(***************************************************************************)
EXTENDS MCStructures, FiniteSetTheorems, TLAPS

\* What the walk w has seen, compared with the edges there are.
WalkOk(w) ==
  /\ w.parent \in w.seen /\ w.child \notin w.seen
  /\ \A a \in w.seen : a = w.cursor \/ ParentsOf(edges, a) \subseteq w.seen
  /\ w.pc = "inserting" => ParentsOf(edges, w.cursor) = {}

GInv ==
  /\ GraphTypeOK
  /\ ~unchecked =>
       /\ OneParentEach(edges)
       /\ Acyclic(edges)
       /\ \A c \in GraphCallers : walk[c].pc # "idle" /\ walk[c].alone => WalkOk(walk[c])

-----------------------------------------------------------------------------
(* The operators                                                           *)

LEMMA RestingTyped == Resting \in Walk
BY SomeGraphAsset DEF Resting, Walk, Root

\* Removing edges makes no cycle, and no second parent.
LEMMA FewerEdges ==
  ASSUME NEW es, NEW fs, fs \subseteq es
  PROVE  /\ Acyclic(es) => Acyclic(fs)
         /\ OneParentEach(es) => OneParentEach(fs)
         /\ \A a : ParentsOf(fs, a) \subseteq ParentsOf(es, a)
<1>1. \A a : ParentsOf(fs, a) \subseteq ParentsOf(es, a)
  BY DEF ParentsOf
<1>2. ASSUME Acyclic(es), NEW S \in (SUBSET GraphAssets) \ {{}}
      PROVE  \E a \in S : ParentsOf(fs, a) \cap S = {}
  <2>1. PICK a \in S : ParentsOf(es, a) \cap S = {}
    BY <1>2 DEF Acyclic
  <2> QED BY <1>1, <2>1
<1> QED BY <1>1, <1>2 DEF Acyclic, OneParentEach

\* An edge from p to ch makes no cycle if some set with p and without ch
\* contains the parents of its members.
LEMMA NewEdgeNoCycle ==
  ASSUME NEW es, NEW p \in GraphAssets, NEW ch \in GraphAssets, NEW above \in SUBSET GraphAssets,
         Acyclic(es), p \in above, ch \notin above,
         \A a \in above : ParentsOf(es, a) \subseteq above
  PROVE  Acyclic(es \cup {<<p, ch>>})
<1> DEFINE fs == es \cup {<<p, ch>>}
<1>1. \A a : a # ch => ParentsOf(fs, a) = ParentsOf(es, a)
  BY DEF ParentsOf
<1>2. ParentsOf(fs, ch) \subseteq ParentsOf(es, ch) \cup {p}
  BY DEF ParentsOf
<1>3. SUFFICES ASSUME NEW S \in (SUBSET GraphAssets) \ {{}}
               PROVE  \E a \in S : ParentsOf(fs, a) \cap S = {}
  BY DEF Acyclic
<1>4. CASE S \cap above = {}
  <2>1. PICK a \in S : ParentsOf(es, a) \cap S = {}
    BY DEF Acyclic
  <2>2. ParentsOf(fs, a) \subseteq ParentsOf(es, a) \cup {p} /\ p \notin S
    BY <1>1, <1>2, <1>4
  <2>3. ParentsOf(fs, a) \cap S = {}
    BY <2>1, <2>2
  <2> QED BY <2>3
<1>5. CASE S \cap above # {}
  <2>0. S \cap above \in (SUBSET GraphAssets) \ {{}}
    BY <1>5
  <2>1. PICK a \in S \cap above : ParentsOf(es, a) \cap (S \cap above) = {}
    BY <2>0 DEF Acyclic
  <2>2. ParentsOf(es, a) \subseteq above /\ ParentsOf(fs, a) = ParentsOf(es, a)
    BY <1>1, <2>1
  <2>3. ParentsOf(fs, a) \cap S = {}
    BY <2>1, <2>2
  <2> QED BY <2>3
<1> QED BY <1>4, <1>5

-----------------------------------------------------------------------------
(* The steps                                                               *)

LEMMA GraphInitHolds == GraphInit => GInv
<1> SUFFICES ASSUME GraphInit PROVE GInv
  OBVIOUS
<1>1. GraphTypeOK
  BY RestingTyped DEF GraphInit, GraphTypeOK
<1>2. OneParentEach(edges)
  BY DEF GraphInit, OneParentEach
<1>3. Acyclic(edges)
  <2>1. \A a : ParentsOf(edges, a) = {}
    BY DEF GraphInit, ParentsOf
  <2>2. ASSUME NEW S \in (SUBSET GraphAssets) \ {{}}
        PROVE  \E a \in S : ParentsOf(edges, a) \cap S = {}
    <3>1. PICK a : a \in S
      BY <2>2
    <3> QED BY <2>1, <3>1
  <2> QED BY <2>2 DEF Acyclic
<1>4. \A c \in GraphCallers : walk[c].pc = "idle"
  BY DEF GraphInit, Resting
<1> QED BY <1>1, <1>2, <1>3, <1>4 DEF GInv

LEMMA BeginKeeps ==
  ASSUME GInv, NEW c \in GraphCallers, NEW p \in GraphAssets, NEW ch \in GraphAssets,
         RelateBegin(c, p, ch)
  PROVE  GInv'
<1> DEFINE w == [pc |-> "walking", parent |-> p, child |-> ch, cursor |-> p, seen |-> {p},
                 alone |-> TRUE]
<1>1. walk' = [walk EXCEPT ![c] = w] /\ UNCHANGED <<edges, hidden, unchecked>> /\ p # ch
  BY DEF RelateBegin
<1>2. w \in Walk /\ WalkOk(w)
  BY <1>1 DEF Walk, WalkOk
<1> HIDE DEF w
<1>3. GraphTypeOK'
  BY <1>1, <1>2 DEF GInv, GraphTypeOK
<1>4. ASSUME ~unchecked, NEW d \in GraphCallers, walk'[d].pc # "idle", walk'[d].alone
      PROVE  WalkOk(walk'[d])
  BY <1>1, <1>2, <1>4 DEF GInv, GraphTypeOK
<1>5. ASSUME ~unchecked', NEW d \in GraphCallers, walk'[d].pc # "idle", walk'[d].alone
      PROVE  WalkOk(walk[d])'
  BY <1>1, <1>4, <1>5 DEF WalkOk
<1> QED BY <1>1, <1>3, <1>5 DEF GInv

\* The only parent of the asset the walk is at joins the assets it has seen.
LEMMA ClimbKeeps ==
  ASSUME GInv, NEW c \in GraphCallers, Climb(c)
  PROVE  GInv'
<1> DEFINE w == walk[c]
<1>1. w \in Walk /\ UNCHANGED <<edges, hidden, unchecked>> /\ w.pc = "walking"
  BY DEF Climb, GInv, GraphTypeOK
<1>2. PICK v \in Walk : /\ walk' = [walk EXCEPT ![c] = v]
                        /\ ~unchecked /\ v.pc # "idle" /\ v.alone => WalkOk(v)
  <2>1. CASE ParentsOf(edges, w.cursor) = {} /\ walk' = [walk EXCEPT ![c].pc = "inserting"]
    <3> DEFINE v == [w EXCEPT !.pc = "inserting"]
    <3>1. v \in Walk /\ walk' = [walk EXCEPT ![c] = v]
      BY <1>1, <2>1 DEF GInv, GraphTypeOK, Walk
    <3>2. ASSUME ~unchecked, v.alone PROVE WalkOk(v)
      <4>1. WalkOk(w)
        BY <1>1, <3>2 DEF GInv, Walk
      <4> QED BY <1>1, <2>1, <4>1 DEF WalkOk, Walk
    <3> QED BY <3>1, <3>2
  <2>2. ASSUME NEW p \in ParentsOf(edges, w.cursor), p = w.child \/ p \in w.seen,
               walk' = [walk EXCEPT ![c] = Resting]
        PROVE  \E v \in Walk : /\ walk' = [walk EXCEPT ![c] = v]
                               /\ ~unchecked /\ v.pc # "idle" /\ v.alone => WalkOk(v)
    BY <2>2, RestingTyped DEF Resting
  <2>3. ASSUME NEW p \in ParentsOf(edges, w.cursor), ~(p = w.child \/ p \in w.seen),
               walk' = [walk EXCEPT ![c].cursor = p, ![c].seen = @ \cup {p}]
        PROVE  \E v \in Walk : /\ walk' = [walk EXCEPT ![c] = v]
                               /\ ~unchecked /\ v.pc # "idle" /\ v.alone => WalkOk(v)
    <3> DEFINE v == [w EXCEPT !.cursor = p, !.seen = @ \cup {p}]
    <3>1. p \in GraphAssets
      BY DEF ParentsOf
    <3>2. v \in Walk /\ walk' = [walk EXCEPT ![c] = v]
      BY <1>1, <2>3, <3>1 DEF GInv, GraphTypeOK, Walk
    <3>3. ASSUME ~unchecked, v.alone PROVE WalkOk(v)
      <4>1. WalkOk(w) /\ OneParentEach(edges)
        BY <1>1, <3>3 DEF GInv, Walk
      <4>2. ParentsOf(edges, w.cursor) \subseteq {p}
        BY <4>1 DEF OneParentEach, ParentsOf
      <4>3. /\ v.pc = "walking" /\ v.parent = w.parent /\ v.child = w.child
            /\ v.seen = w.seen \cup {p} /\ v.cursor = p
        BY <1>1 DEF Walk
      <4> HIDE DEF v
      <4>4. \A a \in v.seen : a = v.cursor \/ ParentsOf(edges, a) \subseteq v.seen
        BY <4>1, <4>2, <4>3 DEF WalkOk
      <4> QED BY <2>3, <4>1, <4>3, <4>4 DEF WalkOk
    <3> QED BY <3>2, <3>3
  <2> QED BY <2>1, <2>2, <2>3 DEF Climb
<1>3. GraphTypeOK'
  BY <1>1, <1>2 DEF GInv, GraphTypeOK
<1>4. ASSUME ~unchecked, NEW d \in GraphCallers, walk'[d].pc # "idle", walk'[d].alone
      PROVE  WalkOk(walk'[d])
  BY <1>2, <1>4 DEF GInv, GraphTypeOK
<1>5. ASSUME ~unchecked', NEW d \in GraphCallers, walk'[d].pc # "idle", walk'[d].alone
      PROVE  WalkOk(walk[d])'
  BY <1>1, <1>4, <1>5 DEF WalkOk
<1> QED BY <1>1, <1>3, <1>5 DEF GInv

\* An insert that nothing overlapped: the assets seen are closed upwards.  It
\* tells the other walks that they are out of date.
LEMMA InsertKeeps ==
  ASSUME GInv, NEW c \in GraphCallers, InsertEdge(c)
  PROVE  GInv'
<1> DEFINE w     == walk[c]
           edge  == <<w.parent, w.child>>
           fresh == edge \notin edges
<1>1. w \in Walk /\ w.pc = "inserting" /\ edges' = edges \cup {edge} /\ hidden' = hidden
  BY DEF InsertEdge, GInv, GraphTypeOK
<1>2. unchecked' = (unchecked \/ (fresh /\ ~w.alone) \/ ~OneParentEach(edges'))
  BY DEF InsertEdge
<1>3. walk' = [d \in GraphCallers |->
                 IF d = c THEN Resting
                 ELSE IF walk[d].pc # "idle" /\ fresh THEN [walk[d] EXCEPT !.alone = FALSE]
                 ELSE walk[d]]
  BY DEF InsertEdge
<1>4. GraphTypeOK'
  <2>1. walk' \in [GraphCallers -> Walk]
    BY <1>3, RestingTyped DEF GInv, GraphTypeOK, Walk
  <2>2. edges' \subseteq GraphAssets \X GraphAssets
    BY <1>1 DEF GInv, GraphTypeOK, Walk
  <2>3. unchecked' \in BOOLEAN
    BY <1>2
  <2> QED BY <1>1, <2>1, <2>2, <2>3 DEF GInv, GraphTypeOK
<1>5. SUFFICES ASSUME ~unchecked'
               PROVE  /\ OneParentEach(edges') /\ Acyclic(edges')
                      /\ \A d \in GraphCallers :
                           walk'[d].pc # "idle" /\ walk'[d].alone => WalkOk(walk[d])'
  BY <1>4 DEF GInv
<1>6. ~unchecked /\ (fresh => w.alone) /\ OneParentEach(edges')
  BY <1>2, <1>5
<1>7. CASE fresh
  <2>1. WalkOk(w)
    BY <1>1, <1>6, <1>7 DEF GInv
  <2>2. w.parent \in GraphAssets /\ w.child \in GraphAssets /\ w.seen \in SUBSET GraphAssets
    BY <1>1 DEF Walk
  <2>3. \A a \in w.seen : ParentsOf(edges, a) \subseteq w.seen
    BY <1>1, <2>1 DEF WalkOk
  <2>4. Acyclic(edges')
    BY <1>1, <1>6, <2>1, <2>2, <2>3, NewEdgeNoCycle DEF GInv, WalkOk
  <2>5. \A d \in GraphCallers : walk'[d].pc # "idle" => ~walk'[d].alone
    BY <1>3, <1>7 DEF GInv, GraphTypeOK, Walk, Resting
  <2> QED BY <1>6, <2>4, <2>5
<1>8. CASE ~fresh
  <2>1. edges' = edges
    BY <1>1, <1>8
  <2>2. ASSUME NEW d \in GraphCallers, walk'[d].pc # "idle", walk'[d].alone
        PROVE  WalkOk(walk[d])'
    <3>1. walk'[d] = walk[d]
      BY <1>3, <1>8, <2>2 DEF Resting
    <3> QED BY <1>6, <2>1, <2>2, <3>1 DEF GInv, WalkOk
  <2> QED BY <1>6, <2>1, <2>2 DEF GInv
<1> QED BY <1>7, <1>8

LEMMA RemoveKeeps ==
  ASSUME GInv, NEW e \in edges, RemoveEdge(e)
  PROVE  GInv'
<1>1. edges' \subseteq edges /\ UNCHANGED <<hidden, walk, unchecked>>
  BY DEF RemoveEdge
<1>2. GraphTypeOK'
  BY <1>1 DEF GInv, GraphTypeOK
<1>3. /\ Acyclic(edges) => Acyclic(edges')
      /\ OneParentEach(edges) => OneParentEach(edges')
      /\ \A a : ParentsOf(edges', a) \subseteq ParentsOf(edges, a)
  BY <1>1, FewerEdges
<1>4. ASSUME NEW c \in GraphCallers, WalkOk(walk[c]) PROVE WalkOk(walk[c])'
  BY <1>1, <1>3, <1>4 DEF WalkOk
<1> QED BY <1>1, <1>2, <1>3, <1>4 DEF GInv

LEMMA GraphStepKeeps ==
  ASSUME GInv, [GraphNext]_graphVars
  PROVE  GInv'
<1>1. ASSUME UNCHANGED <<edges, walk, unchecked>>, hidden' \subseteq GraphAssets PROVE GInv'
  BY <1>1 DEF GInv, GraphTypeOK, WalkOk
<1>2. ASSUME NEW a \in GraphAssets, HideAsset(a) PROVE GInv'
  BY <1>1, <1>2 DEF HideAsset, GInv, GraphTypeOK
<1>3. CASE UNCHANGED graphVars
  BY <1>1, <1>3 DEF graphVars, GInv, GraphTypeOK
<1> QED BY <1>2, <1>3, BeginKeeps, ClimbKeeps, InsertKeeps, RemoveKeeps DEF GraphNext

-----------------------------------------------------------------------------
\* Whatever is inserted, removed and hidden meanwhile, the walks in progress
\* know what GInv says they do.
THEOREM GraphInvariant == GraphSpec => []GInv
<1>1. GraphInit => GInv
  BY GraphInitHolds
<1>2. GInv /\ [GraphNext]_graphVars => GInv'
  BY GraphStepKeeps
<1> QED BY <1>1, <1>2, PTL DEF GraphSpec

\* The hierarchy and the requests keep their types.
THEOREM GraphTyped == GraphSpec => []GraphTypeOK
<1>1. GInv => GraphTypeOK
  BY DEF GInv
<1> QED BY <1>1, GraphInvariant, PTL

\* createRelationship lets no cycle in as long as every asset has had at most
\* one parent and no two edges were checked at the same time.
THEOREM NoCycleGetsIn == GraphSpec => []NoCheckedCycle
<1>1. GInv => NoCheckedCycle
  BY DEF GInv, NoCheckedCycle
<1> QED BY <1>1, GraphInvariant, PTL

-----------------------------------------------------------------------------
(* Tickets created from assets: the invariant                              *)

\* A request that holds the lock of its asset; one that has counted finds the asset
\* alive, and whatever tickets have come since are not of this asset.
LockOk(c, w) ==
  /\ w.pc # "idle" => w.asset \in LinkAssets
  /\ w.pc \in {"locked", "counted"} => rowLock[w.asset] = c
  /\ w.pc = "counted" =>
       /\ w.asset \notin dead
       /\ w.counted \subseteq TicketRows
       /\ \A t \in TicketRows \ w.counted : madeFrom[t] # w.asset

\* Numbers are given out without gaps.
NumbersAreDense ==
  /\ IsFiniteSet(TicketRows)
  /\ \A t \in LinkTickets : /\ ticketRef[t] <= Cardinality(TicketRows)
                            /\ ticketRef[t] = 0 => madeFrom[t] = NoLinkAsset

LinkInv ==
  /\ LinksTypeOK
  /\ NumbersAreDense
  /\ \A c \in LinkCallers : LockOk(c, linkCall[c])

LEMMA NoLinkCallTyped == NoLinkCall \in LinkCall /\ NoLinkCall.pc = "idle"
BY DEF NoLinkCall, LinkCall

\* A request goes on as q, and no ticket comes: the others keep what they know, if their
\* locks and assets stay.
LEMMA CallGoesOn ==
  ASSUME LinkInv, NEW c \in LinkCallers, NEW q \in LinkCall, linkCall' = [linkCall EXCEPT ![c] = q],
         UNCHANGED <<ticketRef, madeFrom, dead>>, links' \subseteq LinkAssets \X LinkTickets,
         rowLock' \in [LinkAssets -> LinkCallers \cup {NoLinkCaller}],
         \A d \in LinkCallers \ {c}, a \in LinkAssets : rowLock[a] = d => rowLock'[a] = d,
         LockOk(c, q)'
  PROVE  LinkInv'
<1>1. LinksTypeOK'
  BY DEF LinkInv, LinksTypeOK
<1>2. NumbersAreDense'
  BY DEF LinkInv, NumbersAreDense, TicketRows
<1>3. ASSUME NEW d \in LinkCallers PROVE LockOk(d, linkCall[d])'
  <2>1. CASE d = c
    BY <2>1 DEF LinkInv, LinksTypeOK
  <2>2. CASE d # c
    <3>1. LockOk(d, linkCall[d]) /\ linkCall'[d] = linkCall[d]
      BY <2>2 DEF LinkInv, LinksTypeOK
    <3> QED BY <2>2, <3>1 DEF LockOk, TicketRows
  <2> QED BY <2>1, <2>2
<1> QED BY <1>1, <1>2, <1>3 DEF LinkInv

\* A ticket t comes with the next number or an earlier one, from asset a or from none.
LEMMA TicketComes ==
  ASSUME LinkInv, NEW t \in LinkTickets, ticketRef[t] = 0,
         NEW ref \in Nat, ref > 0, ref <= Cardinality(TicketRows) + 1,
         ticketRef' = [ticketRef EXCEPT ![t] = ref],
         madeFrom' \in [LinkTickets -> LinkAssets \cup {NoLinkAsset}],
         \A u \in LinkTickets \ {t} : madeFrom'[u] = madeFrom[u]
  PROVE  NumbersAreDense' /\ TicketRows' = TicketRows \cup {t} /\ t \notin TicketRows
<1>1. TicketRows' = TicketRows \cup {t} /\ t \notin TicketRows
  BY DEF TicketRows, LinkInv, LinksTypeOK
<1>2. IsFiniteSet(TicketRows)
  BY DEF LinkInv, NumbersAreDense
<1>3. PICK n \in Nat : n = Cardinality(TicketRows)
  BY <1>2, FS_CardinalityType
<1>4. IsFiniteSet(TicketRows') /\ Cardinality(TicketRows') = n + 1
  BY <1>1, <1>2, <1>3, FS_AddElement
<1>5. ASSUME NEW u \in LinkTickets
      PROVE  ticketRef'[u] <= n + 1 /\ (ticketRef'[u] = 0 => madeFrom'[u] = NoLinkAsset)
  <2>1. ticketRef[u] \in Nat /\ ticketRef[u] <= n /\ (ticketRef[u] = 0 => madeFrom[u] = NoLinkAsset)
    BY <1>3 DEF LinkInv, LinksTypeOK, NumbersAreDense
  <2>2. ticketRef'[t] = ref /\ (u # t => ticketRef'[u] = ticketRef[u])
    BY DEF LinkInv, LinksTypeOK
  <2> QED BY <1>3, <2>1, <2>2
<1> QED BY <1>1, <1>4, <1>5 DEF NumbersAreDense

-----------------------------------------------------------------------------
(* Tickets created from assets: steps                                      *)

LEMMA LinkTicketReadKeeps ==
  ASSUME LinkInv, NEW c \in LinkCallers, NEW a \in LinkAssets, NEW t \in LinkTickets,
         LinkTicketRead(c, a, t)
  PROVE  LinkInv'
<1>1. PICK one \in SUBSET LinkTickets : one = {t}
  OBVIOUS
<1>2. PICK q \in LinkCall : q = [linkCall[c] EXCEPT !.pc = "linking", !.asset = a, !.ticket = one]
  BY <1>1 DEF LinkInv, LinksTypeOK, LinkCall
<1>3. linkCall' = [linkCall EXCEPT ![c] = q]
  BY <1>1, <1>2 DEF LinkTicketRead
<1>4. q.pc = "linking" /\ q.asset = a
  BY <1>2 DEF LinkInv, LinksTypeOK, LinkCall
<1>5. LockOk(c, q)'
  BY <1>4 DEF LockOk
<1>6. /\ UNCHANGED <<ticketRef, madeFrom, links, dead, rowLock>>
      /\ links \subseteq LinkAssets \X LinkTickets
      /\ rowLock \in [LinkAssets -> LinkCallers \cup {NoLinkCaller}]
  BY DEF LinkTicketRead, LinkInv, LinksTypeOK
<1> QED BY <1>3, <1>5, <1>6, CallGoesOn

LEMMA LinkTicketWriteKeeps ==
  ASSUME LinkInv, NEW c \in LinkCallers, LinkTicketWrite(c)
  PROVE  LinkInv'
<1>1. linkCall[c].asset \in LinkAssets /\ linkCall[c].ticket \subseteq LinkTickets
  BY DEF LinkTicketWrite, LinkInv, LinksTypeOK, LinkCall, LockOk
<1>2. /\ UNCHANGED <<ticketRef, madeFrom, dead, rowLock>>
      /\ links' \subseteq LinkAssets \X LinkTickets
      /\ rowLock \in [LinkAssets -> LinkCallers \cup {NoLinkCaller}]
      /\ linkCall' = [linkCall EXCEPT ![c] = NoLinkCall]
  BY <1>1 DEF LinkTicketWrite, LinkInv, LinksTypeOK
<1>3. LockOk(c, NoLinkCall)'
  BY NoLinkCallTyped DEF LockOk
<1> QED BY <1>2, <1>3, NoLinkCallTyped, CallGoesOn

LEMMA UnlinkTicketKeeps ==
  ASSUME LinkInv, NEW a \in LinkAssets, NEW t \in LinkTickets, UnlinkTicket(a, t)
  PROVE  LinkInv'
<1>1. UNCHANGED <<ticketRef, madeFrom, dead, rowLock, linkCall>> /\ links' \subseteq links
  BY DEF UnlinkTicket
<1> QED BY <1>1 DEF LinkInv, LinksTypeOK, NumbersAreDense, TicketRows, LockOk

LEMMA LockAssetKeeps ==
  ASSUME LinkInv, NEW c \in LinkCallers, NEW a \in LinkAssets, LockAsset(c, a)
  PROVE  LinkInv'
<1>1. PICK q \in LinkCall : q = [linkCall[c] EXCEPT !.pc = "locked", !.asset = a]
  BY DEF LinkInv, LinksTypeOK, LinkCall
<1>2. q.pc = "locked" /\ q.asset = a
  BY <1>1 DEF LinkInv, LinksTypeOK, LinkCall
<1>3. /\ linkCall' = [linkCall EXCEPT ![c] = q]
      /\ rowLock[a] = NoLinkCaller /\ rowLock' = [rowLock EXCEPT ![a] = c]
      /\ UNCHANGED <<ticketRef, madeFrom, links, dead>>
      /\ links \subseteq LinkAssets \X LinkTickets
      /\ rowLock \in [LinkAssets -> LinkCallers \cup {NoLinkCaller}]
  BY <1>1 DEF LockAsset, LinkInv, LinksTypeOK
<1>4. LockOk(c, q)'
  BY <1>2, <1>3 DEF LockOk
<1>5. \A d \in LinkCallers \ {c}, b \in LinkAssets : rowLock[b] = d => rowLock'[b] = d
  BY <1>3, LinkConstants
<1> QED BY <1>3, <1>4, <1>5, CallGoesOn

\* The locks that others hold survive when c gives up its own.
LEMMA OthersKeepLocks ==
  ASSUME LinkInv, NEW c \in LinkCallers, Unlock(c)
  PROVE  /\ rowLock' \in [LinkAssets -> LinkCallers \cup {NoLinkCaller}]
         /\ \A d \in LinkCallers \ {c}, a \in LinkAssets : rowLock[a] = d => rowLock'[a] = d
BY DEF LinkInv, LinksTypeOK, Unlock

LEMMA CountTicketsKeeps ==
  ASSUME LinkInv, NEW c \in LinkCallers, CountTickets(c)
  PROVE  LinkInv'
<1>1. /\ UNCHANGED <<ticketRef, madeFrom, links, dead>>
      /\ links \subseteq LinkAssets \X LinkTickets
      /\ rowLock \in [LinkAssets -> LinkCallers \cup {NoLinkCaller}]
  BY DEF CountTickets, LinkInv, LinksTypeOK
<1>2. CASE linkCall[c].asset \in dead
  <2>1. linkCall' = [linkCall EXCEPT ![c] = NoLinkCall] /\ Unlock(c)
    BY <1>2 DEF CountTickets
  <2>2. LockOk(c, NoLinkCall)'
    BY NoLinkCallTyped DEF LockOk
  <2> QED BY <1>1, <2>1, <2>2, NoLinkCallTyped, OthersKeepLocks, CallGoesOn
<1>3. CASE linkCall[c].asset \notin dead
  <2>1. PICK rows \in SUBSET LinkTickets : rows = TicketRows
    BY DEF TicketRows
  <2>2. PICK q \in LinkCall : q = [linkCall[c] EXCEPT !.pc = "counted", !.counted = rows]
    BY DEF LinkInv, LinksTypeOK, LinkCall
  <2>3. q.pc = "counted" /\ q.counted = rows /\ q.asset = linkCall[c].asset
    BY <2>2 DEF LinkInv, LinksTypeOK, LinkCall
  <2>4. linkCall' = [linkCall EXCEPT ![c] = q] /\ rowLock' = rowLock
    BY <1>3, <2>1, <2>2 DEF CountTickets
  <2>5. linkCall[c].asset \in LinkAssets /\ rowLock[linkCall[c].asset] = c
    BY DEF CountTickets, LinkInv, LockOk
  <2>6. LockOk(c, q)'
    BY <1>1, <1>3, <2>1, <2>3, <2>4, <2>5 DEF LockOk, TicketRows
  <2> QED BY <1>1, <2>4, <2>6, CallGoesOn
<1> QED BY <1>2, <1>3

LEMMA CreateFromAssetKeeps ==
  ASSUME LinkInv, NEW c \in LinkCallers, NEW t \in LinkTickets, CreateFromAsset(c, t)
  PROVE  LinkInv'
<1>1. /\ linkCall[c] \in LinkCall /\ linkCall[c].pc = "counted" /\ LockOk(c, linkCall[c])
      /\ ticketRef[t] = 0 /\ Unlock(c)
      /\ linkCall' = [linkCall EXCEPT ![c] = NoLinkCall] /\ dead' = dead
      /\ links' = links \cup {<<linkCall[c].asset, t>>}
      /\ madeFrom' = [madeFrom EXCEPT ![t] = linkCall[c].asset]
      /\ ticketRef' = [ticketRef EXCEPT ![t] = NextTicketRef(linkCall[c].counted)]
  BY DEF CreateFromAsset, LinkInv, LinksTypeOK
<1>2. PICK a \in LinkAssets : a = linkCall[c].asset /\ rowLock[a] = c
  BY <1>1 DEF LockOk
<1>3. PICK rows \in SUBSET TicketRows : rows = linkCall[c].counted
  BY <1>1 DEF LockOk
<1>4. /\ IsFiniteSet(TicketRows) /\ Cardinality(TicketRows) \in Nat
      /\ Cardinality(rows) \in Nat /\ Cardinality(rows) <= Cardinality(TicketRows)
  BY FS_Subset, FS_CardinalityType DEF LinkInv, NumbersAreDense
<1>5. PICK ref \in Nat : ref = Cardinality(rows) + 1 /\ ref > 0 /\ ref <= Cardinality(TicketRows) + 1
  BY <1>4
<1>6. /\ ticketRef' = [ticketRef EXCEPT ![t] = ref] /\ madeFrom' = [madeFrom EXCEPT ![t] = a]
      /\ links' = links \cup {<<a, t>>}
  BY <1>1, <1>2, <1>3, <1>5 DEF NextTicketRef
<1>7. /\ madeFrom' \in [LinkTickets -> LinkAssets \cup {NoLinkAsset}]
      /\ madeFrom'[t] = a /\ \A u \in LinkTickets \ {t} : madeFrom'[u] = madeFrom[u]
  BY <1>6 DEF LinkInv, LinksTypeOK
<1>8. NumbersAreDense' /\ TicketRows' = TicketRows \cup {t} /\ t \notin TicketRows
  BY <1>1, <1>5, <1>6, <1>7, TicketComes
<1>9. LinksTypeOK'
  BY <1>1, <1>6, <1>7, NoLinkCallTyped, OthersKeepLocks DEF LinkInv, LinksTypeOK
<1>10. ASSUME NEW d \in LinkCallers PROVE LockOk(d, linkCall[d])'
  <2>1. CASE d = c
    BY <1>1, <2>1, NoLinkCallTyped DEF LockOk, LinkInv, LinksTypeOK
  <2>2. CASE d # c
    <3>1. LockOk(d, linkCall[d]) /\ linkCall'[d] = linkCall[d]
      BY <1>1, <2>2 DEF LinkInv, LinksTypeOK
    <3>2. linkCall[d].pc \in {"locked", "counted"} =>
            rowLock'[linkCall[d].asset] = d /\ linkCall[d].asset # a
      BY <1>1, <1>2, <2>2, <3>1, OthersKeepLocks DEF LockOk
    <3>3. linkCall[d].pc = "counted" =>
            \A u \in TicketRows' \ linkCall[d].counted : madeFrom'[u] # linkCall[d].asset
      <4> SUFFICES ASSUME linkCall[d].pc = "counted", NEW u \in TicketRows' \ linkCall[d].counted
                   PROVE  madeFrom'[u] # linkCall[d].asset
        OBVIOUS
      <4>1. CASE u = t
        BY <1>7, <3>2, <4>1
      <4>2. CASE u # t
        <5>1. u \in TicketRows \ linkCall[d].counted /\ u \in LinkTickets
          BY <1>8, <4>2 DEF TicketRows
        <5> QED BY <1>7, <3>1, <4>2, <5>1 DEF LockOk
      <4> QED BY <4>1, <4>2
    <3> QED BY <1>1, <1>8, <3>1, <3>2, <3>3 DEF LockOk
  <2> QED BY <2>1, <2>2
<1> QED BY <1>8, <1>9, <1>10 DEF LinkInv

LEMMA RefusedKeeps ==
  ASSUME LinkInv, NEW c \in LinkCallers, CreateFromAssetRefused(c)
  PROVE  LinkInv'
<1>1. /\ linkCall' = [linkCall EXCEPT ![c] = NoLinkCall] /\ Unlock(c)
      /\ UNCHANGED <<ticketRef, madeFrom, links, dead>>
      /\ links \subseteq LinkAssets \X LinkTickets
  BY DEF CreateFromAssetRefused, LinkInv, LinksTypeOK
<1>2. LockOk(c, NoLinkCall)'
  BY NoLinkCallTyped DEF LockOk
<1> QED BY <1>1, <1>2, NoLinkCallTyped, OthersKeepLocks, CallGoesOn

LEMMA CreateElsewhereKeeps ==
  ASSUME LinkInv, NEW t \in LinkTickets, CreateElsewhere(t)
  PROVE  LinkInv'
<1>1. IsFiniteSet(TicketRows) /\ Cardinality(TicketRows) \in Nat
  BY FS_CardinalityType DEF LinkInv, NumbersAreDense
<1>2. PICK ref \in Nat : ref = Cardinality(TicketRows) + 1 /\ ref > 0 /\ ref <= Cardinality(TicketRows) + 1
  BY <1>1
<1>3. /\ ticketRef[t] = 0 /\ ticketRef' = [ticketRef EXCEPT ![t] = ref]
      /\ UNCHANGED <<madeFrom, links, dead, rowLock, linkCall>>
  BY <1>2 DEF CreateElsewhere, NextTicketRef
<1>4. NumbersAreDense' /\ TicketRows' = TicketRows \cup {t}
  <2>1. /\ madeFrom' \in [LinkTickets -> LinkAssets \cup {NoLinkAsset}]
        /\ \A u \in LinkTickets \ {t} : madeFrom'[u] = madeFrom[u]
    BY <1>3 DEF LinkInv, LinksTypeOK
  <2> QED BY <1>2, <1>3, <2>1, TicketComes
<1>5. LinksTypeOK'
  BY <1>3 DEF LinkInv, LinksTypeOK
<1>6. ASSUME NEW d \in LinkCallers PROVE LockOk(d, linkCall[d])'
  <2>1. LockOk(d, linkCall[d])
    BY DEF LinkInv
  <2>2. madeFrom[t] = NoLinkAsset
    BY <1>3 DEF LinkInv, NumbersAreDense
  <2> QED BY <1>3, <1>4, <2>1, <2>2, LinkConstants DEF LockOk
<1> QED BY <1>4, <1>5, <1>6 DEF LinkInv

LEMMA DeleteLinkedAssetKeeps ==
  ASSUME LinkInv, NEW a \in LinkAssets, DeleteLinkedAsset(a)
  PROVE  LinkInv'
<1>1. /\ rowLock[a] = NoLinkCaller /\ dead' = dead \cup {a}
      /\ UNCHANGED <<ticketRef, madeFrom, links, rowLock, linkCall>>
  BY DEF DeleteLinkedAsset
<1>2. LinksTypeOK' /\ NumbersAreDense'
  BY <1>1 DEF LinkInv, LinksTypeOK, NumbersAreDense, TicketRows
<1>3. ASSUME NEW d \in LinkCallers PROVE LockOk(d, linkCall[d])'
  <2>1. LockOk(d, linkCall[d])
    BY DEF LinkInv
  <2> QED BY <1>1, <2>1, LinkConstants DEF LockOk, TicketRows
<1> QED BY <1>2, <1>3 DEF LinkInv

LEMMA LinksInitHolds == LinksInit => LinkInv
<1> SUFFICES ASSUME LinksInit PROVE LinkInv
  OBVIOUS
<1>1. TicketRows = {} /\ IsFiniteSet(TicketRows) /\ Cardinality(TicketRows) = 0
  BY FS_EmptySet DEF LinksInit, TicketRows
<1>2. LinksTypeOK
  BY NoLinkCallTyped DEF LinksInit, LinksTypeOK
<1>3. \A c \in LinkCallers : linkCall[c].pc = "idle"
  BY NoLinkCallTyped DEF LinksInit
<1> QED BY <1>1, <1>2, <1>3 DEF LinksInit, LinkInv, NumbersAreDense, LockOk

LEMMA LinkStepKeeps == LinkInv /\ [LinksNext]_linkVars => LinkInv'
<1> SUFFICES ASSUME LinkInv, [LinksNext]_linkVars PROVE LinkInv'
  OBVIOUS
<1>1. CASE LinksNext
  BY <1>1, LinkTicketReadKeeps, LinkTicketWriteKeeps, UnlinkTicketKeeps, LockAssetKeeps, CountTicketsKeeps,
     CreateFromAssetKeeps, RefusedKeeps, CreateElsewhereKeeps, DeleteLinkedAssetKeeps DEF LinksNext
<1>2. CASE UNCHANGED linkVars
  BY <1>2 DEF linkVars, LinkInv, LinksTypeOK, NumbersAreDense, TicketRows, LockOk
<1> QED BY <1>1, <1>2

-----------------------------------------------------------------------------
\* createTicketFromAsset: what a request has counted under the lock of its asset stays
\* true until it commits, and numbers have no gaps.
THEOREM LinkInvariant == LinksSpec => []LinkInv
BY LinksInitHolds, LinkStepKeeps, PTL DEF LinksSpec

\* The row lock of createTicketFromAsset does what it is for: the asset is alive when its
\* ticket is committed, and a number is only ever lost to another asset or another way to
\* create a ticket.
THEOREM RowLockDoesServe == LinksSpec => RowLockServes
<1>1. LinkInv /\ [LinksNext]_linkVars => [\A c \in LinkCallers :
       /\ \A t \in LinkTickets : CreateFromAsset(c, t) => linkCall[c].asset \notin dead
       /\ CreateFromAssetRefused(c) =>
            \E t \in TicketRows \ linkCall[c].counted : madeFrom[t] # linkCall[c].asset]_linkVars
  <2> SUFFICES ASSUME LinkInv, NEW c \in LinkCallers
               PROVE  /\ \A t \in LinkTickets : CreateFromAsset(c, t) => linkCall[c].asset \notin dead
                      /\ CreateFromAssetRefused(c) =>
                           \E t \in TicketRows \ linkCall[c].counted : madeFrom[t] # linkCall[c].asset
    OBVIOUS
  <2>1. ASSUME NEW t \in LinkTickets, CreateFromAsset(c, t) PROVE linkCall[c].asset \notin dead
    BY <2>1 DEF CreateFromAsset, LinkInv, LockOk
  <2>2. ASSUME CreateFromAssetRefused(c)
        PROVE  \E t \in TicketRows \ linkCall[c].counted : madeFrom[t] # linkCall[c].asset
    <3>1. PICK rows \in SUBSET TicketRows :
            rows = linkCall[c].counted /\ \A t \in TicketRows \ rows : madeFrom[t] # linkCall[c].asset
      BY <2>2 DEF CreateFromAssetRefused, LinkInv, LockOk
    <3>2. Cardinality(TicketRows) \in Nat /\ Cardinality(rows) \in Nat
      BY FS_Subset, FS_CardinalityType DEF LinkInv, NumbersAreDense
    <3>3. PICK t \in LinkTickets : ticketRef[t] = Cardinality(rows) + 1
      BY <2>2, <3>1 DEF CreateFromAssetRefused, RefIsFree, NextTicketRef
    <3>4. ticketRef[t] <= Cardinality(TicketRows)
      BY DEF LinkInv, NumbersAreDense
    <3>5. rows # TicketRows
      BY <3>2, <3>3, <3>4
    <3> QED BY <3>1, <3>5
  <2> QED BY <2>1, <2>2
<1> QED BY <1>1, LinkInvariant, PTL DEF LinksSpec, RowLockServes

-----------------------------------------------------------------------------
(* Permissions: the invariant                                              *)

\* What a request has in hand has been checked, or has come to its role since.
PermitOk(q) ==
  /\ q.pc # "idle" => q.actor \in People
  /\ q.pc \in {"reading", "checking"} => q.target \in People
  /\ q.late \subseteq seeded
  /\ \A g \in q.grant : g.key \in seeded
  /\ q.pc = "checking" =>
       \A role \in q.role : GetRolePermissionKeys(role) \ (q.left \cup q.late) \subseteq Held(q.actor)

PermInv ==
  /\ PermissionTypeOK
  /\ NothingFromNowhere
  /\ \A c \in Permitters : PermitOk(permit[c])

LEMMA NoPermitCallTyped ==
  /\ NoPermitCall \in PermitCall /\ NoPermitCall.pc = "idle"
  /\ NoPermitCall.late = {} /\ NoPermitCall.grant = {}
BY DEF NoPermitCall, PermitCall

LEMMA CanIsHeld ==
  ASSUME NEW user, NEW key
  PROVE  key \in Held(user) <=> key \in PermissionKeys /\ Can(user, key)
BY DEF Held

\* Whoever has a role holds its permissions, and no others.
LEMMA HeldByRoles ==
  ASSUME PermissionTypeOK, NEW user, NEW key
  PROVE  key \in Held(user) <=> \E g \in grants : g.key = key /\ <<user, g.role>> \in userRoles
<1>1. Can(user, key) <=> \E g \in grants : g.key = key /\ <<user, g.role>> \in userRoles
  BY DEF Can, GetPermissionScopes
<1>2. \A g \in grants : g.key \in PermissionKeys
  BY DEF PermissionTypeOK, Grants
<1> QED BY <1>1, <1>2, CanIsHeld

LEMMA KeysOfRole ==
  ASSUME NEW role, NEW key
  PROVE  key \in GetRolePermissionKeys(role) <=> \E g \in grants : g.role = role /\ g.key = key
BY DEF GetRolePermissionKeys

\* A request goes on as q while roles and permissions stay.
LEMMA PermitGoesOn ==
  ASSUME PermInv, NEW c \in Permitters, NEW q \in PermitCall, permit' = [permit EXCEPT ![c] = q],
         UNCHANGED <<grants, userRoles, seeded>>, permitted' \in 0..MaxPermissionCalls, PermitOk(q)
  PROVE  PermInv'
<1>1. PermissionTypeOK'
  BY DEF PermInv, PermissionTypeOK
<1>2. NothingFromNowhere'
  BY DEF PermInv, NothingFromNowhere, Held, Can, GetPermissionScopes
<1>3. ASSUME NEW d \in Permitters PROVE PermitOk(permit[d])'
  <2>1. PermitOk(permit'[d])
    BY DEF PermInv, PermissionTypeOK
  <2>2. /\ \A user : Held(user)' = Held(user)
        /\ \A role : GetRolePermissionKeys(role)' = GetRolePermissionKeys(role)
    BY DEF Held, Can, GetPermissionScopes, GetRolePermissionKeys
  <2> QED BY <2>1, <2>2 DEF PermitOk
<1> QED BY <1>1, <1>2, <1>3 DEF PermInv

-----------------------------------------------------------------------------
(* Permissions: steps                                                      *)

LEMMA AssignRoleKeeps ==
  ASSUME PermInv, NEW c \in Permitters, NEW actor \in People, NEW whom \in People, NEW role \in Roles,
         AssignRole(c, actor, whom, role)
  PROVE  PermInv'
<1>1. PICK one \in SUBSET Roles : one = {role}
  OBVIOUS
<1>2. PICK q \in PermitCall : q = [NoPermitCall EXCEPT !.pc = "reading", !.actor = actor,
                                                       !.target = whom, !.role = one]
  BY DEF NoPermitCall, PermitCall
<1>3. q.pc = "reading" /\ q.actor = actor /\ q.target = whom /\ q.late = {} /\ q.grant = {}
  BY <1>2 DEF NoPermitCall
<1>4. permit' = [permit EXCEPT ![c] = q] /\ UNCHANGED <<grants, userRoles, seeded>>
  BY <1>1, <1>2 DEF AssignRole, PermitStarts
<1>5. permitted' \in 0..MaxPermissionCalls
  BY PermissionConstants DEF AssignRole, PermitStarts, PermInv, PermissionTypeOK
<1>6. PermitOk(q)
  BY <1>3 DEF PermitOk
<1> QED BY <1>4, <1>5, <1>6, PermitGoesOn

LEMMA GrantKeeps ==
  ASSUME PermInv, NEW c \in Permitters, NEW actor \in People, NEW grant \in Grants,
         GrantRolePermission(c, actor, grant)
  PROVE  PermInv'
<1>1. PICK one \in SUBSET Grants : one = {grant}
  OBVIOUS
<1>2. PICK q \in PermitCall : q = [NoPermitCall EXCEPT !.pc = "granting", !.actor = actor, !.grant = one]
  BY DEF NoPermitCall, PermitCall
<1>3. q.pc = "granting" /\ q.actor = actor /\ q.late = {} /\ q.grant = {grant}
  BY <1>1, <1>2 DEF NoPermitCall
<1>4. permit' = [permit EXCEPT ![c] = q] /\ UNCHANGED <<grants, userRoles, seeded>>
  BY <1>1, <1>2 DEF GrantRolePermission, PermitStarts
<1>5. permitted' \in 0..MaxPermissionCalls
  BY PermissionConstants DEF GrantRolePermission, PermitStarts, PermInv, PermissionTypeOK
<1>6. grant.key \in seeded
  BY CanIsHeld DEF GrantRolePermission, PermInv, NothingFromNowhere, Grants
<1>7. PermitOk(q)
  BY <1>3, <1>6 DEF PermitOk
<1> QED BY <1>4, <1>5, <1>7, PermitGoesOn

LEMMA ReadRoleKeysKeeps ==
  ASSUME PermInv, NEW c \in Permitters, ReadRoleKeys(c)
  PROVE  PermInv'
<1>1. permit[c] \in PermitCall /\ permit[c].pc = "reading" /\ PermitOk(permit[c])
  BY DEF ReadRoleKeys, PermInv, PermissionTypeOK
<1>2. PICK left \in SUBSET PermissionKeys :
        left = UNION {GetRolePermissionKeys(r) : r \in permit[c].role}
  <2>1. \A r : GetRolePermissionKeys(r) \subseteq PermissionKeys
    BY DEF GetRolePermissionKeys, PermInv, PermissionTypeOK, Grants
  <2> QED BY <2>1
<1>3. PICK q \in PermitCall : q = [permit[c] EXCEPT !.pc = "checking", !.left = left]
  BY <1>1 DEF PermitCall
<1>4. /\ q.pc = "checking" /\ q.left = left /\ q.actor = permit[c].actor /\ q.target = permit[c].target
      /\ q.late = permit[c].late /\ q.grant = permit[c].grant /\ q.role = permit[c].role
  BY <1>1, <1>3 DEF PermitCall
<1>5. permit' = [permit EXCEPT ![c] = q] /\ UNCHANGED <<grants, userRoles, seeded, permitted>>
  BY <1>2, <1>3 DEF ReadRoleKeys, PermitGoes
<1>6. PermitOk(q)
  BY <1>1, <1>2, <1>4 DEF PermitOk
<1> QED BY <1>5, <1>6, PermitGoesOn DEF PermInv, PermissionTypeOK

LEMMA CheckRoleKeyKeeps ==
  ASSUME PermInv, NEW c \in Permitters, NEW key \in PermissionKeys, CheckRoleKey(c, key)
  PROVE  PermInv'
<1>1. permit[c] \in PermitCall /\ permit[c].pc = "checking" /\ PermitOk(permit[c])
  BY DEF CheckRoleKey, PermInv, PermissionTypeOK
<1>2. PICK left \in SUBSET PermissionKeys : left = permit[c].left \ {key}
  BY <1>1 DEF PermitCall
<1>3. PICK q \in PermitCall : q = [permit[c] EXCEPT !.left = left]
  BY <1>1 DEF PermitCall
<1>4. /\ q.pc = "checking" /\ q.left = left /\ q.actor = permit[c].actor /\ q.target = permit[c].target
      /\ q.late = permit[c].late /\ q.grant = permit[c].grant /\ q.role = permit[c].role
  BY <1>1, <1>3 DEF PermitCall
<1>5. permit' = [permit EXCEPT ![c] = q] /\ UNCHANGED <<grants, userRoles, seeded, permitted>>
  BY <1>1, <1>2, <1>3 DEF CheckRoleKey, PermitGoes
<1>6. key \in Held(permit[c].actor)
  BY CanIsHeld DEF CheckRoleKey
<1>7. PermitOk(q)
  BY <1>1, <1>2, <1>4, <1>6 DEF PermitOk
<1> QED BY <1>5, <1>7, PermitGoesOn DEF PermInv, PermissionTypeOK

LEMMA EndPermitKeeps ==
  ASSUME PermInv, NEW c \in Permitters, EndPermit(c)
  PROVE  PermInv'
<1>1. PermitOk(NoPermitCall)
  BY NoPermitCallTyped DEF PermitOk
<1>2. permit' = [permit EXCEPT ![c] = NoPermitCall] /\ UNCHANGED <<grants, userRoles, seeded, permitted>>
  BY DEF EndPermit, PermitGoes
<1> QED BY <1>1, <1>2, NoPermitCallTyped, PermitGoesOn DEF PermInv, PermissionTypeOK

LEMMA WriteUserRoleKeeps ==
  ASSUME PermInv, NEW c \in Permitters, WriteUserRole(c)
  PROVE  PermInv'
<1>1. /\ permit[c] \in PermitCall /\ permit[c].pc = "checking" /\ permit[c].left = {}
      /\ PermitOk(permit[c])
  BY DEF WriteUserRole, PermInv, PermissionTypeOK
<1>2. /\ userRoles' = userRoles \cup ({permit[c].target} \X permit[c].role)
      /\ permit' = [permit EXCEPT ![c] = NoPermitCall] /\ UNCHANGED <<grants, seeded, permitted>>
  BY DEF WriteUserRole
<1>3. permit[c].role \subseteq Roles /\ permit[c].target \in People /\ permit[c].actor \in People
  BY <1>1 DEF PermitCall, PermitOk
<1>4. PermissionTypeOK'
  BY <1>2, <1>3, NoPermitCallTyped DEF PermInv, PermissionTypeOK
<1>5. NothingFromNowhere'
  <2> SUFFICES ASSUME NEW user \in People, NEW key, key \in Held(user)' PROVE key \in seeded
    BY <1>2 DEF NothingFromNowhere
  <2>1. PICK g \in grants : g.key = key /\ <<user, g.role>> \in userRoles'
    BY <1>2 DEF Held, Can, GetPermissionScopes
  <2>2. CASE <<user, g.role>> \in userRoles
    <3>1. key \in Held(user)
      BY <2>1, <2>2, HeldByRoles DEF PermInv
    <3> QED BY <3>1 DEF PermInv, NothingFromNowhere
  <2>3. CASE g.role \in permit[c].role
    <3>1. key \in GetRolePermissionKeys(g.role)
      BY <2>1, KeysOfRole
    <3>2. key \in permit[c].late \/ key \in Held(permit[c].actor)
      BY <1>1, <2>3, <3>1 DEF PermitOk
    <3> QED BY <1>1, <1>3, <3>2 DEF PermitOk, PermInv, NothingFromNowhere
  <2> QED BY <1>2, <2>1, <2>2, <2>3
<1>6. ASSUME NEW user PROVE Held(user) \subseteq Held(user)'
  BY <1>2 DEF Held, Can, GetPermissionScopes
<1>7. ASSUME NEW d \in Permitters PROVE PermitOk(permit[d])'
  <2>1. CASE d = c
    <3>1. permit'[d] = NoPermitCall
      BY <1>2, <2>1 DEF PermInv, PermissionTypeOK
    <3> QED BY <3>1, NoPermitCallTyped DEF PermitOk
  <2>2. CASE d # c
    <3>1. permit'[d] = permit[d] /\ PermitOk(permit[d])
      BY <1>2, <2>2 DEF PermInv, PermissionTypeOK
    <3>2. \A role : GetRolePermissionKeys(role)' = GetRolePermissionKeys(role)
      BY <1>2 DEF GetRolePermissionKeys
    <3> QED BY <1>2, <1>6, <3>1, <3>2 DEF PermitOk
  <2> QED BY <2>1, <2>2
<1> QED BY <1>4, <1>5, <1>7 DEF PermInv

LEMMA WriteGrantKeeps ==
  ASSUME PermInv, NEW c \in Permitters, WriteGrant(c)
  PROVE  PermInv'
<1> DEFINE gained(d) == {g.key : g \in {g \in permit[c].grant : g.role \in permit[d].role}}
<1>1. /\ permit[c] \in PermitCall /\ permit[c].pc = "granting" /\ PermitOk(permit[c])
      /\ permit[c].grant \subseteq Grants
  BY DEF WriteGrant, PermInv, PermissionTypeOK, PermitCall
<1>2. /\ grants' = grants \cup permit[c].grant /\ UNCHANGED <<userRoles, seeded, permitted>>
      /\ permit' = [d \in Permitters |->
           IF d = c THEN NoPermitCall
           ELSE IF permit[d].pc = "checking"
                THEN [permit[d] EXCEPT !.late = @ \cup gained(d)] ELSE permit[d]]
  BY DEF WriteGrant
<1>3. ASSUME NEW d PROVE gained(d) \subseteq seeded /\ gained(d) \subseteq PermissionKeys
  BY <1>1 DEF PermitOk, Grants
<1>4. ASSUME NEW role, NEW key, key \in GetRolePermissionKeys(role)'
      PROVE  \/ key \in GetRolePermissionKeys(role)
             \/ \E g \in permit[c].grant : g.role = role /\ g.key = key
  BY <1>2, <1>4 DEF GetRolePermissionKeys
<1>5. ASSUME NEW user PROVE Held(user) \subseteq Held(user)'
  BY <1>2 DEF Held, Can, GetPermissionScopes
<1>6. NothingFromNowhere'
  <2> SUFFICES ASSUME NEW user \in People, NEW key, key \in Held(user)' PROVE key \in seeded
    BY <1>2 DEF NothingFromNowhere
  <2>1. PICK g \in grants' : g.key = key /\ <<user, g.role>> \in userRoles
    BY <1>2 DEF Held, Can, GetPermissionScopes
  <2>2. CASE g \in grants
    <3>1. key \in Held(user)
      BY <2>1, <2>2, HeldByRoles DEF PermInv
    <3> QED BY <3>1 DEF PermInv, NothingFromNowhere
  <2>3. CASE g \in permit[c].grant
    BY <1>1, <2>1, <2>3 DEF PermitOk
  <2> QED BY <1>2, <2>2, <2>3
<1>7. ASSUME NEW d \in Permitters PROVE permit'[d] \in PermitCall /\ PermitOk(permit[d])'
  <2>1. CASE d = c
    <3>1. permit'[d] = NoPermitCall
      BY <1>2, <2>1
    <3> QED BY <3>1, NoPermitCallTyped DEF PermitOk
  <2>2. CASE d # c /\ permit[d].pc # "checking"
    <3>1. permit'[d] = permit[d] /\ PermitOk(permit[d]) /\ permit[d] \in PermitCall
      BY <1>2, <2>2 DEF PermInv, PermissionTypeOK
    <3> QED BY <1>2, <2>2, <3>1 DEF PermitOk
  <2>3. CASE d # c /\ permit[d].pc = "checking"
    <3>1. PermitOk(permit[d]) /\ permit[d] \in PermitCall
      BY DEF PermInv, PermissionTypeOK
    <3>2. PICK more \in SUBSET PermissionKeys : more = permit[d].late \cup gained(d)
      BY <1>3, <3>1 DEF PermitCall
    <3>3. PICK q \in PermitCall : q = [permit[d] EXCEPT !.late = more]
      BY <3>1 DEF PermitCall
    <3>4. permit'[d] = q
      BY <1>2, <2>3, <3>2, <3>3
    <3>5. /\ q.pc = "checking" /\ q.left = permit[d].left /\ q.actor = permit[d].actor
          /\ q.target = permit[d].target /\ q.late = more /\ q.grant = permit[d].grant
          /\ q.role = permit[d].role
      BY <2>3, <3>1, <3>3 DEF PermitCall
    <3>6. \A role \in q.role : GetRolePermissionKeys(role)' \ (q.left \cup q.late) \subseteq Held(q.actor)'
      <4> SUFFICES ASSUME NEW role \in q.role, NEW key \in GetRolePermissionKeys(role)',
                          key \notin q.left, key \notin q.late
                   PROVE  key \in Held(q.actor)'
        OBVIOUS
      <4>1. CASE key \in GetRolePermissionKeys(role)
        <5>1. key \in Held(permit[d].actor)
          BY <2>3, <3>1, <3>2, <3>5, <4>1 DEF PermitOk
        <5> QED BY <1>5, <3>5, <5>1
      <4>2. CASE \E g \in permit[c].grant : g.role = role /\ g.key = key
        BY <3>2, <3>5, <4>2
      <4> QED BY <1>4, <4>1, <4>2
    <3>7. PermitOk(q)'
      BY <1>2, <1>3, <2>3, <3>1, <3>2, <3>5, <3>6 DEF PermitOk
    <3> QED BY <3>4, <3>7
  <2> QED BY <2>1, <2>2, <2>3
<1>8. PermissionTypeOK'
  BY <1>1, <1>2, <1>7 DEF PermInv, PermissionTypeOK
<1> QED BY <1>6, <1>7, <1>8 DEF PermInv

LEMMA PermissionInitHolds == PermissionInit => PermInv
<1> SUFFICES ASSUME PermissionInit PROVE PermInv
  OBVIOUS
<1>1. PermissionTypeOK
  BY PermissionConstants, NoPermitCallTyped DEF PermissionInit, PermissionTypeOK, Held
<1>2. NothingFromNowhere
  BY DEF PermissionInit, NothingFromNowhere
<1>3. \A c \in Permitters : PermitOk(permit[c])
  BY NoPermitCallTyped DEF PermissionInit, PermitOk
<1> QED BY <1>1, <1>2, <1>3 DEF PermInv

LEMMA PermissionStepKeeps == PermInv /\ [PermissionNext]_permissionVars => PermInv'
<1> SUFFICES ASSUME PermInv, [PermissionNext]_permissionVars PROVE PermInv'
  OBVIOUS
<1>1. CASE PermissionNext
  BY <1>1, AssignRoleKeeps, GrantKeeps, ReadRoleKeysKeeps, CheckRoleKeyKeeps, EndPermitKeeps,
     WriteUserRoleKeeps, WriteGrantKeeps DEF PermissionNext
<1>2. CASE UNCHANGED permissionVars
  <2>1. UNCHANGED <<grants, userRoles, permit, seeded, permitted>>
    BY <1>2 DEF permissionVars
  <2>2. /\ \A user : Held(user)' = Held(user)
        /\ \A role : GetRolePermissionKeys(role)' = GetRolePermissionKeys(role)
    BY <2>1 DEF Held, Can, GetPermissionScopes, GetRolePermissionKeys
  <2>3. PermissionTypeOK' /\ NothingFromNowhere'
    BY <2>1, <2>2 DEF PermInv, PermissionTypeOK, NothingFromNowhere
  <2>4. \A c \in Permitters : PermitOk(permit[c])'
    BY <2>1, <2>2 DEF PermInv, PermitOk
  <2> QED BY <2>3, <2>4 DEF PermInv
<1> QED BY <1>1, <1>2

\* The filter of a list and the check of one ticket give every scope the same meaning.
LEMMA SearchAgrees == PermInv => ListsWhatReads
<1> SUFFICES ASSUME PermInv, NEW user \in People,
                    NEW ticket \in [requester : People, assignee : People \cup {Nobody}, group : {"none", "some"}]
             PROVE  Search(user, ticket) <=> CanRead(user, ticket)
  BY DEF ListsWhatReads
<1> DEFINE scopes == GetPermissionScopes(user, "ticket.read")
           mine == user \in {ticket.requester, ticket.assignee}
<1>1. Search(user, ticket) <=> "TENANT" \in scopes \/ ("OWN" \in scopes /\ mine)
  BY DEF Search, ListScopeFilter, ScopeClauseFinds
<1>2. CanRead(user, ticket) <=> "TENANT" \in scopes \/ ("OWN" \in scopes /\ mine)
  BY DEF CanRead, ScopeAllows
<1> QED BY <1>1, <1>2

-----------------------------------------------------------------------------
\* assignRole and grantRolePermission: what a request has in hand has been checked, or has
\* come to its role since.
THEOREM PermissionInvariant == PermissionSpec => []PermInv
BY PermissionInitHolds, PermissionStepKeeps, PTL DEF PermissionSpec

\* Permissions only travel from those who have them, although they are checked before the
\* write; a role is assigned within its giver's reach; a search shows what may be read.
THEOREM PermissionsAreSound == PermissionSpec => []PermissionsSound
<1>1. PermInv => PermissionsSound
  BY SearchAgrees DEF PermInv, PermissionsSound, AssignsWithinReach, PermitOk
<1> QED BY <1>1, PermissionInvariant, PTL

-----------------------------------------------------------------------------
(* Attachments: the invariant                                              *)

Uploading == {"counted", "written", "clean", "unwanted"}

\* A call that uploads a file is alone with it, and the file has no row yet; a call that
\* has deleted a row finds no other in its place.
CallOk(u) ==
  LET w == upload[u] IN
  /\ w.pc # "idle" => w.file \in used
  /\ w.pc \in Uploading =>
       /\ fileRow[w.file] = "none"
       /\ \A v \in Uploaders \ {u} : upload[v].pc # "idle" => upload[v].file # w.file
  /\ w.pc \in {"written", "clean"} => w.file \in disk
  /\ w.pc = "rowDeleted" => fileRow[w.file] # "active"

\* Uploads that have passed their limit, or the look for a duplicate, and have no row yet.
Pending == {u \in Uploaders : upload[u].pc \in {"counted", "written", "clean"}}
Cleared(x) == {u \in Uploaders : upload[u].pc = "clean" /\ sha[upload[u].file] = x}
Shown(x) == {f \in Active : sha[f] = x}

\* They count as if they had one.
CountsOk ==
  /\ owner # "ticket" =>
       Cardinality(Active) + Cardinality(Pending) < MaxFiles + Cardinality(Uploaders)
  /\ owner = "ticket" =>
       \A x \in Contents : Cardinality(Shown(x)) + Cardinality(Cleared(x)) <= Cardinality(Uploaders)

AttInv ==
  /\ AttachmentTypeOK
  /\ \A f \in Files : fileRow[f] # "none" => f \in used
  /\ RowsHaveFiles
  /\ \A u \in Uploaders : CallOk(u)
  /\ CountsOk

UploadCall == [pc   : {"idle", "counted", "written", "clean", "unwanted", "deleting", "rowDeleted"},
               file : Files \cup {NoFile}]

LEMMA UploadTyped ==
  ASSUME AttInv, NEW u \in Uploaders
  PROVE  /\ upload[u] \in UploadCall
         /\ upload[u].pc # "idle" => upload[u].file \in Files
BY DEF AttInv, AttachmentTypeOK, UploadCall, CallOk

LEMMA NoUploadTyped == NoUpload \in UploadCall /\ NoUpload.pc = "idle"
BY DEF NoUpload, UploadCall

\* The sets that are counted are finite.
LEMMA CountedFinite ==
  /\ IsFiniteSet(Active) /\ IsFiniteSet(Pending)
  /\ Cardinality(Active) \in Nat /\ Cardinality(Pending) \in Nat /\ Cardinality(Uploaders) \in Nat
  /\ Cardinality(Pending) <= Cardinality(Uploaders)
  /\ \A x : /\ IsFiniteSet(Shown(x)) /\ IsFiniteSet(Cleared(x))
            /\ Cardinality(Shown(x)) \in Nat /\ Cardinality(Cleared(x)) \in Nat
            /\ Cardinality(Cleared(x)) <= Cardinality(Uploaders)
<1>1. /\ Active \subseteq Files /\ Pending \subseteq Uploaders
      /\ \A x : Shown(x) \subseteq Files /\ Cleared(x) \subseteq Uploaders
  BY DEF Active, Pending, Shown, Cleared
<1> QED BY <1>1, FiniteUploads, FS_Subset, FS_CardinalityType

\* Calls stay as CallOk has them when call u goes on as q and touches its own file only.
LEMMA CallsStayOk ==
  ASSUME AttInv, NEW u \in Uploaders, NEW q \in UploadCall, upload' = [upload EXCEPT ![u] = q],
         UNCHANGED <<owner, sha>>, used \subseteq used', used' \subseteq Files, disk' \subseteq Files,
         fileRow' \in [Files -> {"none", "active", "deleted"}],
         \A f \in Files : f # upload[u].file \/ upload[u].pc = "idle" =>
           fileRow'[f] = fileRow[f] /\ (f \in disk => f \in disk'),
         upload[u].pc \notin Uploading =>
           \A f \in Files : fileRow'[f] = "active" => fileRow[f] = "active",
         q.pc # "idle" =>
           /\ q.file \in used'
           /\ \/ upload[u].pc # "idle" /\ q.file = upload[u].file
              \/ \A v \in Uploaders \ {u} : upload[v].pc \in Uploading => upload[v].file # q.file,
         q.pc \in Uploading =>
           /\ fileRow'[q.file] = "none"
           /\ \A v \in Uploaders \ {u} : upload[v].pc # "idle" => upload[v].file # q.file,
         q.pc \in {"written", "clean"} => q.file \in disk',
         q.pc = "rowDeleted" => fileRow'[q.file] # "active"
  PROVE  AttachmentTypeOK' /\ \A v \in Uploaders : CallOk(v)'
<1>1. upload'[u] = q /\ \A v \in Uploaders \ {u} : upload'[v] = upload[v]
  BY DEF AttInv, AttachmentTypeOK
<1>2. AttachmentTypeOK'
  BY DEF AttInv, AttachmentTypeOK, UploadCall
<1>3. CallOk(u)'
  BY <1>1 DEF CallOk
<1>4. ASSUME NEW v \in Uploaders, v # u PROVE CallOk(v)'
  <2>1. CallOk(v) /\ CallOk(u) /\ upload'[v] = upload[v]
    BY <1>1, <1>4 DEF AttInv
  <2>2. upload[v].pc # "idle" => upload[v].file \in Files /\ upload[v].file \in used'
    BY <2>1, UploadTyped DEF CallOk
  <2>3. ASSUME upload[v].pc \in Uploading PROVE upload[u].pc # "idle" => upload[u].file # upload[v].file
    BY <1>4, <2>1, <2>3 DEF CallOk
  <2>4. ASSUME upload[v].pc \in Uploading
        PROVE  /\ fileRow'[upload[v].file] = "none"
               /\ upload[v].pc \in {"written", "clean"} => upload[v].file \in disk'
               /\ q.pc # "idle" => q.file # upload[v].file
    BY <1>4, <2>1, <2>2, <2>3, <2>4 DEF CallOk, Uploading
  <2>5. ASSUME upload[v].pc = "rowDeleted" PROVE fileRow'[upload[v].file] # "active"
    <3>1. upload[v].file \in Files /\ fileRow[upload[v].file] # "active"
      BY <2>1, <2>2, <2>5 DEF CallOk
    <3>2. upload[u].pc \in Uploading => upload[u].file # upload[v].file
      BY <1>4, <2>1, <2>5 DEF CallOk
    <3> QED BY <3>1, <3>2
  <2>6. upload[v].pc \in Uploading =>
          \A w \in Uploaders \ {v} : upload'[w].pc # "idle" => upload'[w].file # upload[v].file
    BY <1>1, <2>1, <2>4 DEF CallOk
  <2> QED BY <2>1, <2>2, <2>4, <2>5, <2>6 DEF CallOk, Uploading
<1> QED BY <1>2, <1>3, <1>4

\* With fewer rows and no upload further than it was, the counts hold.
LEMMA CountsShrink ==
  ASSUME AttInv, NEW u \in Uploaders, NEW q \in UploadCall, upload' = [upload EXCEPT ![u] = q],
         UNCHANGED <<owner, sha>>, Active' \subseteq Active,
         q.pc \in {"counted", "written", "clean"} => upload[u].pc \in {"counted", "written", "clean"},
         q.pc = "clean" => upload[u].pc = "clean" /\ q.file = upload[u].file
  PROVE  CountsOk'
<1>1. upload'[u] = q /\ \A v \in Uploaders \ {u} : upload'[v] = upload[v]
  BY DEF AttInv, AttachmentTypeOK
<1>2. Pending' \subseteq Pending
  BY <1>1 DEF Pending
<1>3. \A x : Cleared(x)' \subseteq Cleared(x) /\ Shown(x)' \subseteq Shown(x)
  BY <1>1 DEF Cleared, Shown
<1>4. /\ Cardinality(Active') \in Nat /\ Cardinality(Active') <= Cardinality(Active)
      /\ Cardinality(Pending') \in Nat /\ Cardinality(Pending') <= Cardinality(Pending)
  BY <1>2, CountedFinite, FS_Subset, FS_CardinalityType
<1>5. ASSUME NEW x \in Contents
      PROVE  /\ Cardinality(Cleared(x)') \in Nat /\ Cardinality(Cleared(x)') <= Cardinality(Cleared(x))
             /\ Cardinality(Shown(x)') \in Nat /\ Cardinality(Shown(x)') <= Cardinality(Shown(x))
  BY <1>3, CountedFinite, FS_Subset, FS_CardinalityType
<1>6. owner # "ticket" =>
        Cardinality(Active') + Cardinality(Pending') < MaxFiles + Cardinality(Uploaders)
  BY <1>4, CountedFinite, AttachmentConstants DEF AttInv, CountsOk
<1>7. owner = "ticket" =>
        \A x \in Contents : Cardinality(Shown(x)') + Cardinality(Cleared(x)') <= Cardinality(Uploaders)
  BY <1>5, CountedFinite DEF AttInv, CountsOk
<1> QED BY <1>6, <1>7 DEF CountsOk

\* A call that goes on with its file.
LEMMA StepGoes ==
  ASSUME AttInv, NEW u \in Uploaders, NEW from,
         NEW to \in {"counted", "written", "clean", "unwanted", "deleting", "rowDeleted"}, Step(u, from, to)
  PROVE  \E q \in UploadCall : /\ q.pc = to /\ q.file = upload[u].file /\ upload[u].pc = from
                               /\ upload' = [upload EXCEPT ![u] = q]
<1>1. PICK q \in UploadCall : q = [upload[u] EXCEPT !.pc = to]
  BY UploadTyped DEF UploadCall
<1>2. q.pc = to /\ q.file = upload[u].file
  BY <1>1, UploadTyped DEF UploadCall
<1> QED BY <1>1, <1>2 DEF Step, AttInv, AttachmentTypeOK

\* A call that ends and leaves at most a file on the disk, or takes one away that has no row.
LEMMA CallEnds ==
  ASSUME AttInv, NEW u \in Uploaders, upload' = [upload EXCEPT ![u] = NoUpload],
         UNCHANGED <<owner, fileRow, sha, used>>, upload[u].pc # "idle",
         \/ disk' = disk
         \/ disk' = disk \cup {upload[u].file}
         \/ disk' = disk \ {upload[u].file} /\ upload[u].pc \in {"unwanted", "rowDeleted"}
  PROVE  AttInv'
<1>1. upload[u].file \in Files /\ NoUpload \in UploadCall /\ NoUpload.pc = "idle"
  BY UploadTyped, NoUploadTyped
<1>2. disk' \subseteq Files /\ \A f \in Files : f # upload[u].file => (f \in disk => f \in disk')
  BY <1>1 DEF AttInv, AttachmentTypeOK
<1>3. /\ used \subseteq used' /\ used' \subseteq Files /\ fileRow' = fileRow
      /\ fileRow' \in [Files -> {"none", "active", "deleted"}]
  BY DEF AttInv, AttachmentTypeOK
<1>4. AttachmentTypeOK' /\ \A v \in Uploaders : CallOk(v)'
  BY <1>1, <1>2, <1>3, CallsStayOk DEF Uploading
<1>5. Active' = Active
  BY DEF Active
<1>6. CountsOk'
  BY <1>1, <1>5, CountsShrink
<1>7. RowsHaveFiles'
  <2>1. upload[u].pc \in {"unwanted", "rowDeleted"} => upload[u].file \notin Active
    BY DEF AttInv, CallOk, Uploading, Active
  <2> QED BY <1>5, <2>1 DEF AttInv, RowsHaveFiles
<1>8. \A f \in Files : fileRow'[f] # "none" => f \in used'
  BY DEF AttInv
<1> QED BY <1>4, <1>6, <1>7, <1>8 DEF AttInv

\* A call that goes on to a later step, with no row and no count involved.
LEMMA CallMoves ==
  ASSUME AttInv, NEW u \in Uploaders, NEW from, NEW to, Step(u, from, to),
         UNCHANGED <<owner, fileRow, sha, used>>,
         \/ from = "counted" /\ to = "written" /\ disk' = disk \cup {upload[u].file}
         \/ from \in {"written", "clean"} /\ to = "unwanted" /\ disk' = disk
  PROVE  AttInv'
<1>1. PICK q \in UploadCall : /\ q.pc = to /\ q.file = upload[u].file /\ upload[u].pc = from
                              /\ upload' = [upload EXCEPT ![u] = q]
  BY StepGoes
<1>2. upload[u].file \in Files /\ CallOk(u)
  BY <1>1, UploadTyped DEF AttInv
<1>3. disk' \subseteq Files /\ disk \subseteq disk' /\ used \subseteq used' /\ used' \subseteq Files
      /\ fileRow' \in [Files -> {"none", "active", "deleted"}]
  BY <1>2 DEF AttInv, AttachmentTypeOK
<1>4. /\ q.file \in used' /\ q.pc \in Uploading /\ upload[u].pc \in Uploading
      /\ fileRow'[q.file] = "none" /\ (q.pc = "written" => q.file \in disk')
      /\ \A v \in Uploaders \ {u} : upload[v].pc # "idle" => upload[v].file # q.file
  BY <1>1, <1>2 DEF CallOk, Uploading
<1>5. AttachmentTypeOK' /\ \A v \in Uploaders : CallOk(v)'
  BY <1>1, <1>2, <1>3, <1>4, CallsStayOk DEF Uploading
<1>6. Active' = Active
  BY DEF Active
<1>7. CountsOk'
  BY <1>1, <1>6, CountsShrink
<1>8. RowsHaveFiles' /\ \A f \in Files : fileRow'[f] # "none" => f \in used'
  BY <1>3, <1>6 DEF AttInv, RowsHaveFiles
<1> QED BY <1>5, <1>7, <1>8 DEF AttInv

-----------------------------------------------------------------------------
(* Attachments: steps                                                      *)

\* generateStoredFilename gives a name nobody has, and assets and requests have counted.
LEMMA ReceiveKeeps ==
  ASSUME AttInv, NEW u \in Uploaders, NEW f \in Files, Receive(u, f),
         owner # "ticket" => Cardinality(Active) < MaxFiles
  PROVE  AttInv'
<1>1. PICK q \in UploadCall : q = [pc |-> "counted", file |-> f]
  BY DEF UploadCall
<1>2. /\ q.pc = "counted" /\ q.file = f /\ upload[u].pc = "idle" /\ f \notin used
      /\ upload' = [upload EXCEPT ![u] = q] /\ used' = used \cup {f}
      /\ UNCHANGED <<owner, disk, fileRow, sha>>
  BY <1>1 DEF Receive
<1>3. /\ used' \subseteq Files /\ disk' \subseteq Files /\ fileRow'[f] = "none"
      /\ fileRow' \in [Files -> {"none", "active", "deleted"}]
  BY <1>2 DEF AttInv, AttachmentTypeOK
<1>4. \A v \in Uploaders \ {u} : upload[v].pc # "idle" => upload[v].file # f
  BY <1>2 DEF AttInv, CallOk
<1>5. AttachmentTypeOK' /\ \A v \in Uploaders : CallOk(v)'
  BY <1>2, <1>3, <1>4, CallsStayOk DEF Uploading
<1>6. Active' = Active /\ (\A x : Shown(x)' = Shown(x))
  BY <1>2 DEF Active, Shown
<1>7. CountsOk'
  <2>1. upload'[u] = q /\ \A v \in Uploaders \ {u} : upload'[v] = upload[v]
    BY <1>2 DEF AttInv, AttachmentTypeOK
  <2>2. \A x : Cleared(x)' = Cleared(x)
    BY <1>2, <2>1 DEF Cleared
  <2>3. Pending' \subseteq Uploaders
    BY DEF Pending
  <2>4. Cardinality(Pending') \in Nat /\ Cardinality(Pending') <= Cardinality(Uploaders)
    BY <2>3, FiniteUploads, FS_Subset, FS_CardinalityType
  <2> QED BY <1>2, <1>6, <2>2, <2>4, CountedFinite, AttachmentConstants DEF AttInv, CountsOk
<1>8. RowsHaveFiles' /\ \A g \in Files : fileRow'[g] # "none" => g \in used'
  BY <1>2, <1>6 DEF AttInv, RowsHaveFiles
<1> QED BY <1>5, <1>7, <1>8 DEF AttInv

\* The verdict that lets an upload pass; a ticket's has found no duplicate.
LEMMA ScanPassKeeps ==
  ASSUME AttInv, NEW u \in Uploaders, Step(u, "written", "clean"), UNCHANGED <<owner, disk, fileRow, sha, used>>,
         owner = "ticket" => \A g \in Active : sha[g] # sha[upload[u].file]
  PROVE  AttInv'
<1>1. PICK q \in UploadCall : /\ q.pc = "clean" /\ q.file = upload[u].file /\ upload[u].pc = "written"
                              /\ upload' = [upload EXCEPT ![u] = q]
  BY StepGoes
<1>2. upload[u].file \in Files /\ CallOk(u)
  BY <1>1, UploadTyped DEF AttInv
<1>3. /\ used' \subseteq Files /\ disk' \subseteq Files
      /\ fileRow' \in [Files -> {"none", "active", "deleted"}]
  BY DEF AttInv, AttachmentTypeOK
<1>4. /\ q.file \in used' /\ fileRow'[q.file] = "none" /\ q.file \in disk'
      /\ \A v \in Uploaders \ {u} : upload[v].pc # "idle" => upload[v].file # q.file
  BY <1>1, <1>2 DEF CallOk, Uploading
<1>5. AttachmentTypeOK' /\ \A v \in Uploaders : CallOk(v)'
  BY <1>1, <1>2, <1>3, <1>4, CallsStayOk DEF Uploading
<1>6. Active' = Active /\ (\A x : Shown(x)' = Shown(x))
  BY DEF Active, Shown
<1>7. CountsOk'
  <2>1. upload'[u] = q /\ \A v \in Uploaders \ {u} : upload'[v] = upload[v]
    BY <1>1 DEF AttInv, AttachmentTypeOK
  <2>2. Pending' = Pending
    BY <1>1, <2>1 DEF Pending
  <2>3. ASSUME owner = "ticket", NEW x \in Contents
        PROVE  Cardinality(Shown(x)') + Cardinality(Cleared(x)') <= Cardinality(Uploaders)
    <3>1. CASE x = sha[upload[u].file]
      <4>1. Shown(x)' = {}
        BY <1>6, <2>3, <3>1 DEF Shown
      <4>2. Cleared(x)' \subseteq Uploaders
        BY DEF Cleared
      <4>3. Cardinality(Cleared(x)') \in Nat /\ Cardinality(Cleared(x)') <= Cardinality(Uploaders)
        BY <4>2, FiniteUploads, FS_Subset, FS_CardinalityType
      <4> QED BY <4>1, <4>3, FS_EmptySet
    <3>2. CASE x # sha[upload[u].file]
      <4>1. Cleared(x)' = Cleared(x)
        BY <1>1, <2>1, <3>2 DEF Cleared
      <4> QED BY <1>6, <2>3, <4>1 DEF AttInv, CountsOk
    <3> QED BY <3>1, <3>2
  <2> QED BY <1>6, <2>2, <2>3 DEF AttInv, CountsOk
<1>8. RowsHaveFiles' /\ \A g \in Files : fileRow'[g] # "none" => g \in used'
  BY <1>6 DEF AttInv, RowsHaveFiles
<1> QED BY <1>5, <1>7, <1>8 DEF AttInv

LEMMA InsertRowKeeps ==
  ASSUME AttInv, NEW u \in Uploaders, InsertRow(u)
  PROVE  AttInv'
<1>1. PICK f \in Files : f = upload[u].file /\ CallOk(u)
  BY UploadTyped DEF InsertRow, Done, AttInv
<1>2. /\ upload[u].pc = "clean" /\ upload' = [upload EXCEPT ![u] = NoUpload]
      /\ fileRow' = [fileRow EXCEPT ![f] = "active"] /\ UNCHANGED <<owner, disk, sha, used>>
  BY <1>1 DEF InsertRow, Done
<1>3. /\ fileRow[f] = "none" /\ f \in disk /\ f \in used
      /\ fileRow' \in [Files -> {"none", "active", "deleted"}] /\ fileRow'[f] = "active"
      /\ \A g \in Files \ {f} : fileRow'[g] = fileRow[g]
      /\ used \subseteq used' /\ used' \subseteq Files /\ disk' \subseteq Files
  BY <1>1, <1>2 DEF CallOk, Uploading, AttInv, AttachmentTypeOK
<1>4. AttachmentTypeOK' /\ \A v \in Uploaders : CallOk(v)'
  BY <1>1, <1>2, <1>3, NoUploadTyped, CallsStayOk DEF Uploading
<1>5. Active' = Active \cup {f} /\ f \notin Active
  BY <1>3 DEF Active
<1>6. Pending' = Pending \ {u} /\ u \in Pending
  BY <1>2, NoUploadTyped DEF Pending, AttInv, AttachmentTypeOK
<1>7. Cardinality(Active') = Cardinality(Active) + 1 /\ Cardinality(Pending') = Cardinality(Pending) - 1
  BY <1>5, <1>6, CountedFinite, FS_AddElement, FS_RemoveElement
<1>8. ASSUME NEW x \in Contents, owner = "ticket"
      PROVE  Cardinality(Shown(x)') + Cardinality(Cleared(x)') <= Cardinality(Uploaders)
  <2>1. Cardinality(Shown(x)) + Cardinality(Cleared(x)) <= Cardinality(Uploaders)
    BY <1>8 DEF AttInv, CountsOk
  <2>2. CASE sha[f] = x
    <3>1. Shown(x)' = Shown(x) \cup {f} /\ f \notin Shown(x)
      BY <1>2, <1>5, <2>2 DEF Shown
    <3>2. Cleared(x)' = Cleared(x) \ {u} /\ u \in Cleared(x)
      BY <1>1, <1>2, <2>2, NoUploadTyped DEF Cleared, AttInv, AttachmentTypeOK
    <3>3. /\ Cardinality(Shown(x)') = Cardinality(Shown(x)) + 1
          /\ Cardinality(Cleared(x)') = Cardinality(Cleared(x)) - 1
      <4>1. IsFiniteSet(Shown(x)) /\ IsFiniteSet(Cleared(x))
        BY CountedFinite
      <4>2. Cardinality(Shown(x)') = Cardinality(Shown(x)) + 1
        BY <3>1, <4>1, FS_AddElement
      <4>3. Cardinality(Cleared(x)') = Cardinality(Cleared(x)) - 1
        BY <3>2, <4>1, FS_RemoveElement
      <4> QED BY <4>2, <4>3
    <3>4. PICK s, c, n \in Nat : /\ s = Cardinality(Shown(x)) /\ c = Cardinality(Cleared(x))
                               /\ n = Cardinality(Uploaders)
      BY CountedFinite
    <3> QED BY <2>1, <3>3, <3>4
  <2>3. CASE sha[f] # x
    <3>1. Shown(x)' = Shown(x)
      BY <1>2, <1>5, <2>3 DEF Shown
    <3>2. Cleared(x)' = Cleared(x)
      <4>1. upload'[u].pc = "idle" /\ \A v \in Uploaders \ {u} : upload'[v] = upload[v]
        BY <1>2, NoUploadTyped DEF AttInv, AttachmentTypeOK
      <4> QED BY <1>1, <1>2, <2>3, <4>1 DEF Cleared
    <3> QED BY <2>1, <3>1, <3>2
  <2> QED BY <2>2, <2>3
<1>9. CountsOk'
  BY <1>2, <1>7, <1>8, CountedFinite, AttachmentConstants DEF AttInv, CountsOk
<1>10. RowsHaveFiles' /\ \A g \in Files : fileRow'[g] # "none" => g \in used'
  BY <1>2, <1>3, <1>5 DEF AttInv, RowsHaveFiles
<1> QED BY <1>4, <1>9, <1>10 DEF AttInv

LEMMA BeginDeleteKeeps ==
  ASSUME AttInv, NEW u \in Uploaders, NEW f \in Files, BeginDelete(u, f)
  PROVE  AttInv'
<1>1. PICK q \in UploadCall : q = [pc |-> "deleting", file |-> f]
  BY DEF UploadCall
<1>2. /\ q.pc = "deleting" /\ q.file = f /\ upload[u].pc = "idle" /\ fileRow[f] = "active"
      /\ upload' = [upload EXCEPT ![u] = q] /\ UNCHANGED <<owner, disk, fileRow, sha, used>>
  BY <1>1 DEF BeginDelete, Active
<1>3. /\ used' \subseteq Files /\ disk' \subseteq Files /\ f \in used'
      /\ fileRow' \in [Files -> {"none", "active", "deleted"}]
  BY <1>2 DEF AttInv, AttachmentTypeOK
<1>4. \A v \in Uploaders \ {u} : upload[v].pc \in Uploading => upload[v].file # f
  BY <1>2 DEF AttInv, CallOk
<1>5. AttachmentTypeOK' /\ \A v \in Uploaders : CallOk(v)'
  BY <1>2, <1>3, <1>4, CallsStayOk DEF Uploading
<1>6. Active' = Active
  BY <1>2 DEF Active
<1>7. CountsOk'
  BY <1>2, <1>6, CountsShrink
<1>8. RowsHaveFiles' /\ \A g \in Files : fileRow'[g] # "none" => g \in used'
  BY <1>2, <1>6 DEF AttInv, RowsHaveFiles
<1> QED BY <1>5, <1>7, <1>8 DEF AttInv

\* A row goes, and its call ends or goes on to the file.
LEMMA DropRowKeeps ==
  ASSUME AttInv, NEW u \in Uploaders, upload[u].pc = "deleting",
         NEW left \in {"deleted", "none"}, DropRow(u, left),
         Done(u, "deleting") \/ Step(u, "deleting", "rowDeleted")
  PROVE  AttInv'
<1>1. PICK f \in Files : f = upload[u].file /\ CallOk(u)
  BY UploadTyped DEF AttInv
<1>2. /\ fileRow' = [fileRow EXCEPT ![f] = IF @ = "active" THEN left ELSE @]
      /\ UNCHANGED <<owner, disk, sha, used>>
  BY <1>1 DEF DropRow
<1>3. PICK q \in UploadCall : /\ upload' = [upload EXCEPT ![u] = q]
                              /\ q.pc = "idle" \/ (q.pc = "rowDeleted" /\ q.file = f)
  BY <1>1, StepGoes, NoUploadTyped DEF Done
<1>4. /\ fileRow' \in [Files -> {"none", "active", "deleted"}] /\ fileRow'[f] # "active"
      /\ \A g \in Files \ {f} : fileRow'[g] = fileRow[g]
      /\ \A g \in Files : fileRow'[g] # "none" => fileRow[g] # "none"
      /\ used' \subseteq Files /\ disk' \subseteq Files /\ f \in used
  BY <1>1, <1>2 DEF CallOk, AttInv, AttachmentTypeOK
<1>5. \A g \in Files : fileRow'[g] = "active" => fileRow[g] = "active"
  BY <1>4
<1>6. AttachmentTypeOK' /\ \A v \in Uploaders : CallOk(v)'
  BY <1>1, <1>2, <1>3, <1>4, <1>5, CallsStayOk DEF Uploading
<1>7. Active' \subseteq Active
  BY <1>5 DEF Active
<1>8. CountsOk'
  BY <1>2, <1>3, <1>7, CountsShrink
<1>9. RowsHaveFiles' /\ \A g \in Files : fileRow'[g] # "none" => g \in used'
  BY <1>2, <1>4, <1>7 DEF AttInv, RowsHaveFiles
<1> QED BY <1>6, <1>8, <1>9 DEF AttInv

LEMMA ScanKeeps ==
  ASSUME AttInv, NEW u \in Uploaders, ScanForTicket(u) \/ ScanForOthers(u)
  PROVE  AttInv'
<1>1. UNCHANGED <<owner, disk, fileRow, sha, used>>
  BY DEF ScanForTicket, ScanForOthers
<1>2. CASE Step(u, "written", "unwanted")
  BY <1>1, <1>2, CallMoves
<1>3. CASE Step(u, "written", "clean") /\ (owner = "ticket" => \A g \in Active : sha[g] # sha[upload[u].file])
  BY <1>1, <1>3, ScanPassKeeps
<1> QED BY <1>2, <1>3 DEF ScanForTicket, ScanForOthers

LEMMA AttachmentInitHolds == AttachmentInit => AttInv
<1> SUFFICES ASSUME AttachmentInit PROVE AttInv
  OBVIOUS
<1>1. \A u \in Uploaders : upload[u] = NoUpload /\ upload[u].pc = "idle"
  BY NoUploadTyped DEF AttachmentInit
<1>2. AttachmentTypeOK
  BY NoUploadTyped DEF AttachmentInit, AttachmentTypeOK, UploadCall
<1>3. Active = {} /\ Pending = {} /\ (\A x : Shown(x) = {} /\ Cleared(x) = {})
  BY <1>1 DEF AttachmentInit, Active, Pending, Shown, Cleared
<1>4. CountsOk
  BY <1>3, FS_EmptySet, CountedFinite, AttachmentConstants DEF CountsOk
<1>5. RowsHaveFiles /\ \A u \in Uploaders : CallOk(u)
  BY <1>1, <1>3 DEF RowsHaveFiles, CallOk, Uploading
<1> QED BY <1>2, <1>4, <1>5 DEF AttachmentInit, AttInv

LEMMA AttachmentStepKeeps == AttInv /\ [AttachmentNext]_attachmentVars => AttInv'
<1> SUFFICES ASSUME AttInv, [AttachmentNext]_attachmentVars PROVE AttInv'
  OBVIOUS
<1>1. CASE UNCHANGED attachmentVars
  <2>1. UNCHANGED <<owner, disk, fileRow, sha, used, upload>>
    BY <1>1 DEF attachmentVars
  <2>2. /\ Active' = Active /\ Pending' = Pending
        /\ \A x : Shown(x)' = Shown(x) /\ Cleared(x)' = Cleared(x)
    BY <2>1 DEF Active, Pending, Shown, Cleared
  <2>3. AttachmentTypeOK' /\ RowsHaveFiles' /\ \A u \in Uploaders : CallOk(u)'
    BY <2>1, <2>2 DEF AttInv, AttachmentTypeOK, RowsHaveFiles, CallOk
  <2>4. CountsOk'
    BY <2>1, <2>2 DEF AttInv, CountsOk
  <2> QED BY <2>1, <2>3, <2>4 DEF AttInv
<1>2. ASSUME NEW u \in Uploaders, NEW f \in Files,
             ReceiveForTicket(u, f) \/ ReceiveForAsset(u, f) \/ ReceiveForRequest(u, f)
      PROVE  AttInv'
  BY <1>2, ReceiveKeeps DEF ReceiveForTicket, ReceiveForAsset, ReceiveForRequest
<1>3. ASSUME NEW u \in Uploaders, WriteFile(u) PROVE AttInv'
  BY <1>3, CallMoves DEF WriteFile
<1>4. ASSUME NEW u \in Uploaders, WriteFileFails(u) PROVE AttInv'
  BY <1>4, CallEnds DEF WriteFileFails, Done
<1>5. ASSUME NEW u \in Uploaders, DropFile(u) \/ DeleteFile(u) PROVE AttInv'
  BY <1>5, CallEnds DEF DropFile, DeleteFile, Done
<1>6. ASSUME NEW u \in Uploaders, InsertFails(u) PROVE AttInv'
  BY <1>6, CallMoves DEF InsertFails
<1>7. ASSUME NEW u \in Uploaders, InsertTicketRow(u) \/ InsertAssetRow(u) PROVE AttInv'
  BY <1>6, <1>7, InsertRowKeeps DEF InsertTicketRow, InsertAssetRow
<1>8. ASSUME NEW u \in Uploaders, InsertRequestRow(u) PROVE AttInv'
  BY <1>8, InsertRowKeeps, CallEnds DEF InsertRequestRow, Done
<1>9. ASSUME NEW u \in Uploaders, DeleteTicketRow(u) \/ DeleteAssetRow(u) \/ DeleteRequestRow(u) PROVE AttInv'
  <2>1. upload[u].pc = "deleting"
    BY <1>9 DEF DeleteTicketRow, DeleteAssetRow, DeleteRequestRow, Done, Step
  <2>2. Done(u, "deleting") \/ Step(u, "deleting", "rowDeleted")
    BY <1>9 DEF DeleteTicketRow, DeleteAssetRow, DeleteRequestRow
  <2>3. DropRow(u, "deleted") \/ DropRow(u, "none")
    BY <1>9 DEF DeleteTicketRow, DeleteAssetRow, DeleteRequestRow
  <2> QED BY <2>1, <2>2, <2>3, DropRowKeeps
<1>10. ASSUME NEW u \in Uploaders, AbandonUpload(u) PROVE AttInv'
  BY <1>10, CallEnds DEF AbandonUpload
<1>11. CASE AttachmentNext
  BY <1>2, <1>3, <1>4, <1>5, <1>7, <1>8, <1>9, <1>10, <1>11, ScanKeeps, BeginDeleteKeeps DEF AttachmentNext
<1> QED BY <1>1, <1>11

LEMMA AttachmentLimits == AttInv => LimitsHoldUpToOverlap
<1> SUFFICES ASSUME AttInv PROVE LimitsHoldUpToOverlap
  OBVIOUS
<1>1. owner # "ticket" => Cardinality(Active) < MaxFiles + Cardinality(Uploaders)
  BY CountedFinite, AttachmentConstants DEF AttInv, CountsOk
<1>2. owner = "ticket" => \A x \in Contents : Cardinality(Shown(x)) <= Cardinality(Uploaders)
  BY CountedFinite DEF AttInv, CountsOk
<1> QED BY <1>1, <1>2 DEF LimitsHoldUpToOverlap, Shown

-----------------------------------------------------------------------------
\* Uploads and deletions know their files, and count as rows from the check of the limit
\* on, for any number of files and of requests.
THEOREM AttachmentInvariant == AttachmentSpec => []AttInv
BY AttachmentInitHolds, AttachmentStepKeeps, PTL DEF AttachmentSpec

\* The file behind an attachment people can see is there, whatever crashes or fails; limits
\* and duplicates are exceeded by no more than the requests that overlap.
THEOREM AttachmentsAreSound == AttachmentSpec => []AttachmentsSound
<1>1. AttInv => AttachmentsSound
  BY AttachmentLimits DEF AttInv, AttachmentsSound
<1> QED BY <1>1, AttachmentInvariant, PTL

-----------------------------------------------------------------------------
(* The business clock: days, intervals and the ticks between two moments   *)

LEMMA DaysAscend ==
  ASSUME NEW a \in Int, NEW b \in Int, a <= b
  PROVE  a * DayLength <= b * DayLength
BY ClockConstants

LEMMA DayAfter ==
  ASSUME NEW d \in Int
  PROVE  /\ d * DayLength \in Int
         /\ (d + 1) * DayLength = d * DayLength + DayLength
BY ClockConstants

\* A moment is within its day, and within no other.
LEMMA DayBounds ==
  ASSUME NEW t \in Nat
  PROVE  DayOf(t) \in Nat /\ DayOf(t) * DayLength <= t /\ t < (DayOf(t) + 1) * DayLength
BY ClockConstants DEF DayOf

LEMMA DayUnique ==
  ASSUME NEW t \in Nat, NEW d \in Int, d * DayLength <= t, t < (d + 1) * DayLength
  PROVE  DayOf(t) = d
<1>1. DayOf(t) \in Nat /\ DayOf(t) * DayLength <= t /\ t < (DayOf(t) + 1) * DayLength
  BY DayBounds
<1>2. /\ d * DayLength \in Int /\ DayOf(t) * DayLength \in Int
      /\ (d + 1) * DayLength \in Int /\ (DayOf(t) + 1) * DayLength \in Int
  BY <1>1, ClockConstants
<1>3. d < DayOf(t) => (d + 1) * DayLength <= DayOf(t) * DayLength
  BY <1>1, DaysAscend
<1>4. d > DayOf(t) => (DayOf(t) + 1) * DayLength <= d * DayLength
  BY <1>1, DaysAscend
<1> QED BY <1>1, <1>2, <1>3, <1>4

LEMMA NextDayIsLater ==
  ASSUME NEW t \in Nat
  PROVE  NextDay(t) \in Nat /\ t < NextDay(t)
BY DayBounds, ClockConstants DEF NextDay

LEMMA WeekdayKnown ==
  ASSUME IsSchedule(schedule), NEW d \in Int
  PROVE  (d % Len(schedule.hours)) + 1 \in DOMAIN schedule.hours
<1> DEFINE n == Len(schedule.hours)
<1>1. n \in Nat \ {0} /\ DOMAIN schedule.hours = 1..n
  BY DEF IsSchedule
<1> HIDE DEF n
<1>2. d % n \in 0..(n - 1)
  BY <1>1
<1>3. (d % n) + 1 \in 1..n
  BY <1>1, <1>2
<1> QED BY <1>1, <1>3 DEF n

LEMMA WindowsTyped ==
  ASSUME IsSchedule(schedule), NEW d \in Int
  PROVE  WindowsOf(d) \subseteq Window
BY WeekdayKnown DEF WindowsOf, IsSchedule

\* An interval starts on its day and ends after that, at the latest on the day
\* after; on its day, when windows do.
LEMMA IntervalBounds ==
  ASSUME IsSchedule(schedule), NEW d \in Int, NEW i \in OpenIntervalsForLocalDay(d)
  PROVE  /\ i \in Interval
         /\ d * DayLength <= i.start /\ i.start < (d + 1) * DayLength
         /\ i.start < i.end /\ i.end < (d + 2) * DayLength
         /\ WithinDays => i.end < (d + 1) * DayLength
<1>1. PICK w \in WindowsOf(d) : i = OpenInterval(d, w)
  BY DEF OpenIntervalsForLocalDay
<1>2. w \in Window
  BY <1>1, WindowsTyped
<1> DEFINE s == d * DayLength
<1>3. /\ s \in Int /\ (d + 1) * DayLength = s + DayLength
      /\ (d + 2) * DayLength = s + DayLength + DayLength
  BY ClockConstants
<1>4. /\ w.start \in 0..(DayLength - 1) /\ w.end \in 0..(DayLength - 1)
      /\ DayLength \in Nat \ {0}
  BY <1>2, ClockConstants DEF Window
<1>5. /\ i.start = s + w.start
      /\ i.end = s + w.end + IF w.end <= w.start THEN DayLength ELSE 0
      /\ i = [start |-> i.start, end |-> i.end]
  BY <1>1 DEF OpenInterval
<1>6. WithinDays => w.start < w.end
  <2>1. SUFFICES ASSUME WithinDays PROVE w.start < w.end
    OBVIOUS
  <2>2. d \notin schedule.holidays /\ w \in schedule.hours[(d % Len(schedule.hours)) + 1]
    BY <1>1 DEF WindowsOf
  <2>3. (d % Len(schedule.hours)) + 1 \in DOMAIN schedule.hours
    BY WeekdayKnown
  <2> QED BY <2>1, <2>2, <2>3 DEF WithinDays
<1> HIDE DEF s
<1>7. i.start \in Int /\ i.end \in Int
  BY <1>3, <1>4, <1>5
<1>8. i \in Interval
  BY <1>5, <1>7 DEF Interval
<1> QED BY <1>3, <1>4, <1>5, <1>6, <1>8 DEF s

\* What an interval covers is open.
LEMMA IntervalsAreOpen ==
  ASSUME IsSchedule(schedule), NEW d \in Int, NEW i \in OpenIntervalsForLocalDay(d),
         NEW t \in Nat, i.start <= t, t < i.end
  PROVE  IsOpenAt(t)
<1>1. /\ i.start \in Int /\ i.end \in Int /\ d * DayLength <= i.start
      /\ i.end < (d + 2) * DayLength
  BY IntervalBounds DEF Interval
<1>2. d * DayLength \in Int /\ (d + 1) * DayLength \in Int /\ (d + 2) * DayLength \in Int
  BY ClockConstants
<1>3. CASE t < (d + 1) * DayLength
  <2>1. DayOf(t) = d
    BY <1>1, <1>2, <1>3, DayUnique
  <2> QED BY <2>1 DEF IsOpenAt
<1>4. CASE ~(t < (d + 1) * DayLength)
  <2>1. d + 1 \in Int /\ (d + 1) + 1 = d + 2
    OBVIOUS
  <2>2. (d + 1) * DayLength <= t /\ t < ((d + 1) + 1) * DayLength
    BY <1>1, <1>2, <1>4, <2>1
  <2>3. DayOf(t) = d + 1
    BY <2>1, <2>2, DayUnique
  <2>4. DayOf(t) - 1 = d
    BY <2>3
  <2> QED BY <2>4 DEF IsOpenAt
<1> QED BY <1>3, <1>4

\* What is open is covered by an interval of its day, when windows end on theirs.
LEMMA OpenOnItsDay ==
  ASSUME IsSchedule(schedule), WithinDays, NEW t \in Nat, IsOpenAt(t)
  PROVE  \E i \in OpenIntervalsForLocalDay(DayOf(t)) : i.start <= t /\ t < i.end
<1>1. DayOf(t) \in Nat /\ DayOf(t) * DayLength <= t
  BY DayBounds
<1>2. PICK day \in {DayOf(t) - 1, DayOf(t)} :
        \E i \in OpenIntervalsForLocalDay(day) : t >= i.start /\ t < i.end
  BY DEF IsOpenAt
<1>3. PICK i \in OpenIntervalsForLocalDay(day) : t >= i.start /\ t < i.end
  BY <1>2
<1>4. day \in Int
  BY <1>1
<1>5. i.start \in Int /\ i.end \in Int /\ i.end < (day + 1) * DayLength
  BY <1>4, IntervalBounds DEF Interval
<1>6. day # DayOf(t) - 1
  <2>1. SUFFICES ASSUME day = DayOf(t) - 1 PROVE FALSE
    OBVIOUS
  <2>2. day + 1 = DayOf(t)
    BY <1>1, <2>1
  <2>3. i.end < DayOf(t) * DayLength /\ DayOf(t) * DayLength \in Int
    BY <1>1, <1>5, <2>2, ClockConstants
  <2> QED BY <1>1, <1>3, <1>5, <2>3
<1> QED BY <1>2, <1>3, <1>5, <1>6

-----------------------------------------------------------------------------
\* The ticks of business time between two moments.

LEMMA TicksTyped ==
  ASSUME NEW a \in Int, NEW b \in Int
  PROVE  /\ IsFiniteSet({t \in a..(b - 1) : IsOpenAt(t)})
         /\ BusinessTicks(a, b) \in Nat
<1>1. IsFiniteSet(a..(b - 1))
  BY FS_Interval
<1>2. {t \in a..(b - 1) : IsOpenAt(t)} \in SUBSET (a..(b - 1))
  OBVIOUS
<1>3. IsFiniteSet({t \in a..(b - 1) : IsOpenAt(t)})
  BY <1>1, <1>2, FS_Subset
<1> QED BY <1>3, FS_CardinalityType DEF BusinessTicks

LEMMA TicksAdd ==
  ASSUME NEW a \in Int, NEW b \in Int, NEW c \in Int, a <= b, b <= c
  PROVE  BusinessTicks(a, c) = BusinessTicks(a, b) + BusinessTicks(b, c)
<1> DEFINE S == {t \in a..(b - 1) : IsOpenAt(t)}
           T == {t \in b..(c - 1) : IsOpenAt(t)}
           U == {t \in a..(c - 1) : IsOpenAt(t)}
<1>1. IsFiniteSet(S) /\ IsFiniteSet(T) /\ BusinessTicks(a, b) \in Nat /\ BusinessTicks(b, c) \in Nat
  BY TicksTyped
<1>2. U = S \cup T
  OBVIOUS
<1>3. S \cap T = {}
  OBVIOUS
<1>4. Cardinality(S \cup T) = Cardinality(S) + Cardinality(T) - Cardinality(S \cap T)
  BY <1>1, FS_Union
<1>5. BusinessTicks(a, b) = Cardinality(S) /\ BusinessTicks(b, c) = Cardinality(T)
      /\ BusinessTicks(a, c) = Cardinality(U)
  BY DEF BusinessTicks
<1> HIDE DEF S, T, U
<1>6. Cardinality(S \cap T) = 0
  BY <1>3, FS_EmptySet
<1> QED BY <1>1, <1>2, <1>4, <1>5, <1>6

LEMMA NoTicks ==
  ASSUME NEW a \in Int, NEW b \in Int, \A t \in a..(b - 1) : ~IsOpenAt(t)
  PROVE  BusinessTicks(a, b) = 0
<1>1. {t \in a..(b - 1) : IsOpenAt(t)} = {}
  OBVIOUS
<1> QED BY <1>1, FS_EmptySet DEF BusinessTicks

LEMMA AllTicks ==
  ASSUME NEW a \in Int, NEW b \in Int, a <= b, \A t \in a..(b - 1) : IsOpenAt(t)
  PROVE  BusinessTicks(a, b) = b - a
<1>1. {t \in a..(b - 1) : IsOpenAt(t)} = a..(b - 1)
  OBVIOUS
<1>2. Cardinality(a..(b - 1)) = IF a > b - 1 THEN 0 ELSE (b - 1) - a + 1
  BY FS_Interval
<1>3. (IF a > b - 1 THEN 0 ELSE (b - 1) - a + 1) = b - a
  OBVIOUS
<1> QED BY <1>1, <1>2, <1>3 DEF BusinessTicks

-----------------------------------------------------------------------------
\* What a loop has still to visit: every open tick from the cursor up to a bound
\* is in one of the intervals.
Covers(cursor, bound, todo) ==
  \A t \in Nat : cursor <= t /\ t < bound /\ IsOpenAt(t)
                   => \E i \in todo : i.start <= t /\ t < i.end

\* The first day that has intervals ahead has all there is up to its midnight.
LEMMA FirstDayCovers ==
  ASSUME IsSchedule(schedule), WithinDays, NEW c \in Nat, NEW d \in DaysAhead(c), FirstAhead(d, c)
  PROVE  /\ c < (d + 1) * DayLength
         /\ Covers(c, (d + 1) * DayLength, LeftOf(d, c))
<1>1. /\ DayOf(c) \in Nat /\ c < (DayOf(c) + 1) * DayLength
      /\ d \in Int /\ DayOf(c) <= d /\ d <= DayOf(c) + SearchDays - 1 /\ SearchDays \in Nat
  BY DayBounds, ClockConstants DEF DaysAhead
<1>2. /\ (DayOf(c) + 1) * DayLength <= (d + 1) * DayLength
      /\ (DayOf(c) + 1) * DayLength \in Int /\ (d + 1) * DayLength \in Int
  BY <1>1, DaysAscend, ClockConstants
<1>3. c < (d + 1) * DayLength
  BY <1>1, <1>2
<1>4. ASSUME NEW t \in Nat, c <= t, t < (d + 1) * DayLength, IsOpenAt(t)
      PROVE  \E i \in LeftOf(d, c) : i.start <= t /\ t < i.end
  <2> DEFINE e == DayOf(t)
  <2>1. e \in Nat /\ e * DayLength <= t /\ t < (e + 1) * DayLength
    BY DayBounds
  <2>2. PICK i \in OpenIntervalsForLocalDay(e) : i.start <= t /\ t < i.end
    BY <1>4, OpenOnItsDay
  <2>3. i \in LeftOf(e, c)
    <3>1. i.end \in Int
      BY <2>1, IntervalBounds DEF Interval
    <3>2. i.end > c
      BY <1>4, <2>2, <3>1
    <3> QED BY <2>2, <3>2 DEF LeftOf
  <2>4. DayOf(c) <= e
    <3>1. e < DayOf(c) => (e + 1) * DayLength <= DayOf(c) * DayLength
      BY <1>1, <2>1, DaysAscend
    <3>2. (e + 1) * DayLength \in Int /\ DayOf(c) * DayLength \in Int /\ DayOf(c) * DayLength <= c
      BY <1>1, <2>1, DayBounds, ClockConstants
    <3> QED BY <1>1, <1>4, <2>1, <3>1, <3>2
  <2>5. e <= d
    <3>1. d < e => (d + 1) * DayLength <= e * DayLength
      BY <1>1, <2>1, DaysAscend
    <3>2. e * DayLength \in Int
      BY <2>1, ClockConstants
    <3> QED BY <1>1, <1>2, <1>4, <2>1, <3>1, <3>2
  <2>6. e \in DaysAhead(c)
    <3>1. e \in DayOf(c)..(DayOf(c) + SearchDays - 1)
      BY <1>1, <2>1, <2>4, <2>5
    <3> QED BY <2>3, <3>1 DEF DaysAhead
  <2>7. d <= e
    BY <2>6 DEF FirstAhead
  <2>8. e = d
    BY <1>1, <2>1, <2>5, <2>7
  <2> QED BY <2>2, <2>3, <2>8
<1> QED BY <1>3, <1>4 DEF Covers

\* Visiting the interval that comes first skips no open tick, and those it covers
\* are open: what lies before the place reached in it is what was counted.
LEMMA VisitCounts ==
  ASSUME IsSchedule(schedule), NEW d \in Int, NEW todo \in SUBSET OpenIntervalsForLocalDay(d),
         NEW i \in todo, ComesFirst(i, todo), NEW c \in Nat,
         NEW e \in Int, Later(i.start, c) <= e, e <= i.end
  PROVE  /\ Later(i.start, c) \in Nat /\ c <= Later(i.start, c)
         /\ BusinessTicks(c, e) >= e - Later(i.start, c)
         /\ \A bound \in Int : Covers(c, bound, todo) /\ i.start <= bound
              => BusinessTicks(c, e) = e - Later(i.start, c)
<1> DEFINE s == Later(i.start, c)
<1>1. i.start \in Int /\ i.end \in Int /\ s \in Nat /\ c <= s /\ (s = c \/ s = i.start) /\ i.start <= s
  BY IntervalBounds DEF Interval, Later
<1>2. BusinessTicks(s, e) = e - s
  <2>1. ASSUME NEW t \in s..(e - 1) PROVE IsOpenAt(t)
    <3>1. t \in Nat /\ i.start <= t /\ t < i.end
      BY <1>1, <2>1
    <3> QED BY <3>1, IntervalsAreOpen
  <2> QED BY <1>1, <2>1, AllTicks
<1>3. BusinessTicks(c, e) = BusinessTicks(c, s) + BusinessTicks(s, e)
  BY <1>1, TicksAdd
<1>4. BusinessTicks(c, s) \in Nat
  <2>1. c \in Int /\ s \in Int
    BY <1>1
  <2> HIDE DEF s
  <2> QED BY <2>1, TicksTyped
<1>5. ASSUME NEW bound \in Int, Covers(c, bound, todo), i.start <= bound
      PROVE  BusinessTicks(c, s) = 0
  <2>1. ASSUME NEW t \in c..(s - 1), IsOpenAt(t) PROVE FALSE
    <3>1. t \in Nat /\ c <= t /\ t < i.start
      BY <1>1, <2>1
    <3>2. t < bound
      BY <1>1, <1>5, <3>1
    <3>3. PICK j \in todo : j.start <= t /\ t < j.end
      BY <1>5, <2>1, <3>1, <3>2 DEF Covers
    <3>4. j.start \in Int /\ i.start <= j.start
      BY IntervalBounds DEF Interval, ComesFirst
    <3> QED BY <1>1, <3>1, <3>3, <3>4
  <2> QED BY <1>1, <2>1, NoTicks
<1> HIDE DEF s
<1>6. BusinessTicks(c, e) >= e - s
  BY <1>1, <1>2, <1>3, <1>4
<1>7. ASSUME NEW bound \in Int, Covers(c, bound, todo), i.start <= bound
      PROVE  BusinessTicks(c, e) = e - s
  BY <1>1, <1>2, <1>3, <1>5, <1>7
<1> QED BY <1>1, <1>6, <1>7 DEF s

\* An interval the cursor has passed is not needed any more.
LEMMA VisitedCovers ==
  ASSUME NEW c \in Nat, NEW e \in Nat, NEW bound \in Int, NEW todo, NEW i \in todo,
         i.end \in Int, Covers(c, bound, todo), c <= e, i.end <= e
  PROVE  Covers(e, bound, todo \ {i})
<1> SUFFICES ASSUME NEW t \in Nat, e <= t, t < bound, IsOpenAt(t)
             PROVE  \E j \in todo \ {i} : j.start <= t /\ t < j.end
  BY DEF Covers
<1>1. c <= t
  OBVIOUS
<1>2. PICK j \in todo : j.start <= t /\ t < j.end
  BY <1>1 DEF Covers
<1>3. j # i
  BY <1>2
<1> QED BY <1>2, <1>3

\* A schedule that has hours is open on one of the days after a given one that the search
\* for it looks at.
HorizonReaches(s) ==
  \A i \in DOMAIN s.hours : s.hours[i] # {} =>
    \A d \in Nat : \E e \in (d + 1)..(d + SearchDays - 1) :
      e \notin s.holidays /\ s.hours[(e % Len(s.hours)) + 1] # {}

LEMMA RemainderOf ==
  ASSUME NEW n \in Nat \ {0}, NEW q \in Int, NEW p \in 0..(n - 1)
  PROVE  (n * q + p) % n = p
<1> DEFINE z == n * q + p
           c == z \div n
           r == z % n
<1>1. z \in Int /\ c \in Int /\ r \in 0..(n - 1) /\ z = n * c + r
  OBVIOUS
<1>2. z = n * q + p
  OBVIOUS
<1> HIDE DEF z, c, r
<1>3. n * (q - c) = r - p
  BY <1>1, <1>2
<1>4. q - c >= 1 => n * (q - c) >= n
  BY <1>1
<1>5. q - c <= -1 => n * (q - c) <= -n
  <2>1. ASSUME NEW v \in Int, v <= -1 PROVE n * v <= -n
    BY <2>1
  <2> QED BY <1>1, <2>1
<1>6. q = c
  BY <1>1, <1>3, <1>4, <1>5
<1>7. r = p
  BY <1>1, <1>2, <1>6
<1> QED BY <1>7 DEF r, z

\* A day of the week comes once a week.
LEMMA WeekdayComes ==
  ASSUME NEW n \in Nat \ {0}, NEW k \in 1..n, NEW x \in Nat
  PROVE  \E y \in x..(x + n - 1) : \A j \in Nat : ((y + j * n) % n) + 1 = k
<1> DEFINE z == k - 1 - x
           r == z % n
           y == x + r
<1>1. r \in 0..(n - 1) /\ z = n * (z \div n) + r /\ z \div n \in Int
  OBVIOUS
<1>2. y \in x..(x + n - 1)
  BY <1>1
<1>3. ASSUME NEW j \in Nat PROVE ((y + j * n) % n) + 1 = k
  <2>1. y + j * n = n * (j - (z \div n)) + (k - 1)
    BY <1>1
  <2>2. j - (z \div n) \in Int /\ k - 1 \in 0..(n - 1)
    BY <1>1
  <2>3. (n * (j - (z \div n)) + (k - 1)) % n = k - 1
    BY <2>2, RemainderOf
  <2> HIDE DEF y, z
  <2> QED BY <2>1, <2>3
<1> QED BY <1>2, <1>3

\* openIntervalsOnAndAfter reaches an open day when it looks m weeks ahead and fewer than
\* m of the days it looks at are ever holidays.
THEOREM WeeksReach ==
  ASSUME NEW s, IsSchedule(s), NEW m \in Nat, m * Len(s.hours) < SearchDays,
         \A d \in Nat : Cardinality(s.holidays \cap ((d + 1)..(d + SearchDays - 1))) < m
  PROVE  HorizonReaches(s)
<1> DEFINE n == Len(s.hours)
<1>1. n \in Nat \ {0} /\ DOMAIN s.hours = 1..n /\ SearchDays \in Nat /\ m * n < SearchDays
  BY ClockConstants DEF IsSchedule
<1> HIDE DEF n
<1> SUFFICES ASSUME NEW k \in 1..n, s.hours[k] # {}, NEW d \in Nat,
                    \A e \in (d + 1)..(d + SearchDays - 1) :
                      e \in s.holidays \/ s.hours[(e % n) + 1] = {}
             PROVE  FALSE
  BY <1>1 DEF HorizonReaches, n
<1>2. PICK y \in (d + 1)..(d + 1 + n - 1) : \A j \in Nat : ((y + j * n) % n) + 1 = k
  <2>1. d + 1 \in Nat /\ n \in Nat \ {0}
    BY <1>1
  <2> QED BY <2>1, WeekdayComes
<1> DEFINE days == (d + 1)..(d + SearchDays - 1)
           off == s.holidays \cap days
           week == [j \in 1..m |-> y + (j - 1) * n]
<1>3. ASSUME NEW j \in 1..m
      PROVE  week[j] \in off
  <2>1. j - 1 \in Nat /\ (j - 1) * n \in Nat
    BY <1>1
  <2>2. (j - 1) * n + n <= m * n
    <3>1. j <= m /\ j * n = (j - 1) * n + n
      BY <1>1
    <3>2. j * n <= m * n
      BY <1>1, <3>1
    <3> QED BY <1>1, <3>1, <3>2
  <2>3. y + (j - 1) * n \in days
    BY <1>1, <1>2, <2>1, <2>2
  <2>4. ((y + (j - 1) * n) % n) + 1 = k
    BY <1>2, <2>1
  <2> QED BY <2>3, <2>4
<1>4. \A i, j \in 1..m : week[i] = week[j] => i = j
  <2>1. ASSUME NEW i \in 1..m, NEW j \in 1..m, i < j PROVE (i - 1) * n < (j - 1) * n
    <3>1. j - i >= 1 /\ j - i \in Nat
      BY <2>1
    <3>2. (j - i) * n >= n
      BY <1>1, <3>1
    <3>3. (j - 1) * n = (i - 1) * n + (j - i) * n
      BY <1>1
    <3>4. (i - 1) * n \in Int /\ (j - i) * n \in Int
      BY <1>1
    <3> QED BY <1>1, <3>2, <3>3, <3>4
  <2>2. \A i \in 1..m : (i - 1) * n \in Int /\ y \in Int /\ i \in Int
    BY <1>1
  <2>3. ASSUME NEW i \in 1..m, NEW j \in 1..m, week[i] = week[j] PROVE i = j
    <3>1. (i - 1) * n = (j - 1) * n
      BY <2>2, <2>3
    <3> QED BY <2>1, <2>2, <3>1
  <2> QED BY <2>3
<1>5. IsFiniteSet(off)
  <2>1. d + 1 \in Int /\ d + SearchDays - 1 \in Int
    BY <1>1
  <2>2. IsFiniteSet(days)
    BY <2>1, FS_Interval
  <2>3. off \in SUBSET days
    OBVIOUS
  <2> QED BY <2>2, <2>3, FS_Subset
<1>6. week \in [1..m -> off]
  BY <1>3
<1>7. week \in Injection(1..m, off)
  BY <1>4, <1>6 DEF Injection, IsInjective
<1>8. Cardinality(1..m) = m
  BY FS_Interval
<1>9. Cardinality(1..m) <= Cardinality(off)
  BY <1>5, <1>7, FS_Injection DEF ExistsInjection
<1>10. Cardinality(off) \in Nat /\ Cardinality(off) < m
  BY <1>5, FS_CardinalityType
<1> QED BY <1>8, <1>9, <1>10

\* A schedule without hours is never open; one within the horizon of the search has
\* a day ahead otherwise.
LEMMA NeverOpen ==
  ASSUME IsSchedule(schedule), \A i \in DOMAIN schedule.hours : schedule.hours[i] = {},
         NEW t \in Nat
  PROVE  ~IsOpenAt(t)
<1>1. DayOf(t) \in Nat
  BY DayBounds
<1>2. ASSUME NEW d \in Int PROVE OpenIntervalsForLocalDay(d) = {}
  <2>1. WindowsOf(d) = {}
    BY WeekdayKnown DEF WindowsOf
  <2> QED BY <2>1 DEF OpenIntervalsForLocalDay
<1> QED BY <1>1, <1>2 DEF IsOpenAt

LEMMA DaysAheadExist ==
  ASSUME IsSchedule(schedule), HorizonReaches(schedule), NEW c \in Nat, DaysAhead(c) = {}
  PROVE  \A i \in DOMAIN schedule.hours : schedule.hours[i] = {}
<1> SUFFICES ASSUME NEW k \in DOMAIN schedule.hours, schedule.hours[k] # {}
             PROVE  FALSE
  OBVIOUS
<1>1. DayOf(c) \in Nat /\ c < (DayOf(c) + 1) * DayLength /\ SearchDays \in Nat
  BY DayBounds, ClockConstants
<1>2. PICK e \in (DayOf(c) + 1)..(DayOf(c) + SearchDays - 1) :
        e \notin schedule.holidays /\ schedule.hours[(e % Len(schedule.hours)) + 1] # {}
  BY <1>1 DEF HorizonReaches
<1>3. e \in Nat /\ DayOf(c) + 1 <= e /\ e \in DayOf(c)..(DayOf(c) + SearchDays - 1)
  BY <1>1
<1>4. PICK w \in WindowsOf(e) : TRUE
  BY <1>2 DEF WindowsOf
<1> DEFINE i == OpenInterval(e, w)
<1>5. i \in OpenIntervalsForLocalDay(e)
  BY DEF OpenIntervalsForLocalDay
<1> HIDE DEF i
<1>6. i.start \in Int /\ i.end \in Int /\ e * DayLength <= i.start /\ i.start < i.end
  BY <1>3, <1>5, IntervalBounds DEF Interval
<1>7. (DayOf(c) + 1) * DayLength <= e * DayLength /\ e * DayLength \in Int
      /\ (DayOf(c) + 1) * DayLength \in Int
  BY <1>1, <1>3, DaysAscend, ClockConstants
<1>8. i.end > c
  BY <1>1, <1>6, <1>7
<1>9. i \in LeftOf(e, c)
  BY <1>5, <1>8 DEF LeftOf
<1> QED BY <1>3, <1>9 DEF DaysAhead

\* When no interval ahead starts before a moment, nothing is open until then.
LEMMA NothingBefore ==
  ASSUME IsSchedule(schedule), WithinDays, NEW c \in Nat, NEW until \in Nat,
         NEW d \in DaysAhead(c), FirstAhead(d, c), LeftBefore(d, c, until) = {}
  PROVE  BusinessTicks(c, until) = 0
<1>1. Covers(c, (d + 1) * DayLength, LeftOf(d, c)) /\ d \in Int /\ (d + 1) * DayLength \in Int
  BY FirstDayCovers, DayBounds, ClockConstants DEF DaysAhead
<1>2. ASSUME NEW t \in c..(until - 1), IsOpenAt(t) PROVE FALSE
  <2>1. t \in Nat /\ c <= t /\ t < until
    BY <1>2
  <2>2. CASE t < (d + 1) * DayLength
    <3>1. PICK i \in LeftOf(d, c) : i.start <= t /\ t < i.end
      BY <1>1, <1>2, <2>1, <2>2 DEF Covers
    <3>2. i.start \in Int
      BY <1>1, <3>1, IntervalBounds DEF LeftOf, Interval
    <3>3. i.start < until
      BY <2>1, <3>1, <3>2
    <3> QED BY <3>1, <3>3 DEF LeftBefore
  <2>3. CASE ~(t < (d + 1) * DayLength)
    <3>1. PICK i \in LeftOf(d, c) : TRUE
      BY DEF DaysAhead
    <3>2. i.start \in Int /\ i.start < (d + 1) * DayLength
      BY <1>1, <3>1, IntervalBounds DEF LeftOf, Interval
    <3>3. i.start < until
      BY <1>1, <2>1, <2>3, <3>2
    <3> QED BY <3>1, <3>3 DEF LeftBefore
  <2> QED BY <2>2, <2>3
<1> QED BY <1>2, NoTicks


-----------------------------------------------------------------------------
\* The schedule never changes, nor does what is read off it.

ClosedForGood == \A i \in DOMAIN schedule.hours : schedule.hours[i] = {}
Reaches == HorizonReaches(schedule)

LEMMA ScheduleRests ==
  ASSUME schedule' = schedule
  PROVE  /\ \A d : OpenIntervalsForLocalDay(d)' = OpenIntervalsForLocalDay(d)
         /\ \A t : IsOpenAt(t)' <=> IsOpenAt(t)
         /\ \A a, b : BusinessTicks(a, b)' = BusinessTicks(a, b)
         /\ \A c, b, todo : Covers(c, b, todo)' <=> Covers(c, b, todo)
         /\ WithinDays' <=> WithinDays
         /\ Reaches' <=> Reaches
         /\ ClosedForGood' <=> ClosedForGood
<1>1. ASSUME NEW d PROVE OpenIntervalsForLocalDay(d)' = OpenIntervalsForLocalDay(d)
  <2>1. WindowsOf(d)' = WindowsOf(d)
    BY DEF WindowsOf
  <2> QED BY <2>1 DEF OpenIntervalsForLocalDay
<1>2. ASSUME NEW t PROVE IsOpenAt(t)' <=> IsOpenAt(t)
  <2>1. \A d : OpenIntervalsForLocalDay(d)' = OpenIntervalsForLocalDay(d)
    BY <1>1
  <2> QED BY <2>1 DEF IsOpenAt
<1>3. ASSUME NEW a, NEW b PROVE BusinessTicks(a, b)' = BusinessTicks(a, b)
  <2>1. {t \in a..(b - 1) : IsOpenAt(t)'} = {t \in a..(b - 1) : IsOpenAt(t)}
    BY <1>2
  <2> QED BY <2>1 DEF BusinessTicks
<1>4. ASSUME NEW c, NEW b, NEW todo PROVE Covers(c, b, todo)' <=> Covers(c, b, todo)
  BY <1>2 DEF Covers
<1>5. WithinDays' <=> WithinDays
  BY DEF WithinDays
<1>6. Reaches' <=> Reaches
  BY DEF Reaches, HorizonReaches
<1>7. ClosedForGood' <=> ClosedForGood
  BY DEF ClosedForGood
<1> QED BY <1>1, <1>2, <1>3, <1>4, <1>5, <1>6, <1>7

-----------------------------------------------------------------------------
\* The inductive invariant: what addBusinessMs has counted so far, what
\* remainingBusinessMs has, and what the target was promised.

Origin(tg) == IF tg.phase = "starting" THEN tg.startedAt ELSE tg.resumedAt
Amount(tg) == IF tg.phase = "starting" THEN tg.budget ELSE tg.remaining

AddsOn(d, cursor, todo) ==
  /\ todo \subseteq OpenIntervalsForLocalDay(d)
  /\ WithinDays => /\ cursor < (d + 1) * DayLength
                   /\ Covers(cursor, (d + 1) * DayLength, todo)

Adds(tg, ck) ==
  ck.op = "add" =>
    /\ tg.phase \in {"starting", "resuming"}
    /\ Origin(tg) <= ck.cursor /\ ck.left > 0
    /\ BusinessTicks(Origin(tg), ck.cursor) >= Amount(tg) - ck.left
    /\ WithinDays => BusinessTicks(Origin(tg), ck.cursor) = Amount(tg) - ck.left
    /\ ck.at = "day" => \E d \in Nat : AddsOn(d, ck.cursor, ck.todo)

MeasuresOn(d, cursor, until, progressed, todo) ==
  /\ todo \subseteq OpenIntervalsForLocalDay(d)
  /\ \A i \in todo : i.start < until
  /\ WithinDays => Covers(cursor, Earlier(until, (d + 1) * DayLength), todo)
  /\ ~progressed => todo # {} /\ cursor < until /\ \A i \in todo : i.end > cursor

Measures(tg, ck) ==
  ck.op = "remaining" =>
    /\ tg.phase = "measuring"
    /\ ck.until = tg.dueAt /\ tg.pausedAt <= ck.cursor /\ ck.cursor <= ck.until
    /\ WithinDays => ck.total = BusinessTicks(tg.pausedAt, ck.cursor)
    /\ ck.at = "day" => \E d \in Nat : MeasuresOn(d, ck.cursor, ck.until, ck.progressed, ck.todo)

Promised(tg) ==
  /\ tg.phase \in {"none", "starting"} => tg.dueAt = NoTime
  /\ tg.phase \in {"running", "paused", "measuring", "resuming"} /\ tg.dueAt # NoTime =>
       /\ tg.startedAt <= tg.dueAt
       /\ BusinessTicks(tg.startedAt, tg.dueAt) >= tg.budget
       /\ WithinDays => BusinessTicks(tg.startedAt, tg.dueAt) = tg.budget /\ IsOpenAt(tg.dueAt - 1)
  /\ tg.phase \in {"paused", "measuring", "resuming"} =>
       tg.dueAt # NoTime /\ tg.startedAt <= tg.pausedAt /\ tg.pausedAt < tg.dueAt
  /\ tg.phase \in {"resuming", "resumed"} /\ WithinDays /\ Reaches =>
       BusinessTicks(tg.startedAt, tg.pausedAt) + tg.remaining = tg.budget
  /\ tg.phase = "resumed" /\ WithinDays /\ Reaches /\ tg.dueAt # NoTime =>
       BusinessTicks(tg.resumedAt, tg.dueAt) = tg.remaining /\ IsOpenAt(tg.dueAt - 1)
  /\ Reaches /\ tg.phase \notin {"none", "starting"} /\ tg.dueAt = NoTime => ClosedForGood

ClockStands(tg, ck) == Adds(tg, ck) /\ Measures(tg, ck) /\ Promised(tg)

\* A target is paused before it is due, so that it has a due date.
ClockTyped == ClockTypeOK /\ (target.phase = "paused" => target.dueAt # NoTime)

ClockInv == ClockTyped /\ \E tg, ck : tg = target /\ ck = clock /\ ClockStands(tg, ck)

LEMMA StandsStill ==
  ASSUME schedule' = schedule, NEW tg, NEW ck, ClockStands(tg, ck)
  PROVE  ClockStands(tg, ck)'
<1>1. Adds(tg, ck)'
  <2>1. \A d, c, todo : AddsOn(d, c, todo)' <=> AddsOn(d, c, todo)
    BY ScheduleRests DEF AddsOn
  <2> QED BY <2>1, ScheduleRests DEF Adds, ClockStands, Origin, Amount
<1>2. Measures(tg, ck)'
  <2>1. \A d, c, u, p, todo : MeasuresOn(d, c, u, p, todo)' <=> MeasuresOn(d, c, u, p, todo)
    BY ScheduleRests DEF MeasuresOn, Earlier
  <2> QED BY <2>1, ScheduleRests DEF Measures, ClockStands
<1>3. Promised(tg)'
  BY ScheduleRests DEF Promised, ClockStands
<1> QED BY <1>1, <1>2, <1>3 DEF ClockStands

-----------------------------------------------------------------------------
\* The types.

LEMMA LeftTyped ==
  ASSUME IsSchedule(schedule), NEW c \in Nat, NEW d \in DaysAhead(c)
  PROVE  /\ d \in Nat
         /\ LeftOf(d, c) \subseteq OpenIntervalsForLocalDay(d)
         /\ LeftOf(d, c) \in SUBSET Interval
<1>1. d \in Nat
  BY DayBounds, ClockConstants DEF DaysAhead
<1>2. LeftOf(d, c) \subseteq OpenIntervalsForLocalDay(d)
  BY DEF LeftOf
<1>3. \A i \in OpenIntervalsForLocalDay(d) : i \in Interval
  BY <1>1, IntervalBounds
<1> QED BY <1>1, <1>2, <1>3

LEMMA TargetFields ==
  ASSUME NEW tg \in Target
  PROVE  /\ tg.phase \in {"none", "starting", "running", "paused", "measuring", "resuming", "resumed"}
         /\ tg.budget \in Nat /\ tg.startedAt \in Nat /\ tg.dueAt \in Nat \cup {NoTime}
         /\ tg.pausedAt \in Nat /\ tg.remaining \in Nat /\ tg.resumedAt \in Nat
BY DEF Target

LEMMA ClockFields ==
  ASSUME NEW ck \in Clock
  PROVE  /\ ck.op \in {"none", "add", "remaining"} /\ ck.at \in {"search", "day"}
         /\ ck.cursor \in Nat /\ ck.left \in Nat /\ ck.until \in Nat /\ ck.total \in Nat
         /\ ck.progressed \in BOOLEAN /\ ck.todo \in SUBSET Interval
BY DEF Clock

LEMMA CallsTyped ==
  ASSUME NEW from \in Nat, NEW n \in Nat
  PROVE  /\ NoCall \in Clock
         /\ Adding(from, n) \in Clock
         /\ Counting(from, n) \in Clock
BY DEF NoCall, Clock, Adding, Counting

LEMMA AddReturnsTyped ==
  ASSUME ClockTyped, NEW due \in Nat \cup {NoTime}, AddReturns(due)
  PROVE  ClockTyped'
<1>1. target' \in Target /\ target'.phase # "paused"
  BY DEF AddReturns, ClockTyped, ClockTypeOK, Target
<1>2. clock' \in Clock
  BY CallsTyped DEF AddReturns
<1> QED BY <1>1, <1>2 DEF AddReturns, ClockTyped, ClockTypeOK, IsSchedule

LEMMA RemainingReturnsTyped ==
  ASSUME ClockTyped, NEW n \in Nat, RemainingReturns(n)
  PROVE  ClockTyped'
<1>1. target' \in Target /\ target'.phase # "paused"
  <2>1. target \in Target /\ target.resumedAt \in Nat
    BY TargetFields DEF ClockTyped, ClockTypeOK
  <2>2. CASE target' = [target EXCEPT !.phase = "resumed", !.remaining = 0,
                                      !.dueAt = target.resumedAt]
    BY <2>1, <2>2 DEF Target
  <2>3. CASE target' = [target EXCEPT !.phase = "resuming", !.remaining = n]
    BY <2>1, <2>3 DEF Target
  <2> QED BY <2>2, <2>3 DEF RemainingReturns
<1>2. clock' \in Clock
  <2>1. target.resumedAt \in Nat
    BY DEF ClockTyped, ClockTypeOK, Target
  <2> QED BY <2>1, CallsTyped DEF RemainingReturns
<1> QED BY <1>1, <1>2 DEF RemainingReturns, ClockTyped, ClockTypeOK, IsSchedule

LEMMA CallStepTyped ==
  ASSUME ClockTyped, clock' \in Clock, UNCHANGED <<schedule, target>>
  PROVE  ClockTyped'
BY DEF ClockTyped, ClockTypeOK, IsSchedule, Target

LEMMA AddIntervalTyped ==
  ASSUME ClockTyped, AddInterval
  PROVE  ClockTyped'
<1>1. PICK i \in clock.todo :
        LET openStart == Later(i.start, clock.cursor)
            available == i.end - openStart
        IN  \/ /\ clock' = [clock EXCEPT !.todo = @ \ {i}]
               /\ UNCHANGED <<schedule, target>>
            \/ /\ available > 0 /\ HoldsDue(clock.left, available)
               /\ AddReturns(openStart + clock.left)
            \/ /\ available > 0 /\ ~HoldsDue(clock.left, available)
               /\ clock' = [clock EXCEPT !.left = @ - available, !.cursor = i.end,
                                         !.todo = @ \ {i}]
               /\ UNCHANGED <<schedule, target>>
  BY DEF AddInterval
<1>2. clock \in Clock
  BY DEF ClockTyped, ClockTypeOK
<1> DEFINE s == Later(i.start, clock.cursor)
<1>3. i.start \in Int /\ i.end \in Int /\ s \in Nat /\ clock.cursor <= s
  BY <1>2, ClockFields DEF Interval, Later
<1>4. CASE clock' = [clock EXCEPT !.todo = @ \ {i}] /\ UNCHANGED <<schedule, target>>
  <2>1. clock' \in Clock
    BY <1>2, <1>4 DEF Clock
  <2> QED BY <1>4, <2>1, CallStepTyped
<1>5. CASE AddReturns(s + clock.left)
  <2>1. s + clock.left \in Nat
    BY <1>2, <1>3, ClockFields
  <2> QED BY <1>5, <2>1, AddReturnsTyped
<1>6. CASE /\ i.end - s > 0 /\ ~HoldsDue(clock.left, i.end - s)
           /\ clock' = [clock EXCEPT !.left = @ - (i.end - s), !.cursor = i.end,
                                     !.todo = @ \ {i}]
           /\ UNCHANGED <<schedule, target>>
  <2>1. clock.left \in Nat /\ clock.left - (i.end - s) \in Nat /\ i.end \in Nat
    <3> HIDE DEF s
    <3> QED BY <1>2, <1>3, <1>6, ClockFields DEF HoldsDue
  <2>2. clock' \in Clock
    <3> HIDE DEF s
    <3> QED BY <1>2, <1>6, <2>1 DEF Clock
  <2> QED BY <1>6, <2>2, CallStepTyped
<1> QED BY <1>1, <1>4, <1>5, <1>6

LEMMA RemainingIntervalTyped ==
  ASSUME ClockTyped, RemainingInterval
  PROVE  ClockTyped'
<1>1. PICK i \in clock.todo :
        LET openStart == Later(i.start, clock.cursor)
            openEnd == Earlier(i.end, clock.until)
        IN  /\ clock' = IF openStart < openEnd
                        THEN [clock EXCEPT !.total = @ + (openEnd - openStart), !.cursor = openEnd,
                                           !.progressed = TRUE, !.todo = @ \ {i}]
                        ELSE [clock EXCEPT !.todo = @ \ {i}]
            /\ UNCHANGED <<schedule, target>>
  BY DEF RemainingInterval
<1>2. clock \in Clock
  BY DEF ClockTyped, ClockTypeOK
<1> DEFINE s == Later(i.start, clock.cursor)
           e == Earlier(i.end, clock.until)
<1>3. s \in Nat /\ e \in Int /\ clock.total \in Nat
  BY <1>2, ClockFields DEF Interval, Later, Earlier
<1>4. CASE s < e
  <2>1. clock' = [clock EXCEPT !.total = @ + (e - s), !.cursor = e, !.progressed = TRUE,
                               !.todo = @ \ {i}]
    BY <1>1, <1>4
  <2>2. clock' \in Clock
    <3> HIDE DEF s, e
    <3>1. e \in Nat /\ clock.total + (e - s) \in Nat
      BY <1>3, <1>4
    <3> QED BY <1>2, <2>1, <3>1 DEF Clock
  <2> QED BY <1>1, <2>2, CallStepTyped
<1>5. CASE ~(s < e)
  <2>1. clock' = [clock EXCEPT !.todo = @ \ {i}]
    BY <1>1, <1>5
  <2>2. clock' \in Clock
    BY <1>2, <2>1 DEF Clock
  <2> QED BY <1>1, <2>2, CallStepTyped
<1> QED BY <1>4, <1>5

LEMMA ClockTypedKeeps ==
  ASSUME ClockTyped, [ClockNext]_clockVars
  PROVE  ClockTyped'
<1> USE DEF NoTime
<1>1. IsSchedule(schedule) /\ target \in Target /\ clock \in Clock
  BY DEF ClockTyped, ClockTypeOK
<1>2. CASE UNCHANGED clockVars
  BY <1>2 DEF clockVars, ClockTyped, ClockTypeOK, IsSchedule, Target, Clock, Interval
<1>3. CASE AddSearch
  <2>1. CASE AddReturns(NoTime)
    BY <2>1, AddReturnsTyped
  <2>2. CASE \E day \in DaysAhead(clock.cursor) :
               /\ clock' = [clock EXCEPT !.at = "day", !.todo = LeftOf(day, clock.cursor)]
               /\ UNCHANGED <<schedule, target>>
    <3>1. PICK day \in DaysAhead(clock.cursor) :
               /\ clock' = [clock EXCEPT !.at = "day", !.todo = LeftOf(day, clock.cursor)]
               /\ UNCHANGED <<schedule, target>>
      BY <2>2
    <3>2. LeftOf(day, clock.cursor) \in SUBSET Interval
      BY <1>1, LeftTyped, ClockFields
    <3>3. clock' \in Clock
      BY <1>1, <3>1, <3>2 DEF Clock
    <3> QED BY <3>1, <3>3, CallStepTyped
  <2> QED BY <1>3, <2>1, <2>2 DEF AddSearch
<1>4. CASE AddInterval
  BY <1>4, AddIntervalTyped
<1>5. CASE AddNextDay
  <2>1. NextDay(clock.cursor) \in Nat
    BY <1>1, NextDayIsLater, ClockFields
  <2>2. clock' \in Clock
    BY <1>1, <1>5, <2>1 DEF AddNextDay, Clock
  <2> QED BY <1>5, <2>2, CallStepTyped DEF AddNextDay
<1>6. CASE RemainingSearch
  <2>1. CASE RemainingReturns(clock.total)
    BY <1>1, <2>1, RemainingReturnsTyped, ClockFields
  <2>2. CASE \E day \in DaysAhead(clock.cursor) :
               /\ clock' = [clock EXCEPT !.at = "day",
                                         !.todo = LeftBefore(day, clock.cursor, clock.until),
                                         !.progressed = FALSE]
               /\ UNCHANGED <<schedule, target>>
    <3>1. PICK day \in DaysAhead(clock.cursor) :
               /\ clock' = [clock EXCEPT !.at = "day",
                                         !.todo = LeftBefore(day, clock.cursor, clock.until),
                                         !.progressed = FALSE]
               /\ UNCHANGED <<schedule, target>>
      BY <2>2
    <3>2. LeftBefore(day, clock.cursor, clock.until) \in SUBSET Interval
      BY <1>1, LeftTyped, ClockFields DEF LeftBefore
    <3>3. clock' \in Clock
      BY <1>1, <3>1, <3>2 DEF Clock
    <3> QED BY <3>1, <3>3, CallStepTyped
  <2> QED BY <1>6, <2>1, <2>2 DEF RemainingSearch
<1>7. CASE RemainingInterval
  BY <1>7, RemainingIntervalTyped
<1>8. CASE RemainingNext
  <2>1. NextDay(clock.cursor) \in Nat
    BY <1>1, NextDayIsLater, ClockFields
  <2>2. clock' \in Clock
    BY <1>1, <1>8, <2>1 DEF RemainingNext, Clock
  <2> QED BY <1>8, <2>2, CallStepTyped DEF RemainingNext
<1>9. ASSUME NEW now \in 0..MaxTime, NEW budget \in Budgets, StartTarget(now, budget)
      PROVE  ClockTyped'
  <2>1. now \in Nat /\ budget \in Nat
    BY ClockConstants
  <2>2. target' \in Target /\ target'.phase # "paused"
    BY <1>1, <1>9, <2>1 DEF StartTarget, Target
  <2>3. clock' \in Clock
    BY <1>9, <2>1, CallsTyped DEF StartTarget
  <2> QED BY <1>9, <2>2, <2>3 DEF StartTarget, ClockTyped, ClockTypeOK, IsSchedule
<1>10. ASSUME NEW now \in 0..MaxTime, PauseTarget(now)
       PROVE  ClockTyped'
  <2>1. now \in Nat
    BY ClockConstants
  <2>2. target.dueAt # NoTime
    <3>1. target.dueAt \in Int /\ now < target.dueAt
      BY <1>1, <1>10, TargetFields DEF PauseTarget
    <3> QED BY <2>1, <3>1
  <2>3. target' = [target EXCEPT !.phase = "paused", !.pausedAt = now]
    BY <1>10 DEF PauseTarget
  <2>4. target' \in Target
    BY <1>1, <2>1, <2>3 DEF Target
  <2>5. target'.dueAt = target.dueAt
    BY <1>1, <2>3 DEF Target
  <2> QED BY <1>10, <2>2, <2>4, <2>5 DEF PauseTarget, ClockTyped, ClockTypeOK, IsSchedule, Clock, Interval
<1>11. ASSUME NEW now \in 0..MaxTime, ResumeTarget(now)
       PROVE  ClockTyped'
  <2>1. now \in Nat
    BY ClockConstants
  <2>2. target' \in Target /\ target'.phase # "paused"
    BY <1>1, <1>11, <2>1 DEF ResumeTarget, Target
  <2>3. target.pausedAt \in Nat /\ target.dueAt \in Nat
    BY <1>1, <1>11, TargetFields DEF ResumeTarget, ClockTyped
  <2>4. clock' \in Clock
    BY <1>11, <2>3, CallsTyped DEF ResumeTarget
  <2> QED BY <1>11, <2>2, <2>4 DEF ResumeTarget, ClockTyped, ClockTypeOK, IsSchedule
<1> QED BY <1>2, <1>3, <1>4, <1>5, <1>6, <1>7, <1>8, <1>9, <1>10, <1>11 DEF ClockNext

-----------------------------------------------------------------------------
\* addBusinessMs: a step of it keeps the invariant.

LEMMA AddReturnsStands ==
  ASSUME ClockTyped, ClockStands(target, clock), clock.op = "add",
         NEW due \in Nat \cup {NoTime}, AddReturns(due),
         due # NoTime => /\ Origin(target) <= due
                         /\ BusinessTicks(Origin(target), due) >= Amount(target)
                         /\ WithinDays => /\ BusinessTicks(Origin(target), due) = Amount(target)
                                          /\ IsOpenAt(due - 1),
         due = NoTime /\ Reaches => ClosedForGood
  PROVE  ClockStands(target', clock')
<1>1. target \in Target /\ target.phase \in {"starting", "resuming"}
  BY DEF ClockTyped, ClockTypeOK, ClockStands, Adds
<1>2. target' = [target EXCEPT !.phase = IF @ = "starting" THEN "running" ELSE "resumed",
                               !.dueAt = due]
  BY DEF AddReturns
<1>3. /\ target'.phase = (IF target.phase = "starting" THEN "running" ELSE "resumed")
      /\ target'.dueAt = due /\ target'.budget = target.budget
      /\ target'.startedAt = target.startedAt /\ target'.pausedAt = target.pausedAt
      /\ target'.remaining = target.remaining /\ target'.resumedAt = target.resumedAt
  BY <1>1, <1>2 DEF Target
<1>4. clock'.op = "none"
  BY DEF AddReturns, NoCall
<1>5. Adds(target', clock') /\ Measures(target', clock')
  BY <1>4 DEF Adds, Measures
<1>6. CASE target.phase = "starting"
  <2>1. target'.phase = "running" /\ Origin(target) = target.startedAt /\ Amount(target) = target.budget
    BY <1>3, <1>6 DEF Origin, Amount
  <2>2. Promised(target')
    BY <1>3, <2>1 DEF Promised
  <2> QED BY <1>5, <2>2 DEF ClockStands
<1>7. CASE target.phase = "resuming"
  <2>1. target'.phase = "resumed" /\ Origin(target) = target.resumedAt /\ Amount(target) = target.remaining
    BY <1>3, <1>7 DEF Origin, Amount
  <2>2. WithinDays /\ Reaches =>
          BusinessTicks(target.startedAt, target.pausedAt) + target.remaining = target.budget
    BY <1>7 DEF ClockStands, Promised
  <2>3. Promised(target')
    BY <1>3, <2>1, <2>2 DEF Promised
  <2> QED BY <1>5, <2>3 DEF ClockStands
<1> QED BY <1>1, <1>6, <1>7

LEMMA OriginTyped ==
  ASSUME NEW tg \in Target
  PROVE  Origin(tg) \in Nat /\ Amount(tg) \in Nat
BY TargetFields DEF Origin, Amount

\* The call of addBusinessMs goes on; the target waits.
LEMMA AddGoesOn ==
  ASSUME ClockStands(target, clock), target' = target, clock'.op = "add",
         Adds(target, clock')
  PROVE  ClockStands(target', clock')
BY DEF ClockStands, Measures

LEMMA AddSearchStands ==
  ASSUME ClockTyped, ClockStands(target, clock), AddSearch
  PROVE  ClockStands(target', clock')
<1>1. IsSchedule(schedule) /\ target \in Target /\ clock \in Clock /\ clock.op = "add"
  BY DEF ClockTyped, ClockTypeOK, AddSearch
<1>2. CASE DaysAhead(clock.cursor) = {} /\ AddReturns(NoTime)
  <2>1. Reaches => ClosedForGood
    BY <1>1, <1>2, DaysAheadExist, ClockFields DEF Reaches, ClosedForGood
  <2>2. NoTime \in Nat \cup {NoTime}
    OBVIOUS
  <2> QED BY <1>1, <1>2, <2>1, <2>2, AddReturnsStands
<1>3. CASE \E day \in DaysAhead(clock.cursor) :
             /\ FirstAhead(day, clock.cursor)
             /\ clock' = [clock EXCEPT !.at = "day", !.todo = LeftOf(day, clock.cursor)]
             /\ UNCHANGED <<schedule, target>>
  <2>1. PICK day \in DaysAhead(clock.cursor) :
             /\ FirstAhead(day, clock.cursor)
             /\ clock' = [clock EXCEPT !.at = "day", !.todo = LeftOf(day, clock.cursor)]
             /\ UNCHANGED <<schedule, target>>
    BY <1>3
  <2>2. /\ clock'.op = "add" /\ clock'.cursor = clock.cursor /\ clock'.left = clock.left
        /\ clock'.todo = LeftOf(day, clock.cursor)
    BY <1>1, <2>1 DEF Clock
  <2>3. day \in Nat /\ AddsOn(day, clock.cursor, LeftOf(day, clock.cursor))
    BY <1>1, <2>1, LeftTyped, FirstDayCovers, ClockFields DEF AddsOn
  <2>4. Adds(target, clock')
    BY <1>1, <2>2, <2>3 DEF Adds, ClockStands
  <2> QED BY <2>1, <2>2, <2>4, AddGoesOn
<1> QED BY <1>2, <1>3 DEF AddSearch

LEMMA AddIntervalStands ==
  ASSUME ClockTyped, ClockStands(target, clock), AddInterval
  PROVE  ClockStands(target', clock')
<1>1. IsSchedule(schedule) /\ target \in Target /\ clock \in Clock
  BY DEF ClockTyped, ClockTypeOK
<1> DEFINE c == clock.cursor
           todo == clock.todo
           o == Origin(target)
<1>2. PICK i \in todo :
        LET openStart == Later(i.start, clock.cursor)
            available == i.end - openStart
        IN  /\ clock.op = "add" /\ clock.at = "day"
            /\ ComesFirst(i, todo)
            /\ \/ /\ available <= 0
                  /\ clock' = [clock EXCEPT !.todo = @ \ {i}]
                  /\ UNCHANGED <<schedule, target>>
               \/ /\ available > 0 /\ HoldsDue(clock.left, available)
                  /\ AddReturns(openStart + clock.left)
               \/ /\ available > 0 /\ ~HoldsDue(clock.left, available)
                  /\ clock' = [clock EXCEPT !.left = @ - available, !.cursor = i.end,
                                            !.todo = @ \ {i}]
                  /\ UNCHANGED <<schedule, target>>
  BY DEF AddInterval
<1> DEFINE s == Later(i.start, c)
<1>3. /\ o <= c /\ clock.left > 0 /\ BusinessTicks(o, c) >= Amount(target) - clock.left
      /\ WithinDays => BusinessTicks(o, c) = Amount(target) - clock.left
  BY <1>2 DEF ClockStands, Adds
<1>4. PICK d \in Nat : AddsOn(d, c, todo)
  BY <1>2 DEF ClockStands, Adds
<1>5. todo \in SUBSET OpenIntervalsForLocalDay(d) /\ d \in Int
  BY <1>4 DEF AddsOn
<1> DEFINE b == (d + 1) * DayLength
<1>6. WithinDays => c < b /\ Covers(c, b, todo)
  BY <1>4 DEF AddsOn
<1>7. /\ c \in Nat /\ clock.left \in Nat /\ o \in Nat /\ Amount(target) \in Nat /\ b \in Int
      /\ i.start \in Int /\ i.end \in Int /\ i.start < i.end /\ i.start < b
      /\ WithinDays => i.end < b
  BY <1>1, <1>5, IntervalBounds, ClockFields, OriginTyped, ClockConstants DEF Interval
<1>8. s \in Nat /\ c <= s /\ i.start <= s /\ (s = c \/ s = i.start)
  BY <1>7 DEF Later
<1>9. ASSUME NEW e \in Int, s <= e, e <= i.end
      PROVE  /\ BusinessTicks(c, e) \in Nat /\ BusinessTicks(c, e) >= e - s
             /\ WithinDays => BusinessTicks(c, e) = e - s
             /\ BusinessTicks(o, e) = BusinessTicks(o, c) + BusinessTicks(c, e)
             /\ BusinessTicks(o, c) \in Nat
  <2>1. /\ BusinessTicks(c, e) >= e - s
        /\ \A bound \in Int : Covers(c, bound, todo) /\ i.start <= bound
             => BusinessTicks(c, e) = e - s
    <3>1. /\ IsSchedule(schedule) /\ d \in Int /\ todo \in SUBSET OpenIntervalsForLocalDay(d)
          /\ i \in todo /\ ComesFirst(i, todo) /\ c \in Nat
          /\ e \in Int /\ Later(i.start, c) <= e /\ e <= i.end
      BY <1>1, <1>2, <1>5, <1>7, <1>9
    <3> HIDE DEF c, todo
    <3> QED BY <3>1, VisitCounts
  <2>2. WithinDays => BusinessTicks(c, e) = e - s
    BY <1>6, <1>7, <2>1
  <2>3. o \in Int /\ c \in Int /\ c <= e
    BY <1>7, <1>8, <1>9
  <2>4. BusinessTicks(o, e) = BusinessTicks(o, c) + BusinessTicks(c, e)
    BY <1>3, <2>3, TicksAdd
  <2> QED BY <2>1, <2>2, <2>3, <2>4, TicksTyped
<1> HIDE DEF b, c, o, s
<1>10. CASE /\ i.end - s <= 0
            /\ clock' = [clock EXCEPT !.todo = @ \ {i}]
            /\ UNCHANGED <<schedule, target>>
  <2>1. /\ clock'.op = "add" /\ clock'.cursor = c /\ clock'.left = clock.left
        /\ clock'.todo = todo \ {i} /\ clock'.at = "day"
    BY <1>1, <1>2, <1>10 DEF Clock, c
  <2>2. i.end <= c
    BY <1>7, <1>8, <1>10
  <2>3. WithinDays => Covers(c, b, todo \ {i})
    BY <1>6, <1>7, <2>2, VisitedCovers
  <2>4. AddsOn(d, c, todo \ {i})
    BY <1>5, <1>6, <2>3 DEF AddsOn, b
  <2>5. Adds(target, clock')
    BY <1>2, <1>3, <2>1, <2>4 DEF Adds, ClockStands, o
  <2> QED BY <1>10, <2>1, <2>5, AddGoesOn
<1>11. CASE /\ i.end - s > 0 /\ HoldsDue(clock.left, i.end - s)
            /\ AddReturns(s + clock.left)
  <2> DEFINE due == s + clock.left
  <2>1. due \in Int /\ s <= due /\ due <= i.end /\ due \in Nat /\ due # NoTime
    BY <1>7, <1>8, <1>11 DEF HoldsDue, NoTime
  <2>2. /\ BusinessTicks(o, due) >= Amount(target)
        /\ WithinDays => BusinessTicks(o, due) = Amount(target)
    <3>1. due - s = clock.left
      BY <1>7, <1>8
    <3> HIDE DEF due
    <3> QED BY <1>3, <1>7, <1>9, <2>1, <3>1
  <2>3. o <= due
    BY <1>3, <1>7, <1>8
  <2>4. IsOpenAt(due - 1)
    <3>1. due - 1 \in Nat /\ i.start <= due - 1 /\ due - 1 < i.end
      BY <1>3, <1>7, <1>8, <2>1
    <3> QED BY <1>1, <1>5, <3>1, IntervalsAreOpen
  <2> HIDE DEF due
  <2>5. AddReturns(due)
    BY <1>11 DEF due
  <2> QED BY <1>2, <2>1, <2>2, <2>3, <2>4, <2>5, AddReturnsStands DEF o
<1>12. CASE /\ i.end - s > 0 /\ ~HoldsDue(clock.left, i.end - s)
            /\ clock' = [clock EXCEPT !.left = @ - (i.end - s), !.cursor = i.end,
                                      !.todo = @ \ {i}]
            /\ UNCHANGED <<schedule, target>>
  <2>1. /\ clock'.op = "add" /\ clock'.cursor = i.end /\ clock'.left = clock.left - (i.end - s)
        /\ clock'.todo = todo \ {i} /\ clock'.at = "day"
    BY <1>1, <1>2, <1>12 DEF Clock
  <2>2. s <= i.end /\ i.end <= i.end /\ i.end \in Nat /\ c <= i.end /\ o <= i.end
        /\ clock.left - (i.end - s) > 0
    BY <1>3, <1>7, <1>8, <1>12 DEF HoldsDue
  <2>3. /\ BusinessTicks(o, i.end) >= Amount(target) - (clock.left - (i.end - s))
        /\ WithinDays => BusinessTicks(o, i.end) = Amount(target) - (clock.left - (i.end - s))
    <3>1. /\ BusinessTicks(c, i.end) \in Nat /\ BusinessTicks(c, i.end) >= i.end - s
          /\ WithinDays => BusinessTicks(c, i.end) = i.end - s
          /\ BusinessTicks(o, i.end) = BusinessTicks(o, c) + BusinessTicks(c, i.end)
          /\ BusinessTicks(o, c) \in Nat
      BY <1>7, <1>9, <2>2
    <3> QED BY <1>3, <1>7, <1>8, <3>1
  <2>4. WithinDays => Covers(i.end, b, todo \ {i})
    BY <1>6, <1>7, <2>2, VisitedCovers
  <2>5. AddsOn(d, i.end, todo \ {i})
    BY <1>5, <1>7, <2>4 DEF AddsOn, b
  <2>6. Adds(target, clock')
    BY <1>2, <2>1, <2>2, <2>3, <2>5 DEF Adds, ClockStands, o
  <2> QED BY <1>12, <2>1, <2>6, AddGoesOn
<1> QED BY <1>2, <1>10, <1>11, <1>12 DEF s, c

LEMMA AddNextDayStands ==
  ASSUME ClockTyped, ClockStands(target, clock), AddNextDay
  PROVE  ClockStands(target', clock')
<1>1. target \in Target /\ clock \in Clock
  BY DEF ClockTyped, ClockTypeOK
<1> DEFINE c == clock.cursor
           o == Origin(target)
           n == NextDay(c)
<1>2. /\ clock'.op = "add" /\ clock'.at = "search" /\ clock'.cursor = n /\ clock'.left = clock.left
      /\ UNCHANGED <<schedule, target>>
  BY <1>1 DEF AddNextDay, Clock
<1>3. /\ o <= c /\ clock.left > 0 /\ BusinessTicks(o, c) >= Amount(target) - clock.left
      /\ WithinDays => BusinessTicks(o, c) = Amount(target) - clock.left
      /\ target.phase \in {"starting", "resuming"}
  BY DEF ClockStands, Adds, AddNextDay
<1>4. PICK d \in Nat : AddsOn(d, c, {})
  BY DEF ClockStands, Adds, AddNextDay
<1>5. c \in Nat /\ n \in Nat /\ c < n /\ o \in Nat /\ Amount(target) \in Nat /\ clock.left \in Nat
  BY <1>1, NextDayIsLater, ClockFields, OriginTyped
<1>6. WithinDays => BusinessTicks(c, n) = 0
  <2>1. SUFFICES ASSUME WithinDays PROVE BusinessTicks(c, n) = 0
    OBVIOUS
  <2>2. c < (d + 1) * DayLength /\ Covers(c, (d + 1) * DayLength, {})
    BY <1>4, <2>1 DEF AddsOn
  <2>3. DayOf(c) \in Nat /\ DayOf(c) * DayLength <= c
    BY <1>5, DayBounds
  <2>4. /\ DayOf(c) * DayLength \in Int /\ (d + 1) * DayLength \in Int
        /\ (DayOf(c) + 1) * DayLength \in Int
    BY <2>3, ClockConstants
  <2>5. d < DayOf(c) => (d + 1) * DayLength <= DayOf(c) * DayLength
    BY <2>3, DaysAscend
  <2>6. DayOf(c) <= d
    BY <1>5, <2>2, <2>3, <2>4, <2>5
  <2>7. (DayOf(c) + 1) * DayLength <= (d + 1) * DayLength
    BY <2>3, <2>6, DaysAscend
  <2>8. n <= (d + 1) * DayLength
    BY <2>7 DEF NextDay
  <2>9. ASSUME NEW t \in c..(n - 1), IsOpenAt(t) PROVE FALSE
    <3>1. t \in Nat /\ c <= t /\ t < (d + 1) * DayLength
      BY <1>5, <2>4, <2>8, <2>9
    <3> QED BY <2>2, <2>9, <3>1 DEF Covers
  <2>10. c \in Int /\ n \in Int
    BY <1>5
  <2> HIDE DEF n, c
  <2> QED BY <2>9, <2>10, NoTicks
<1>7. /\ BusinessTicks(o, n) = BusinessTicks(o, c) + BusinessTicks(c, n)
      /\ BusinessTicks(c, n) \in Nat /\ BusinessTicks(o, c) \in Nat
  <2>1. o \in Int /\ c \in Int /\ n \in Int /\ o <= c /\ c <= n
    BY <1>3, <1>5
  <2> HIDE DEF n, c, o
  <2> QED BY <2>1, TicksAdd, TicksTyped
<1>8. /\ o <= n /\ BusinessTicks(o, n) >= Amount(target) - clock.left
      /\ WithinDays => BusinessTicks(o, n) = Amount(target) - clock.left
  <2> HIDE DEF n, c, o
  <2> QED BY <1>3, <1>5, <1>6, <1>7
<1>9. Adds(target, clock')
  BY <1>2, <1>3, <1>8 DEF Adds
<1> QED BY <1>2, <1>9, AddGoesOn

-----------------------------------------------------------------------------
\* remainingBusinessMs: a step of it keeps the invariant.

LEMMA EmptyTicks ==
  ASSUME NEW a \in Int
  PROVE  BusinessTicks(a, a) = 0
BY NoTicks

\* A call of addBusinessMs begins with nothing counted.
LEMMA AddBegins ==
  ASSUME NEW tg \in Target, tg.phase \in {"starting", "resuming"},
         NEW from \in Nat, from = Origin(tg), Amount(tg) > 0
  PROVE  Adds(tg, Adding(from, Amount(tg)))
<1>1. Amount(tg) \in Nat
  BY OriginTyped
<1>2. BusinessTicks(from, from) = 0
  BY EmptyTicks
<1> DEFINE ck == Adding(from, Amount(tg))
<1>3. ck.at = "search" /\ ck.cursor = from /\ ck.left = Amount(tg)
  BY DEF Adding, NoCall
<1> HIDE DEF ck
<1>4. Adds(tg, ck)
  BY <1>1, <1>2, <1>3 DEF Adds
<1> QED BY <1>4 DEF ck

\* It returns all the business time there is from the pause to the due date.
LEMMA RemainingReturnsStands ==
  ASSUME ClockTyped, ClockStands(target, clock), clock.op = "remaining",
         NEW n \in Nat, RemainingReturns(n),
         WithinDays /\ Reaches => n = BusinessTicks(target.pausedAt, target.dueAt)
  PROVE  ClockStands(target', clock')
<1>1. target \in Target /\ target.phase = "measuring"
  BY DEF ClockTyped, ClockTypeOK, ClockStands, Measures
<1>2. /\ target.startedAt \in Nat /\ target.pausedAt \in Nat /\ target.dueAt \in Nat
      /\ target.resumedAt \in Nat /\ target.budget \in Nat
      /\ target.startedAt <= target.pausedAt /\ target.pausedAt < target.dueAt
      /\ BusinessTicks(target.startedAt, target.dueAt) >= target.budget
      /\ WithinDays => /\ BusinessTicks(target.startedAt, target.dueAt) = target.budget
                       /\ IsOpenAt(target.dueAt - 1)
  BY <1>1, TargetFields DEF ClockStands, Promised
<1>3. /\ BusinessTicks(target.startedAt, target.dueAt)
           = BusinessTicks(target.startedAt, target.pausedAt)
             + BusinessTicks(target.pausedAt, target.dueAt)
      /\ BusinessTicks(target.startedAt, target.pausedAt) \in Nat
      /\ BusinessTicks(target.pausedAt, target.dueAt) \in Nat
  <2>1. /\ target.startedAt \in Int /\ target.pausedAt \in Int /\ target.dueAt \in Int
        /\ target.startedAt <= target.pausedAt /\ target.pausedAt <= target.dueAt
    BY <1>2
  <2> QED BY <2>1, TicksAdd, TicksTyped
<1>4. WithinDays /\ Reaches => BusinessTicks(target.startedAt, target.pausedAt) + n = target.budget
  BY <1>2, <1>3
<1>5. CASE /\ n = 0
           /\ target' = [target EXCEPT !.phase = "resumed", !.remaining = 0,
                                       !.dueAt = target.resumedAt]
           /\ clock' = NoCall
  <2>1. /\ target'.phase = "resumed" /\ target'.dueAt = target.resumedAt
        /\ target'.remaining = 0 /\ target'.budget = target.budget
        /\ target'.startedAt = target.startedAt /\ target'.pausedAt = target.pausedAt
    BY <1>1, <1>5 DEF Target
  <2>2. ~(WithinDays /\ Reaches)
    <3>1. SUFFICES ASSUME WithinDays, Reaches PROVE FALSE
      OBVIOUS
    <3> DEFINE last == target.dueAt - 1
    <3>2. last \in Nat /\ target.pausedAt <= last /\ IsOpenAt(last) /\ target.dueAt = last + 1
      BY <1>2, <3>1
    <3> HIDE DEF last
    <3>3. BusinessTicks(last, last + 1) = (last + 1) - last
      <4>1. \A t \in last..((last + 1) - 1) : t = last
        BY <3>2
      <4>2. last \in Int /\ last + 1 \in Int /\ last <= last + 1
        BY <3>2
      <4> QED BY <3>2, <4>1, <4>2, AllTicks
    <3>4. /\ BusinessTicks(target.pausedAt, target.dueAt)
               = BusinessTicks(target.pausedAt, last) + BusinessTicks(last, last + 1)
          /\ BusinessTicks(target.pausedAt, last) \in Nat
      <4>1. /\ target.pausedAt \in Int /\ last \in Int /\ last + 1 \in Int
            /\ target.pausedAt <= last /\ last <= last + 1
        BY <1>2, <3>2
      <4>2. BusinessTicks(target.pausedAt, last + 1)
              = BusinessTicks(target.pausedAt, last) + BusinessTicks(last, last + 1)
        BY <4>1, TicksAdd
      <4>3. BusinessTicks(target.pausedAt, last) \in Nat
        BY <4>1, TicksTyped
      <4> QED BY <3>2, <4>2, <4>3
    <3> QED BY <1>5, <3>1, <3>2, <3>3, <3>4
  <2>3. target'.dueAt # NoTime
    BY <1>2, <2>1 DEF NoTime
  <2>4. Promised(target')
    BY <2>1, <2>2, <2>3 DEF Promised
  <2>5. clock'.op = "none"
    BY <1>5 DEF NoCall
  <2> QED BY <2>4, <2>5 DEF ClockStands, Adds, Measures
<1>6. CASE /\ n > 0
           /\ target' = [target EXCEPT !.phase = "resuming", !.remaining = n]
           /\ clock' = Adding(target.resumedAt, n)
  <2>1. /\ target'.phase = "resuming" /\ target'.dueAt = target.dueAt
        /\ target'.remaining = n /\ target'.budget = target.budget
        /\ target'.startedAt = target.startedAt /\ target'.pausedAt = target.pausedAt
        /\ target'.resumedAt = target.resumedAt
    BY <1>1, <1>6 DEF Target
  <2>2. Promised(target')
    BY <1>2, <1>4, <2>1 DEF Promised, NoTime
  <2>3. target' \in Target
    BY <1>1, <1>6 DEF Target
  <2>4. Origin(target') = target.resumedAt /\ Amount(target') = n
    BY <2>1 DEF Origin, Amount
  <2>5. Adds(target', clock')
    BY <1>2, <1>6, <2>1, <2>3, <2>4, AddBegins
  <2>6. clock'.op = "add"
    BY <1>6 DEF Adding, NoCall
  <2> QED BY <2>2, <2>5, <2>6 DEF ClockStands, Measures
<1> QED BY <1>5, <1>6 DEF RemainingReturns

\* The call of remainingBusinessMs goes on; the target waits.
LEMMA MeasureGoesOn ==
  ASSUME ClockStands(target, clock), target' = target, clock'.op = "remaining",
         Measures(target, clock')
  PROVE  ClockStands(target', clock')
BY DEF ClockStands, Adds

LEMMA RemainingSearchStands ==
  ASSUME ClockTyped, ClockStands(target, clock), RemainingSearch
  PROVE  ClockStands(target', clock')
<1>1. IsSchedule(schedule) /\ target \in Target /\ clock \in Clock /\ clock.op = "remaining"
  BY DEF ClockTyped, ClockTypeOK, RemainingSearch
<1> DEFINE c == clock.cursor
           u == clock.until
           p == target.pausedAt
<1>2. /\ target.phase = "measuring" /\ u = target.dueAt /\ p <= c /\ c <= u
      /\ WithinDays => clock.total = BusinessTicks(p, c)
  BY <1>1 DEF ClockStands, Measures
<1>3. c \in Nat /\ u \in Nat /\ p \in Nat /\ clock.total \in Nat
  BY <1>1, ClockFields, TargetFields
<1>4. BusinessTicks(p, u) = BusinessTicks(p, c) + BusinessTicks(c, u)
      /\ BusinessTicks(p, c) \in Nat
  <2>1. p \in Int /\ c \in Int /\ u \in Int
    BY <1>3
  <2> HIDE DEF p, c, u
  <2> QED BY <1>2, <2>1, TicksAdd, TicksTyped
<1>5. ASSUME RemainingReturns(clock.total), WithinDays /\ Reaches => BusinessTicks(c, u) = 0
      PROVE  ClockStands(target', clock')
  <2>1. WithinDays /\ Reaches => clock.total = BusinessTicks(p, target.dueAt)
    <3>1. WithinDays /\ Reaches => clock.total = BusinessTicks(p, u)
      <4> HIDE DEF p, c, u
      <4> QED BY <1>2, <1>3, <1>4, <1>5
    <3> QED BY <1>2, <3>1
  <2> QED BY <1>1, <1>3, <1>5, <2>1, RemainingReturnsStands
<1>6. CASE c >= u /\ RemainingReturns(clock.total)
  <2>1. c = u
    BY <1>2, <1>3, <1>6
  <2>2. BusinessTicks(c, u) = 0
    <3> HIDE DEF c, u
    <3> QED BY <1>3, <2>1, EmptyTicks
  <2> QED BY <1>5, <1>6, <2>2
<1>7. CASE DaysAhead(c) = {} /\ RemainingReturns(clock.total)
  <2>1. ASSUME WithinDays, Reaches PROVE BusinessTicks(c, u) = 0
    <3> HIDE DEF c, u
    <3>1. \A i \in DOMAIN schedule.hours : schedule.hours[i] = {}
      BY <1>1, <1>3, <1>7, <2>1, DaysAheadExist DEF Reaches
    <3>2. \A t \in c..(u - 1) : t \in Nat
      BY <1>3
    <3>3. \A t \in c..(u - 1) : ~IsOpenAt(t)
      BY <1>1, <3>1, <3>2, NeverOpen
    <3> QED BY <1>3, <3>3, NoTicks
  <2> QED BY <1>5, <1>7, <2>1
<1>8. CASE \E day \in DaysAhead(c) :
             /\ FirstAhead(day, c) /\ LeftBefore(day, c, u) = {}
             /\ RemainingReturns(clock.total)
  <2>1. PICK day \in DaysAhead(c) :
             /\ FirstAhead(day, c) /\ LeftBefore(day, c, u) = {}
             /\ RemainingReturns(clock.total)
    BY <1>8
  <2>2. ASSUME WithinDays, Reaches PROVE BusinessTicks(c, u) = 0
    <3> HIDE DEF c, u
    <3> QED BY <1>1, <1>3, <2>1, <2>2, NothingBefore
  <2> QED BY <1>5, <2>1, <2>2
<1>9. CASE \E day \in DaysAhead(c) :
             /\ c < u /\ FirstAhead(day, c) /\ LeftBefore(day, c, u) # {}
             /\ clock' = [clock EXCEPT !.at = "day", !.todo = LeftBefore(day, c, u),
                                       !.progressed = FALSE]
             /\ UNCHANGED <<schedule, target>>
  <2>1. PICK day \in DaysAhead(c) :
             /\ c < u /\ FirstAhead(day, c) /\ LeftBefore(day, c, u) # {}
             /\ clock' = [clock EXCEPT !.at = "day", !.todo = LeftBefore(day, c, u),
                                       !.progressed = FALSE]
             /\ UNCHANGED <<schedule, target>>
    BY <1>9
  <2> DEFINE found == LeftBefore(day, c, u)
  <2>2. /\ clock'.op = "remaining" /\ clock'.cursor = c /\ clock'.until = u
        /\ clock'.total = clock.total /\ clock'.progressed = FALSE /\ clock'.todo = found
    BY <1>1, <2>1 DEF Clock
  <2>3. day \in Nat /\ found \subseteq OpenIntervalsForLocalDay(day)
    BY <1>1, <1>3, <2>1, LeftTyped DEF LeftBefore
  <2>4. \A i \in found : i.start < u /\ i.end > c
    BY DEF LeftBefore, LeftOf
  <2>5. ASSUME WithinDays PROVE Covers(c, Earlier(u, (day + 1) * DayLength), found)
    <3> HIDE DEF c, u
    <3> DEFINE b == (day + 1) * DayLength
    <3>1. Covers(c, b, LeftOf(day, c)) /\ b \in Int
      BY <1>1, <1>3, <2>1, <2>3, <2>5, FirstDayCovers, ClockConstants
    <3> HIDE DEF b
    <3>2. Earlier(u, b) \in Int /\ Earlier(u, b) <= u /\ Earlier(u, b) <= b
      BY <1>3, <3>1 DEF Earlier
    <3>3. ASSUME NEW t \in Nat, c <= t, t < Earlier(u, b), IsOpenAt(t)
          PROVE  \E i \in found : i.start <= t /\ t < i.end
      <4>1. t < b /\ t < u
        BY <1>3, <3>1, <3>2, <3>3
      <4>2. PICK i \in LeftOf(day, c) : i.start <= t /\ t < i.end
        BY <3>1, <3>3, <4>1 DEF Covers
      <4>3. i.start \in Int
        BY <1>1, <1>3, <2>1, <4>2, LeftTyped DEF Interval
      <4>4. i \in found
        BY <1>3, <4>1, <4>2, <4>3 DEF LeftBefore
      <4> QED BY <4>2, <4>4
    <3> QED BY <3>3 DEF Covers, b
  <2>6. MeasuresOn(day, c, u, FALSE, found)
    BY <2>1, <2>3, <2>4, <2>5 DEF MeasuresOn
  <2>7. Measures(target, clock')
    <3> HIDE DEF c, u, p, found
    <3>1. clock'.until = target.dueAt /\ p <= clock'.cursor /\ clock'.cursor <= clock'.until
      BY <1>2, <2>2
    <3>2. MeasuresOn(day, clock'.cursor, clock'.until, clock'.progressed, clock'.todo)
      BY <2>2, <2>6
    <3> QED BY <1>2, <2>2, <2>3, <3>1, <3>2 DEF Measures, p
  <2> QED BY <2>1, <2>2, <2>7, MeasureGoesOn
<1> QED BY <1>6, <1>7, <1>8, <1>9 DEF RemainingSearch

LEMMA RemainingIntervalStands ==
  ASSUME ClockTyped, ClockStands(target, clock), RemainingInterval
  PROVE  ClockStands(target', clock')
<1>1. IsSchedule(schedule) /\ target \in Target /\ clock \in Clock
  BY DEF ClockTyped, ClockTypeOK
<1> DEFINE c == clock.cursor
           u == clock.until
           p == target.pausedAt
           todo == clock.todo
<1>2. PICK i \in todo :
        LET openStart == Later(i.start, c)
            openEnd == Earlier(i.end, u)
        IN  /\ clock.op = "remaining" /\ clock.at = "day" /\ c < u
            /\ ComesFirst(i, todo)
            /\ clock' = IF openStart < openEnd
                        THEN [clock EXCEPT !.total = @ + (openEnd - openStart), !.cursor = openEnd,
                                           !.progressed = TRUE, !.todo = @ \ {i}]
                        ELSE [clock EXCEPT !.todo = @ \ {i}]
            /\ UNCHANGED <<schedule, target>>
  BY DEF RemainingInterval
<1> DEFINE s == Later(i.start, c)
           e == Earlier(i.end, u)
<1>3. /\ target.phase = "measuring" /\ u = target.dueAt /\ p <= c /\ c <= u
      /\ WithinDays => clock.total = BusinessTicks(p, c)
  BY <1>2 DEF ClockStands, Measures
<1>4. PICK d \in Nat : MeasuresOn(d, c, u, clock.progressed, todo)
  BY <1>2 DEF ClockStands, Measures
<1> DEFINE b == (d + 1) * DayLength
           bound == Earlier(u, b)
<1>5. /\ todo \in SUBSET OpenIntervalsForLocalDay(d) /\ d \in Int
      /\ \A j \in todo : j.start < u
      /\ WithinDays => Covers(c, bound, todo)
      /\ ~clock.progressed => \A j \in todo : j.end > c
  BY <1>4 DEF MeasuresOn
<1>6. /\ c \in Nat /\ u \in Nat /\ p \in Nat /\ clock.total \in Nat /\ b \in Int
      /\ i.start \in Int /\ i.end \in Int /\ i.start < i.end /\ i.start < b /\ i.start < u
  BY <1>1, <1>2, <1>5, IntervalBounds, ClockFields, TargetFields, ClockConstants DEF Interval
<1>7. /\ s \in Nat /\ c <= s /\ (s = c \/ s = i.start) /\ i.start <= s
      /\ e \in Int /\ e <= i.end /\ e <= u /\ (e = i.end \/ e = u)
      /\ bound \in Int /\ bound <= u /\ i.start <= bound
  BY <1>6 DEF Later, Earlier
<1>8. CASE s < e
  <2>1. /\ clock'.op = "remaining" /\ clock'.cursor = e /\ clock'.until = u
        /\ clock'.total = clock.total + (e - s) /\ clock'.progressed = TRUE
        /\ clock'.todo = todo \ {i}
    <3>1. clock' = [clock EXCEPT !.total = @ + (e - s), !.cursor = e, !.progressed = TRUE,
                                 !.todo = @ \ {i}]
      BY <1>2, <1>8
    <3> HIDE DEF s, e
    <3> QED BY <1>1, <1>2, <3>1 DEF Clock
  <2>2. WithinDays => BusinessTicks(c, e) = e - s
    <3>1. /\ IsSchedule(schedule) /\ d \in Int /\ todo \in SUBSET OpenIntervalsForLocalDay(d)
          /\ i \in todo /\ ComesFirst(i, todo) /\ c \in Nat
          /\ e \in Int /\ Later(i.start, c) <= e /\ e <= i.end
      BY <1>1, <1>2, <1>5, <1>6, <1>7, <1>8
    <3>2. bound \in Int /\ i.start <= bound /\ (WithinDays => Covers(c, bound, todo))
      BY <1>5, <1>7
    <3> HIDE DEF c, todo, e, bound
    <3>3. \A h \in Int : Covers(c, h, todo) /\ i.start <= h
            => BusinessTicks(c, e) = e - Later(i.start, c)
      BY <3>1, VisitCounts
    <3> QED BY <3>2, <3>3
  <2>3. WithinDays => BusinessTicks(p, e) = clock.total + (e - s)
    <3>1. /\ p \in Int /\ c \in Int /\ e \in Int /\ p <= c /\ c <= e
      BY <1>3, <1>6, <1>7, <1>8
    <3> HIDE DEF p, c, e, s
    <3>2. BusinessTicks(p, e) = BusinessTicks(p, c) + BusinessTicks(c, e)
      BY <3>1, TicksAdd
    <3> QED BY <1>3, <2>2, <3>2
  <2>4. WithinDays => Covers(e, bound, todo \ {i})
    <3>1. CASE e = i.end
      <4>1. e \in Nat /\ c <= e /\ i.end <= e
        BY <1>6, <1>7, <1>8, <3>1
      <4> HIDE DEF c, e, bound, todo
      <4> QED BY <1>5, <1>6, <1>7, <4>1, <1>2, VisitedCovers
    <3>2. CASE e = u
      <4>1. \A t \in Nat : ~(e <= t /\ t < bound)
        <5> HIDE DEF e, u, bound
        <5> QED BY <1>6, <1>7, <3>2
      <4> QED BY <4>1 DEF Covers
    <3> QED BY <1>7, <3>1, <3>2
  <2>5. MeasuresOn(d, e, u, TRUE, todo \ {i})
    BY <1>5, <2>4 DEF MeasuresOn
  <2>6. p <= e
    BY <1>3, <1>6, <1>7, <1>8
  <2>7. Measures(target, clock')
    <3> HIDE DEF c, u, p, todo, s, e
    <3>1. clock'.until = target.dueAt /\ p <= clock'.cursor /\ clock'.cursor <= clock'.until
      BY <1>3, <1>7, <2>1, <2>6
    <3>2. MeasuresOn(d, clock'.cursor, clock'.until, clock'.progressed, clock'.todo)
      BY <2>1, <2>5
    <3>3. WithinDays => clock'.total = BusinessTicks(p, clock'.cursor)
      BY <2>1, <2>3
    <3> QED BY <1>3, <3>1, <3>2, <3>3 DEF Measures, p
  <2> QED BY <1>2, <2>1, <2>7, MeasureGoesOn
<1>9. CASE ~(s < e)
  <2>1. /\ clock'.op = "remaining" /\ clock'.cursor = c /\ clock'.until = u
        /\ clock'.total = clock.total /\ clock'.progressed = clock.progressed
        /\ clock'.todo = todo \ {i}
    BY <1>1, <1>2, <1>9 DEF Clock
  <2>2. i.end <= c
    BY <1>2, <1>6, <1>7, <1>9
  <2>3. clock.progressed
    BY <1>5, <1>6, <2>2
  <2>4. WithinDays => Covers(c, bound, todo \ {i})
    <3> HIDE DEF c, bound, todo
    <3> QED BY <1>2, <1>5, <1>6, <1>7, <2>2, VisitedCovers
  <2>5. MeasuresOn(d, c, u, clock.progressed, todo \ {i})
    BY <1>5, <2>3, <2>4 DEF MeasuresOn
  <2>6. Measures(target, clock')
    <3> HIDE DEF c, u, p, todo
    <3>1. MeasuresOn(d, clock'.cursor, clock'.until, clock'.progressed, clock'.todo)
      BY <2>1, <2>5
    <3> QED BY <1>3, <2>1, <3>1 DEF Measures, p
  <2> QED BY <1>2, <2>1, <2>6, MeasureGoesOn
<1> QED BY <1>8, <1>9

LEMMA RemainingNextStands ==
  ASSUME ClockTyped, ClockStands(target, clock), RemainingNext
  PROVE  ClockStands(target', clock')
<1>1. clock \in Clock
  BY DEF ClockTyped, ClockTypeOK
<1>2. clock.progressed
  <2>1. PICK d \in Nat : MeasuresOn(d, clock.cursor, clock.until, clock.progressed, clock.todo)
    BY DEF ClockStands, Measures, RemainingNext
  <2>2. clock.cursor \in Nat /\ clock.until \in Nat
    BY <1>1, ClockFields
  <2> QED BY <2>1, <2>2 DEF MeasuresOn, RemainingNext
<1>3. /\ clock'.op = "remaining" /\ clock'.at = "search" /\ clock'.cursor = clock.cursor
      /\ clock'.until = clock.until /\ clock'.total = clock.total
      /\ UNCHANGED <<schedule, target>>
  BY <1>1, <1>2 DEF RemainingNext, Clock
<1>4. Measures(target, clock')
  BY <1>3 DEF Measures, ClockStands, RemainingNext
<1> QED BY <1>3, <1>4, MeasureGoesOn

-----------------------------------------------------------------------------
\* The engine's steps keep the invariant.

LEMMA StartTargetStands ==
  ASSUME ClockTyped, ClockStands(target, clock),
         NEW now \in Nat, NEW budget \in Budgets, StartTarget(now, budget), ClockTyped'
  PROVE  ClockStands(target', clock')
<1>1. target \in Target /\ target' \in Target /\ target.phase = "none" /\ target.dueAt = NoTime
  <2>1. target' \in Target
    BY DEF ClockTyped, ClockTypeOK, Target
  <2> QED BY <2>1 DEF ClockTyped, ClockTypeOK, StartTarget, ClockStands, Promised
<1>2. budget \in Nat \ {0}
  BY ClockConstants
<1>3. /\ target'.phase = "starting" /\ target'.budget = budget /\ target'.startedAt = now
      /\ target'.dueAt = NoTime /\ clock' = Adding(now, budget)
  BY <1>1 DEF StartTarget, Target
<1>4. Origin(target') = now /\ Amount(target') = budget
  BY <1>3 DEF Origin, Amount
<1>5. Adds(target', clock')
  BY <1>1, <1>2, <1>3, <1>4, AddBegins
<1>6. clock'.op = "add"
  BY <1>3 DEF Adding, NoCall
<1>7. Promised(target')
  BY <1>3 DEF Promised
<1> QED BY <1>5, <1>6, <1>7 DEF ClockStands, Measures

LEMMA PauseTargetStands ==
  ASSUME ClockTyped, ClockStands(target, clock), NEW now \in Nat, PauseTarget(now)
  PROVE  ClockStands(target', clock')
<1>1. target \in Target /\ target.phase = "running"
  BY DEF ClockTyped, ClockTypeOK, PauseTarget
<1>2. clock.op # "add" /\ clock.op # "remaining" /\ clock' = clock
  BY <1>1 DEF ClockStands, Adds, Measures, PauseTarget
<1>3. /\ target'.phase = "paused" /\ target'.pausedAt = now /\ target'.dueAt = target.dueAt
      /\ target'.startedAt = target.startedAt /\ target'.budget = target.budget
  BY <1>1 DEF PauseTarget, Target
<1>4. target.startedAt <= now /\ now < target.dueAt /\ target.dueAt # NoTime
  <2>1. target.dueAt \in Int /\ target.startedAt \in Nat
    BY <1>1, TargetFields DEF NoTime
  <2> QED BY <2>1 DEF PauseTarget, NoTime
<1>5. Promised(target')
  BY <1>1, <1>3, <1>4 DEF Promised, ClockStands
<1> QED BY <1>2, <1>5 DEF ClockStands, Adds, Measures

LEMMA ResumeTargetStands ==
  ASSUME ClockTyped, ClockStands(target, clock), NEW now \in Nat, ResumeTarget(now)
  PROVE  ClockStands(target', clock')
<1>1. target \in Target /\ target.phase = "paused"
  BY DEF ClockTyped, ClockTypeOK, ResumeTarget
<1>2. /\ target'.phase = "measuring" /\ target'.pausedAt = target.pausedAt
      /\ target'.dueAt = target.dueAt /\ target'.startedAt = target.startedAt
      /\ target'.budget = target.budget
  BY <1>1 DEF ResumeTarget, Target
<1>3. /\ clock'.op = "remaining" /\ clock'.at = "search" /\ clock'.cursor = target.pausedAt
      /\ clock'.until = target.dueAt /\ clock'.total = 0
  BY DEF ResumeTarget, Counting, NoCall
<1>4. Promised(target')
  BY <1>1, <1>2 DEF Promised, ClockStands
<1>5. /\ target.pausedAt \in Nat /\ target.dueAt \in Nat /\ target.pausedAt < target.dueAt
  BY <1>1, TargetFields DEF ClockStands, Promised
<1>6. BusinessTicks(target.pausedAt, target.pausedAt) = 0
  BY <1>5, EmptyTicks
<1>7. Measures(target', clock')
  BY <1>2, <1>3, <1>5, <1>6 DEF Measures
<1> QED BY <1>3, <1>4, <1>7 DEF ClockStands, Adds

LEMMA ClockInvKeeps ==
  ASSUME ClockInv, [ClockNext]_clockVars
  PROVE  ClockInv'
<1>1. ClockTyped /\ ClockStands(target, clock)
  BY DEF ClockInv
<1>2. ClockTyped'
  BY <1>1, ClockTypedKeeps
<1>3. schedule' = schedule
  BY DEF ClockNext, clockVars, AddSearch, AddInterval, AddNextDay, AddReturns, RemainingSearch,
         RemainingInterval, RemainingNext, RemainingReturns, StartTarget, PauseTarget, ResumeTarget
<1>4. ClockStands(target', clock')
  <2>1. CASE UNCHANGED clockVars
    BY <1>1, <2>1 DEF clockVars
  <2>2. ASSUME NEW now \in 0..MaxTime,
               \/ \E budget \in Budgets : StartTarget(now, budget)
               \/ PauseTarget(now)
               \/ ResumeTarget(now)
        PROVE  ClockStands(target', clock')
    <3>1. now \in Nat
      BY ClockConstants
    <3> QED BY <1>1, <1>2, <2>2, <3>1, StartTargetStands, PauseTargetStands, ResumeTargetStands
  <2> QED BY <1>1, <2>1, <2>2, AddSearchStands, AddIntervalStands, AddNextDayStands,
             RemainingSearchStands, RemainingIntervalStands, RemainingNextStands DEF ClockNext
<1>5. PICK tg, ck : tg = target' /\ ck = clock' /\ ClockStands(tg, ck)
  BY <1>4
<1>6. ClockStands(tg, ck)'
  BY <1>3, <1>5, StandsStill
<1> QED BY <1>2, <1>5, <1>6 DEF ClockInv

LEMMA ClockInvInit ==
  ASSUME ClockInit
  PROVE  ClockInv
<1>1. ClockTyped
  BY ClockConstants, CallsTyped DEF ClockInit, ClockTyped, ClockTypeOK, NoTarget, Target
<1>2. ClockStands(target, clock)
  BY DEF ClockInit, NoTarget, NoCall, ClockStands, Adds, Measures, Promised
<1> QED BY <1>1, <1>2 DEF ClockInv

LEMMA ClockInvMeans ==
  ASSUME ClockInv
  PROVE  NeverDueEarly /\ (HorizonReaches(schedule) => ClockKeepsTime)
<1>1. target \in Target /\ Promised(target)
  BY DEF ClockInv, ClockTyped, ClockTypeOK, ClockStands
<1>2. NeverDueEarly
  BY <1>1, TargetFields DEF NeverDueEarly, Promised
<1>3. HorizonReaches(schedule) => GivesUpOnlyWhenClosed
  BY <1>1 DEF GivesUpOnlyWhenClosed, Promised, Reaches, ClosedForGood
<1>4. ASSUME HorizonReaches(schedule), WithinDays, target.dueAt # NoTime
      PROVE  LET had == IF target.phase = "resumed"
                        THEN BusinessTicks(target.startedAt, target.pausedAt)
                             + BusinessTicks(target.resumedAt, target.dueAt)
                        ELSE BusinessTicks(target.startedAt, target.dueAt)
             IN  had = target.budget /\ IsOpenAt(target.dueAt - 1)
  BY <1>1, <1>4, TargetFields DEF Promised, Reaches
<1> QED BY <1>2, <1>3, <1>4 DEF ClockKeepsTime, DueIsExact

\* The clock keeps the business time that was promised (ClockKeepsTime), for every
\* schedule that is open, if ever, within the days a search looks ahead.
THEOREM ClockKept == ClockSpec => [](NeverDueEarly /\ (HorizonReaches(schedule) => ClockKeepsTime))
<1>1. ClockInit => ClockInv
  BY ClockInvInit
<1>2. ClockInv /\ [ClockNext]_clockVars => ClockInv'
  BY ClockInvKeeps
<1>3. ClockInv => NeverDueEarly /\ (HorizonReaches(schedule) => ClockKeepsTime)
  BY ClockInvMeans
<1> QED BY <1>1, <1>2, <1>3, PTL DEF ClockSpec

-----------------------------------------------------------------------------
(* The components side by side                                             *)

SidesInv == GInv /\ LinkInv /\ AttInv /\ PermInv /\ ClockInv

\* One component steps and the others rest: what holds of each alone holds of all.
LEMMA SidesKeep ==
  SidesInv /\ [MCNext]_<<part, graphVars, linkVars, attachmentVars, clockVars, permissionVars>> => SidesInv'
<1> SUFFICES ASSUME SidesInv,
                    [MCNext]_<<part, graphVars, linkVars, attachmentVars, clockVars, permissionVars>>
             PROVE  SidesInv'
  OBVIOUS
<1>1. /\ [GraphNext]_graphVars /\ [LinksNext]_linkVars
      /\ [AttachmentNext]_attachmentVars /\ [PermissionNext]_permissionVars
      /\ [ClockNext]_clockVars
  BY DEF MCNext, GraphRests, LinksRest, AttachmentsRest, RolesRest, ClockRests
<1> QED BY <1>1, GraphStepKeeps, LinkStepKeeps, AttachmentStepKeeps, PermissionStepKeeps,
           ClockInvKeeps DEF SidesInv

\* What the structures are said to keep (types, files, limits, permissions) they keep for
\* all values of the constants.
THEOREM StructuresAreSound == MCSpec => []StructuresSound
<1>1. MCInit => SidesInv
  BY GraphInitHolds, LinksInitHolds, AttachmentInitHolds, PermissionInitHolds, ClockInvInit
  DEF MCInit, SidesInv
<1>2. SidesInv => StructuresSound
  <2>1. AttInv => AttachmentsSound
    BY AttachmentLimits DEF AttInv, AttachmentsSound
  <2>2. PermInv => PermissionsSound
    BY SearchAgrees DEF PermInv, PermissionsSound, AssignsWithinReach, PermitOk
  <2> QED BY <2>1, <2>2 DEF SidesInv, GInv, LinkInv, AttInv, PermInv, ClockInv, ClockTyped, StructuresSound
<1> QED BY <1>1, <1>2, SidesKeep, PTL DEF MCSpec

=============================================================================
