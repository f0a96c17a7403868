------------------------------ MODULE Taxonomy ------------------------------
(***************************************************************************)
(* What things are filed under: asset types, asset locations, asset        *)
(* categories, service categories and knowledge base categories.  The last *)
(* three are trees.                                                        *)
(*                                                                         *)
(* Every service checks first and writes later, in statements of their own *)
(* and without a transaction: a node is removed when its children and the  *)
(* things filed under it were counted as none, moved when its new parent   *)
(* was found, used when it was found.  What is left is up to the database: *)
(* foreign keys, which soft-deleted rows still satisfy.  Each statement is *)
(* a step.  The five kinds differ in their checks and in how they delete;  *)
(* a behaviour is about one tree.                                          *)
(*                                                                         *)
(* Abstractions: names, slugs and ordering are left out; the things filed  *)
(* (assets, services, articles) are never deleted.                         *)
(***************************************************************************)
CONSTANTS
  Nodes,      \* identities of types, locations or categories
  NoNode,     \* a NULL foreign key
  Things,     \* assets, services or articles
  NoThing,    \* a call that is not about a thing
  Clerks      \* administration requests in progress

ASSUME TaxonomyConstants == NoNode \notin Nodes /\ NoThing \notin Things

VARIABLES
  tree,         \* what the nodes are
  node,         \* rows
  parentOf,     \* parent_id
  home,         \* the node a thing is filed under
  clerk,        \* requests
  overlapped    \* history: a request wrote after another had written since its first check

taxonomyVars == <<tree, node, parentOf, home, clerk, overlapped>>

Trees == {"asset_category", "service_category", "kb_category"}

Kinds == Trees \cup {"asset_type", "asset_location"}

\* Kinds whose rows are deleted for good; the others get deleted_at.
HardDeleted == {"asset_location", "kb_category"}

Clerk == [op    : {"none", "add", "move", "remove", "file"},
          pc    : {"idle", "begun", "checked"},
          node  : Nodes \cup {NoNode},
          under : Nodes \cup {NoNode},
          thing : Things \cup {NoThing},
          alone : BOOLEAN]

TaxonomyTypeOK ==
  /\ tree \in Kinds
  /\ node \in [Nodes -> {"absent", "live", "deleted"}]
  /\ parentOf \in [Nodes -> Nodes \cup {NoNode}]
  /\ home \in [Things -> Nodes \cup {NoNode}]
  /\ clerk \in [Clerks -> Clerk]
  /\ overlapped \in BOOLEAN

NoClerk == [op |-> "none", pc |-> "idle", node |-> NoNode, under |-> NoNode, thing |-> NoThing,
            alone |-> TRUE]

TaxonomyInit ==
  /\ tree \in Kinds
  /\ node = [n \in Nodes |-> "absent"]
  /\ parentOf = [n \in Nodes |-> NoNode]
  /\ home = [t \in Things |-> NoNode]
  /\ clerk = [c \in Clerks |-> NoClerk]
  /\ overlapped = FALSE

LiveOrNone(n) == n # NoNode => node[n] = "live"            \* findById
RowOrNone(n) == n # NoNode => node[n] # "absent"           \* what a foreign key wants
LiveChildren(n) == {m \in Nodes : node[m] = "live" /\ parentOf[m] = n}

BeginCall(c, call) == clerk[c].pc = "idle" /\ clerk' = [clerk EXCEPT ![c] = call]
At(c, op, pc) == clerk[c].op = op /\ clerk[c].pc = pc
GoOn(c, ok) ==
  clerk' = [clerk EXCEPT ![c] = IF ok THEN [@ EXCEPT !.pc = "checked"] ELSE NoClerk]

\* c's request is over; if it wrote, the others in progress are no longer alone.
EndCall(c, wrote) ==
  /\ clerk' = [d \in Clerks |->
                 IF d = c THEN NoClerk
                 ELSE IF wrote /\ clerk[d].pc # "idle" THEN [clerk[d] EXCEPT !.alone = FALSE]
                 ELSE clerk[d]]
  /\ overlapped' = (overlapped \/ (wrote /\ ~clerk[c].alone))

-----------------------------------------------------------------------------
(* Creation                                                                *)

\* The row gets an id nobody has seen.
BeginAdd(c, p) ==
  LET fresh == {n \in Nodes : node[n] = "absent" /\ \A d \in Clerks : clerk[d].node # n}
      n == CHOOSE n \in fresh : TRUE IN
  /\ fresh # {}
  /\ p # n
  /\ BeginCall(c, [NoClerk EXCEPT !.op = "add", !.pc = "checked", !.node = n, !.under = p])
  /\ UNCHANGED <<tree, node, parentOf, home, overlapped>>

AddAssetType(c) == tree = "asset_type" /\ BeginAdd(c, NoNode)

AddAssetLocation(c) == tree = "asset_location" /\ BeginAdd(c, NoNode)

\* Asset categories leave the look for the parent to the foreign key.
AddAssetCategory(c, p) == tree = "asset_category" /\ BeginAdd(c, p)

AddServiceCategory(c, p) == tree = "service_category" /\ LiveOrNone(p) /\ BeginAdd(c, p)

AddKbCategory(c, p) == tree = "kb_category" /\ LiveOrNone(p) /\ BeginAdd(c, p)

AddWrite(c) ==
  LET call == clerk[c]
      ok   == node[call.node] = "absent" /\ RowOrNone(call.under) IN
  /\ At(c, "add", "checked")
  /\ node' = IF ok THEN [node EXCEPT ![call.node] = "live"] ELSE node
  /\ parentOf' = IF ok THEN [parentOf EXCEPT ![call.node] = call.under] ELSE parentOf
  /\ EndCall(c, ok)
  /\ UNCHANGED <<tree, home>>

-----------------------------------------------------------------------------
(* Moving                                                                  *)

\* The node and its new parent are found, and differ.
BeginMove(c, n, p, pc) ==
  /\ node[n] = "live"
  /\ p # n /\ LiveOrNone(p)
  /\ BeginCall(c, [NoClerk EXCEPT !.op = "move", !.pc = pc, !.node = n, !.under = p])
  /\ UNCHANGED <<tree, node, parentOf, home, overlapped>>

MoveAssetCategory(c, n, p) == tree = "asset_category" /\ BeginMove(c, n, p, "checked")

MoveKbCategory(c, n, p) == tree = "kb_category" /\ BeginMove(c, n, p, "checked")

\* Only service categories go on to refuse a parent from the node's own tree.
MoveServiceCategory(c, n, p) == tree = "service_category" /\ BeginMove(c, n, p, "begun")

\* Mutant: only the direct children are selected.
MutantDescendants(n) == LiveChildren(n)

\* listDescendantIds selects what is live below n.
Descendants(n) ==
  LET Closed(S) == n \in S /\ \A m \in S : LiveChildren(m) \subseteq S IN
  {m \in Nodes : \A S \in SUBSET Nodes : Closed(S) => m \in S}

MoveDescend(c) ==
  /\ At(c, "move", "begun")
  /\ GoOn(c, clerk[c].under \notin Descendants(clerk[c].node))
  /\ UNCHANGED <<tree, node, parentOf, home, overlapped>>

MoveWrite(c) ==
  LET call == clerk[c]
      ok   == node[call.node] = "live" /\ RowOrNone(call.under) IN
  /\ At(c, "move", "checked")
  /\ parentOf' = IF ok THEN [parentOf EXCEPT ![call.node] = call.under] ELSE parentOf
  /\ EndCall(c, ok)
  /\ UNCHANGED <<tree, node, home>>

-----------------------------------------------------------------------------
(* Removal                                                                 *)

Unused(n) == \A t \in Things : home[t] # n

BeginRemove(c, n) ==
  /\ node[n] = "live"
  /\ BeginCall(c, [NoClerk EXCEPT !.op = "remove", !.pc = "begun", !.node = n])
  /\ UNCHANGED <<tree, node, parentOf, home, overlapped>>

RemoveAssetType(c, n) == tree = "asset_type" /\ BeginRemove(c, n)

RemoveAssetLocation(c, n) == tree = "asset_location" /\ BeginRemove(c, n)

RemoveAssetCategory(c, n) ==
  tree = "asset_category" /\ LiveChildren(n) = {} /\ BeginRemove(c, n)

\* findById counts what is filed in its first statement, and loads the children
\* in its second.
RemoveServiceCategory(c, n) == tree = "service_category" /\ Unused(n) /\ BeginRemove(c, n)

RemoveKbCategory(c, n) == tree = "kb_category" /\ Unused(n) /\ BeginRemove(c, n)

\* countAssetsUsing, countAssetsAt.
RemoveCheckUse(c) ==
  /\ tree \in {"asset_type", "asset_location", "asset_category"}
  /\ At(c, "remove", "begun")
  /\ GoOn(c, Unused(clerk[c].node))
  /\ UNCHANGED <<tree, node, parentOf, home, overlapped>>

RemoveCheckChildren(c) ==
  /\ tree \in {"service_category", "kb_category"}
  /\ At(c, "remove", "begun")
  /\ GoOn(c, LiveChildren(clerk[c].node) = {})
  /\ UNCHANGED <<tree, node, parentOf, home, overlapped>>

\* The row gets deleted_at.
RemoveSoftly(c) ==
  LET n == clerk[c].node IN
  /\ tree \notin HardDeleted
  /\ At(c, "remove", "checked")
  /\ node' = [node EXCEPT ![n] = "deleted"]
  /\ EndCall(c, node[n] = "live")
  /\ UNCHANGED <<tree, parentOf, home>>

\* Deleting a location clears it from the assets that are there.
RemoveLocation(c) ==
  LET n == clerk[c].node IN
  /\ tree = "asset_location"
  /\ At(c, "remove", "checked")
  /\ node' = [node EXCEPT ![n] = "absent"]
  /\ home' = [t \in Things |-> IF home[t] = n THEN NoNode ELSE home[t]]
  /\ EndCall(c, node[n] = "live")
  /\ UNCHANGED <<tree, parentOf>>

\* The database refuses to drop a category with articles, and takes the children
\* of another out of it.
RemoveFromKb(c) ==
  LET n == clerk[c].node IN
  /\ tree = "kb_category"
  /\ At(c, "remove", "checked")
  /\ IF Unused(n)
     THEN /\ node' = [node EXCEPT ![n] = "absent"]
          /\ parentOf' = [m \in Nodes |-> IF n \in {m, parentOf[m]} THEN NoNode ELSE parentOf[m]]
          /\ EndCall(c, node[n] = "live")
     ELSE EndCall(c, FALSE) /\ UNCHANGED <<node, parentOf>>
  /\ UNCHANGED <<tree, home>>

-----------------------------------------------------------------------------
(* Filing                                                                  *)

BeginFile(c, t, n) ==
  /\ BeginCall(c, [NoClerk EXCEPT !.op = "file", !.pc = "checked", !.node = n, !.thing = t])
  /\ UNCHANGED <<tree, node, parentOf, home, overlapped>>

\* createAsset looks for the type, and not for the category or location.
FileNewAsset(c, t, n) ==
  /\ tree \in {"asset_type", "asset_category", "asset_location"}
  /\ home[t] = NoNode
  /\ tree = "asset_type" => node[n] = "live"
  /\ BeginFile(c, t, n)

\* updateAsset looks for them; a type is not changed.
RefileAsset(c, t, n) ==
  tree \in {"asset_category", "asset_location"} /\ node[n] = "live" /\ BeginFile(c, t, n)

FileService(c, t, n) == tree = "service_category" /\ node[n] = "live" /\ BeginFile(c, t, n)

FileArticle(c, t, n) == tree = "kb_category" /\ node[n] = "live" /\ BeginFile(c, t, n)

FileWrite(c) ==
  LET call == clerk[c]
      ok   == RowOrNone(call.node) IN
  /\ At(c, "file", "checked")
  /\ home' = IF ok THEN [home EXCEPT ![call.thing] = call.node] ELSE home
  /\ EndCall(c, ok)
  /\ UNCHANGED <<tree, node, parentOf>>

-----------------------------------------------------------------------------
Add(c) ==
  \/ AddAssetType(c)
  \/ AddAssetLocation(c)
  \/ \E p \in Nodes \cup {NoNode} :
       AddAssetCategory(c, p) \/ AddServiceCategory(c, p) \/ AddKbCategory(c, p)

Move(c) ==
  \E n \in Nodes, p \in Nodes \cup {NoNode} :
    MoveAssetCategory(c, n, p) \/ MoveServiceCategory(c, n, p) \/ MoveKbCategory(c, n, p)

Remove(c) ==
  \E n \in Nodes :
    \/ RemoveAssetType(c, n)
    \/ RemoveAssetLocation(c, n)
    \/ RemoveAssetCategory(c, n)
    \/ RemoveServiceCategory(c, n)
    \/ RemoveKbCategory(c, n)

File(c) ==
  \E t \in Things, n \in Nodes :
    FileNewAsset(c, t, n) \/ RefileAsset(c, t, n) \/ FileService(c, t, n) \/ FileArticle(c, t, n)

TaxonomyNext ==
  \E c \in Clerks :
    \/ Add(c) \/ Move(c) \/ Remove(c) \/ File(c)
    \/ AddWrite(c)
    \/ MoveDescend(c)
    \/ MoveWrite(c)
    \/ RemoveCheckUse(c)
    \/ RemoveCheckChildren(c)
    \/ RemoveSoftly(c)
    \/ RemoveLocation(c)
    \/ RemoveFromKb(c)
    \/ FileWrite(c)

TaxonomySpec == TaxonomyInit /\ [][TaxonomyNext]_taxonomyVars

-----------------------------------------------------------------------------
HomesAreLive == \A t \in Things : LiveOrNone(home[t])

\* An article's category and an asset's location exist, however requests
\* overlap: the checks of the services do not ensure it, the foreign keys do
\* (ON DELETE RESTRICT for articles, SET NULL for locations).
HomesExist == tree \in HardDeleted => HomesAreLive

NoServiceCycle ==
  tree = "service_category" =>
    \A S \in (SUBSET Nodes) \ {{}} : \E n \in S : parentOf[n] \notin S

ParentsAreLive == \A n \in Nodes : node[n] = "live" => LiveOrNone(parentOf[n])

\* As long as no request writes after another one wrote behind its checks,
\* nothing live is filed under a deleted type or service category, no live
\* category hangs under a deleted one and service categories form no cycle.
\* (Asset categories are exempt: they are created, and given to new assets,
\* without a look at the row.)
TaxonomyConsistent ==
  /\ HomesExist
  /\ \/ overlapped
     \/ tree = "asset_category"
     \/ HomesAreLive /\ ParentsAreLive /\ NoServiceCycle
=============================================================================
