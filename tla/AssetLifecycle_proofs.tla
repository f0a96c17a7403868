------------------------ MODULE AssetLifecycle_proofs ------------------------
(***************************************************************************)
(* Assets, for any number of them, of callers and of users.  What a call   *)
(* carries from its read to its write is a legal move from the state it    *)
(* read (CallOk), so every change of a state is a legal move, or was one   *)
(* when the call read.  The rows that were counted never outnumber the     *)
(* rows there are, and references do not exceed the rows (RefsDense), so   *)
(* the reference after a count that is still right is free.                *)
(***************************************************************************)
EXTENDS AssetLifecycle, FiniteSetTheorems, SequenceTheorems, TLAPS

-----------------------------------------------------------------------------
(* The invariant                                                           *)

\* What the call q has read, compared with what is there now.
CallOk(q) ==
  /\ q.pc # "idle" => q.asset \in Assets
  /\ q.op = "create" => q.rows \subseteq AssetRows
  /\ q.op = "transition" /\ q.pc = "read" => IsAllowedAssetTransition(q.saw, q.to)
  /\ q.op = "automate" => IsAllowedAssetTransition(q.saw, q.to)
  /\ q.op = "assign" => q.to = q.saw \/ IsAllowedAssetTransition(q.saw, q.to)
  /\ q.op = "unassign" =>
       \A i \in q.seen : i \in DOMAIN assignments /\ assignments[i].asset = q.asset

\* A row that was never created shows no user and is not deleted.
BlankRows == \A a \in Assets : assets[a].ref = 0 =>
                                 assets[a].user = NoAssetUser /\ ~assets[a].deleted

RefsDense == \A a \in Assets : assets[a].ref <= Cardinality(AssetRows)

RefsUnique == \A a, b \in Assets : assets[a].ref = assets[b].ref /\ a # b => assets[a].ref = 0

AInv ==
  /\ AssetTypeOK
  /\ \A c \in AssetCallers : CallOk(assetCall[c])
  /\ BlankRows
  /\ RefsDense
  /\ RefsUnique
  /\ AssigneeOnRecord

-----------------------------------------------------------------------------
(* Helpers                                                                 *)

LEMMA NoCallTyped == NoAssetCall \in AssetCall /\ CallOk(NoAssetCall)
BY DEF NoAssetCall, AssetCall, AssetState, CallOk

LEMMA RowCount == IsFiniteSet(AssetRows) /\ Cardinality(AssetRows) \in Nat
<1>1. IsFiniteSet(AssetRows)
  BY FiniteAssets, FS_Subset DEF AssetRows
<1> QED BY <1>1, FS_CardinalityType

\* A step that only reads: the call's next record says all of it.
LEMMA ReadKeeps ==
  ASSUME AInv, NEW c \in AssetCallers, NEW q \in AssetCall, CallOk(q),
         assetCall' = [assetCall EXCEPT ![c] = q], UNCHANGED <<assets, assignments>>
  PROVE  AInv'
<1>1. AssetTypeOK'
  BY DEF AInv, AssetTypeOK
<1>2. \A d \in AssetCallers : CallOk(assetCall[d])'
  <2> SUFFICES ASSUME NEW d \in AssetCallers PROVE CallOk(assetCall[d])'
    OBVIOUS
  <2>1. CallOk(assetCall'[d])
    BY DEF AInv, AssetTypeOK
  <2>2. UNCHANGED <<AssetRows, assignments>>
    BY DEF AssetRows
  <2> QED BY <2>1, <2>2 DEF CallOk
<1>3. BlankRows' /\ RefsUnique' /\ AssigneeOnRecord'
  BY DEF AInv, BlankRows, RefsUnique, AssigneeOnRecord, Live
<1>4. RefsDense'
  <2>1. AssetRows' = AssetRows
    BY DEF AssetRows
  <2> QED BY <2>1 DEF AInv, RefsDense
<1> QED BY <1>1, <1>2, <1>3, <1>4 DEF AInv

\* A step that ends a call: the others' records stay right.
LEMMA FinishKeeps ==
  ASSUME AInv, NEW c \in AssetCallers, Finish(c), AssetRows \subseteq AssetRows',
         \A i \in DOMAIN assignments :
           i \in DOMAIN assignments' /\ assignments'[i].asset = assignments[i].asset
  PROVE  assetCall' \in [AssetCallers -> AssetCall] /\ \A d \in AssetCallers : CallOk(assetCall[d])'
<1>1. assetCall' \in [AssetCallers -> AssetCall]
  BY NoCallTyped DEF AInv, AssetTypeOK, Finish
<1>2. ASSUME NEW d \in AssetCallers PROVE CallOk(assetCall[d])'
  <2>1. CallOk(assetCall'[d])
    BY NoCallTyped DEF AInv, AssetTypeOK, Finish
  <2> QED BY <2>1 DEF CallOk
<1> QED BY <1>1, <1>2

\* Writes that keep every reference keep what is said of references.
LEMMA RefsKept ==
  ASSUME AInv, \A a \in Assets : assets'[a].ref = assets[a].ref
  PROVE  AssetRows' = AssetRows /\ RefsDense' /\ RefsUnique'
<1>1. AssetRows' = AssetRows
  BY DEF AssetRows
<1> QED BY <1>1 DEF AInv, RefsDense, RefsUnique

-----------------------------------------------------------------------------
(* The steps that read                                                     *)

LEMMA InitHolds == AssetInit => AInv
<1> SUFFICES ASSUME AssetInit PROVE AInv
  OBVIOUS
<1>1. AssetTypeOK
  BY NoCallTyped DEF AssetInit, AssetTypeOK, AssetRow, AssetState
<1>2. \A c \in AssetCallers : CallOk(assetCall[c])
  BY NoCallTyped DEF AssetInit
<1>3. AssetRows = {}
  BY DEF AssetInit, AssetRows
<1>4. RefsDense
  BY <1>3, FS_EmptySet DEF RefsDense, AssetInit
<1>5. BlankRows /\ RefsUnique /\ AssigneeOnRecord
  BY DEF AssetInit, BlankRows, RefsUnique, AssigneeOnRecord, Live
<1> QED BY <1>1, <1>2, <1>4, <1>5 DEF AInv

LEMMA CountKeeps ==
  ASSUME AInv, NEW c \in AssetCallers, NEW st \in AssetTargets, CreateAssetCount(c, st)
  PROVE  AInv'
<1> DEFINE unused == {a \in Assets : assets[a].ref = 0 /\ \A d \in AssetCallers : assetCall[d].asset # a}
           a == CHOOSE x \in unused : TRUE
           q == [NoAssetCall EXCEPT !.asset = a, !.op = "create", !.pc = "read", !.to = st,
                                    !.rows = AssetRows]
<1>1. a \in Assets
  BY DEF CreateAssetCount
<1>2. assetCall' = [assetCall EXCEPT ![c] = q] /\ UNCHANGED <<assets, assignments>>
  BY DEF CreateAssetCount, Begin
<1> HIDE DEF a
<1>3. q \in AssetCall
  BY <1>1, AssetConstants DEF NoAssetCall, AssetCall, AssetState, AssetRows
<1>4. CallOk(q)
  BY <1>1 DEF NoAssetCall, CallOk
<1> QED BY <1>2, <1>3, <1>4, ReadKeeps

LEMMA CheckKeeps ==
  ASSUME AInv, NEW c \in AssetCallers, NEW a \in Assets, NEW st \in AssetTargets,
         TransitionCheck(c, a, st)
  PROVE  AInv'
<1> DEFINE q == [NoAssetCall EXCEPT !.asset = a, !.op = "transition", !.pc = "checked", !.to = st]
<1>1. assetCall' = [assetCall EXCEPT ![c] = q] /\ UNCHANGED <<assets, assignments>>
  BY DEF TransitionCheck, Begin
<1>2. q \in AssetCall /\ CallOk(q)
  BY AssetConstants DEF NoAssetCall, AssetCall, AssetState, CallOk
<1> QED BY <1>1, <1>2, ReadKeeps

LEMMA RereadKeeps ==
  ASSUME AInv, NEW c \in AssetCallers, TransitionRead(c)
  PROVE  AInv'
<1> DEFINE call == assetCall[c]
           saw  == assets[call.asset].state
<1>1. call \in AssetCall /\ CallOk(call) /\ UNCHANGED <<assets, assignments>>
  BY DEF AInv, AssetTypeOK, TransitionRead
<1>2. CASE IsAllowedAssetTransition(saw, call.to) /\ Live(call.asset)
  <2> DEFINE q == [call EXCEPT !.pc = "read", !.saw = saw]
  <2>1. assetCall' = [assetCall EXCEPT ![c] = q]
    BY <1>1, <1>2 DEF TransitionRead, AInv, AssetTypeOK, AssetCall
  <2>2. call.asset \in Assets /\ call.op = "transition"
    BY <1>1 DEF TransitionRead, Continue, CallOk
  <2>3. saw \in AssetState
    BY <2>2 DEF AInv, AssetTypeOK, AssetRow
  <2>4. q \in AssetCall
    BY <1>1, <2>3 DEF AssetCall
  <2>5. CallOk(q)
    BY <1>1, <1>2, <2>2 DEF CallOk, AssetCall
  <2> QED BY <1>1, <2>1, <2>4, <2>5, ReadKeeps
<1>3. CASE ~(IsAllowedAssetTransition(saw, call.to) /\ Live(call.asset))
  <2>1. assetCall' = [assetCall EXCEPT ![c] = NoAssetCall]
    BY <1>3 DEF TransitionRead, Finish
  <2> QED BY <1>1, <2>1, NoCallTyped, ReadKeeps
<1> QED BY <1>2, <1>3

\* What an assignment, or a workflow action, will write is a legal move from
\* what it reads.
LEMMA StateOnAssignLegal ==
  ASSUME NEW u, NEW moves, NEW saw \in AssetState
  PROVE  /\ StateOnAssign(u, moves, saw) \in AssetState
         /\ \/ StateOnAssign(u, moves, saw) = saw
            \/ IsAllowedAssetTransition(saw, StateOnAssign(u, moves, saw))
BY DEF StateOnAssign, AssetState, IsAllowedAssetTransition, AssetTransitions

LEMMA AssignReadKeeps ==
  ASSUME AInv, NEW c \in AssetCallers, NEW a \in Assets, NEW u \in AssetUsers \cup {NoAssetUser},
         NEW moves \in BOOLEAN, AssignRead(c, a, u, moves)
  PROVE  AInv'
<1> DEFINE saw == assets[a].state
           to  == StateOnAssign(u, moves, saw)
           q   == [NoAssetCall EXCEPT !.asset = a, !.op = "assign", !.pc = "read", !.user = u,
                                      !.saw = saw, !.to = to]
<1>1. assetCall' = [assetCall EXCEPT ![c] = q] /\ UNCHANGED <<assets, assignments>>
  BY DEF AssignRead, Begin
<1>2. saw \in AssetState
  BY DEF AInv, AssetTypeOK, AssetRow
<1>3. to \in AssetState /\ (to = saw \/ IsAllowedAssetTransition(saw, to))
  BY <1>2, StateOnAssignLegal
<1> HIDE DEF saw, to
<1>4. q \in AssetCall /\ CallOk(q)
  BY <1>2, <1>3 DEF NoAssetCall, AssetCall, CallOk
<1> QED BY <1>1, <1>4, ReadKeeps

LEMMA AutomateReadKeeps ==
  ASSUME AInv, NEW c \in AssetCallers, NEW a \in Assets, NEW st \in AssetTargets,
         AutomateRead(c, a, st)
  PROVE  AInv'
<1> DEFINE saw == assets[a].state
           q   == [NoAssetCall EXCEPT !.asset = a, !.op = "automate", !.pc = "read", !.to = st,
                                      !.saw = saw]
<1>1. assetCall' = [assetCall EXCEPT ![c] = q] /\ UNCHANGED <<assets, assignments>>
  BY DEF AutomateRead, Begin
<1>2. saw \in AssetState /\ IsAllowedAssetTransition(saw, st)
  BY DEF AInv, AssetTypeOK, AssetRow, AutomateRead
<1> HIDE DEF saw
<1>3. q \in AssetCall /\ CallOk(q)
  BY <1>2, AssetConstants DEF NoAssetCall, AssetCall, CallOk
<1> QED BY <1>1, <1>3, ReadKeeps

LEMMA UnassignReadKeeps ==
  ASSUME AInv, NEW c \in AssetCallers, NEW a \in Assets, UnassignRead(c, a)
  PROVE  AInv'
<1> DEFINE q == [NoAssetCall EXCEPT !.asset = a, !.op = "unassign", !.pc = "read"]
<1>1. assetCall' = [assetCall EXCEPT ![c] = q] /\ UNCHANGED <<assets, assignments>>
  BY DEF UnassignRead, Begin
<1>2. q \in AssetCall /\ CallOk(q)
  BY DEF NoAssetCall, AssetCall, CallOk, AssetState
<1> QED BY <1>1, <1>2, ReadKeeps

LEMMA StampKeeps ==
  ASSUME AInv, NEW c \in AssetCallers, UnassignStamp(c)
  PROVE  AInv'
<1> DEFINE call == assetCall[c]
           seen == {i \in DOMAIN assignments : assignments[i].asset = call.asset}
           q    == [call EXCEPT !.pc = "stamped", !.seen = seen]
<1>1. call \in AssetCall /\ CallOk(call)
  BY DEF AInv, AssetTypeOK
<1>2. assetCall' = [assetCall EXCEPT ![c] = q] /\ UNCHANGED <<assets, assignments>>
  BY <1>1 DEF UnassignStamp, AInv, AssetTypeOK, AssetCall
<1>3. seen \subseteq Nat
  BY DEF AInv, AssetTypeOK
<1>4. call.op = "unassign" /\ call.asset \in Assets
  BY <1>1 DEF UnassignStamp, Continue, CallOk
<1>5. q \in AssetCall
  BY <1>1, <1>3 DEF AssetCall
<1>6. CallOk(q)
  BY <1>1, <1>4 DEF CallOk, AssetCall
<1> QED BY <1>2, <1>5, <1>6, ReadKeeps

LEMMA RefusedKeeps ==
  ASSUME AInv, NEW c \in AssetCallers, CreateAssetRefused(c)
  PROVE  AInv'
BY NoCallTyped, ReadKeeps DEF CreateAssetRefused, Finish

-----------------------------------------------------------------------------
(* The steps that write                                                    *)

\* The new row's reference is one more than a count of rows that are all still
\* there.
LEMMA CreateKeeps ==
  ASSUME AInv, NEW c \in AssetCallers, CreateAssetCommit(c)
  PROVE  AInv'
<1> DEFINE call == assetCall[c]
           a    == call.asset
           ref  == NextAssetRef(call.rows)
           row  == [assets[a] EXCEPT !.ref = ref, !.state = call.to]
<1>1. call \in AssetCall /\ CallOk(call) /\ a \in Assets /\ assets[a] \in AssetRow
  BY DEF AInv, AssetTypeOK, CreateAssetCommit, Continue, CallOk
<1>2. call.rows \subseteq AssetRows
  BY <1>1 DEF CallOk, CreateAssetCommit, Continue
<1>3. ref \in Nat /\ ref # 0 /\ ref <= Cardinality(AssetRows) + 1
  BY <1>2, RowCount, FS_Subset, FS_CardinalityType DEF NextAssetRef
<1>4. assets' = [assets EXCEPT ![a] = row] /\ assets[a].ref = 0 /\ \A b \in Assets : assets[b].ref # ref
  BY <1>1 DEF CreateAssetCommit, AInv, AssetTypeOK, AssetRow
<1>5. row \in AssetRow /\ row.ref = ref /\ row.user = assets[a].user /\ row.deleted = assets[a].deleted
  BY <1>1, <1>3 DEF AssetRow, AssetCall
<1> HIDE DEF ref, row
<1>6. assets' \in [Assets -> AssetRow] /\ assignments' = assignments
  BY <1>1, <1>4, <1>5 DEF AInv, AssetTypeOK, CreateAssetCommit
<1>7. \A b \in Assets : assets'[b] = IF b = a THEN row ELSE assets[b]
  BY <1>1, <1>4 DEF AInv, AssetTypeOK
<1>8. AssetRows' = AssetRows \cup {a} /\ a \notin AssetRows
  BY <1>1, <1>3, <1>4, <1>5, <1>7 DEF AssetRows
<1>9. Cardinality(AssetRows') = Cardinality(AssetRows) + 1
  BY <1>8, RowCount, FS_AddElement
<1>10. assetCall' \in [AssetCallers -> AssetCall] /\ \A d \in AssetCallers : CallOk(assetCall[d])'
  BY <1>6, <1>8, FinishKeeps DEF CreateAssetCommit
<1>11. AssetTypeOK'
  BY <1>6, <1>10 DEF AInv, AssetTypeOK
<1>12. BlankRows'
  BY <1>3, <1>5, <1>7 DEF AInv, BlankRows
<1>13. RefsDense'
  <2> SUFFICES ASSUME NEW b \in Assets PROVE assets'[b].ref <= Cardinality(AssetRows')
    BY DEF RefsDense
  <2>1. CASE b = a
    BY <1>3, <1>5, <1>7, <1>9, <2>1
  <2>2. CASE b # a
    <3>1. assets[b].ref \in Nat /\ assets[b].ref <= Cardinality(AssetRows)
      BY DEF AInv, AssetTypeOK, AssetRow, RefsDense
    <3> QED BY <1>7, <1>9, <2>2, <3>1, RowCount
  <2> QED BY <2>1, <2>2
<1>14. RefsUnique'
  BY <1>4, <1>5, <1>7 DEF AInv, RefsUnique
<1>15. AssigneeOnRecord'
  BY <1>1, <1>4, <1>5, <1>6, <1>7 DEF AInv, AssigneeOnRecord, BlankRows, Live
<1> QED BY <1>10, <1>11, <1>12, <1>13, <1>14, <1>15 DEF AInv

\* A write of a's row that leaves its reference, its user and its deletion alone.
LEMMA StateWriteKeeps ==
  ASSUME AInv, NEW c \in AssetCallers, NEW a \in Assets, NEW st \in AssetState, Finish(c),
         assets' = [assets EXCEPT ![a].state = st], assignments' = assignments
  PROVE  AInv'
<1>1. assets[a] \in AssetRow
  BY DEF AInv, AssetTypeOK
<1>2. assets' \in [Assets -> AssetRow]
  BY <1>1 DEF AInv, AssetTypeOK, AssetRow
<1>3. \A b \in Assets : /\ assets'[b].ref = assets[b].ref /\ assets'[b].user = assets[b].user
                        /\ assets'[b].deleted = assets[b].deleted
  BY <1>1 DEF AInv, AssetTypeOK, AssetRow
<1>4. AssetRows' = AssetRows /\ RefsDense' /\ RefsUnique'
  BY <1>3, RefsKept
<1>5. assetCall' \in [AssetCallers -> AssetCall] /\ \A d \in AssetCallers : CallOk(assetCall[d])'
  BY <1>4, FinishKeeps
<1>6. AssetTypeOK' /\ BlankRows' /\ AssigneeOnRecord'
  BY <1>2, <1>3, <1>5 DEF AInv, AssetTypeOK, BlankRows, AssigneeOnRecord, Live
<1> QED BY <1>4, <1>5, <1>6 DEF AInv

LEMMA TransitionKeeps ==
  ASSUME AInv, NEW c \in AssetCallers, TransitionWrite(c)
  PROVE  AInv'
<1> DEFINE call == assetCall[c]
<1>1. call \in AssetCall /\ call.asset \in Assets
  BY DEF AInv, AssetTypeOK, CallOk, TransitionWrite, Continue
<1>2. CASE Live(call.asset) /\ assets[call.asset].state = call.saw
  <2>1. call.to \in AssetState
    BY <1>1 DEF AssetCall
  <2> QED BY <1>1, <1>2, <2>1, StateWriteKeeps DEF TransitionWrite
<1>3. CASE ~(Live(call.asset) /\ assets[call.asset].state = call.saw)
  BY <1>3, NoCallTyped, ReadKeeps DEF TransitionWrite, Finish
<1> QED BY <1>2, <1>3

LEMMA AutomateKeeps ==
  ASSUME AInv, NEW c \in AssetCallers, AutomateWrite(c)
  PROVE  AInv'
<1>1. assetCall[c] \in AssetCall /\ assetCall[c].asset \in Assets
  BY DEF AInv, AssetTypeOK, CallOk, AutomateWrite, Continue
<1>2. assetCall[c].to \in AssetState
  BY <1>1 DEF AssetCall
<1> QED BY <1>1, <1>2, StateWriteKeeps DEF AutomateWrite

\* An assignment row is added, and the asset shows its user if it has one.
LEMMA AssignKeeps ==
  ASSUME AInv, NEW c \in AssetCallers, AssignCommit(c)
  PROVE  AInv'
<1> DEFINE call == assetCall[c]
           a    == call.asset
           new  == [asset |-> a, user |-> call.user, open |-> TRUE]
           row  == [assets[a] EXCEPT !.user = IF call.user = NoAssetUser THEN @ ELSE call.user,
                                     !.state = IF call.to = call.saw THEN @ ELSE call.to]
           n    == Len(assignments) + 1
<1>1. call \in AssetCall /\ CallOk(call) /\ a \in Assets /\ assets[a] \in AssetRow
  BY DEF AInv, AssetTypeOK, AssignCommit, Continue, CallOk
<1>2. assignments \in Seq(AssignmentRow) /\ new \in AssignmentRow
  BY <1>1 DEF AInv, AssetTypeOK, AssetCall, AssignmentRow
<1>3. /\ assignments' = Append(assignments, new)
      /\ assets' = IF Live(a) THEN [assets EXCEPT ![a] = row] ELSE assets
      /\ Finish(c)
  BY DEF AssignCommit
<1>4. /\ row \in AssetRow /\ row.ref = assets[a].ref /\ row.deleted = assets[a].deleted
      /\ row.user = IF call.user = NoAssetUser THEN assets[a].user ELSE call.user
  BY <1>1 DEF AssetRow, AssetCall
<1> HIDE DEF row
<1>5. /\ assignments' \in Seq(AssignmentRow) /\ n \in DOMAIN assignments' /\ assignments'[n] = new
      /\ \A i \in DOMAIN assignments : i \in DOMAIN assignments' /\ assignments'[i] = assignments[i]
  BY <1>2, <1>3
<1>6. assets' \in [Assets -> AssetRow] /\ \A b \in Assets : b # a => assets'[b] = assets[b]
  BY <1>3, <1>4 DEF AInv, AssetTypeOK
<1>7. /\ assets'[a].ref = assets[a].ref /\ assets'[a].deleted = assets[a].deleted
      /\ Live(a) => assets'[a].user = IF call.user = NoAssetUser THEN assets[a].user ELSE call.user
      /\ ~Live(a) => assets'[a] = assets[a]
  BY <1>1, <1>3, <1>4 DEF AInv, AssetTypeOK
<1>8. AssetRows' = AssetRows /\ RefsDense' /\ RefsUnique'
  BY <1>6, <1>7, RefsKept
<1>9. assetCall' \in [AssetCallers -> AssetCall] /\ \A d \in AssetCallers : CallOk(assetCall[d])'
  BY <1>3, <1>5, <1>8, FinishKeeps
<1>10. AssetTypeOK'
  BY <1>5, <1>6, <1>9 DEF AssetTypeOK
<1>11. BlankRows'
  BY <1>6, <1>7 DEF AInv, BlankRows, Live
<1>12. AssigneeOnRecord'
  <2> SUFFICES ASSUME NEW b \in Assets, Live(b)', assets'[b].user # NoAssetUser
               PROVE  \E i \in DOMAIN assignments' :
                        assignments'[i] = [asset |-> b, user |-> assets'[b].user, open |-> TRUE]
    BY DEF AssigneeOnRecord
  <2>1. Live(b)
    BY <1>6, <1>7 DEF Live
  <2>2. CASE b = a /\ call.user # NoAssetUser
    BY <1>5, <1>7, <2>1, <2>2
  <2>3. CASE ~(b = a /\ call.user # NoAssetUser)
    <3>1. assets'[b].user = assets[b].user
      BY <1>6, <1>7, <2>1, <2>3
    <3>2. PICK i \in DOMAIN assignments :
                 assignments[i] = [asset |-> b, user |-> assets[b].user, open |-> TRUE]
      BY <2>1, <3>1 DEF AInv, AssigneeOnRecord
    <3> QED BY <1>5, <3>1, <3>2
  <2> QED BY <2>2, <2>3
<1> QED BY <1>8, <1>9, <1>10, <1>11, <1>12 DEF AInv

\* The rows an unassignment ends are its own asset's, and that asset shows no
\* user afterwards.
LEMMA UnassignKeeps ==
  ASSUME AInv, NEW c \in AssetCallers, UnassignCommit(c)
  PROVE  AInv'
<1> DEFINE call == assetCall[c]
           a    == call.asset
           row  == [assets[a] EXCEPT !.user = NoAssetUser]
<1>1. call \in AssetCall /\ CallOk(call) /\ a \in Assets /\ assets[a] \in AssetRow
  BY DEF AInv, AssetTypeOK, UnassignCommit, Continue, CallOk
<1>2. assignments \in Seq(AssignmentRow)
  BY DEF AInv, AssetTypeOK
<1>3. /\ assignments' = [i \in DOMAIN assignments |->
                           [assignments[i] EXCEPT !.open = @ /\ i \notin call.seen]]
      /\ assets' = IF Live(a) THEN [assets EXCEPT ![a] = row] ELSE assets
      /\ Finish(c)
  BY DEF UnassignCommit
<1>4. row \in AssetRow /\ row.ref = assets[a].ref /\ row.deleted = assets[a].deleted
      /\ row.user = NoAssetUser
  BY <1>1 DEF AssetRow
<1> HIDE DEF row
<1>5. ASSUME NEW i \in DOMAIN assignments
      PROVE  /\ assignments[i] \in AssignmentRow /\ assignments'[i] \in AssignmentRow
             /\ assignments'[i].asset = assignments[i].asset
             /\ i \notin call.seen => assignments'[i] = assignments[i]
  <2>1. assignments[i] \in AssignmentRow
    BY <1>2
  <2>2. assignments'[i] = [assignments[i] EXCEPT !.open = @ /\ i \notin call.seen]
    BY <1>3
  <2>3. (assignments[i].open /\ i \notin call.seen) \in BOOLEAN
    OBVIOUS
  <2>4. i \notin call.seen => (assignments[i].open /\ i \notin call.seen) = assignments[i].open
    BY <2>1 DEF AssignmentRow
  <2> QED BY <2>1, <2>2, <2>3, <2>4 DEF AssignmentRow
<1>6. DOMAIN assignments' = DOMAIN assignments
  BY <1>3
<1>7. assignments' \in Seq(AssignmentRow)
  <2>1. Len(assignments) \in Nat /\ DOMAIN assignments = 1 .. Len(assignments)
    BY <1>2
  <2>2. assignments' \in [1 .. Len(assignments) -> AssignmentRow]
    BY <1>3, <1>5, <2>1
  <2> QED BY <2>1, <2>2, SeqDef
<1>8. assets' \in [Assets -> AssetRow] /\ \A b \in Assets : b # a => assets'[b] = assets[b]
  BY <1>3, <1>4 DEF AInv, AssetTypeOK
<1>9. /\ assets'[a].ref = assets[a].ref /\ assets'[a].deleted = assets[a].deleted
      /\ Live(a) => assets'[a].user = NoAssetUser
      /\ ~Live(a) => assets'[a] = assets[a]
  BY <1>1, <1>3, <1>4 DEF AInv, AssetTypeOK
<1>10. AssetRows' = AssetRows /\ RefsDense' /\ RefsUnique'
  BY <1>8, <1>9, RefsKept
<1>11. assetCall' \in [AssetCallers -> AssetCall] /\ \A d \in AssetCallers : CallOk(assetCall[d])'
  BY <1>3, <1>5, <1>6, <1>10, FinishKeeps
<1>12. AssetTypeOK'
  BY <1>7, <1>8, <1>11 DEF AssetTypeOK
<1>13. BlankRows'
  BY <1>8, <1>9 DEF AInv, BlankRows, Live
<1>14. AssigneeOnRecord'
  <2> SUFFICES ASSUME NEW b \in Assets, Live(b)', assets'[b].user # NoAssetUser
               PROVE  \E i \in DOMAIN assignments' :
                        assignments'[i] = [asset |-> b, user |-> assets'[b].user, open |-> TRUE]
    BY DEF AssigneeOnRecord
  <2>1. Live(b) /\ b # a /\ assets'[b].user = assets[b].user
    BY <1>8, <1>9 DEF Live
  <2>2. PICK i \in DOMAIN assignments :
               assignments[i] = [asset |-> b, user |-> assets[b].user, open |-> TRUE]
    BY <2>1 DEF AInv, AssigneeOnRecord
  <2>3. i \notin call.seen
    BY <1>1, <2>1, <2>2 DEF CallOk, UnassignCommit, Continue
  <2> QED BY <1>5, <1>6, <2>1, <2>2, <2>3
<1> QED BY <1>10, <1>11, <1>12, <1>13, <1>14 DEF AInv

LEMMA DeleteKeeps ==
  ASSUME AInv, NEW a \in Assets, DeleteAsset(a)
  PROVE  AInv'
<1> DEFINE row == [assets[a] EXCEPT !.deleted = TRUE]
<1>1. assets[a] \in AssetRow
  BY DEF AInv, AssetTypeOK
<1>2. assets' = [assets EXCEPT ![a] = row] /\ UNCHANGED <<assignments, assetCall>>
  BY DEF DeleteAsset
<1>3. row \in AssetRow /\ row.ref = assets[a].ref /\ row.deleted /\ assets[a].ref # 0
  BY <1>1 DEF AssetRow, DeleteAsset, Live
<1> HIDE DEF row
<1>4. /\ assets' \in [Assets -> AssetRow] /\ assets'[a] = row
      /\ \A b \in Assets : b # a => assets'[b] = assets[b]
  BY <1>2, <1>3 DEF AInv, AssetTypeOK
<1>5. AssetRows' = AssetRows /\ RefsDense' /\ RefsUnique'
  BY <1>3, <1>4, RefsKept
<1>6. \A d \in AssetCallers : CallOk(assetCall[d])'
  BY <1>2, <1>5 DEF AInv, CallOk
<1>7. AssetTypeOK' /\ BlankRows' /\ AssigneeOnRecord'
  BY <1>2, <1>3, <1>4 DEF AInv, AssetTypeOK, BlankRows, AssigneeOnRecord, Live
<1> QED BY <1>5, <1>6, <1>7 DEF AInv

-----------------------------------------------------------------------------
(* Every step keeps the invariant                                          *)

LEMMA AssetStepKeeps ==
  ASSUME AInv, [AssetNext]_assetVars
  PROVE  AInv'
<1>1. ASSUME NEW c \in AssetCallers, AssetStep(c) PROVE AInv'
  BY <1>1, CountKeeps, CheckKeeps, AutomateReadKeeps, AssignReadKeeps, UnassignReadKeeps,
     CreateKeeps, RefusedKeeps, RereadKeeps, TransitionKeeps, AssignKeeps, StampKeeps,
     UnassignKeeps, AutomateKeeps
     DEF AssetStep
<1>2. CASE UNCHANGED assetVars
  <2>1. UNCHANGED AssetRows
    BY <1>2 DEF assetVars, AssetRows
  <2> QED BY <1>2, <2>1 DEF assetVars, AInv, AssetTypeOK, CallOk, BlankRows, RefsDense,
                            RefsUnique, AssigneeOnRecord, Live
<1> QED BY <1>1, <1>2, DeleteKeeps DEF AssetNext

\* Whatever callers there are, the calls in progress, the references and the
\* assignees stay as AInv says.
THEOREM AssetInvariant == AssetSpec => []AInv
<1>1. AssetInit => AInv
  BY InitHolds
<1>2. AInv /\ [AssetNext]_assetVars => AInv'
  BY AssetStepKeeps
<1> QED BY <1>1, <1>2, PTL DEF AssetSpec

\* The rows of assets and of assignments keep their types.
THEOREM AssetsTyped == AssetSpec => []AssetTypeOK
<1>1. AInv => AssetTypeOK
  BY DEF AInv
<1> QED BY <1>1, AssetInvariant, PTL

\* The user a live asset shows has an assignment row that was never ended,
\* however assign and unassign interleave.
THEOREM AssigneeIsOnRecord == AssetSpec => []AssigneeOnRecord
<1>1. AInv => AssigneeOnRecord
  BY DEF AInv
<1> QED BY <1>1, AssetInvariant, PTL

-----------------------------------------------------------------------------
(* What a step may do to a row                                             *)

\* The state of a row moves by a write that has just been allowed, or by the
\* write of a call whose read is out of date.
LEMMA MovesAreLegal ==
  ASSUME AInv, [AssetNext]_assetVars, NEW a \in Assets,
         assets[a].ref # 0, assets'[a].state # assets[a].state
  PROVE  \/ IsAllowedAssetTransition(assets[a].state, assets'[a].state)
         \/ \E c \in AssetCallers :
              StaleWrite(c, a) /\ IsAllowedAssetTransition(assetCall[c].saw, assets'[a].state)
<1>1. assets # assets'
  OBVIOUS
<1>2. ASSUME NEW b \in Assets, DeleteAsset(b) PROVE FALSE
  BY <1>2 DEF DeleteAsset, AInv, AssetTypeOK, AssetRow
<1>3. ASSUME NEW c \in AssetCallers, AssetStep(c)
      PROVE  \/ CreateAssetCommit(c) \/ TransitionWrite(c) \/ AssignCommit(c)
             \/ UnassignCommit(c) \/ AutomateWrite(c)
  BY <1>1, <1>3 DEF AssetStep, CreateAssetCount, TransitionCheck, AutomateRead, AssignRead, UnassignRead,
                    CreateAssetRefused, TransitionRead, UnassignStamp
<1>4. ASSUME NEW c \in AssetCallers, AssetStep(c)
      PROVE  \/ IsAllowedAssetTransition(assets[a].state, assets'[a].state)
             \/ StaleWrite(c, a) /\ IsAllowedAssetTransition(assetCall[c].saw, assets'[a].state)
  <2> DEFINE call == assetCall[c]
  <2>1. call \in AssetCall /\ CallOk(call) /\ assets[a] \in AssetRow /\ assets \in [Assets -> AssetRow]
    BY DEF AInv, AssetTypeOK
  <2>2. Finish(c) => assetCall'[c].pc = "idle"
    BY DEF Finish, NoAssetCall, AInv, AssetTypeOK
  <2>3. CASE CreateAssetCommit(c)
    BY <2>1, <2>3 DEF CreateAssetCommit, AssetRow
  <2>4. CASE TransitionWrite(c)
    BY <2>1, <2>4 DEF TransitionWrite, AssetRow, CallOk, Continue
  <2>5. CASE AssignCommit(c)
    <3>1. a = call.asset /\ call.op = "assign" /\ Finish(c)
      BY <2>1, <2>5 DEF AssignCommit, Continue
    <3>2. call.to # call.saw /\ assets'[a].state = call.to
      BY <2>1, <2>5, <3>1 DEF AssignCommit, AssetRow
    <3>3. IsAllowedAssetTransition(call.saw, assets'[a].state)
      BY <2>1, <3>1, <3>2 DEF CallOk
    <3> QED BY <2>2, <3>1, <3>3 DEF StaleWrite
  <2>6. CASE UnassignCommit(c)
    BY <2>1, <2>6 DEF UnassignCommit, AssetRow
  <2>7. CASE AutomateWrite(c)
    <3>1. a = call.asset /\ call.op = "automate" /\ Finish(c) /\ assets'[a].state = call.to
      BY <2>1, <2>7 DEF AutomateWrite, Continue, AssetRow
    <3>2. IsAllowedAssetTransition(call.saw, assets'[a].state)
      BY <2>1, <3>1 DEF CallOk
    <3> QED BY <2>2, <3>1, <3>2 DEF StaleWrite
  <2> QED BY <1>3, <1>4, <2>3, <2>4, <2>5, <2>6, <2>7
<1> QED BY <1>1, <1>2, <1>4 DEF AssetNext, assetVars

\* A creation whose count is still right finds its reference free.
LEMMA RefusalMeansNewRow ==
  ASSUME AInv, NEW c \in AssetCallers, CreateAssetRefused(c)
  PROVE  AssetRows # assetCall[c].rows
<1> SUFFICES ASSUME AssetRows = assetCall[c].rows PROVE FALSE
  OBVIOUS
<1>1. PICK b \in Assets : assets[b].ref = Cardinality(AssetRows) + 1
  BY DEF CreateAssetRefused, NextAssetRef
<1>2. assets[b].ref <= Cardinality(AssetRows)
  BY DEF AInv, RefsDense
<1> QED BY <1>1, <1>2, RowCount

\* A deleted row exists, so a creation leaves it alone; people's writes ask for
\* a live one.
LEMMA DeletedRowKept ==
  ASSUME AInv, [AssetNext]_assetVars, NEW a \in Assets,
         assets[a].deleted, assets'[a] # assets[a]
  PROVE  /\ assets'[a] = [assets[a] EXCEPT !.state = assets'[a].state]
         /\ \E c \in AssetCallers :
              assetCall[c].op = "automate" /\ assetCall[c].asset = a /\ assetCall'[c].pc = "idle"
<1>1. assets # assets' /\ assets \in [Assets -> AssetRow] /\ assets[a].ref # 0 /\ ~Live(a)
  BY DEF AInv, AssetTypeOK, BlankRows, Live
<1>2. ASSUME NEW b \in Assets, DeleteAsset(b) PROVE FALSE
  BY <1>1, <1>2 DEF DeleteAsset
<1>3. ASSUME NEW c \in AssetCallers, AssetStep(c) PROVE AutomateWrite(c)
  <2>1. \/ CreateAssetCommit(c) \/ TransitionWrite(c) \/ AssignCommit(c)
        \/ UnassignCommit(c) \/ AutomateWrite(c)
    BY <1>1, <1>3 DEF AssetStep, CreateAssetCount, TransitionCheck, AutomateRead, AssignRead,
                      UnassignRead, CreateAssetRefused, TransitionRead, UnassignStamp
  <2>2. ~CreateAssetCommit(c)
    BY <1>1 DEF CreateAssetCommit
  <2>3. ~TransitionWrite(c) /\ ~AssignCommit(c) /\ ~UnassignCommit(c)
    BY <1>1 DEF TransitionWrite, AssignCommit, UnassignCommit
  <2> QED BY <2>1, <2>2, <2>3
<1>4. PICK c \in AssetCallers : AutomateWrite(c)
  BY <1>1, <1>2, <1>3 DEF AssetNext, assetVars
<1>5. assetCall[c].op = "automate" /\ assetCall[c].asset = a
  BY <1>1, <1>4 DEF AutomateWrite, Continue
<1>6. assetCall'[c].pc = "idle"
  BY <1>4 DEF AutomateWrite, Finish, NoAssetCall, AInv, AssetTypeOK
<1>7. assets'[a] = [assets[a] EXCEPT !.state = assets'[a].state]
  BY <1>1, <1>4, <1>5 DEF AutomateWrite, AssetRow
<1> QED BY <1>5, <1>6, <1>7

\* An asset's state moves along the transition table, except by a write of a
\* call on a state the row has left.
THEOREM TransitionsLegal == AssetSpec => AssetTransitionsAreLegal
<1> DEFINE Legal ==
      \A a \in Assets :
        LET old == assets[a].state
            new == assets'[a].state IN
        assets[a].ref # 0 /\ new # old =>
          \/ IsAllowedAssetTransition(old, new)
          \/ \E c \in AssetCallers :
               StaleWrite(c, a) /\ IsAllowedAssetTransition(assetCall[c].saw, new)
<1>1. AInv /\ [AssetNext]_assetVars => Legal
  BY MovesAreLegal
<1> HIDE DEF Legal
<1>2. AInv /\ [AssetNext]_assetVars => [Legal]_assetVars
  BY <1>1
<1>3. AssetSpec => [][Legal]_assetVars
  BY <1>2, AssetInvariant, PTL DEF AssetSpec
<1> USE DEF Legal
<1> QED BY <1>3 DEF AssetTransitionsAreLegal

\* References are unique, and a creation is refused only if another asset
\* appeared after its count.
THEOREM RefsNeverBlock == AssetSpec => AssetRefsNeverBlock
<1> DEFINE Free ==
      /\ \A a, b \in Assets : assets'[a].ref = assets'[b].ref /\ a # b => assets'[a].ref = 0
      /\ \A c \in AssetCallers : CreateAssetRefused(c) => AssetRows # assetCall[c].rows
<1>1. AInv /\ AInv' => Free
  BY RefusalMeansNewRow DEF AInv, RefsUnique
<1> HIDE DEF Free
<1>2. AInv /\ AInv' => [Free]_assetVars
  BY <1>1
<1>3. AssetSpec => [][Free]_assetVars
  BY <1>2, AssetInvariant, PTL
<1> USE DEF Free
<1> QED BY <1>3 DEF AssetRefsNeverBlock

\* A deleted asset is written only by a workflow action that read it before.
THEOREM DeletionIsFinal == AssetSpec => DeletedAssetIsFinal
<1> DEFINE Final ==
      \A a \in Assets :
        assets[a].deleted /\ assets'[a] # assets[a] =>
          /\ assets'[a] = [assets[a] EXCEPT !.state = assets'[a].state]
          /\ \E c \in AssetCallers :
               /\ assetCall[c].op = "automate"
               /\ assetCall[c].asset = a
               /\ assetCall'[c].pc = "idle"
<1>1. AInv /\ [AssetNext]_assetVars => Final
  BY DeletedRowKept
<1> HIDE DEF Final
<1>2. AInv /\ [AssetNext]_assetVars => [Final]_assetVars
  BY <1>1
<1>3. AssetSpec => [][Final]_assetVars
  BY <1>2, AssetInvariant, PTL DEF AssetSpec
<1> USE DEF Final
<1> QED BY <1>3 DEF DeletedAssetIsFinal

\* The three together: what a step may never do to an asset's row.
THEOREM AssetRowsAreSound == AssetSpec => AssetRowsSound
BY TransitionsLegal, RefsNeverBlock, DeletionIsFinal DEF AssetRowsSound

=============================================================================
