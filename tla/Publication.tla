---------------------------- MODULE Publication ----------------------------
(***************************************************************************)
(* Versioned configuration: workflow definitions, SLA policies and         *)
(* business schedules (WorkflowsService, SlaPoliciesService,               *)
(* BusinessSchedulesService).  Each has numbered versions, of which a      *)
(* draft is edited and then published in place of the one before it.       *)
(*                                                                         *)
(* Every operation reads the configuration, checks, and writes later, by   *)
(* the id of the version it saw.  The statements of the transaction that   *)
(* publishes run at READ COMMITTED: the rows it retires are those its      *)
(* first statement saw PUBLISHED and that still are when it holds their    *)
(* locks; its other effects take place together.  The unique key on the    *)
(* version number refuses a second version of the same number.             *)
(*                                                                         *)
(* Abstractions: a version's content is its priority and whether it would  *)
(* pass the full validation of a publication (a draft need not).  The      *)
(* published schedule that a policy needs, keys (but for the only one a    *)
(* schedule may have), names, permissions and audit rows are left out.     *)
(***************************************************************************)
EXTENDS Naturals, Sequences, Functions

CONSTANTS
  Configs,        \* configurations of one tenant, all of one kind
  NoConfig,       \* "of no configuration"
  Editors,        \* API requests in progress
  MaxVersions     \* bound: versions of all configurations together

ConfigKinds == {"WORKFLOW", "POLICY", "SCHEDULE"}

Ranks == {1, 2}   \* priorities in use

ASSUME PublicationConstants == MaxVersions \in Nat /\ NoConfig \notin Configs

VARIABLES
  kind,           \* which of the three services this is
  configs,        \* the configurations' rows
  edit,           \* API requests in progress
  met             \* history: pairs of requests that were under way together

publicationVars == <<kind, configs, edit, met>>

Version == [state : {"DRAFT", "PUBLISHED", "RETIRED"}, sound : BOOLEAN, rank : Ranks]

Config == [state : {"none", "live", "deleted"}, active : Nat, rank : Ranks, versions : Seq(Version)]

Edit == [op : {"none", "create", "update", "publish", "clone", "delete"},
         pc : {"idle", "loaded", "checked", "retiring", "written"},
         config : Configs \cup {NoConfig},
         draft : Nat,             \* the draft it read; 0: none
         latest : Nat,            \* without a draft, the last version it read
         first : BOOLEAN,         \* of a schedule, it read that no version was active
         sound : BOOLEAN,         \* what it writes
         rank : Ranks \cup {0},   \* the priority it writes; 0: none given
         retire : SUBSET Nat]

PublicationTypeOK ==
  /\ kind \in ConfigKinds
  /\ configs \in [Configs -> Config]
  /\ edit \in [Editors -> Edit]
  /\ met \subseteq ({"publications", "draft", "ranks"} \X (Configs \cup {NoConfig}))

NoEdit == [op |-> "none", pc |-> "idle", config |-> NoConfig, draft |-> 0, latest |-> 0,
           first |-> FALSE, sound |-> TRUE, rank |-> 1, retire |-> {}]

PublicationInit ==
  /\ kind \in ConfigKinds
  /\ configs = [d \in Configs |-> [state |-> "none", active |-> 0, rank |-> 1,
                                   versions |-> <<>>]]
  /\ edit = [e \in Editors |-> NoEdit]
  /\ met = {}

-----------------------------------------------------------------------------

VersionsIn(d, st) == {v \in DOMAIN configs[d].versions : configs[d].versions[v].state = st}

\* The priorities another configuration may not share: a workflow's own, a
\* policy's once a version with it is published.
Claims(d) ==
  IF configs[d].state # "live" THEN {}
  ELSE CASE kind = "WORKFLOW" -> {configs[d].rank}
         [] kind = "POLICY" -> {configs[d].versions[v].rank : v \in VersionsIn(d, "PUBLISHED")}
         [] kind = "SCHEDULE" -> {}

Taken(d, r) == \E other \in Configs \ {d} : r \in Claims(other)

EndEdit(e) == edit' = [edit EXCEPT ![e] = NoEdit]

Put(d, config) == configs' = [configs EXCEPT ![d] = config]

\* Room for one more version (the bound).
RoomForAVersion ==
  SumFunctionOnSet([d \in Configs |-> Len(configs[d].versions)], Configs) < MaxVersions

NewDraft(sound, rank) == [state |-> "DRAFT", sound |-> sound, rank |-> rank]

-----------------------------------------------------------------------------

\* History: the requests that a new one of this kind, on d, meets.
Meets(op, d) ==
  LET Under(ops) == {o \in Editors : edit[o].op \in ops}
      On(ops)    == {o \in Under(ops) : edit[o].config = d}
      Ranking    == IF kind = "WORKFLOW" THEN {"create", "update"} ELSE {"publish"}
  IN  (IF op = "publish" /\ On({"publish"}) # {} THEN {<<"publications", d>>} ELSE {})
      \cup (IF \/ op = "publish" /\ On({"update"}) # {}
               \/ op = "update" /\ On({"publish"}) # {}
            THEN {<<"draft", d>>} ELSE {})
      \cup (IF op \in Ranking /\ Under(Ranking) # {} THEN {<<"ranks", NoConfig>>} ELSE {})

\* The draft a request finds (versions.find), and the last version (versions[0]).
DraftOf(d) ==
  LET drafts == VersionsIn(d, "DRAFT") IN
  IF drafts = {} THEN 0 ELSE CHOOSE v \in drafts : \A w \in drafts : w <= v

\* Request e begins: it reads the configuration.
Begin(e, d, request) ==
  /\ edit[e].pc = "idle"
  /\ configs[d].state = IF request.op = "create" THEN "none" ELSE "live"
  /\ edit' = [edit EXCEPT ![e] = request]
  /\ met' = met \cup Meets(request.op, d)
  /\ UNCHANGED <<kind, configs>>

In(e, op, pc) == edit[e].op = op /\ edit[e].pc = pc

\* The process, or the request, ends between two of its statements; refusals
\* by the checks end it in the same way.
GiveUp(e) ==
  /\ edit[e].op # "none"
  /\ EndEdit(e)
  /\ UNCHANGED <<kind, configs, met>>

-----------------------------------------------------------------------------
(* create: the checks, then the configuration with a first draft           *)

BeginCreate(e, d, sound, rank) ==
  /\ RoomForAVersion
  /\ Begin(e, d, [NoEdit EXCEPT !.op = "create", !.pc = "checked", !.config = d,
                                !.sound = sound, !.rank = rank])

CreateWorkflowCheck(e, d, sound, rank) ==
  kind = "WORKFLOW" /\ ~Taken(d, rank) /\ BeginCreate(e, d, sound, rank)

CreatePolicyCheck(e, d, rank) == kind = "POLICY" /\ BeginCreate(e, d, TRUE, rank)

\* There is one key, "default".
KeyIsFree == \A d \in Configs : configs[d].state = "none"

CreateScheduleCheck(e, d) == kind = "SCHEDULE" /\ KeyIsFree /\ BeginCreate(e, d, TRUE, 1)

Insert(e, rank, draft) ==
  LET d == edit[e].config IN
  /\ In(e, "create", "checked")
  /\ configs[d].state = "none"
  /\ RoomForAVersion
  /\ Put(d, [state |-> "live", active |-> 0, rank |-> rank, versions |-> <<draft>>])
  /\ EndEdit(e)
  /\ UNCHANGED <<kind, met>>

CreateWorkflow(e) == kind = "WORKFLOW" /\ Insert(e, edit[e].rank, NewDraft(edit[e].sound, 1))

CreatePolicy(e) == kind = "POLICY" /\ Insert(e, 1, NewDraft(TRUE, edit[e].rank))

CreateSchedule(e) == kind = "SCHEDULE" /\ KeyIsFree /\ Insert(e, 1, NewDraft(TRUE, 1))

-----------------------------------------------------------------------------
(* updateDraft                                                             *)

BeginUpdate(e, d, pc, sound, rank) ==
  Begin(e, d, [NoEdit EXCEPT !.op = "update", !.pc = pc, !.config = d, !.draft = DraftOf(d),
                            !.latest = IF DraftOf(d) = 0 THEN Len(configs[d].versions) ELSE 0,
                            !.sound = sound, !.rank = rank])

UpdateWorkflow(e, d, sound, rank) ==
  kind = "WORKFLOW" /\ BeginUpdate(e, d, "loaded", sound, rank)

\* A workflow's priority is looked up if one is given.
UpdateWorkflowCheck(e) ==
  /\ In(e, "update", "loaded")
  /\ edit[e].rank # 0 => ~Taken(edit[e].config, edit[e].rank)
  /\ edit' = [edit EXCEPT ![e].pc = "checked"]
  /\ UNCHANGED <<kind, configs, met>>

UpdatePolicy(e, d, rank) == kind = "POLICY" /\ BeginUpdate(e, d, "checked", TRUE, rank)

\* The time zone of a schedule's new draft is not looked at.
UpdateSchedule(e, d, sound) ==
  /\ kind = "SCHEDULE"
  /\ sound \/ DraftOf(d) = 0
  /\ BeginUpdate(e, d, "checked", sound, 1)

\* A new version takes the number after the last one read, if it is still free.
AddVersion(q, draft) ==
  /\ Len(configs[q.config].versions) = q.latest
  /\ RoomForAVersion
  /\ Put(q.config, [configs[q.config] EXCEPT !.versions = Append(@, draft)])

\* A draft is written by its id, published in the meantime or not.
WriteDraft(e, draft) ==
  LET q == edit[e] IN
  /\ In(e, "update", "checked")
  /\ IF q.draft = 0 THEN AddVersion(q, draft)
     ELSE Put(q.config, [configs[q.config] EXCEPT
                           !.versions[q.draft] = [draft EXCEPT !.state = configs[q.config].versions[q.draft].state]])
  /\ UNCHANGED <<kind, met>>

WriteWorkflowDraft(e) ==
  /\ kind = "WORKFLOW"
  /\ WriteDraft(e, NewDraft(edit[e].sound, 1))
  /\ edit' = [edit EXCEPT ![e].pc = "written"]

\* The workflow's own row comes after its version.
UpdateConfig(e) ==
  LET q == edit[e] IN
  /\ In(e, "update", "written")
  /\ Put(q.config, [configs[q.config] EXCEPT !.rank = IF q.rank = 0 THEN @ ELSE q.rank])
  /\ EndEdit(e)
  /\ UNCHANGED <<kind, met>>

WritePolicyDraft(e) ==
  kind = "POLICY" /\ WriteDraft(e, NewDraft(TRUE, edit[e].rank)) /\ EndEdit(e)

WriteScheduleDraft(e) ==
  kind = "SCHEDULE" /\ WriteDraft(e, NewDraft(edit[e].sound, 1)) /\ EndEdit(e)

-----------------------------------------------------------------------------
(* publish: the draft that was read is validated, the versions in force    *)
(* are retired and the draft is published                                  *)

BeginPublish(e, d, pc) ==
  /\ DraftOf(d) # 0
  /\ Begin(e, d, [NoEdit EXCEPT !.op = "publish", !.pc = pc, !.config = d, !.draft = DraftOf(d),
                                !.first = kind = "SCHEDULE" /\ configs[d].active = 0,
                                !.rank = configs[d].versions[DraftOf(d)].rank])

SoundDraft(d) == DraftOf(d) # 0 /\ configs[d].versions[DraftOf(d)].sound

\* Mutant: publication without validation.
MutantPublishWorkflow(e, d) == kind = "WORKFLOW" /\ BeginPublish(e, d, "checked")

\* validateForPublish.
PublishWorkflow(e, d) == kind = "WORKFLOW" /\ SoundDraft(d) /\ BeginPublish(e, d, "checked")

PublishSchedule(e, d) == kind = "SCHEDULE" /\ SoundDraft(d) /\ BeginPublish(e, d, "checked")

PublishPolicy(e, d) == kind = "POLICY" /\ BeginPublish(e, d, "loaded")

\* Is there another published policy of the draft's priority?
PublishPolicyCheck(e) ==
  /\ In(e, "publish", "loaded")
  /\ ~Taken(edit[e].config, edit[e].rank)
  /\ edit' = [edit EXCEPT ![e].pc = "checked", ![e].rank = 1]
  /\ UNCHANGED <<kind, configs, met>>

\* The first statement of the transaction finds the versions to retire.
BeginRetire(e, versions) ==
  /\ In(e, "publish", "checked")
  /\ edit' = [edit EXCEPT ![e].pc = "retiring", ![e].retire = versions]
  /\ UNCHANGED <<kind, configs, met>>

RetireWorkflow(e) ==
  kind = "WORKFLOW" /\ BeginRetire(e, VersionsIn(edit[e].config, "PUBLISHED"))

RetirePolicy(e) ==
  kind = "POLICY" /\ BeginRetire(e, VersionsIn(edit[e].config, "PUBLISHED"))

\* A schedule that had no active version when it was read has none retired.
RetireSchedule(e) ==
  /\ kind = "SCHEDULE"
  /\ BeginRetire(e, IF edit[e].first THEN {} ELSE VersionsIn(edit[e].config, "PUBLISHED"))

\* Versions with those in retire retired and the draft published.
Published(versions, retire, draft) ==
  [v \in DOMAIN versions |->
     IF v = draft THEN [versions[v] EXCEPT !.state = "PUBLISHED"]
     ELSE IF v \in retire /\ versions[v].state = "PUBLISHED"
          THEN [versions[v] EXCEPT !.state = "RETIRED"]
     ELSE versions[v]]

PublishVersion(e) ==
  LET q == edit[e] IN
  /\ In(e, "publish", "retiring")
  /\ Put(q.config, [configs[q.config] EXCEPT !.versions = Published(@, q.retire, q.draft),
                                             !.active = q.draft])
  /\ EndEdit(e)
  /\ UNCHANGED <<kind, met>>

-----------------------------------------------------------------------------
(* Workflows only: a draft from an earlier version, soft deletion           *)

CloneRead(e, d) ==
  /\ kind = "WORKFLOW"
  /\ DraftOf(d) = 0
  /\ Begin(e, d, [NoEdit EXCEPT !.op = "clone", !.pc = "loaded", !.config = d,
                                !.latest = Len(configs[d].versions)])

CloneDraft(e, source) ==
  LET q == edit[e] IN
  /\ In(e, "clone", "loaded")
  /\ source \in 1..q.latest
  /\ AddVersion(q, NewDraft(configs[q.config].versions[source].sound, 1))
  /\ EndEdit(e)
  /\ UNCHANGED <<kind, met>>

DeleteRead(e, d) ==
  /\ kind = "WORKFLOW"
  /\ Begin(e, d, [NoEdit EXCEPT !.op = "delete", !.pc = "loaded", !.config = d])

DeleteConfig(e) ==
  LET q == edit[e] IN
  /\ In(e, "delete", "loaded")
  /\ Put(q.config, [configs[q.config] EXCEPT !.state = "deleted"])
  /\ EndEdit(e)
  /\ UNCHANGED <<kind, met>>

-----------------------------------------------------------------------------
\* The requests that begin on configuration d.  (Bound: an update that gives
\* a priority, and a creation with priority 2, writes a sound definition.)
Request(e, d) ==
  \/ \E sound \in BOOLEAN, r \in Ranks :
       (sound \/ r = 1) /\ CreateWorkflowCheck(e, d, sound, r)
  \/ \E sound \in BOOLEAN, r \in Ranks \cup {0} :
       (sound \/ r = 0) /\ UpdateWorkflow(e, d, sound, r)
  \/ \E r \in Ranks : CreatePolicyCheck(e, d, r) \/ UpdatePolicy(e, d, r)
  \/ CreateScheduleCheck(e, d)
  \/ \E sound \in BOOLEAN : UpdateSchedule(e, d, sound)
  \/ PublishWorkflow(e, d)
  \/ PublishPolicy(e, d)
  \/ PublishSchedule(e, d)
  \/ CloneRead(e, d)
  \/ DeleteRead(e, d)

PublicationNext ==
  \E e \in Editors :
    \/ \E d \in Configs : Request(e, d)
    \/ GiveUp(e)
    \/ CreateWorkflow(e)
    \/ CreatePolicy(e)
    \/ CreateSchedule(e)
    \/ UpdateWorkflowCheck(e)
    \/ WriteWorkflowDraft(e)
    \/ UpdateConfig(e)
    \/ WritePolicyDraft(e)
    \/ WriteScheduleDraft(e)
    \/ PublishPolicyCheck(e)
    \/ RetireWorkflow(e)
    \/ RetirePolicy(e)
    \/ RetireSchedule(e)
    \/ PublishVersion(e)
    \/ \E source \in 1..MaxVersions : CloneDraft(e, source)
    \/ DeleteConfig(e)

PublicationSpec == PublicationInit /\ [][PublicationNext]_publicationVars

-----------------------------------------------------------------------------

\* What the dispatcher and the SLA engine look up: the active version is a
\* published one, whatever overlapped.
ActiveIsPublished ==
  \A d \in Configs :
    configs[d].active # 0 => configs[d].versions[configs[d].active].state = "PUBLISHED"

\* No other version is published, unless two publications overlapped: the
\* one that reads first may retire too little.
OnlyActiveIsPublished ==
  \A d \in Configs :
    <<"publications", d>> \notin met => VersionsIn(d, "PUBLISHED") \subseteq {configs[d].active}

\* Whatever was ever published passed the validation, and stays as it was
\* validated, unless an edit of the draft overlapped its publication.
PublishedWasValidated ==
  \A d \in Configs :
    <<"draft", d>> \notin met =>
      \A v \in VersionsIn(d, "PUBLISHED") \cup VersionsIn(d, "RETIRED") :
        configs[d].versions[v].sound

\* Two configurations do not claim one priority, unless the requests that
\* checked it overlapped, or an edit of a draft overlapped its publication.
RanksAreUnique ==
  \A d1, d2 \in Configs :
    /\ d1 # d2
    /\ met \cap ({"ranks", "draft"} \X {d1, d2, NoConfig}) = {}
    => Claims(d1) \cap Claims(d2) = {}

\* Publication leaves one validated version in force (WorkflowsService.publish,
\* SlaPoliciesService.publish, BusinessSchedulesService.publish).
PublicationSound ==
  ActiveIsPublished /\ OnlyActiveIsPublished /\ PublishedWasValidated /\ RanksAreUnique
=============================================================================
