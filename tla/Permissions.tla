---------------------------- MODULE Permissions ----------------------------
(***************************************************************************)
(* Roles, the permissions granted to them and the users they are assigned  *)
(* to, and what a search for tickets shows a user of them.                 *)
(*                                                                         *)
(* assignRole and grantRolePermission check in statements of their own and *)
(* write in another: what the actor may pass on is decided on roles that   *)
(* may have grown since.  Nothing in the code takes a role or a permission *)
(* away again, and the scope of a permission plays no part in the checks   *)
(* (can without a resource), only in what is found and read.               *)
(***************************************************************************)
EXTENDS Naturals, FiniteSets

CONSTANTS
  People,             \* users of the tenant
  Nobody,             \* a ticket without an assignee
  Roles,              \* roles of the tenant
  Permitters,         \* requests in progress
  SeededGrants,       \* sets of grants the tenant may start with
  MaxPermissionCalls  \* bound on the requests of a behaviour

\* Two permissions guard the operations of this module; the third is about
\* tickets and the only one that is compared with a resource.
PermissionKeys == {"role.assign", "role.update", "ticket.read"}
ScopesFor(key) ==
  IF key = "ticket.read" THEN {"OWN", "GROUP", "TENANT", "ORGANIZATION"} ELSE {"TENANT"}
Grants == {g \in [role : Roles, key : PermissionKeys, scope : UNION {ScopesFor(k) : k \in PermissionKeys}] :
             g.scope \in ScopesFor(g.key)}

ASSUME PermissionConstants ==
  /\ Nobody \notin People
  /\ SeededGrants \subseteq SUBSET Grants
  /\ MaxPermissionCalls \in Nat

VARIABLES
  grants,      \* role_permissions
  userRoles,   \* user_roles that are not revoked
  permit,      \* requests
  seeded,      \* history: the permissions someone held at the start
  permitted    \* requests so far, at most MaxPermissionCalls

permissionVars == <<grants, userRoles, permit, seeded, permitted>>

PermitCall == [pc     : {"idle", "reading", "checking", "granting"},
               actor  : People \cup {Nobody},
               target : People \cup {Nobody},
               grant  : SUBSET Grants,          \* the grant to insert
               role   : SUBSET Roles,           \* the role to assign
               left   : SUBSET PermissionKeys,  \* permissions still to check
               late   : SUBSET PermissionKeys]  \* history: granted to the role since it was read
NoPermitCall == [pc |-> "idle", actor |-> Nobody, target |-> Nobody, grant |-> {},
                 role |-> {}, left |-> {}, late |-> {}]

PermissionTypeOK ==
  /\ grants \subseteq Grants
  /\ userRoles \subseteq People \X Roles
  /\ permit \in [Permitters -> PermitCall]
  /\ seeded \subseteq PermissionKeys
  /\ permitted \in 0..MaxPermissionCalls

-----------------------------------------------------------------------------
GetPermissionScopes(user, key) ==
  {g.scope : g \in {g \in grants : g.key = key /\ <<user, g.role>> \in userRoles}}

Can(user, key) == GetPermissionScopes(user, key) # {}
Held(user) == {key \in PermissionKeys : Can(user, key)}
GetRolePermissionKeys(role) == {g.key : g \in {g \in grants : g.role = role}}
UserBelongsToTenant(user) == \E role \in Roles : <<user, role>> \in userRoles

\* scopeAllows; the handlers of tickets pass no memberships of groups, and those
\* of organizations do not exist.
ScopeAllows(scope, user, ticket) ==
  \/ scope = "TENANT"
  \/ scope = "OWN" /\ user \in {ticket.requester, ticket.assignee}

\* can with a resource: what getTicketById answers.
CanRead(user, ticket) ==
  \E scope \in GetPermissionScopes(user, "ticket.read") : ScopeAllows(scope, user, ticket)

\* The filter of a list: everything, or what is one's own, what is of one's groups
\* (none are known), both or neither.
ListScopeFilter(user) ==
  LET scopes == GetPermissionScopes(user, "ticket.read") IN
  [everything |-> "TENANT" \in scopes,
   own        |-> "OWN" \in scopes,
   ofGroups   |-> IF "GROUP" \in scopes THEN {{}} ELSE {}]

\* buildScopeOrClause: no clause at all finds every ticket, an empty one none.
ScopeClauseFinds(filter, user, ticket) ==
  \/ ~filter.own /\ filter.ofGroups = {}
  \/ filter.own /\ (ticket.requester = user \/ ticket.assignee = user)
  \/ \E groups \in filter.ofGroups : ticket.group \in groups

\* searchTickets: refused without a filter, and a filter of everything adds no clause.
Search(user, ticket) ==
  LET filter == ListScopeFilter(user) IN
  \/ filter.everything
  \/ (filter.own \/ filter.ofGroups # {}) /\ ScopeClauseFinds(filter, user, ticket)

-----------------------------------------------------------------------------
PermissionInit ==
  /\ grants \in SeededGrants
  /\ userRoles \in SUBSET (People \X Roles)
  /\ permit = [c \in Permitters |-> NoPermitCall]
  /\ seeded = UNION {Held(u) : u \in People}
  /\ permitted = 0

PermitStarts(c) ==
  /\ permit[c].pc = "idle"
  /\ permitted < MaxPermissionCalls
  /\ permitted' = permitted + 1
  /\ UNCHANGED <<grants, userRoles, seeded>>

PermitGoes(c, change) ==
  /\ permit' = [permit EXCEPT ![c] = change]
  /\ UNCHANGED <<grants, userRoles, seeded, permitted>>

\* assignRole up to the checks that need no more than a count: the actor may assign
\* roles, and the target is of the tenant.
AssignRole(c, actor, target, role) ==
  /\ PermitStarts(c)
  /\ Can(actor, "role.assign")
  /\ UserBelongsToTenant(target)
  /\ permit' = [permit EXCEPT ![c] = [NoPermitCall EXCEPT !.pc = "reading", !.actor = actor,
                                                          !.target = target, !.role = {role}]]

ReadRoleKeys(c) ==
  LET call == permit[c] IN
  /\ call.pc = "reading"
  /\ PermitGoes(c, [call EXCEPT !.pc = "checking",
                                !.left = UNION {GetRolePermissionKeys(r) : r \in call.role}])

\* One of the checks of Promise.all; they answer in any order.
CheckRoleKey(c, key) ==
  LET call == permit[c] IN
  /\ call.pc = "checking"
  /\ key \in call.left
  /\ Can(call.actor, key)
  /\ PermitGoes(c, [call EXCEPT !.left = @ \ {key}])

\* A check answers no and the request is denied, or the process dies.
EndPermit(c) ==
  /\ permit[c].pc # "idle"
  /\ PermitGoes(c, NoPermitCall)

\* The upsert, once every check has answered yes.
WriteUserRole(c) ==
  LET call == permit[c] IN
  /\ call.pc = "checking"
  /\ call.left = {}
  /\ userRoles' = userRoles \cup ({call.target} \X call.role)
  /\ permit' = [permit EXCEPT ![c] = NoPermitCall]
  /\ UNCHANGED <<grants, seeded, permitted>>

\* grantRolePermission: its four checks run side by side; each can only become true, so
\* one moment stands for all.
GrantRolePermission(c, actor, grant) ==
  /\ PermitStarts(c)
  /\ Can(actor, "role.update")
  /\ Can(actor, grant.key)
  /\ permit' = [permit EXCEPT ![c] = [NoPermitCall EXCEPT !.pc = "granting", !.actor = actor,
                                                          !.grant = {grant}]]

\* The upsert, and for the history of the others: what their role has gained.
WriteGrant(c) ==
  LET gained(d) == {g.key : g \in {g \in permit[c].grant : g.role \in permit[d].role}} IN
  /\ permit[c].pc = "granting"
  /\ grants' = grants \cup permit[c].grant
  /\ permit' = [d \in Permitters |->
       IF d = c THEN NoPermitCall
       ELSE IF permit[d].pc = "checking"
            THEN [permit[d] EXCEPT !.late = @ \cup gained(d)] ELSE permit[d]]
  /\ UNCHANGED <<userRoles, seeded, permitted>>

PermissionNext ==
  \E c \in Permitters :
    \/ \E actor, target \in People, role \in Roles : AssignRole(c, actor, target, role)
    \/ \E actor \in People, grant \in Grants : GrantRolePermission(c, actor, grant)
    \/ ReadRoleKeys(c)
    \/ \E key \in PermissionKeys : CheckRoleKey(c, key)
    \/ EndPermit(c)
    \/ WriteUserRole(c)
    \/ WriteGrant(c)

PermissionSpec == PermissionInit /\ [][PermissionNext]_permissionVars

-----------------------------------------------------------------------------
\* A permission nobody held at the start is held by nobody later, whatever requests
\* overlap: roles and permissions only travel from those who have them.
NothingFromNowhere == \A user \in People : Held(user) \subseteq seeded

\* The actor of a request that assigns a role holds every permission of the role the
\* request is done with, but for those the role was granted after the request read it.
AssignsWithinReach ==
  \A c \in Permitters :
    permit[c].pc = "checking" =>
      \A role \in permit[c].role :
        GetRolePermissionKeys(role) \ (permit[c].left \cup permit[c].late) \subseteq Held(permit[c].actor)

\* A search shows a user exactly the tickets the user may open: the filter of the
\* query and the check of a single ticket are written twice and agree.
ListsWhatReads ==
  \A user \in People :
    \A ticket \in [requester : People, assignee : People \cup {Nobody}, group : {"none", "some"}] :
      Search(user, ticket) <=> CanRead(user, ticket)

PermissionsSound == NothingFromNowhere /\ AssignsWithinReach /\ ListsWhatReads
=============================================================================
