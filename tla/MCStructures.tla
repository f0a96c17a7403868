---------------------------- MODULE MCStructures ----------------------------
(* Small instances, for TLC, of five components that share no state: the    *)
(* relationships of assets, their links to tickets, attachments, the        *)
(* business-hours clock and permissions.  The initial state picks the one   *)
(* that runs; the others stay as they start.                                *)
EXTENDS AssetGraph, AssetLinks, Attachments, BusinessClock, Permissions, TLC

CONSTANTS g1, g2   \* roles

VARIABLE part     \* the component that runs

\* Schedules of a two-day week, four ticks to the day: up to two windows on
\* the first day; none, one within the day or one past midnight on the second;
\* the second may be a holiday.
MCWindows == [start : 0..3, end : 0..3]
MCSchedules ==
  LET within == [start |-> 1, end |-> 3]
      overnight == [start |-> 3, end |-> 1]
      day1 == {{}} \cup {{v, w} : v, w \in MCWindows}
      day2 == {{}, {within}, {overnight}}
  IN  [hours : {<<d1, d2>> : d1 \in day1, d2 \in day2}, holidays : {{}, {2}}]

\* A tenant whose first role administers and whose second reads; one whose roles
\* read without seeing everything; one whose roles share the administration.
MCSeededGrants ==
  LET grant(r, k, s) == [role |-> r, key |-> k, scope |-> s]
      administers(r) == {grant(r, k, "TENANT") : k \in {"role.assign", "role.update"}}
  IN  {administers(g1) \cup {grant(g2, "ticket.read", "OWN")},
       administers(g2) \cup {grant(g1, "ticket.read", "GROUP"), grant(g2, "ticket.read", "ORGANIZATION")},
       {grant(g1, "role.assign", "TENANT"), grant(g2, "role.update", "TENANT"),
        grant(g2, "ticket.read", "TENANT")}}

\* A component that does not run keeps its initial state.
GraphRests      == part # "graph" => UNCHANGED graphVars
LinksRest       == part # "links" => UNCHANGED linkVars
AttachmentsRest == part # "attachments" => UNCHANGED attachmentVars
ClockRests      == part # "clock" => UNCHANGED clockVars
RolesRest       == part # "roles" => UNCHANGED permissionVars

MCInit ==
  /\ part \in {"graph", "links", "attachments", "clock", "roles"}
  /\ GraphInit /\ LinksInit
  /\ AttachmentInit /\ (part # "attachments" => owner = "ticket")
  /\ ClockInit /\ (part # "clock" => schedule = CHOOSE s \in Schedules : TRUE)
  /\ PermissionInit /\ (part # "roles" => userRoles = {} /\ grants = CHOOSE s \in SeededGrants : TRUE)

MCNext ==
  /\ UNCHANGED part
  /\ GraphRests /\ LinksRest /\ AttachmentsRest /\ ClockRests /\ RolesRest
  /\ \/ part = "graph" /\ GraphNext
     \/ part = "links" /\ LinksNext
     \/ part = "attachments" /\ AttachmentNext
     \/ part = "clock" /\ ClockNext
     \/ part = "roles" /\ PermissionNext

MCSpec ==
  /\ MCInit
  /\ [][MCNext]_<<part, graphVars, linkVars, attachmentVars, clockVars, permissionVars>>
  /\ GraphFairness

\* Bound: one asset is deleted; among what two deletions leave, nothing can be related.
MCFewHidden == \A a, b \in hidden : a = b

\* Attachments are as AttachmentsSound has it (every row has its file, and limits are
\* passed by uploads that overlap only), permissions as PermissionsSound (they come from
\* those who hold them, and a search shows what may be read), and every variable of the
\* five components has its type.
StructuresSound ==
  /\ part = "graph" => GraphTypeOK
  /\ part = "links" => LinksTypeOK
  /\ part = "attachments" => AttachmentTypeOK /\ AttachmentsSound
  /\ part = "clock" => ClockTypeOK
  /\ part = "roles" => PermissionTypeOK /\ PermissionsSound
=============================================================================
