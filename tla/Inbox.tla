-------------------------------- MODULE Inbox --------------------------------
(***************************************************************************)
(* The in-app notifications of one person, and what that person wants to   *)
(* be notified of.                                                         *)
(*                                                                         *)
(* A producer looks the preference up, then inserts the notification.  A   *)
(* device shows notifications and preferences with their versions and      *)
(* sends changes with the version it has.  A notification is written WHERE *)
(* it still has that version.  A preference is not: its transaction reads  *)
(* the row, compares the version, then writes by id; a list of preferences *)
(* is one such transaction after another.                                  *)
(*                                                                         *)
(* Abstractions: one channel; who did what (nobody is notified of what     *)
(* they did themselves), texts and audit rows are left out.                *)
(***************************************************************************)
EXTENDS Naturals

CONSTANTS
  Notices, NoNotice,       \* identities of notifications
  OptionalEvents,          \* event types a person may switch off
  MandatoryEvents,         \* MANDATORY_NOTIFICATION_EVENTS
  InboxCalls,              \* producers and devices
  MaxInboxVersion          \* bound: versions of a notification or preference

Events == OptionalEvents \cup MandatoryEvents

ASSUME InboxConstants ==
  /\ NoNotice \notin Notices
  /\ OptionalEvents \cap MandatoryEvents = {}
  /\ Events # {}
  /\ MaxInboxVersion \in Nat

VARIABLES
  notice,       \* notifications; version 0: not there
  preference,   \* notification_preferences; version 0: no row
  inboxCall,    \* producers and devices
  clashed       \* history: event types whose preference two requests wrote at a time

inboxVars == <<notice, preference, inboxCall, clashed>>

\* unwanted and late are history: the event type was off when the notification was
\* inserted; the producer knew, or it was switched off after it had looked.
Notice == [version : Nat, read : BOOLEAN, archived : BOOLEAN, unwanted : BOOLEAN, late : BOOLEAN]

Preference == [version : Nat, enabled : BOOLEAN]

\* Of a device: saw is what it shows (of a notification), view what it shows of
\* the preferences, wants what it still has to write of them.
InboxCall == [op     : {"none", "notify", "mark", "prefer"},
              pc     : {"idle", "ready", "read"},
              notice : Notices \cup {NoNotice},
              saw    : Notice,
              event  : Events,
              view   : [Events -> Preference],
              wants  : SUBSET Events,
              on     : BOOLEAN,
              late   : BOOLEAN]

InboxTypeOK ==
  /\ notice \in [Notices -> Notice]
  /\ preference \in [Events -> Preference]
  /\ inboxCall \in [InboxCalls -> InboxCall]
  /\ clashed \subseteq Events

NoRowYet == [version |-> 0, read |-> FALSE, archived |-> FALSE, unwanted |-> FALSE, late |-> FALSE]

Default == [version |-> 0, enabled |-> TRUE]

NoInboxCall == [op |-> "none", pc |-> "idle", notice |-> NoNotice, saw |-> NoRowYet,
                event |-> CHOOSE e \in Events : TRUE, view |-> [e \in Events |-> Default],
                wants |-> {}, on |-> TRUE, late |-> FALSE]

InboxInit ==
  /\ notice = [n \in Notices |-> NoRowYet]
  /\ preference = [e \in Events |-> Default]
  /\ inboxCall = [c \in InboxCalls |-> NoInboxCall]
  /\ clashed = {}

IsMandatory(e) == e \in MandatoryEvents

Opens(c, call) == inboxCall[c].pc = "idle" /\ inboxCall' = [inboxCall EXCEPT ![c] = call]

Has(c, op, pc) == inboxCall[c].op = op /\ inboxCall[c].pc = pc

Closes(c) == inboxCall' = [inboxCall EXCEPT ![c] = NoInboxCall]

-----------------------------------------------------------------------------
(* Producers                                                               *)

\* create: an optional event type that is off ends it, unless forced.
NotifyRead(c, e, forced) ==
  /\ forced \/ IsMandatory(e) \/ preference[e].enabled
  /\ Opens(c, [NoInboxCall EXCEPT !.op = "notify", !.pc = "ready", !.event = e,
                                  !.late = ~preference[e].enabled])
  /\ UNCHANGED <<notice, preference, clashed>>

NotifyInsert(c, n) ==
  LET q == inboxCall[c] IN
  /\ Has(c, "notify", "ready")
  /\ notice[n].version = 0
  /\ notice' = [notice EXCEPT ![n] = [NoRowYet EXCEPT !.version = 1, !.late = q.late,
                                        !.unwanted = ~preference[q.event].enabled]]
  /\ Closes(c)
  /\ UNCHANGED <<preference, clashed>>

\* createSafe: an error is logged, and the caller goes on.
NotifyFails(c) ==
  /\ Has(c, "notify", "ready")
  /\ Closes(c)
  /\ UNCHANGED <<notice, preference, clashed>>

-----------------------------------------------------------------------------
(* A device marks a notification                                           *)

\* listForUser: the device has the row as it is now.
ShowNotice(c, n) ==
  /\ notice[n].version > 0
  /\ Opens(c, [NoInboxCall EXCEPT !.op = "mark", !.pc = "ready", !.notice = n, !.saw = notice[n]])
  /\ UNCHANGED <<notice, preference, clashed>>

\* applyStateUpdate: what is archived now is read as well; one version for both.
Applied(row, read, archived) ==
  LET marked   == IF read = "keep" THEN row.read ELSE read = "set"
      archives == archived = "set" /\ ~row.archived
      new      == [row EXCEPT !.read = marked \/ archives,
                              !.archived = IF archived = "keep" THEN @ ELSE archived = "set"] IN
  IF new = row THEN row ELSE [new EXCEPT !.version = @ + 1]

\* updateOwnNotification: the row still has the device's version.
MarkRead(c, read, archived) ==
  LET row == notice[inboxCall[c].notice]
      new == Applied(row, read, archived) IN
  /\ Has(c, "mark", "ready")
  /\ <<read, archived>> # <<"keep", "keep">>
  /\ IF inboxCall[c].saw.version # row.version \/ new = row THEN Closes(c)
     ELSE /\ new.version <= MaxInboxVersion
          /\ inboxCall' = [inboxCall EXCEPT ![c].pc = "read", ![c].saw = new]
  /\ UNCHANGED <<notice, preference, clashed>>

\* updateWithAudit: WHERE the version is the one before, or an error.
MarkWrite(c) ==
  LET q == inboxCall[c] IN
  /\ Has(c, "mark", "read")
  /\ notice' = IF notice[q.notice].version + 1 = q.saw.version
               THEN [notice EXCEPT ![q.notice] = q.saw] ELSE notice
  /\ Closes(c)
  /\ UNCHANGED <<preference, clashed>>

-----------------------------------------------------------------------------
(* A device changes preferences                                            *)

\* toPreferenceView: an event type without a row is on, with version 1.
ViewOf(p) == IF p.version = 0 THEN [p EXCEPT !.version = 1] ELSE p

\* getPreferences.
ShowPreferences(c, wants) ==
  /\ Opens(c, [NoInboxCall EXCEPT !.op = "prefer", !.pc = "ready", !.wants = wants,
                                  !.view = [e \in Events |-> ViewOf(preference[e])]])
  /\ UNCHANGED <<notice, preference, clashed>>

\* The next preference of the list; the version may be left out of it.  A
\* mandatory one to be switched off, or one whose row has another version,
\* ends the request with what came before it written.
PreferRead(c, e, on, versioned) ==
  LET q   == inboxCall[c]
      row == preference[e] IN
  /\ Has(c, "prefer", "ready")
  /\ e \in q.wants
  /\ IF \/ ~on /\ IsMandatory(e)
        \/ versioned /\ row.version # 0 /\ row.version # q.view[e].version
     THEN Closes(c)
     ELSE /\ row.version < MaxInboxVersion
          /\ inboxCall' = [inboxCall EXCEPT ![c] = [NoInboxCall EXCEPT
               !.op = "prefer", !.pc = "read", !.event = e, !.on = on, !.wants = q.wants \ {e},
               !.view = [q.view EXCEPT ![e] = row]]]
  /\ UNCHANGED <<notice, preference, clashed>>

\* Written by id, or created if there was no row: if there is one now, the
\* unique index ends the request.  Producers that looked before are late.
PreferWrite(c) ==
  LET q     == inboxCall[c]
      read  == q.view[q.event]
      now   == preference[q.event]
      moved == now.version # read.version IN
  /\ Has(c, "prefer", "read")
  /\ IF read.version = 0 /\ moved
     THEN Closes(c) /\ UNCHANGED <<preference, clashed>>
     ELSE /\ preference' = [preference EXCEPT ![q.event] =
                              [version |-> read.version + 1, enabled |-> q.on]]
          /\ clashed' = IF moved THEN clashed \cup {q.event} ELSE clashed
          /\ inboxCall' = [d \in InboxCalls |->
               IF d = c
               THEN IF q.wants = {} THEN NoInboxCall
                    ELSE [q EXCEPT !.pc = "ready", !.view[q.event] = Default, !.on = TRUE,
                                   !.event = NoInboxCall.event]
               ELSE IF Has(d, "notify", "ready") /\ inboxCall[d].event = q.event
               THEN [inboxCall[d] EXCEPT !.late = TRUE]
               ELSE inboxCall[d]]
  /\ UNCHANGED notice

-----------------------------------------------------------------------------
InboxNext ==
  \E c \in InboxCalls :
    \/ \E e \in Events, forced \in BOOLEAN : NotifyRead(c, e, forced)
    \/ \E n \in Notices : NotifyInsert(c, n) \/ ShowNotice(c, n)
    \/ NotifyFails(c)
    \/ \E read, archived \in {"keep", "set", "clear"} : MarkRead(c, read, archived)
    \/ MarkWrite(c)
    \/ \E wants \in (SUBSET Events) \ {{}} : ShowPreferences(c, wants)
    \/ \E e \in Events, on, versioned \in BOOLEAN : PreferRead(c, e, on, versioned)
    \/ PreferWrite(c)

InboxSpec == InboxInit /\ [][InboxNext]_inboxVars

-----------------------------------------------------------------------------
\* A notification that a device shows with the version the row has is the row:
\* what the person marks was decided on what is there ("optimistic concurrency").
NoticeVersionTells ==
  \A c \in InboxCalls :
    /\ Has(c, "mark", "ready")
    /\ inboxCall[c].saw.version = notice[inboxCall[c].notice].version
    => inboxCall[c].saw = notice[inboxCall[c].notice]

\* The same of preferences, but for two gaps: a row that has just been created
\* has the version a device shows when there is none, and requests that write
\* one preference at a time both take the next version.
PreferenceVersionTells ==
  \A c \in InboxCalls : Has(c, "prefer", "ready") =>
    \A e \in inboxCall[c].wants \ clashed :
      LET seen == inboxCall[c].view[e] IN
      preference[e].version = seen.version /\ seen.version > 1 => preference[e] = seen

\* Nothing is delivered of an event type that is off, unless it is forced or the
\* person switched it off while it was being sent.
NoticesAreWanted == \A n \in Notices : notice[n].unwanted => notice[n].late

\* "Event types that cannot be disabled via preferences", in whatever list.
MandatoryStaysOn == \A e \in MandatoryEvents : preference[e].enabled

\* What devices and producers rely on (NotificationsService).
InboxSound ==
  NoticeVersionTells /\ PreferenceVersionTells /\ NoticesAreWanted /\ MandatoryStaysOn
=============================================================================
