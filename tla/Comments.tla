------------------------------- MODULE Comments -------------------------------
(***************************************************************************)
(* Comments on a ticket: writing one, with the event and the notices that  *)
(* follow, and editing or deleting it while its fifteen minutes last.      *)
(*                                                                         *)
(* A new comment and its event are one transaction, in which the ticket is *)
(* read again; who is told is decided by the ticket the call read first.   *)
(* An edit is checked on the row that was read and written with its        *)
(* version in the WHERE clause.                                            *)
(*                                                                         *)
(* Abstractions: permissions (they depend on nothing that changes here)    *)
(* and audit rows, which are inserted with the comment, are left out;      *)
(* reading and listing change nothing.  What the SLA engine makes of a     *)
(* public comment is in SlaEngine, what becomes of a notice in Inbox.      *)
(***************************************************************************)
EXTENDS Naturals, Sequences, FiniteSets

CONSTANTS
  Remarks, NoRemark,     \* ids of comments
  Bodies,                \* what a comment says
  Folk, Nobody,          \* people; no assignee
  Asker,                 \* who requested the ticket
  Posters,               \* API requests in progress
  MaxRemarkVersion       \* bound on the versions of a comment

ASSUME CommentConstants ==
  /\ NoRemark \notin Remarks /\ Nobody \notin Folk /\ Asker \in Folk
  /\ Bodies # {} /\ MaxRemarkVersion \in Nat

VARIABLES
  remark,       \* rows
  handler,      \* assignee of the ticket
  remarkEvents, \* comment.added events of the outbox
  remarkNotices,\* how many notices of a comment a person has
  poster,       \* API requests in progress
  expired,      \* comments older than fifteen minutes
  answered,     \* public comments the SLA engine was told of
  cut,          \* history: comments whose call died before it was through
  changes       \* history: edits and deletions that were committed

commentVars ==
  <<remark, handler, remarkEvents, remarkNotices, poster, expired, answered, cut, changes>>

RemarkVisibility == {"PUBLIC", "INTERNAL"}

Remark == [status : {"NONE", "THERE", "DELETED"}, author : Folk, body : Bodies,
           visibility : RemarkVisibility, version : Nat]

\* read (history): the assignee as the call read it first.
RemarkEvent == [remark : Remarks, handler : Folk \cup {Nobody}, read : Folk \cup {Nobody}]

\* row: the comment as the call read or wants it; told: those still to be told.
Post == [op      : {"none", "create", "edit", "delete"},
         pc      : {"idle", "checked", "created"},
         remark  : Remarks \cup {NoRemark},
         row     : Remark,
         body    : Bodies,
         handler : Folk \cup {Nobody},
         told    : Seq(Folk)]

Change == [remark : Remarks, version : Nat, op : {"edit", "delete"}, saw : Bodies, had : Bodies]

CommentsTypeOK ==
  /\ remark \in [Remarks -> Remark]
  /\ handler \in Folk \cup {Nobody}
  /\ remarkEvents \in Seq(RemarkEvent)
  /\ remarkNotices \in [Remarks \X Folk -> Nat]
  /\ poster \in [Posters -> Post]
  /\ expired \subseteq Remarks /\ answered \subseteq Remarks /\ cut \subseteq Remarks
  /\ changes \subseteq Change

AnyBody == CHOOSE x \in Bodies : TRUE

NoRemarkRow == [status |-> "NONE", author |-> Asker, body |-> AnyBody, visibility |-> "PUBLIC",
          version |-> 1]

NoPost == [op |-> "none", pc |-> "idle", remark |-> NoRemark, row |-> NoRemarkRow, body |-> AnyBody,
           handler |-> Nobody, told |-> <<>>]

CommentsInit ==
  /\ remark = [r \in Remarks |-> NoRemarkRow]
  /\ handler \in Folk \cup {Nobody}
  /\ remarkEvents = <<>>
  /\ remarkNotices = [rf \in Remarks \X Folk |-> 0]
  /\ poster = [p \in Posters |-> NoPost]
  /\ expired = {} /\ answered = {} /\ cut = {} /\ changes = {}

Stands(p, op, pc) == poster[p].op = op /\ poster[p].pc = pc

Ends(p) == poster' = [poster EXCEPT ![p] = NoPost]

-----------------------------------------------------------------------------
(* A new comment                                                           *)

\* createComment reads the ticket; the author is asked for nothing else.
CreateComment(p, f, x, v) ==
  LET fresh == {r \in Remarks : /\ remark[r].status = "NONE"
                                /\ \A d \in Posters : poster[d].remark # r} IN
  /\ poster[p].pc = "idle"
  /\ fresh # {}
  /\ poster' = [poster EXCEPT ![p] =
       [NoPost EXCEPT !.op = "create", !.pc = "checked", !.handler = handler,
          !.remark = CHOOSE r \in fresh : TRUE,
          !.row = [NoRemarkRow EXCEPT !.status = "THERE", !.author = f, !.body = x, !.visibility = v]]]
  /\ UNCHANGED <<remark, handler, remarkEvents, remarkNotices, expired, answered, cut, changes>>

\* The requester, of what is public, then the assignee, if that is somebody else;
\* notices to the author are dropped.
Recipients(row, assignee) ==
  LET asked == row.visibility = "PUBLIC"
      first == IF asked /\ Asker # row.author THEN <<Asker>> ELSE <<>> IN
  IF assignee \in {Nobody, row.author} \/ (asked /\ assignee = Asker)
  THEN first ELSE Append(first, assignee)

\* createWithAudit: the event has the ticket as it is now.
CreateWithAudit(p) ==
  LET q == poster[p] IN
  /\ Stands(p, "create", "checked")
  /\ remark' = [remark EXCEPT ![q.remark] = q.row]
  /\ remarkEvents' = Append(remarkEvents, [remark |-> q.remark, handler |-> handler,
                                         read |-> q.handler])
  /\ poster' = [poster EXCEPT ![p].pc = "created", ![p].told = Recipients(q.row, q.handler)]
  /\ UNCHANGED <<handler, remarkNotices, expired, answered, cut, changes>>

\* createManySafe: one after the other, and a failure is only logged.
TellNext(p, arrives) ==
  LET q == poster[p] IN
  /\ Stands(p, "create", "created")
  /\ q.told # <<>>
  /\ remarkNotices' = [remarkNotices EXCEPT ![<<q.remark, Head(q.told)>>] =
                         IF arrives THEN @ + 1 ELSE @]
  /\ poster' = [poster EXCEPT ![p].told = Tail(@)]
  /\ UNCHANGED <<remark, handler, remarkEvents, expired, answered, cut, changes>>

\* onPublicAgentComment: an internal comment is no response.
TellSla(p) ==
  LET q == poster[p] IN
  /\ Stands(p, "create", "created")
  /\ q.told = <<>>
  /\ answered' = IF q.row.visibility = "PUBLIC" THEN answered \cup {q.remark} ELSE answered
  /\ Ends(p)
  /\ UNCHANGED <<remark, handler, remarkEvents, remarkNotices, expired, cut, changes>>

-----------------------------------------------------------------------------
(* Editing and deleting                                                    *)

\* The author comes with the version that is there (any other is refused), and
\* in time.
Checked(p, op, r, x) ==
  /\ poster[p].pc = "idle"
  /\ remark[r].status = "THERE" /\ r \notin expired
  /\ remark[r].version < MaxRemarkVersion
  /\ poster' = [poster EXCEPT ![p] = [NoPost EXCEPT !.op = op, !.pc = "checked", !.remark = r,
                                                    !.row = remark[r], !.body = x]]
  /\ UNCHANGED <<remark, handler, remarkEvents, remarkNotices, expired, answered, cut, changes>>

UpdateComment(p, r, x)  == Checked(p, "edit", r, x)
SoftDeleteComment(p, r) == Checked(p, "delete", r, remark[r].body)

\* The WHERE clause of updateWithClient.
Current(row, version) == row.status = "THERE" /\ row.version = version

\* updateWithAudit, unless the row has moved on; the window may have ended.
UpdateWithAudit(p, op) ==
  LET q   == poster[p]
      row == remark[q.remark] IN
  /\ Stands(p, op, "checked")
  /\ IF Current(row, q.row.version)
     THEN /\ remark' = [remark EXCEPT ![q.remark].body = q.body,
                                      ![q.remark].version = q.row.version + 1,
                                      ![q.remark].status = IF op = "delete" THEN "DELETED" ELSE @]
          /\ changes' = changes \cup {[remark |-> q.remark, version |-> q.row.version + 1,
                                       op |-> op, saw |-> q.row.body, had |-> row.body]}
     ELSE UNCHANGED <<remark, changes>>
  /\ Ends(p)
  /\ UNCHANGED <<handler, remarkEvents, remarkNotices, expired, answered, cut>>

-----------------------------------------------------------------------------
(* Around it                                                               *)

\* The process dies: a transaction is there or not, what follows is never done.
PosterDies(p) ==
  /\ poster[p].pc # "idle"
  /\ cut' = IF poster[p].pc = "created" THEN cut \cup {poster[p].remark} ELSE cut
  /\ Ends(p)
  /\ UNCHANGED <<remark, handler, remarkEvents, remarkNotices, expired, answered, changes>>

\* Somebody assigns or unassigns the ticket (see TicketLifecycle).
HandlerChanges(f) ==
  /\ f # handler
  /\ handler' = f
  /\ UNCHANGED <<remark, remarkEvents, remarkNotices, poster, expired, answered, cut, changes>>

WindowEnds(r) ==
  /\ remark[r].status # "NONE"
  /\ expired' = expired \cup {r}
  /\ UNCHANGED <<remark, handler, remarkEvents, remarkNotices, poster, answered, cut, changes>>

CommentsNext ==
  \/ \E p \in Posters :
       \/ \E f \in Folk, x \in Bodies, v \in RemarkVisibility : CreateComment(p, f, x, v)
       \/ CreateWithAudit(p)
       \/ \E arrives \in BOOLEAN : TellNext(p, arrives)
       \/ TellSla(p)
       \/ \E r \in Remarks : \/ \E x \in Bodies : UpdateComment(p, r, x)
                             \/ SoftDeleteComment(p, r)
       \/ \E op \in {"edit", "delete"} : UpdateWithAudit(p, op)
       \/ PosterDies(p)
  \/ \E f \in Folk \cup {Nobody} : HandlerChanges(f)
  \/ \E r \in Remarks : WindowEnds(r)

CommentsSpec == CommentsInit /\ [][CommentsNext]_commentVars

-----------------------------------------------------------------------------
\* A change replaces the words its author saw, every change has a version of its
\* own, and nothing changes once deleted, in whatever order requests commit.
ChangesAreInOrder ==
  /\ \A c \in changes : c.saw = c.had
  /\ \A r \in Remarks : {c.version : c \in {d \in changes : d.remark = r}} = 2..remark[r].version
  /\ \A c \in changes : /\ remark[c.remark].status = "DELETED" <=>
                             \E d \in changes : d.remark = c.remark /\ d.op = "delete"
                        /\ c.op = "delete" => c.version = remark[c.remark].version

\* A comment and its event exist together, and there is one event.
RemarkIffEvent ==
  \A r \in Remarks :
    Cardinality({i \in DOMAIN remarkEvents : remarkEvents[i].remark = r}) =
      IF remark[r].status = "NONE" THEN 0 ELSE 1

\* Nobody is told twice, nor of their own comment, and the requester hears of an
\* internal one only as an assignee.  Who else is told was assigned when the call
\* began: the event may name another assignee, who then never hears of it.
NoticesFit ==
  \A r \in Remarks, f \in Folk :
    /\ remarkNotices[r, f] <= 1
    /\ remarkNotices[r, f] = 1 =>
         /\ f # remark[r].author
         /\ \/ f = Asker /\ remark[r].visibility = "PUBLIC"
            \/ \E i \in DOMAIN remarkEvents : remarkEvents[i].remark = r /\ remarkEvents[i].read = f

\* The SLA engine is told of every public comment, deleted or not, and of no
\* other one, unless its call died first.
ResponsesCount ==
  \A r \in Remarks :
    LET public  == remark[r].status # "NONE" /\ remark[r].visibility = "PUBLIC"
        pending == \E p \in Posters : poster[p].pc = "created" /\ poster[p].remark = r IN
    /\ r \in answered => public /\ r \notin cut
    /\ public /\ ~pending => r \in answered \cup cut

\* Comments of a ticket (CommentsService, CommentsRepository).
CommentsSound == ChangesAreInOrder /\ RemarkIffEvent /\ NoticesFit /\ ResponsesCount
=============================================================================
