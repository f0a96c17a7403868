----------------------------- MODULE AssetLinks -----------------------------
(***************************************************************************)
(* Links between assets and tickets, and the ticket a person creates from  *)
(* an asset under a row lock of the asset.                                 *)
(*                                                                         *)
(* createTicketFromAsset runs READ COMMITTED; SELECT ... FOR UPDATE on the *)
(* asset makes requests about one asset take turns and holds up its soft   *)
(* delete.  The ticket number is a count of the tenant's tickets, which    *)
(* the lock does not protect from other assets and other ways to create    *)
(* a ticket.  linkTicket takes no lock.                                    *)
(***************************************************************************)
EXTENDS Naturals, FiniteSets

CONSTANTS
  LinkAssets,      \* assets of the tenant
  NoLinkAsset,     \* a ticket that was not created from an asset
  LinkTickets,     \* identities of ticket rows
  LinkCallers,     \* requests in progress
  NoLinkCaller     \* the row lock is free

ASSUME LinkConstants == NoLinkAsset \notin LinkAssets /\ NoLinkCaller \notin LinkCallers

VARIABLES
  ticketRef,   \* the number in TKT-<1000 + ref>; 0: no such ticket
  madeFrom,    \* history: the asset a ticket was created from
  links,       \* asset_ticket_links
  dead,        \* soft-deleted assets
  rowLock,     \* the transaction that locked an asset's row
  linkCall     \* requests

linkVars == <<ticketRef, madeFrom, links, dead, rowLock, linkCall>>

LinkCall == [pc      : {"idle", "linking", "locked", "counted"},
             asset   : LinkAssets \cup {NoLinkAsset},
             ticket  : SUBSET LinkTickets,     \* the ticket to link
             counted : SUBSET LinkTickets]

NoLinkCall == [pc |-> "idle", asset |-> NoLinkAsset, ticket |-> {}, counted |-> {}]

TicketRows == {t \in LinkTickets : ticketRef[t] # 0}

LinksTypeOK ==
  /\ ticketRef \in [LinkTickets -> Nat]
  /\ madeFrom \in [LinkTickets -> LinkAssets \cup {NoLinkAsset}]
  /\ links \subseteq LinkAssets \X LinkTickets
  /\ dead \subseteq LinkAssets
  /\ rowLock \in [LinkAssets -> LinkCallers \cup {NoLinkCaller}]
  /\ linkCall \in [LinkCallers -> LinkCall]

LinksInit ==
  /\ ticketRef = [t \in LinkTickets |-> 0]
  /\ madeFrom = [t \in LinkTickets |-> NoLinkAsset]
  /\ links = {}
  /\ dead = {}
  /\ rowLock = [a \in LinkAssets |-> NoLinkCaller]
  /\ linkCall = [c \in LinkCallers |-> NoLinkCall]

-----------------------------------------------------------------------------
\* linkTicket finds the asset and the ticket, and no link between them.
LinkTicketRead(c, a, t) ==
  /\ linkCall[c].pc = "idle"
  /\ a \notin dead
  /\ t \in TicketRows
  /\ <<a, t>> \notin links
  /\ linkCall' = [linkCall EXCEPT ![c].pc = "linking", ![c].asset = a, ![c].ticket = {t}]
  /\ UNCHANGED <<ticketRef, madeFrom, links, dead, rowLock>>

\* The insert: its foreign key waits for the lock on the asset's row, the unique
\* index refuses a link that has appeared.
LinkTicketWrite(c) ==
  LET call == linkCall[c] IN
  /\ call.pc = "linking"
  /\ rowLock[call.asset] = NoLinkCaller
  /\ links' = links \cup ({call.asset} \X call.ticket)
  /\ linkCall' = [linkCall EXCEPT ![c] = NoLinkCall]
  /\ UNCHANGED <<ticketRef, madeFrom, dead, rowLock>>

\* unlinkTicket: one deleteMany.
UnlinkTicket(a, t) ==
  /\ <<a, t>> \in links
  /\ links' = links \ {<<a, t>>}
  /\ UNCHANGED <<ticketRef, madeFrom, dead, rowLock, linkCall>>

-----------------------------------------------------------------------------
\* Mutant: the row is read without FOR UPDATE.
MutantLockAsset(c, a) ==
  /\ linkCall[c].pc = "idle"
  /\ linkCall' = [linkCall EXCEPT ![c].pc = "locked", ![c].asset = a]
  /\ UNCHANGED <<ticketRef, madeFrom, links, dead, rowLock>>

\* createTicketFromAsset: SELECT ... FOR UPDATE finds the row, deleted or not.
LockAsset(c, a) ==
  /\ linkCall[c].pc = "idle"
  /\ rowLock[a] = NoLinkCaller
  /\ rowLock' = [rowLock EXCEPT ![a] = c]
  /\ linkCall' = [linkCall EXCEPT ![c].pc = "locked", ![c].asset = a]
  /\ UNCHANGED <<ticketRef, madeFrom, links, dead>>

Unlock(c) == rowLock' = [a \in LinkAssets |-> IF rowLock[a] = c THEN NoLinkCaller ELSE rowLock[a]]

\* It reads the asset and counts the tickets committed by now, or rolls back.
CountTickets(c) ==
  LET call == linkCall[c] IN
  /\ call.pc = "locked"
  /\ IF call.asset \in dead
     THEN linkCall' = [linkCall EXCEPT ![c] = NoLinkCall] /\ Unlock(c)
     ELSE /\ linkCall' = [linkCall EXCEPT ![c].pc = "counted", ![c].counted = TicketRows]
          /\ UNCHANGED rowLock
  /\ UNCHANGED <<ticketRef, madeFrom, links, dead>>

NextTicketRef(rows) == Cardinality(rows) + 1

RefIsFree(ref) == \A t \in LinkTickets : ticketRef[t] # ref     \* unique (tenant_id, public_ref)

\* The ticket and its link are committed together.
CreateFromAsset(c, t) ==
  LET call == linkCall[c]
      ref  == NextTicketRef(call.counted) IN
  /\ call.pc = "counted"
  /\ ticketRef[t] = 0
  /\ RefIsFree(ref)
  /\ ticketRef' = [ticketRef EXCEPT ![t] = ref]
  /\ madeFrom' = [madeFrom EXCEPT ![t] = call.asset]
  /\ links' = links \cup {<<call.asset, t>>}
  /\ linkCall' = [linkCall EXCEPT ![c] = NoLinkCall]
  /\ Unlock(c)
  /\ UNCHANGED dead

\* The unique index refuses the number: nothing retries.
CreateFromAssetRefused(c) ==
  LET call == linkCall[c] IN
  /\ call.pc = "counted"
  /\ ~RefIsFree(NextTicketRef(call.counted))
  /\ linkCall' = [linkCall EXCEPT ![c] = NoLinkCall]
  /\ Unlock(c)
  /\ UNCHANGED <<ticketRef, madeFrom, links, dead>>

-----------------------------------------------------------------------------
\* A ticket created elsewhere (TicketsRepository, request fulfilment) takes
\* the next number of its own serializable transaction.
CreateElsewhere(t) ==
  /\ ticketRef[t] = 0
  /\ RefIsFree(NextTicketRef(TicketRows))
  /\ ticketRef' = [ticketRef EXCEPT ![t] = NextTicketRef(TicketRows)]
  /\ UNCHANGED <<madeFrom, links, dead, rowLock, linkCall>>

\* softDelete of an asset: the update waits for the row lock.
DeleteLinkedAsset(a) ==
  /\ a \notin dead
  /\ rowLock[a] = NoLinkCaller
  /\ dead' = dead \cup {a}
  /\ UNCHANGED <<ticketRef, madeFrom, links, rowLock, linkCall>>

LinksNext ==
  \/ \E c \in LinkCallers :
       \/ \E a \in LinkAssets, t \in LinkTickets : LinkTicketRead(c, a, t)
       \/ LinkTicketWrite(c)
       \/ \E a \in LinkAssets : LockAsset(c, a)
       \/ CountTickets(c)
       \/ \E t \in LinkTickets : CreateFromAsset(c, t)
       \/ CreateFromAssetRefused(c)
  \/ \E a \in LinkAssets, t \in LinkTickets : UnlinkTicket(a, t)
  \/ \E t \in LinkTickets : CreateElsewhere(t)
  \/ \E a \in LinkAssets : DeleteLinkedAsset(a)

LinksSpec == LinksInit /\ [][LinksNext]_linkVars

-----------------------------------------------------------------------------
\* What the row lock of createTicketFromAsset is for: the asset is not deleted
\* when its ticket is committed, and two requests about one asset never take
\* each other's number -- a refused one lost it to another asset or path.
RowLockServes ==
  [][\A c \in LinkCallers :
       /\ \A t \in LinkTickets : CreateFromAsset(c, t) => linkCall[c].asset \notin dead
       /\ CreateFromAssetRefused(c) =>
            \E t \in TicketRows \ linkCall[c].counted : madeFrom[t] # linkCall[c].asset]_linkVars
=============================================================================
