--------------------------- MODULE MCSlaAndReaders ---------------------------
(* Small instances, for TLC, of three components that share no state: the   *)
(* targets of a ticket, the articles of the knowledge base, and a person's  *)
(* notifications.  The initial state picks the one that runs; the others    *)
(* stay as they start.                                                      *)
EXTENDS SlaEngine, KbArticles, Inbox, FiniteSets, TLC

VARIABLE part     \* the component that runs

\* Both targets can be overdue before the clock of the instance stops; the
\* resolution target is due for a warning one tick before.
MCMinutes == [RESPONSE |-> 1, RESOLUTION |-> 2]
MCWarnAt  == [RESPONSE |-> 0, RESOLUTION |-> 1]

\* A component that does not run keeps its initial state.
TargetsRest  == part # "targets" => UNCHANGED vars
ArticlesRest == part # "articles" => UNCHANGED articleVars
InboxRests   == part # "inbox" => UNCHANGED inboxVars

MCInit ==
  /\ part \in {"targets", "articles", "inbox"}
  /\ Init /\ ArticleInit /\ InboxInit

MCNext ==
  /\ UNCHANGED part
  /\ TargetsRest /\ ArticlesRest /\ InboxRests
  /\ \/ part = "targets" /\ Next
     \/ part = "articles" /\ ArticleNext
     \/ part = "inbox" /\ InboxNext

MCSpec == MCInit /\ [][MCNext]_<<part, vars, articleVars, inboxVars>>

\* Calls of a component that does not run are all idle, or are one call that is not.
MCCallers == Permutations(Requests) \cup Permutations(Authors)

\* Bound: two calls of the engine overlap, or one and a workflow's transaction;
\* after a failure what else is under way ends, and then one at a time begins.
MCTwoAtOnce ==
  Cardinality({r \in Requests : request[r].call # "none"})
    + Cardinality({j \in Executors : job[j].pc # "idle"}) <= 1 + failures

\* Bound: at a time an article is linked, or has an event that was lost, not more.
MCFewLinks == Cardinality(kbLinks) + Cardinality(unsaid) <= 1

\* What people read keeps its promises, each stated with its component: numbered
\* versions of articles, announced once, and notices and preferences that a
\* request changes only as it has seen them.
ReadersSound ==
  /\ part = "articles" => ArticleTypeOK /\ ArticlesSound
  /\ part = "inbox"    => InboxTypeOK /\ InboxSound
=============================================================================
