---------------------------- MODULE MCProcesses -----------------------------
(* Small instances, for TLC, of four components that share no state:        *)
(* service requests, accounts, rate limits and the publication of           *)
(* configuration.  The initial state picks the one that runs; the others    *)
(* stay as they start.                                                      *)
EXTENDS ServiceRequests, Accounts, RateLimits, Publication, FiniteSets, TLC

CONSTANT Callers  \* the callers of every component

\* One scope has a limit of its own.
MCScopeLimits == [login |-> 1]

VARIABLE part     \* the component that runs

\* A component that does not run keeps its initial state.
RequestsRest    == part # "requests" => UNCHANGED requestVars
AccountsRest    == part # "accounts" => UNCHANGED accountVars
LimitsRest      == part # "limits" => UNCHANGED rateVars
PublicationRests == part # "publication" => UNCHANGED publicationVars

MCInit ==
  /\ part \in {"requests", "accounts", "limits", "publication"}
  /\ AccountInit /\ RateInit
  /\ RequestInit /\ (part # "requests" => service.steps = 0 /\ service.mode = "ALL")
  /\ PublicationInit /\ (part # "publication" => kind = "WORKFLOW")

MCNext ==
  /\ UNCHANGED part
  /\ RequestsRest /\ AccountsRest /\ LimitsRest /\ PublicationRests
  /\ \/ part = "requests" /\ RequestNext
     \/ part = "accounts" /\ AccountNext
     \/ part = "limits" /\ RateNext
     \/ part = "publication" /\ PublicationNext

MCSpec ==
  MCInit /\ [][MCNext]_<<part, requestVars, accountVars, rateVars, publicationVars>>

\* What is published is as PublicationSound has it (one published version that the
\* configuration points to, but for publications that overlap), requests are limited as
\* RateLimitsSound has it (by window, refused for cause, windows apart), and every
\* variable of the component that runs has its type.
ProcessesSound ==
  /\ part = "requests" => RequestTypeOK
  /\ part = "accounts" => AccountTypeOK
  /\ part = "limits" => RateTypeOK /\ RateLimitsSound
  /\ part = "publication" => PublicationTypeOK /\ PublicationSound

\* Bounds: requests of publication meet in one way only; while wrong passwords are
\* counted, a user has at most one session with one refresh token.
MCOneMeeting  == Cardinality(met) <= 1
MCFewSessions == account.failed = 0 \/ Used(session) + Used(refresh) <= 2

MCSymmetry == Permutations(Callers) \cup Permutations(Configs)
=============================================================================
