------------------------- MODULE AutomationPromise -------------------------
(***************************************************************************)
(* What workflow automation promises, whatever workers, leases, crashes    *)
(* and replays do: events are recorded once and never change; a workflow   *)
(* action takes effect at most once for an event; an effect that is itself *)
(* an event is recorded together with it, exactly one automation level     *)
(* deeper; and no effect is ever caused by an event at the depth limit.    *)
(***************************************************************************)
EXTENDS Naturals

CONSTANTS
  Events,       \* identities of events
  Keys,         \* <<event, workflow, ordinal>>: one action run for one event
  MaxDepth,     \* automation depth limit
  NoKey         \* the cause of an event a person's command recorded

VARIABLES
  recorded,     \* events recorded so far
  depth,        \* automation depth of a recorded event
  cause,        \* the effect a recorded event belongs to
  effects       \* how often the effect of a key was committed

promiseVars == <<recorded, depth, cause, effects>>

PromiseInit ==
  /\ recorded = {}
  /\ depth \in [Events -> 0..MaxDepth]
  /\ cause \in [Events -> Keys \cup {NoKey}]
  /\ effects = [k \in Keys |-> 0]

RecordEvent(c, d, k) ==
  /\ c \notin recorded
  /\ recorded' = recorded \cup {c}
  /\ depth' = [depth EXCEPT ![c] = d]
  /\ cause' = [cause EXCEPT ![c] = k]

\* A person's command.
Command(c) ==
  /\ RecordEvent(c, 0, NoKey)
  /\ UNCHANGED effects

\* The action of key k may still take effect: the event it runs for is on record
\* and within the limit, and it has not taken effect yet.
Pending(k) ==
  /\ k[1] \in recorded
  /\ depth[k[1]] < MaxDepth
  /\ effects[k] = 0

\* An effect that is an event.
CauseEvent(k, c) ==
  /\ Pending(k)
  /\ RecordEvent(c, depth[k[1]] + 1, k)
  /\ effects' = [effects EXCEPT ![k] = 1]

\* An effect without an event: a notification intent.
Notify(k) ==
  /\ Pending(k)
  /\ effects' = [effects EXCEPT ![k] = 1]
  /\ UNCHANGED <<recorded, depth, cause>>

PromiseNext ==
  \/ \E c \in Events : Command(c)
  \/ \E k \in Keys, c \in Events : CauseEvent(k, c)
  \/ \E k \in Keys : Notify(k)

PromiseSpec == PromiseInit /\ [][PromiseNext]_promiseVars
=============================================================================
