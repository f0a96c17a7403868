--------------------------- MODULE BusinessClock ---------------------------
(***************************************************************************)
(* Business-hours arithmetic (sla/domain/business-hours-clock.ts) in the   *)
(* order the SLA engine uses it: a target is given a due date, is paused   *)
(* with what then remains of it, and resumed with a new due date.          *)
(*                                                                         *)
(* The loops of addBusinessMs and remainingBusinessMs take a step for each *)
(* search of a day with open intervals and one for each interval of it;    *)
(* of intervals that start together either may come first.                 *)
(*                                                                         *)
(* Abstractions: time is counted in ticks, DayLength to a local day, from  *)
(* the midnight at which day 0 begins; the week has as many days as the    *)
(* schedule's hours list.  The shifts of daylight saving time, during      *)
(* which days differ in length, the parsing of HH:mm and the bound of      *)
(* 50,000 rounds on the loops are left out.                                *)
(***************************************************************************)
EXTENDS Integers, Sequences, FiniteSets

CONSTANTS
  DayLength,       \* ticks of a local day
  SearchDays,      \* days openIntervalsOnAndAfter looks ahead (400)
  Schedules,       \* the schedules: [hours, holidays]
  Budgets,         \* business time promised, in ticks
  MaxTime          \* bound: when a target is started, paused and resumed

NoTime == -1       \* no date: not set, or the clock gave up

\* A window may end on the next day.
Window == [start : 0..(DayLength - 1), end : 0..(DayLength - 1)]

\* The hours of the days of the week, and the days that are holidays.
IsSchedule(s) ==
  /\ s.holidays \subseteq Nat
  /\ s.hours \in Seq(SUBSET Window)
  /\ Len(s.hours) > 0

ASSUME ClockConstants ==
  /\ DayLength \in Nat \ {0} /\ SearchDays \in Nat \ {0} /\ MaxTime \in Nat
  /\ Budgets \subseteq Nat \ {0}
  /\ \A s \in Schedules : IsSchedule(s)

VARIABLES
  schedule,        \* the published schedule
  target,          \* the SLA target and when it was started, paused, resumed
  clock            \* the call of the clock the engine waits for

clockVars == <<schedule, target, clock>>

Interval == [start : Int, end : Int]

Target == [phase : {"none", "starting", "running", "paused", "measuring", "resuming", "resumed"},
           budget : Nat, startedAt : Nat, dueAt : Nat \cup {NoTime}, pausedAt : Nat,
           remaining : Nat, resumedAt : Nat]

NoTarget == [phase |-> "none", budget |-> 0, startedAt |-> 0, dueAt |-> NoTime,
             pausedAt |-> 0, remaining |-> 0, resumedAt |-> 0]

\* The local variables of addBusinessMs (left) and remainingBusinessMs (until,
\* total, progressed); todo is what their inner loops have still to visit.
Clock == [op : {"none", "add", "remaining"}, at : {"search", "day"}, cursor : Nat, left : Nat,
          until : Nat, total : Nat, progressed : BOOLEAN, todo : SUBSET Interval]

NoCall == [op |-> "none", at |-> "search", cursor |-> 0, left |-> 0, until |-> 0, total |-> 0,
           progressed |-> FALSE, todo |-> {}]

ClockTypeOK == IsSchedule(schedule) /\ target \in Target /\ clock \in Clock

ClockInit == schedule \in Schedules /\ target = NoTarget /\ clock = NoCall

-----------------------------------------------------------------------------
(* The schedule                                                            *)

DayOf(t) == t \div DayLength

NextDay(t) == (DayOf(t) + 1) * DayLength

\* The windows of a local day.
WindowsOf(day) ==
  IF day \in schedule.holidays THEN {} ELSE schedule.hours[(day % Len(schedule.hours)) + 1]

\* A window that does not end after it starts ends on the next day.
OpenInterval(day, w) ==
  [start |-> day * DayLength + w.start,
   end |-> day * DayLength + w.end + IF w.end <= w.start THEN DayLength ELSE 0]

OpenIntervalsForLocalDay(day) == {OpenInterval(day, w) : w \in WindowsOf(day)}

\* Those of a day that are still to end.
LeftOf(day, cursor) == {i \in OpenIntervalsForLocalDay(day) : i.end > cursor}

\* The days with such intervals, from the cursor's own.
DaysAhead(cursor) ==
  {day \in DayOf(cursor)..(DayOf(cursor) + SearchDays - 1) : LeftOf(day, cursor) # {}}

\* openIntervalsOnAndAfter stops at the first of them.
FirstAhead(day, cursor) == \A d \in DaysAhead(cursor) : day <= d

IsOpenAt(t) ==
  \E day \in {DayOf(t) - 1, DayOf(t)} :
    \E i \in OpenIntervalsForLocalDay(day) : t >= i.start /\ t < i.end

\* The intervals of a day are visited by their start.
ComesFirst(i, todo) == \A j \in todo : i.start <= j.start

Later(a, b) == IF a > b THEN a ELSE b
Earlier(a, b) == IF a < b THEN a ELSE b

-----------------------------------------------------------------------------
(* addBusinessMs                                                           *)

Adding(from, amount) == [NoCall EXCEPT !.op = "add", !.cursor = from, !.left = amount]

\* createTarget and resumeTarget store the due date.
AddReturns(due) ==
  /\ target' = [target EXCEPT !.phase = IF @ = "starting" THEN "running" ELSE "resumed",
                              !.dueAt = due]
  /\ clock' = NoCall
  /\ UNCHANGED schedule

\* A round begins with the next day that has open intervals, or gives up.
AddSearch ==
  /\ clock.op = "add" /\ clock.at = "search"
  /\ \/ DaysAhead(clock.cursor) = {} /\ AddReturns(NoTime)
     \/ \E day \in DaysAhead(clock.cursor) :
          /\ FirstAhead(day, clock.cursor)
          /\ clock' = [clock EXCEPT !.at = "day", !.todo = LeftOf(day, clock.cursor)]
          /\ UNCHANGED <<schedule, target>>

\* Mutant: a due date at the very end of an interval moves to the next one.
MutantHoldsDue(left, available) == left < available

HoldsDue(left, available) == left <= available

\* One interval: it is over, holds the due date, or is used up.
AddInterval ==
  \E i \in clock.todo :
    LET openStart == Later(i.start, clock.cursor)
        available == i.end - openStart
    IN  /\ clock.op = "add" /\ clock.at = "day"
        /\ ComesFirst(i, clock.todo)
        /\ \/ /\ available <= 0
              /\ clock' = [clock EXCEPT !.todo = @ \ {i}]
              /\ UNCHANGED <<schedule, target>>
           \/ /\ available > 0 /\ HoldsDue(clock.left, available)
              /\ AddReturns(openStart + clock.left)
           \/ /\ available > 0 /\ ~HoldsDue(clock.left, available)
              /\ clock' = [clock EXCEPT !.left = @ - available, !.cursor = i.end,
                                        !.todo = @ \ {i}]
              /\ UNCHANGED <<schedule, target>>

\* The day is used up: on to the midnight after the cursor.
AddNextDay ==
  /\ clock.op = "add" /\ clock.at = "day" /\ clock.todo = {}
  /\ clock' = [clock EXCEPT !.at = "search", !.cursor = NextDay(@)]
  /\ UNCHANGED <<schedule, target>>

-----------------------------------------------------------------------------
(* remainingBusinessMs                                                     *)

Counting(from, until) == [NoCall EXCEPT !.op = "remaining", !.cursor = from, !.until = until]

\* resumeTarget goes on to add what remains, none of which is no time.
RemainingReturns(remaining) ==
  /\ \/ /\ remaining = 0
        /\ target' = [target EXCEPT !.phase = "resumed", !.remaining = 0,
                                    !.dueAt = target.resumedAt]
        /\ clock' = NoCall
     \/ /\ remaining > 0
        /\ target' = [target EXCEPT !.phase = "resuming", !.remaining = remaining]
        /\ clock' = Adding(target.resumedAt, remaining)
  /\ UNCHANGED schedule

\* Those of a day that are still to end, and start before the end.
LeftBefore(day, cursor, until) == {i \in LeftOf(day, cursor) : i.start < until}

\* A round begins with the next day that has open intervals, if any of them
\* starts before the end.
RemainingSearch ==
  /\ clock.op = "remaining" /\ clock.at = "search"
  /\ \/ /\ clock.cursor >= clock.until \/ DaysAhead(clock.cursor) = {}
        /\ RemainingReturns(clock.total)
     \/ \E day \in DaysAhead(clock.cursor) :
          LET found == LeftBefore(day, clock.cursor, clock.until)
          IN  /\ clock.cursor < clock.until
              /\ FirstAhead(day, clock.cursor)
              /\ \/ found = {} /\ RemainingReturns(clock.total)
                 \/ /\ found # {}
                    /\ clock' = [clock EXCEPT !.at = "day", !.todo = found, !.progressed = FALSE]
                    /\ UNCHANGED <<schedule, target>>

\* One interval: what of it lies between the cursor and the end counts.
RemainingInterval ==
  \E i \in clock.todo :
    LET openStart == Later(i.start, clock.cursor)
        openEnd == Earlier(i.end, clock.until)
    IN  /\ clock.op = "remaining" /\ clock.at = "day" /\ clock.cursor < clock.until
        /\ ComesFirst(i, clock.todo)
        /\ clock' = IF openStart < openEnd
                    THEN [clock EXCEPT !.total = @ + (openEnd - openStart), !.cursor = openEnd,
                                       !.progressed = TRUE, !.todo = @ \ {i}]
                    ELSE [clock EXCEPT !.todo = @ \ {i}]
        /\ UNCHANGED <<schedule, target>>

\* The round is over: a day that gave nothing is left for the next.
RemainingNext ==
  /\ clock.op = "remaining" /\ clock.at = "day"
  /\ clock.todo = {} \/ clock.cursor >= clock.until
  /\ clock' = [clock EXCEPT !.at = "search", !.todo = {},
                            !.cursor = IF clock.progressed THEN @ ELSE NextDay(@)]
  /\ UNCHANGED <<schedule, target>>

-----------------------------------------------------------------------------
(* The engine's use of it                                                  *)

\* createTarget: the due date is the promised business time from the start.
StartTarget(now, budget) ==
  /\ target.phase = "none"
  /\ target' = [target EXCEPT !.phase = "starting", !.budget = budget, !.startedAt = now]
  /\ clock' = Adding(now, budget)
  /\ UNCHANGED schedule

\* A running target is paused before it is due.
PauseTarget(now) ==
  /\ target.phase = "running"
  /\ now >= target.startedAt /\ now < target.dueAt
  /\ target' = [target EXCEPT !.phase = "paused", !.pausedAt = now]
  /\ UNCHANGED <<schedule, clock>>

\* resumeTarget: what was left at the pause, from now on.
ResumeTarget(now) ==
  /\ target.phase = "paused"
  /\ now >= target.pausedAt
  /\ target' = [target EXCEPT !.phase = "measuring", !.resumedAt = now]
  /\ clock' = Counting(target.pausedAt, target.dueAt)
  /\ UNCHANGED schedule

ClockNext ==
  \/ AddSearch \/ AddInterval \/ AddNextDay
  \/ RemainingSearch \/ RemainingInterval \/ RemainingNext
  \/ \E now \in 0..MaxTime :
       \/ \E budget \in Budgets : StartTarget(now, budget)
       \/ PauseTarget(now)
       \/ ResumeTarget(now)

ClockSpec == ClockInit /\ [][ClockNext]_clockVars

-----------------------------------------------------------------------------

\* The ticks of business time between two moments, counted one by one.
BusinessTicks(from, until) == Cardinality({t \in from..(until - 1) : IsOpenAt(t)})

\* Windows that end the day they start, before midnight.
WithinDays == \A i \in DOMAIN schedule.hours : \A w \in schedule.hours[i] : w.start < w.end

\* The due date is the earliest moment by which the target has had its
\* business time, before and after a pause (addBusinessMs, remainingBusinessMs).
\* For windows that reach midnight it may be later: the clock then leaves out
\* what an interval of the day before still covers, and all of the day after.
DueIsExact ==
  WithinDays /\ target.dueAt # NoTime =>
    LET had == IF target.phase = "resumed"
               THEN BusinessTicks(target.startedAt, target.pausedAt)
                    + BusinessTicks(target.resumedAt, target.dueAt)
               ELSE BusinessTicks(target.startedAt, target.dueAt)
    IN  had = target.budget /\ IsOpenAt(target.dueAt - 1)

\* Until it is paused, a target is never due before its time, whatever the windows.
NeverDueEarly ==
  target.phase # "resumed" /\ target.dueAt # NoTime =>
    BusinessTicks(target.startedAt, target.dueAt) >= target.budget

\* The clock gives up only on a schedule that is never open.
GivesUpOnlyWhenClosed ==
  target.phase \notin {"none", "starting"} /\ target.dueAt = NoTime =>
    \A i \in DOMAIN schedule.hours : schedule.hours[i] = {}

\* The clock and a pause keep the business time that was promised.
ClockKeepsTime == DueIsExact /\ NeverDueEarly /\ GivesUpOnlyWhenClosed
=============================================================================
