----------------------------- MODULE Reminders ------------------------------
(***************************************************************************)
(* Reminders of timed events: the tick of the sidecar that rebuilds the    *)
(* schedule from the database (sidecar_server.ts, reminder_engine.ts), and *)
(* the delivery of a notification by the first desktop strategy that works *)
(* (notification_delivery.ts).                                             *)
(*                                                                         *)
(* Nothing is persisted: what was delivered and which strategies failed    *)
(* are forgotten when the sidecar ends, but the child processes it started *)
(* go on.  Time passes without ticks while the machine sleeps.  One unit   *)
(* of time is the 10 s a delivery may take.                                *)
(***************************************************************************)
EXTENDS Integers, Sequences, TLC

CONSTANTS TimedEvents, \* events, each with at most one reminder
          Strategies,  \* the strategies, in the order they are tried
          StartOf,     \* StartOf[e]: when e starts
          EndOf,       \* EndOf[e]: when e ends
          Occurrences, \* Occurrences[e]: what its rule generates, {} for a single event
          Befores,     \* how long before the start the user may be reminded
          Period,      \* from one tick to the next
          KeepFor,     \* how long after its moment a key counts as delivered (25 h)
          MaxTime,     \* bound: the clock, which then stands for all later times
          MaxSets,     \* bound: how often the user sets a reminder
          MaxStarts,   \* bound: starts of the sidecar
          MaxFaults,   \* bound: strategies that fail or hang
          MaxShown,    \* bound: how often a notification is sent that was shown before
          NoReminder

ASSUME RemindersAssumption ==
  /\ \A e \in TimedEvents : StartOf[e] \in Nat /\ EndOf[e] \in Nat
  /\ Befores \subseteq Nat /\ Period \in Nat \ {0} /\ MaxTime \in Nat
  /\ Len(Strategies) \in Nat /\ DOMAIN Strategies = 1 .. Len(Strategies)
  /\ MaxSets \in Nat /\ MaxStarts \in Nat \ {0} /\ MaxFaults \in Nat
  /\ KeepFor \in Nat /\ MaxShown \in Nat /\ TimedEvents \subseteq DOMAIN Occurrences

VARIABLES
  now,
  live,       \* the events of the database
  reminder,   \* reminder[e]: the row of e, or NoReminder
  up,         \* the sidecar runs
  nextTick,   \* when the next tick is due
  delivered,  \* deliveredReminderKeys
  dead,       \* deadStrategies
  dispatches, \* the notifications on their way, each a child process
  shown,      \* shown[k]: how often the user saw the notification k (history)
  excused,    \* excused[k]: how often the engine could not learn that he did (history)
  sets, starts, faults

reminderVars == <<now, live, reminder, up, nextTick, delivered, dead, dispatches,
                  shown, excused, sets, starts, faults>>

user        == <<live, reminder, sets>>
engineState == <<up, nextTick, delivered, dead, starts>>

\* The row: how long before, when it was written, and its member id.
Rows == [before : Befores, set : 0 .. MaxTime, member : 1 .. MaxSets]

Moment(e) == StartOf[e] - reminder[e].before

\* The schedule key: the member, its event and the moment.
Key(e) == [event |-> e, member |-> reminder[e].member, at |-> Moment(e)]
Keys   == [event : TimedEvents, member : 1 .. MaxSets,
           at : {StartOf[e] - b : e \in TimedEvents, b \in Befores}]

Count(f, k)   == IF k \in DOMAIN f THEN f[k] ELSE 0
OneMore(f, K) == [k \in DOMAIN f \cup K |-> Count(f, k) + (IF k \in K THEN 1 ELSE 0)]
Nothing       == [k \in {} |-> 0]

-----------------------------------------------------------------------------
(* The schedule (reminderTick, rebuildSchedule, filterDelivered).          *)

\* The tick's rows. A series is replaced by its occurrences, each under an id of
\* its own; one whose rule generates nothing in the window stays as it is.
RowsOf(e) == IF Occurrences[e] = {} THEN {e} ELSE {<<e, o>> : o \in Occurrences[e]}
TickRows  == UNION {RowsOf(e) : e \in live}

\* The moment of a reminder has come. One set after its moment is a late
\* configuration, and one of an event that is over is noise.
IsDue(e) ==
  /\ reminder[e] # NoReminder /\ Moment(e) <= now
  /\ reminder[e].set <= Moment(e) /\ EndOf[e] > now

\* A reminder has the id of its event, and the row is looked up by that id.
Fires(e) == e \in TickRows /\ IsDue(e)

Called == {Key(e) : e \in {f \in TimedEvents : Fires(f)}}

\* deliveredPrune.
Kept == {k \in delivered : k.at + KeepFor >= now}

Again(k) == Count(shown, k) < MaxShown  \* bound

\* Seeded fault: what was delivered is not left out.
DueAgain == {k \in Called : Again(k)}

Due == {k \in Called \ Kept : Again(k)}

-----------------------------------------------------------------------------
(* Delivery (deliverNotification).                                         *)

\* The strategies from i on that have not failed since the sidecar started.
Alive(i) == {j \in DOMAIN Strategies : j >= i /\ Strategies[j] \notin dead}
First(S) == CHOOSE j \in S : \A k \in S : j <= k

\* With every strategy dead nothing is spawned, and the failure is only logged.
Dispatch(K) ==
  IF Alive(1) = {} THEN {}
  ELSE {[key |-> k, by |-> First(Alive(1)), since |-> now, settled |-> FALSE,
         hung |-> FALSE, run |-> starts] : k \in K}

Heard(d) == up /\ d.run = starts

\* The child exits with 0: the key is delivered, unless the valve was faster.
Shows(d) ==
  /\ d \in dispatches /\ ~d.hung
  /\ dispatches' = dispatches \ {d}
  /\ shown' = OneMore(shown, {d.key})
  /\ delivered' = IF Heard(d) /\ ~d.settled THEN delivered \cup {d.key} ELSE delivered
  /\ UNCHANGED <<user, now, up, nextTick, dead, starts, excused, faults>>

\* The child fails: its strategy is dead until the next start, and the next one
\* is spawned, even when the dispatch was settled meanwhile.
Fails(d) ==
  /\ d \in dispatches /\ ~d.hung /\ faults < MaxFaults
  /\ faults' = faults + 1
  /\ IF ~Heard(d)
     THEN dispatches' = dispatches \ {d} /\ UNCHANGED dead
     ELSE LET gone == dead \cup {Strategies[d.by]}
              next == {j \in Alive(d.by + 1) : Strategies[j] \notin gone}
          IN  /\ dead' = gone
              /\ dispatches' = (dispatches \ {d}) \cup
                    IF next = {} THEN {} ELSE {[d EXCEPT !.by = First(next)]}
  /\ UNCHANGED <<user, now, up, nextTick, delivered, starts, shown, excused>>

\* The desktop never answers the child.
Hangs(d) ==
  /\ d \in dispatches /\ ~d.hung /\ faults < MaxFaults
  /\ faults' = faults + 1
  /\ dispatches' = (dispatches \ {d}) \cup {[d EXCEPT !.hung = TRUE]}
  /\ UNCHANGED <<user, engineState, now, shown, excused>>

\* The valve: after 10 s the dispatch counts as failed, whatever the child does.
Valve(d) ==
  /\ d \in dispatches /\ Heard(d) /\ ~d.settled
  /\ \/ d.since < now
     \/ now = MaxTime /\ d.hung  \* bound: when the clock stands only a hung child is late
  /\ dispatches' = (dispatches \ {d}) \cup
                   IF d.hung THEN {} ELSE {[d EXCEPT !.settled = TRUE]}
  /\ excused' = OneMore(excused, {d.key})
  /\ UNCHANGED <<user, engineState, now, shown, faults>>

-----------------------------------------------------------------------------
(* The sidecar (sidecar_server.ts).                                        *)

Cap(t) == IF t < MaxTime THEN t ELSE MaxTime

\* Seeded fault: a key is marked when its notification is sent.
TickAndMark ==
  /\ up /\ now >= nextTick /\ \A d \in dispatches : Heard(d) => d.settled
  /\ dispatches' = dispatches \cup Dispatch(Due)
  /\ delivered' = Kept \cup Due
  /\ nextTick' = Cap(now + Period)
  /\ UNCHANGED <<user, now, up, dead, starts, shown, excused, faults>>

\* reminderTick on its timer.  The valves of the tick before were due earlier, and
\* timers that are late run in the order they were due.
Tick ==
  /\ up /\ now >= nextTick /\ \A d \in dispatches : Heard(d) => d.settled
  /\ delivered' = Kept
  /\ dispatches' = dispatches \cup Dispatch(Due)
  /\ nextTick' = Cap(now + Period)
  /\ UNCHANGED <<user, now, up, dead, starts, shown, excused, faults>>

\* The application ends; nobody hears the children any more.
Stop ==
  /\ up
  /\ up' = FALSE /\ delivered' = {} /\ dead' = {}
  /\ excused' = OneMore(excused,
       delivered \cup {d.key : d \in {x \in dispatches : Heard(x) /\ ~x.settled}})
  /\ dispatches' = {[d EXCEPT !.by = 1, !.settled = TRUE] : d \in {x \in dispatches : ~x.hung}}
  /\ UNCHANGED <<user, now, nextTick, starts, shown, faults>>

\* main: a tick at once, the next after a period.
Start ==
  /\ ~up /\ starts < MaxStarts
  /\ up' = TRUE /\ starts' = starts + 1
  /\ nextTick' = Cap(now + Period)
  /\ delivered' = Kept
  /\ dispatches' = dispatches \cup {[d EXCEPT !.run = starts'] : d \in Dispatch(Due)}
  /\ UNCHANGED <<user, now, dead, shown, excused, faults>>

Advance ==
  /\ now < MaxTime /\ now' = now + 1
  /\ UNCHANGED <<user, engineState, dispatches, shown, excused, faults>>

-----------------------------------------------------------------------------
(* The user (setReminder, clearReminder, deleteEvent of event_core.ts).    *)

\* The row keeps its member id while it exists, and is dated anew by every save.
SaveReminder(e, before) ==
  /\ up /\ e \in live /\ sets < MaxSets
  /\ sets' = sets + 1
  /\ reminder' = [reminder EXCEPT ![e] =
       [before |-> before, set |-> now,
        member |-> IF reminder[e] = NoReminder THEN sets' ELSE reminder[e].member]]
  /\ UNCHANGED <<engineState, now, live, dispatches, shown, excused, faults>>

ClearReminder(e) ==
  /\ up /\ reminder[e] # NoReminder
  /\ reminder' = [reminder EXCEPT ![e] = NoReminder]
  /\ UNCHANGED <<engineState, now, live, sets, dispatches, shown, excused, faults>>

\* The reminder's row outlives its event.
DeleteEvent(e) ==
  /\ up /\ e \in live
  /\ live' = live \ {e}
  /\ UNCHANGED <<engineState, now, reminder, sets, dispatches, shown, excused, faults>>

-----------------------------------------------------------------------------
ReminderInit ==
  /\ now = 0 /\ live = TimedEvents /\ reminder = [e \in TimedEvents |-> NoReminder]
  /\ up = TRUE /\ nextTick = Cap(Period) /\ delivered = {} /\ dead = {}
  /\ dispatches = {} /\ shown = Nothing /\ excused = Nothing
  /\ sets = 0 /\ starts = 1 /\ faults = 0

Exits == \E d \in dispatches : Shows(d) \/ Fails(d) \/ Hangs(d)

ReminderNext ==
  \/ Tick \/ Stop \/ Start \/ Advance
  \/ Exits \/ \E d \in dispatches : Valve(d)
  \/ \E e \in TimedEvents, before \in Befores : SaveReminder(e, before)
  \/ \E e \in TimedEvents : ClearReminder(e) \/ DeleteEvent(e)

ReminderSpec == ReminderInit /\ [][ReminderNext]_reminderVars

\* Time passes, a timer that is due runs, and a child exits unless it hangs.
ReminderFairSpec ==
  /\ ReminderSpec
  /\ WF_reminderVars(Advance) /\ WF_reminderVars(Tick) /\ WF_reminderVars(Exits)
  /\ WF_reminderVars(\E d \in dispatches : Valve(d))

-----------------------------------------------------------------------------
\* A reminder is set by a user the sidecar served, notifications are on their way
\* by strategies that exist, and only what was shown counts as delivered.
ReminderTypeOK ==
  /\ now \in 0 .. MaxTime /\ nextTick \in 0 .. MaxTime /\ live \subseteq TimedEvents
  /\ reminder \in [TimedEvents -> Rows \cup {NoReminder}]
  /\ delivered \subseteq {k \in Keys : Count(shown, k) > 0}
  /\ dispatches \subseteq [key : Keys, by : DOMAIN Strategies, since : 0 .. MaxTime,
                           settled : BOOLEAN, hung : BOOLEAN, run : 1 .. starts]
  /\ up \in BOOLEAN /\ sets \in 0 .. MaxSets /\ starts \in 1 .. MaxStarts

\* The engine forgets that k was delivered while its event still runs.
Forgotten(k) ==
  LET until == k.at + KeepFor IN now > until /\ EndOf[k.event] > until

Once(k) == Count(shown, k) <= 1 + Count(excused, k)

\* The user sees a reminder once, and again only as often as the engine could not
\* learn that he had: the child answered after its 10 s, or the sidecar ended and
\* forgot (deliveredReminderKeys, settle). The exception is an event that is not
\* over 25 h after the moment: from then on it is shown at every tick.
ShownOnce == \A k \in Keys : Once(k) \/ Forgotten(k)

\* A reminder of a single event whose moment has come is shown in the end, whatever
\* child hangs or fails, unless the sidecar stops, every strategy is dead for the
\* session, or the reminder is no longer due: reset, cleared, or its event deleted
\* or over. It says nothing of series: no row of a tick has their id.
Wanted == {Key(e) : e \in {f \in live : IsDue(f)}}

ShownInTheEnd(k) ==
  (up /\ k \in Wanted) ~> (Count(shown, k) > 0 \/ k \notin Wanted \/ ~up \/ Alive(1) = {})

DueIsShown == \A k \in {j \in Keys : Occurrences[j.event] = {}} : ShownInTheEnd(k)

\* DC-22 8.2: "a schedule key that has FIRED is marked delivered and cannot fire
\* again even if a rebuild re-derives the same key" within one sidecar session.
FiresOnce == \A k \in Keys : Once(k)

\* sidecar_server.ts, reminderTick: "expand each timed series into per-occurrence
\* synthetic rows so reminders fire for the OCCURRENCE the reminder is due on".
SeriesAreShown == \A k \in Keys : ShownInTheEnd(k)
=============================================================================
