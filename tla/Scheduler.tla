----------------------------- MODULE Scheduler -----------------------------
(***************************************************************************)
(* The scheduler (src/internal/sched/engine.go): its loop, which executes  *)
(* what is due and waits for each execution without holding e.mu; the API, *)
(* which changes schedules meanwhile; schedules.json, and panels that die  *)
(* at any point and start again.                                           *)
(*                                                                         *)
(* Time is relative: `next` counts down to NextRun, and 0 is due.  A rule  *)
(* (every, daily, weekly) is the longest time to its next occurrence: next *)
(* is after now and no later than that.  The slots of Slots are the        *)
(* pointers to schedules, used again when nothing points at them; the order*)
(* of e.items is left out, and with it the order within a tick.            *)
(*                                                                         *)
(* Askers bounds the RunNow calls under way.  A shutdown is a Crash: what  *)
(* the loop still does after the signal it may do before.                  *)
(***************************************************************************)
EXTENDS Naturals

CONSTANTS
  Slots,
  Periods,     \* the rules; Validate allows none shorter than a retry
  RetryDelay,
  MaxRetries,
  Askers,
  SaveFaults,  \* writing schedules.json may fail
  None

ASSUME TimesAssumption ==
  /\ RetryDelay \in Nat \ {0} /\ MaxRetries \in Nat
  /\ Periods # {} /\ \A p \in Periods : p \in Nat /\ p >= RetryDelay
ASSUME AskersAssumption == Askers \in Nat \ {0}
ASSUME FaultsAssumption == SaveFaults \in BOOLEAN
ASSUME NoneAssumption == None \notin Slots \cup
  [set : [enabled : BOOLEAN, period : Periods], next : Nat, ran : BOOLEAN]

VARIABLES
  sched,     \* what each pointer points at
  items,     \* the schedules of e.items
  file,      \* schedules.json
  loop,      \* where the loop stands
  due,       \* what this tick has still to execute
  current,   \* what is being executed
  snapshot,  \* what runOne read before it let go of the lock
  poke,      \* e.poke holds a token
  asking,    \* RunNow calls between their two steps
  unsaved,   \* history: the latest save failed
  owed       \* history: RunNow calls not yet served

loopVars == <<loop, due, current, snapshot>>
vars == <<sched, items, file, loopVars, poke, asking, unsaved, owed>>

Settings == [enabled : BOOLEAN, period : Periods]
\* ran, history: an execution began when this NextRun was due.
Saved == [set : Settings, next : Nat, ran : BOOLEAN]
Schedule ==
  [set : Settings, next : Nat, ran : BOOLEAN, retries : 0..MaxRetries, runNow : BOOLEAN]

NextRuns(period) == 1..period
NewSchedule(set, next) ==
  [set |-> set, next |-> next, ran |-> FALSE, retries |-> 0, runNow |-> FALSE]

\* What nothing points at.
NoSettings == CHOOSE set \in Settings : TRUE
Blank == NewSchedule(NoSettings, NoSettings.period)
Dropped(S) == [i \in Slots |-> IF i \in S THEN Blank ELSE sched[i]]

TypeOK ==
  /\ sched \in [Slots -> Schedule]
  /\ items \in SUBSET Slots
  /\ file \in [Slots -> Saved \cup {None}]
  /\ loop \in {"down", "waiting", "woken", "ticking", "executing"}
  /\ due \in SUBSET Slots
  /\ current \in Slots \cup {None}
  /\ snapshot \in Settings
  /\ poke \in BOOLEAN
  /\ asking \in 0..Askers
  /\ unsaved \in BOOLEAN
  /\ owed \in SUBSET Slots

Init ==
  /\ sched = [i \in Slots |-> Blank] /\ snapshot = NoSettings
  /\ items = {}
  /\ file = [i \in Slots |-> None]
  /\ loop = "down" /\ due = {} /\ current = None
  /\ poke = FALSE /\ asking = 0
  /\ unsaved = FALSE /\ owed = {}

Up == loop # "down"
Pointed == due \cup (IF current = None THEN {} ELSE {current})

-----------------------------------------------------------------------------
(* schedules.json *)

Record(schedule) ==
  [set |-> schedule.set, next |-> schedule.next, ran |-> schedule.ran]
Image(s, listed) == [i \in Slots |-> IF i \in listed THEN Record(s[i]) ELSE None]

(* Written aside and renamed: the file is the new one or still the old.  A *)
(* panel that dies here might as well have died before the call.           *)
Save ==
  \/ file' = Image(sched', items') /\ unsaved' = FALSE
  \/ SaveFaults /\ file' = file /\ unsaved' = TRUE

\* Mistake: what was missed while the panel was down is due.
LoadAsIs(i, next) == [NewSchedule(file[i].set, file[i].next) EXCEPT !.ran = file[i].ran]

Load(i, next) ==
  NewSchedule(file[i].set, IF file[i].next = 0 THEN next ELSE file[i].next)

(* NewEngine; what it makes of a missed NextRun is not saved yet. *)
Boot ==
  /\ loop = "down" /\ loop' = "waiting"
  /\ items' = {i \in Slots : file[i] # None}
  /\ \E next \in [Slots -> UNION {NextRuns(p) : p \in Periods}] :
       /\ \A i \in items' : next[i] \in NextRuns(file[i].set.period)
       /\ sched' = [i \in Slots |-> IF i \in items' THEN Load(i, next[i]) ELSE sched[i]]
  /\ unsaved' = FALSE
  /\ UNCHANGED <<file, due, current, snapshot, poke, asking, owed>>

Crash ==
  /\ Up /\ loop' = "down"
  /\ sched' = [i \in Slots |-> Blank] /\ snapshot' = NoSettings
  /\ items' = {} /\ due' = {} /\ current' = None
  /\ poke' = FALSE /\ asking' = 0 /\ owed' = {}
  /\ UNCHANGED <<file, unsaved>>

-----------------------------------------------------------------------------
(* The loop *)

TimerFires ==
  /\ loop = "waiting" /\ loop' = "woken"
  /\ UNCHANGED <<sched, items, file, due, current, snapshot, poke, asking, unsaved, owed>>

TakePoke ==
  /\ loop = "waiting" /\ loop' = "woken"
  /\ poke /\ poke' = FALSE
  /\ UNCHANGED <<sched, items, file, due, current, snapshot, asking, unsaved, owed>>

Due(i) == sched[i].set.enabled /\ sched[i].next = 0

Collect ==
  /\ loop = "woken" /\ loop' = "ticking"
  /\ due' = {i \in items : sched[i].runNow \/ Due(i)}
  /\ sched' = [i \in Slots |-> IF i \in due' THEN [sched[i] EXCEPT !.runNow = FALSE]
                                             ELSE sched[i]]
  /\ UNCHANGED <<items, file, current, snapshot, poke, asking, unsaved, owed>>

(* runOne up to exec.Run. *)
Begin(i) ==
  /\ loop = "ticking" /\ loop' = "executing"
  /\ i \in due /\ due' = due \ {i}
  /\ current' = i /\ snapshot' = sched[i].set
  /\ sched' = [sched EXCEPT ![i].ran = @ \/ sched[i].next = 0]
  /\ file' = [file EXCEPT ![i] = IF file[i] # None /\ file[i].next = 0
                                   THEN [@ EXCEPT !.ran = TRUE] ELSE @]
  /\ owed' = owed \ {i}
  /\ UNCHANGED <<items, poke, asking, unsaved>>

\* Mistake: the run ends with the rule it began with.
AfterOldRule(s, failed, next) ==
  IF failed /\ s.retries < MaxRetries
    THEN [s EXCEPT !.retries = @ + 1, !.next = RetryDelay, !.ran = FALSE]
    ELSE [s EXCEPT !.retries = 0, !.next = snapshot.period, !.ran = FALSE]

\* Mistake: only a failure moves the next run.
AfterSuccessAsBefore(s, failed, next) ==
  IF failed /\ s.retries < MaxRetries
    THEN [s EXCEPT !.retries = @ + 1, !.next = RetryDelay, !.ran = FALSE]
    ELSE [s EXCEPT !.retries = 0]

AfterRun(s, failed, next) ==
  IF failed /\ s.retries < MaxRetries
    THEN [s EXCEPT !.retries = @ + 1, !.next = RetryDelay, !.ran = FALSE]
    ELSE [s EXCEPT !.retries = 0, !.next = next, !.ran = FALSE]

(* exec.Run has returned.  A schedule deleted meanwhile is in no list, and *)
(* so in no file.                                                          *)
Finish ==
  /\ loop = "executing" /\ loop' = "ticking"
  /\ \E failed \in BOOLEAN, next \in NextRuns(sched[current].set.period) :
       sched' = IF current \in items
                  THEN [sched EXCEPT ![current] = AfterRun(@, failed, next)]
                  ELSE Dropped({current})
  /\ current' = None /\ snapshot' = NoSettings
  /\ UNCHANGED <<items, due, poke, asking, owed>>
  /\ Save

\* Mistake: requests that came during the tick are drained with it.
EndTickDrained ==
  /\ loop = "ticking" /\ due = {} /\ loop' = "waiting"
  /\ poke' = FALSE
  /\ UNCHANGED <<sched, items, file, due, current, snapshot, asking, unsaved, owed>>

EndTick ==
  /\ loop = "ticking" /\ due = {} /\ loop' = "waiting"
  /\ UNCHANGED <<sched, items, file, due, current, snapshot, poke, asking, unsaved, owed>>

-----------------------------------------------------------------------------
(* The API; a call that is refused changes nothing *)

Create(i, set, next) ==
  /\ Up /\ i \notin items \cup Pointed /\ file[i] = None
  /\ next \in NextRuns(set.period)
  /\ sched' = [sched EXCEPT ![i] = NewSchedule(set, next)]
  /\ items' = items \cup {i}
  /\ UNCHANGED <<loopVars, poke, asking, owed>>
  /\ Save

(* An Update also takes back a RunNow that the loop has not seen. *)
Update(i, set, next) ==
  /\ Up /\ i \in items
  /\ next \in NextRuns(set.period)
  /\ sched' = [sched EXCEPT ![i] = NewSchedule(set, next)]
  /\ owed' = owed \ {i}
  /\ UNCHANGED <<items, loopVars, poke, asking>>
  /\ Save

\* Mistake: a deleted schedule stays in the file until something else is saved.
DeleteUnsaved(i) ==
  /\ Up /\ i \in items /\ items' = items \ {i}
  /\ sched' = Dropped({i} \ Pointed)
  /\ owed' = owed \ {i}
  /\ UNCHANGED <<file, loopVars, poke, asking, unsaved>>

Delete(i) ==
  /\ Up /\ i \in items /\ items' = items \ {i}
  /\ sched' = Dropped({i} \ Pointed)
  /\ owed' = owed \ {i}
  /\ UNCHANGED <<loopVars, poke, asking>>
  /\ Save

RunNow(i) ==
  /\ Up /\ i \in items /\ asking < Askers
  /\ sched' = [sched EXCEPT ![i].runNow = TRUE]
  /\ asking' = asking + 1
  /\ owed' = owed \cup {i}
  /\ UNCHANGED <<items, file, loopVars, poke, unsaved>>

Poke ==
  /\ asking > 0 /\ asking' = asking - 1
  /\ poke' = TRUE
  /\ UNCHANGED <<sched, items, file, loopVars, unsaved, owed>>

-----------------------------------------------------------------------------

Earlier(n) == IF n = 0 THEN 0 ELSE n - 1

(* Time passes, whether the panel runs or not. *)
Tick ==
  /\ sched' = [i \in Slots |-> IF i \in items THEN [sched[i] EXCEPT !.next = Earlier(@)]
                                              ELSE sched[i]]
  /\ file' = [i \in Slots |-> IF file[i] = None THEN None
                                ELSE [file[i] EXCEPT !.next = Earlier(@)]]
  /\ UNCHANGED <<items, loopVars, poke, asking, unsaved, owed>>

LoopStep ==
  \/ TimerFires \/ TakePoke \/ Collect
  \/ \E i \in Slots : Begin(i)
  \/ Finish \/ EndTick

Edit(i) ==
  \/ \E set \in Settings : \E next \in NextRuns(set.period) :
       Create(i, set, next) \/ Update(i, set, next)
  \/ Delete(i)
Call(i) == Edit(i) \/ RunNow(i)

Next == Boot \/ Crash \/ LoopStep \/ (\E i \in Slots : Call(i)) \/ Poke \/ Tick

(* The ticker fires, the loop runs, and every execution returns: direct    *)
(* actions have runTimeout, the others start a job or wait for a Stop that *)
(* ends with SIGKILL.                                                      *)
Fairness == WF_vars(LoopStep)

Spec == Init /\ [][Next]_vars /\ Fairness

-----------------------------------------------------------------------------
(* Properties *)

(* A restart finds what the panel last acknowledged: unless the latest     *)
(* save failed, the file has exactly the schedules there are, with their   *)
(* settings and their next run, or a next run already missed at start-up.  *)
FileIsCurrent ==
  Up /\ ~unsaved => \A i \in Slots :
    /\ i \in items <=> file[i] # None
    /\ i \in items => /\ file[i].set = sched[i].set
                      /\ file[i].next \in {sched[i].next, 0}

(* `Queues one immediate execution`: until it is served, edited or deleted,*)
(* a RunNow is in the tick under way, or marked with the loop about to see *)
(* it without waiting for its timer.                                       *)
RunNowIsPending ==
  \A i \in owed :
    \/ i \in due
    \/ i \in items /\ sched[i].runNow /\ (loop = "waiting" => poke \/ asking > 0)

(* The next run fits the rule as last edited, also when the edit came in   *)
(* the middle of an execution; only a failed run has a nearer one.         *)
NextRunFits ==
  \A i \in items : sched[i].next <= (IF sched[i].retries > 0 THEN RetryDelay
                                                           ELSE sched[i].set.period)

(* No occurrence is executed twice: not by the next tick, and not by a     *)
(* panel that starts after one that died while it executed.                *)
OncePerOccurrence ==
  [][\A i \in Slots : Begin(i) /\ sched[i].next = 0 => ~sched[i].ran]_vars

(* What the operator set, the loop leaves alone, however long it executes. *)
EditsAreKept ==
  [][LoopStep => \A i \in items : sched'[i].set = sched[i].set]_vars

(* An enabled schedule that is due does not stay due. *)
DueIsServed ==
  \A i \in Slots : (i \in items /\ Due(i)) ~> ~(i \in items /\ Due(i))

=============================================================================
