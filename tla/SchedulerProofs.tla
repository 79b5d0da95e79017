-------------------------- MODULE SchedulerProofs --------------------------
(***************************************************************************)
(* The scheduler, for any number of schedules and rules, any number of     *)
(* retries and of RunNow calls, and writes that may fail.                  *)
(*                                                                         *)
(* The argument.  Outside a tick nothing is left to execute, and only what *)
(* is being executed has been begun (LoopInv, RanInv), so what a tick takes*)
(* up has not been executed since it was due.  A RunNow mark that the loop *)
(* has not collected is followed by a token, in the channel or in the hand *)
(* of its caller, unless the loop is already awake (TokenInv).             *)
(***************************************************************************)
EXTENDS Scheduler, TLAPS

LoopInv ==
  /\ loop \in {"down", "waiting", "woken"} => due = {}
  /\ loop = "executing" <=> current # None
  /\ loop = "down" => items = {} /\ owed = {} /\ asking = 0 /\ ~poke

RanInv == \A i \in Slots : sched[i].ran => current = i

OwedInv == \A i \in owed : i \in due \/ (i \in items /\ sched[i].runNow)

TokenInv == \A i \in items : sched[i].runNow => poke \/ asking > 0 \/ loop = "woken"

FileFits == \A i \in Slots : file[i] # None => file[i].next <= file[i].set.period

IInv ==
  /\ TypeOK /\ LoopInv /\ RanInv /\ OwedInv /\ TokenInv
  /\ FileIsCurrent /\ NextRunFits /\ FileFits

-----------------------------------------------------------------------------
(* Schedules *)

LEMMA NextRunType == ASSUME NEW p \in Periods, NEW n \in NextRuns(p)
                     PROVE  n \in Nat /\ n <= p /\ p \in Nat
BY TimesAssumption DEF NextRuns

LEMMA NoSettingsType == NoSettings \in Settings
<1>1. PICK p \in Periods : TRUE
  BY TimesAssumption
<1>2. [enabled |-> TRUE, period |-> p] \in Settings
  BY DEF Settings
<1> QED  BY <1>2 DEF NoSettings

LEMMA BlankType ==
  /\ Blank \in Schedule
  /\ Blank.ran = FALSE /\ Blank.runNow = FALSE
<1>1. NoSettings.period \in Nat
  BY NoSettingsType, TimesAssumption DEF Settings
<1> QED  BY <1>1, NoSettingsType, TimesAssumption DEF Blank, NewSchedule, Schedule

LEMMA RecordType ==
  ASSUME NEW s \in Schedule
  PROVE  /\ Record(s) \in Saved /\ Record(s) # None
         /\ Record(s).set = s.set /\ Record(s).next = s.next
<1>1. /\ s.set \in Settings /\ s.next \in Nat /\ s.ran \in BOOLEAN
  BY DEF Schedule
<1> QED  BY <1>1, NoneAssumption DEF Record, Saved, Settings

(* The file after a successful save, or still the old one. *)
LEMMA SaveType ==
  ASSUME TypeOK, sched' \in [Slots -> Schedule], Save
  PROVE  /\ file' \in [Slots -> Saved \cup {None}]
         /\ unsaved' \in BOOLEAN
         /\ FileIsCurrent'
<1>1. CASE file' = Image(sched', items') /\ unsaved' = FALSE
  <2>1. \A i \in Slots : sched'[i] \in Schedule
    OBVIOUS
  <2>2. \A i \in Slots : file'[i] = IF i \in items' THEN Record(sched'[i]) ELSE None
    BY <1>1 DEF Image
  <2>3. file' \in [Slots -> Saved \cup {None}]
    BY <1>1, <2>1, RecordType DEF Image
  <2> QED  BY <1>1, <2>1, <2>2, <2>3, RecordType DEF FileIsCurrent
<1>2. CASE file' = file /\ unsaved' = TRUE
  BY <1>2 DEF TypeOK, FileIsCurrent
<1> QED  BY <1>1, <1>2 DEF Save

LEMMA SaveFits ==
  ASSUME TypeOK, FileFits, sched' \in [Slots -> Schedule], NextRunFits', Save
  PROVE  FileFits'
<1>1. CASE file' = Image(sched', items')
  <2> SUFFICES ASSUME NEW i \in Slots, file'[i] # None
               PROVE  file'[i].next <= file'[i].set.period
    BY DEF FileFits
  <2>1. i \in items' /\ file'[i] = Record(sched'[i])
    BY <1>1 DEF Image
  <2>2. sched'[i] \in Schedule
    OBVIOUS
  <2>3. /\ sched'[i].next \in Nat /\ sched'[i].set.period \in Nat
        /\ RetryDelay \in Nat /\ RetryDelay <= sched'[i].set.period
    BY <2>2, TimesAssumption DEF Schedule, Settings
  <2>4. sched'[i].next <= (IF sched'[i].retries > 0 THEN RetryDelay
                                                    ELSE sched'[i].set.period)
    BY <2>1 DEF NextRunFits
  <2>5. sched'[i].next <= sched'[i].set.period
    BY <2>3, <2>4
  <2> QED  BY <2>1, <2>2, <2>5, RecordType
<1>2. CASE file' = file
  BY <1>2 DEF FileFits
<1> QED  BY <1>1, <1>2 DEF Save

-----------------------------------------------------------------------------
(* The API *)

(* Create and Update put a new schedule into slot i; the loop does not move. *)
LEMMA EditStep ==
  ASSUME IInv, NEW i \in Slots, NEW set \in Settings, NEW next \in NextRuns(set.period),
         Create(i, set, next) \/ Update(i, set, next)
  PROVE  IInv'
<1>1. /\ Up /\ items' = items \cup {i}
      /\ sched' = [sched EXCEPT ![i] = NewSchedule(set, next)]
      /\ owed' \subseteq owed
      /\ i \in owed' => i \notin items
      /\ UNCHANGED <<loop, due, current, snapshot, poke, asking>>
      /\ Save
  BY DEF Create, Update, loopVars
<1>2. /\ next \in Nat /\ next <= set.period
      /\ NewSchedule(set, next) \in Schedule
      /\ NewSchedule(set, next).set = set
      /\ NewSchedule(set, next).next = next
      /\ NewSchedule(set, next).ran = FALSE
      /\ NewSchedule(set, next).retries = 0
      /\ NewSchedule(set, next).runNow = FALSE
  <2>1. set.period \in Periods
    BY DEF Settings
  <2>2. next \in Nat /\ next <= set.period
    BY <2>1, NextRunType
  <2> QED  BY <2>2, TimesAssumption DEF NewSchedule, Schedule
<1>3. /\ sched' \in [Slots -> Schedule]
      /\ sched'[i] = NewSchedule(set, next)
      /\ \A k \in Slots \ {i} : sched'[k] = sched[k]
  BY <1>1, <1>2 DEF IInv, TypeOK
<1>4. TypeOK' /\ FileIsCurrent'
  BY <1>1, <1>3, SaveType DEF IInv, TypeOK
<1>5. LoopInv' /\ RanInv'
  BY <1>1, <1>2, <1>3 DEF IInv, LoopInv, RanInv, Up
<1>6. OwedInv'
  BY <1>1, <1>2, <1>3 DEF IInv, OwedInv, TypeOK
<1>7. TokenInv'
  BY <1>1, <1>2, <1>3 DEF IInv, TokenInv
<1>8. NextRunFits'
  BY <1>1, <1>2, <1>3 DEF IInv, NextRunFits
<1>9. FileFits'
  BY <1>1, <1>3, <1>8, SaveFits DEF IInv
<1> QED  BY <1>4, <1>5, <1>6, <1>7, <1>8, <1>9 DEF IInv

LEMMA DroppedType ==
  ASSUME TypeOK, NEW S \in SUBSET Slots
  PROVE  /\ Dropped(S) \in [Slots -> Schedule]
         /\ \A k \in S : Dropped(S)[k] = Blank
         /\ \A k \in Slots \ S : Dropped(S)[k] = sched[k]
BY BlankType DEF Dropped, TypeOK

LEMMA DeleteStep ==
  ASSUME IInv, NEW i \in Slots, Delete(i)
  PROVE  IInv'
<1>1. /\ Up /\ items' = items \ {i}
      /\ sched' = Dropped({i} \ Pointed)
      /\ owed' = owed \ {i}
      /\ UNCHANGED <<loop, due, current, snapshot, poke, asking>>
      /\ Save
  BY DEF Delete, loopVars
<1>2. /\ sched' \in [Slots -> Schedule]
      /\ \A k \in Slots \ {i} : sched'[k] = sched[k]
      /\ sched'[i] \in {sched[i], Blank}
  BY <1>1, DroppedType DEF IInv
<1>3. TypeOK' /\ FileIsCurrent'
  BY <1>1, <1>2, SaveType DEF IInv, TypeOK
<1>4. LoopInv' /\ RanInv'
  BY <1>1, <1>2, BlankType DEF IInv, LoopInv, RanInv, Up
<1>5. OwedInv' /\ TokenInv'
  BY <1>1, <1>2 DEF IInv, OwedInv, TokenInv, TypeOK
<1>6. NextRunFits'
  BY <1>1, <1>2 DEF IInv, NextRunFits, TypeOK
<1>7. FileFits'
  BY <1>1, <1>2, <1>6, SaveFits DEF IInv
<1> QED  BY <1>3, <1>4, <1>5, <1>6, <1>7 DEF IInv

LEMMA RunNowStep ==
  ASSUME IInv, NEW i \in Slots, RunNow(i)
  PROVE  IInv'
<1>1. /\ sched' \in [Slots -> Schedule]
      /\ sched'[i].runNow = TRUE
      /\ \A k \in Slots : /\ sched'[k].set = sched[k].set
                          /\ sched'[k].next = sched[k].next
                          /\ sched'[k].ran = sched[k].ran
                          /\ sched'[k].retries = sched[k].retries
                          /\ k # i => sched'[k].runNow = sched[k].runNow
  <2>1. /\ sched'[i] = [sched[i] EXCEPT !.runNow = TRUE]
        /\ \A k \in Slots \ {i} : sched'[k] = sched[k]
        /\ sched[i] \in Schedule
    BY DEF RunNow, IInv, TypeOK
  <2>2. sched'[i] \in Schedule
    BY <2>1 DEF Schedule
  <2>3. sched' \in [Slots -> Schedule]
    BY <2>1, <2>2 DEF RunNow, IInv, TypeOK
  <2> QED  BY <2>1, <2>3 DEF Schedule
<1>2. TypeOK'
  BY <1>1, AskersAssumption DEF RunNow, loopVars, IInv, TypeOK
<1>3. LoopInv' /\ RanInv'
  BY <1>1 DEF RunNow, loopVars, IInv, LoopInv, RanInv, Up
<1>4. asking' > 0
  BY DEF RunNow, IInv, TypeOK
<1>5. OwedInv' /\ TokenInv'
  BY <1>1, <1>4 DEF RunNow, loopVars, IInv, OwedInv, TokenInv, TypeOK
<1>6. FileIsCurrent' /\ NextRunFits' /\ FileFits'
  BY <1>1 DEF RunNow, loopVars, IInv, FileIsCurrent, NextRunFits, FileFits, Up, TypeOK
<1> QED  BY <1>2, <1>3, <1>5, <1>6 DEF IInv

LEMMA PokeStep ==
  ASSUME IInv, Poke
  PROVE  IInv'
<1>1. TypeOK'
  <2>1. asking' \in 0..Askers
    <3>1. asking \in 0..Askers /\ asking > 0 /\ asking' = asking - 1
      BY DEF Poke, IInv, TypeOK
    <3> QED  BY <3>1, AskersAssumption
  <2> QED  BY <2>1 DEF Poke, loopVars, IInv, TypeOK
<1> QED  BY <1>1 DEF Poke, loopVars, IInv, TypeOK, LoopInv, RanInv, OwedInv, TokenInv,
                     FileIsCurrent, NextRunFits, FileFits, Up

-----------------------------------------------------------------------------
(* The loop *)

LEMMA WakeStep ==
  ASSUME IInv, TimerFires \/ TakePoke
  PROVE  IInv'
<1>1. /\ loop = "waiting" /\ loop' = "woken"
      /\ UNCHANGED <<sched, items, file, due, current, snapshot, asking, unsaved, owed>>
      /\ poke' \in BOOLEAN
  BY DEF TimerFires, TakePoke, IInv, TypeOK
<1>2. TypeOK'
  BY <1>1 DEF IInv, TypeOK
<1> QED  BY <1>1, <1>2 DEF IInv, LoopInv, RanInv, OwedInv, TokenInv, FileIsCurrent,
                           NextRunFits, FileFits, Up

LEMMA CollectStep ==
  ASSUME IInv, Collect
  PROVE  IInv'
<1>1. /\ loop = "woken" /\ loop' = "ticking"
      /\ due' = {i \in items : sched[i].runNow \/ Due(i)}
      /\ UNCHANGED <<items, file, current, snapshot, poke, asking, unsaved, owed>>
  BY DEF Collect
<1>2. /\ sched' \in [Slots -> Schedule]
      /\ \A k \in Slots : /\ sched'[k].set = sched[k].set
                          /\ sched'[k].next = sched[k].next
                          /\ sched'[k].ran = sched[k].ran
                          /\ sched'[k].retries = sched[k].retries
                          /\ sched'[k].runNow = (k \notin due' /\ sched[k].runNow)
  BY DEF Collect, IInv, TypeOK, Schedule
<1>3. TypeOK'
  BY <1>1, <1>2 DEF IInv, TypeOK
<1>4. LoopInv' /\ RanInv'
  BY <1>1, <1>2 DEF IInv, LoopInv, RanInv
<1>5. OwedInv' /\ TokenInv'
  BY <1>1, <1>2 DEF IInv, LoopInv, OwedInv, TokenInv, TypeOK
<1>6. FileIsCurrent' /\ NextRunFits' /\ FileFits'
  BY <1>1, <1>2 DEF IInv, FileIsCurrent, NextRunFits, FileFits, Up, TypeOK
<1> QED  BY <1>3, <1>4, <1>5, <1>6 DEF IInv

LEMMA BeginStep ==
  ASSUME IInv, NEW i \in Slots, Begin(i)
  PROVE  IInv'
<1>1. /\ loop = "ticking" /\ loop' = "executing"
      /\ i \in due /\ due' = due \ {i}
      /\ current' = i /\ snapshot' = sched[i].set
      /\ owed' = owed \ {i}
      /\ UNCHANGED <<items, poke, asking, unsaved>>
  BY DEF Begin
<1>2. /\ sched' \in [Slots -> Schedule]
      /\ \A k \in Slots : /\ sched'[k].set = sched[k].set
                          /\ sched'[k].next = sched[k].next
                          /\ sched'[k].retries = sched[k].retries
                          /\ sched'[k].runNow = sched[k].runNow
                          /\ k # i => sched'[k].ran = sched[k].ran
  <2>1. sched'[i] = [sched[i] EXCEPT !.ran = @ \/ sched[i].next = 0]
    BY DEF Begin, IInv, TypeOK
  <2>2. sched[i] \in Schedule /\ (sched[i].ran \/ sched[i].next = 0) \in BOOLEAN
    BY DEF IInv, TypeOK, Schedule
  <2>3. sched'[i] \in Schedule
    BY <2>1, <2>2 DEF Schedule
  <2> QED  BY <2>1, <2>2, <2>3 DEF Begin, IInv, TypeOK, Schedule
<1>3. \A k \in Slots :
        /\ file'[k] \in Saved \cup {None}
        /\ file'[k] = None <=> file[k] = None
        /\ file[k] # None => file'[k].set = file[k].set /\ file'[k].next = file[k].next
  <2> SUFFICES ASSUME NEW k \in Slots
               PROVE  /\ file'[k] \in Saved \cup {None}
                      /\ file'[k] = None <=> file[k] = None
                      /\ file[k] # None => file'[k].set = file[k].set /\ file'[k].next = file[k].next
    OBVIOUS
  <2>1. file'[k] = IF k = i /\ file[i] # None /\ file[i].next = 0
                     THEN [file[i] EXCEPT !.ran = TRUE] ELSE file[k]
    BY DEF Begin, IInv, TypeOK
  <2>2. file[k] \in Saved \cup {None}
    BY DEF IInv, TypeOK
  <2>3. CASE k = i /\ file[i] # None /\ file[i].next = 0
    <3>1. file[k] \in Saved /\ file'[k] = [file[k] EXCEPT !.ran = TRUE]
      BY <2>1, <2>2, <2>3
    <3>2. /\ file'[k] \in Saved
          /\ file'[k].set = file[k].set /\ file'[k].next = file[k].next
      BY <3>1 DEF Saved
    <3> QED  BY <2>3, <3>2, NoneAssumption DEF Saved, Settings
  <2>4. CASE ~(k = i /\ file[i] # None /\ file[i].next = 0)
    BY <2>1, <2>2, <2>4
  <2> QED  BY <2>3, <2>4
<1>4. file' \in [Slots -> Saved \cup {None}]
  BY <1>3 DEF Begin, IInv, TypeOK
<1>5. TypeOK'
  BY <1>1, <1>2, <1>4 DEF IInv, TypeOK, Schedule
<1>6. LoopInv' /\ RanInv'
  BY <1>1, <1>2, NoneAssumption DEF IInv, LoopInv, RanInv
<1>7. OwedInv' /\ TokenInv'
  BY <1>1, <1>2 DEF IInv, OwedInv, TokenInv, TypeOK
<1>8. FileIsCurrent' /\ NextRunFits' /\ FileFits'
  BY <1>1, <1>2, <1>3 DEF IInv, FileIsCurrent, NextRunFits, FileFits, Up, TypeOK
<1> QED  BY <1>5, <1>6, <1>7, <1>8 DEF IInv

(* What an execution leaves of its schedule. *)
LEMMA AfterRunType ==
  ASSUME NEW s \in Schedule, NEW failed \in BOOLEAN, NEW next \in NextRuns(s.set.period)
  PROVE  /\ AfterRun(s, failed, next) \in Schedule
         /\ AfterRun(s, failed, next).set = s.set
         /\ AfterRun(s, failed, next).ran = FALSE
         /\ AfterRun(s, failed, next).runNow = s.runNow
         /\ AfterRun(s, failed, next).next <=
              (IF AfterRun(s, failed, next).retries > 0 THEN RetryDelay ELSE s.set.period)
<1>1. s.set.period \in Periods
  BY DEF Schedule, Settings
<1>2. next \in Nat /\ next <= s.set.period
  BY <1>1, NextRunType
<1>3. CASE failed /\ s.retries < MaxRetries
  <2>1. AfterRun(s, failed, next) =
          [s EXCEPT !.retries = s.retries + 1, !.next = RetryDelay, !.ran = FALSE]
    BY <1>3 DEF AfterRun
  <2>2. s.retries + 1 \in 0..MaxRetries /\ s.retries + 1 > 0 /\ RetryDelay \in Nat
    BY <1>3, TimesAssumption DEF Schedule
  <2>3. AfterRun(s, failed, next) =
          [set |-> s.set, next |-> RetryDelay, ran |-> FALSE,
           retries |-> s.retries + 1, runNow |-> s.runNow]
    BY <2>1 DEF Schedule
  <2>4. AfterRun(s, failed, next) \in Schedule
    BY <2>2, <2>3 DEF Schedule
  <2> QED  BY <2>2, <2>3, <2>4
<1>4. CASE ~(failed /\ s.retries < MaxRetries)
  <2>1. AfterRun(s, failed, next) = [s EXCEPT !.retries = 0, !.next = next, !.ran = FALSE]
    BY <1>4 DEF AfterRun
  <2>2. AfterRun(s, failed, next) =
          [set |-> s.set, next |-> next, ran |-> FALSE, retries |-> 0, runNow |-> s.runNow]
    BY <2>1 DEF Schedule
  <2>3. AfterRun(s, failed, next) \in Schedule
    BY <1>2, <2>2, TimesAssumption DEF Schedule
  <2> QED  BY <1>2, <2>2, <2>3
<1> QED  BY <1>3, <1>4

LEMMA FinishStep ==
  ASSUME IInv, Finish
  PROVE  IInv'
<1>1. /\ loop = "executing" /\ loop' = "ticking"
      /\ current' = None /\ snapshot' = NoSettings
      /\ UNCHANGED <<items, due, poke, asking, owed>>
      /\ Save
  BY DEF Finish
<1>2. current \in Slots
  BY <1>1 DEF IInv, LoopInv, TypeOK
<1>3. /\ sched' \in [Slots -> Schedule]
      /\ \A k \in Slots \ {current} : sched'[k] = sched[k]
      /\ sched'[current].ran = FALSE
      /\ current \in items =>
           /\ sched'[current].runNow = sched[current].runNow
           /\ sched'[current].next <= (IF sched'[current].retries > 0
                 THEN RetryDelay ELSE sched'[current].set.period)
  <2>1. CASE current \in items
    <3>1. PICK failed \in BOOLEAN, next \in NextRuns(sched[current].set.period) :
            sched' = [sched EXCEPT ![current] = AfterRun(sched[current], failed, next)]
      BY <2>1 DEF Finish
    <3>2. sched[current] \in Schedule
      BY <1>2 DEF IInv, TypeOK
    <3>3. sched'[current] = AfterRun(sched[current], failed, next)
      BY <1>2, <3>1 DEF IInv, TypeOK
    <3>4. /\ sched'[current] \in Schedule
          /\ sched'[current].ran = FALSE
          /\ sched'[current].runNow = sched[current].runNow
          /\ sched'[current].set = sched[current].set
          /\ sched'[current].next <= (IF sched'[current].retries > 0
                THEN RetryDelay ELSE sched[current].set.period)
      <4>1. /\ AfterRun(sched[current], failed, next) \in Schedule
            /\ AfterRun(sched[current], failed, next).set = sched[current].set
            /\ AfterRun(sched[current], failed, next).ran = FALSE
            /\ AfterRun(sched[current], failed, next).runNow = sched[current].runNow
            /\ AfterRun(sched[current], failed, next).next <=
                 (IF AfterRun(sched[current], failed, next).retries > 0
                    THEN RetryDelay ELSE sched[current].set.period)
        BY <3>2, AfterRunType, Zenon
      <4> QED  BY <3>3, <4>1
    <3>5. /\ sched' \in [Slots -> Schedule]
          /\ \A k \in Slots \ {current} : sched'[k] = sched[k]
      <4>1. AfterRun(sched[current], failed, next) \in Schedule
        BY <3>3, <3>4
      <4> QED  BY <1>2, <3>1, <4>1 DEF IInv, TypeOK
    <3> QED  BY <3>4, <3>5
  <2>2. CASE current \notin items
    <3>1. sched' = Dropped({current})
      BY <2>2 DEF Finish
    <3> QED  BY <1>2, <2>2, <3>1, DroppedType, BlankType DEF IInv
  <2> QED  BY <2>1, <2>2
<1>4. TypeOK' /\ FileIsCurrent'
  BY <1>1, <1>3, SaveType, NoSettingsType DEF IInv, TypeOK
<1>5. LoopInv' /\ RanInv'
  BY <1>1, <1>2, <1>3, NoneAssumption DEF IInv, LoopInv, RanInv
<1>6. OwedInv' /\ TokenInv'
  BY <1>1, <1>2, <1>3 DEF IInv, OwedInv, TokenInv, TypeOK
<1>7. NextRunFits'
  BY <1>1, <1>2, <1>3 DEF IInv, NextRunFits, TypeOK
<1>8. FileFits'
  BY <1>1, <1>3, <1>7, SaveFits DEF IInv
<1> QED  BY <1>4, <1>5, <1>6, <1>7, <1>8 DEF IInv

LEMMA EndTickStep ==
  ASSUME IInv, EndTick
  PROVE  IInv'
<1>1. TypeOK'
  BY DEF EndTick, IInv, TypeOK
<1> QED  BY <1>1 DEF EndTick, IInv, LoopInv, RanInv, OwedInv, TokenInv, FileIsCurrent,
                     NextRunFits, FileFits, Up

-----------------------------------------------------------------------------
(* Time, death and restart *)

LEMMA EarlierType == ASSUME NEW n \in Nat
                     PROVE  Earlier(n) \in Nat /\ Earlier(n) <= n
BY DEF Earlier

LEMMA TickStep ==
  ASSUME IInv, Tick
  PROVE  IInv'
<1>1. UNCHANGED <<items, loop, due, current, snapshot, poke, asking, unsaved, owed>>
  BY DEF Tick, loopVars
<1>2. \A k \in Slots : /\ sched'[k] \in Schedule
                       /\ sched'[k].set = sched[k].set
                       /\ sched'[k].ran = sched[k].ran
                       /\ sched'[k].retries = sched[k].retries
                       /\ sched'[k].runNow = sched[k].runNow
                       /\ sched'[k].next = IF k \in items THEN Earlier(sched[k].next)
                                                          ELSE sched[k].next
  <2> SUFFICES ASSUME NEW k \in Slots
               PROVE  /\ sched'[k] \in Schedule
                      /\ sched'[k].set = sched[k].set
                      /\ sched'[k].ran = sched[k].ran
                      /\ sched'[k].retries = sched[k].retries
                      /\ sched'[k].runNow = sched[k].runNow
                      /\ sched'[k].next = IF k \in items THEN Earlier(sched[k].next)
                                                         ELSE sched[k].next
    OBVIOUS
  <2>1. sched[k] \in Schedule /\ sched[k].next \in Nat
    BY DEF IInv, TypeOK, Schedule
  <2>2. sched'[k] = IF k \in items THEN [sched[k] EXCEPT !.next = Earlier(sched[k].next)]
                                   ELSE sched[k]
    BY DEF Tick
  <2> QED  BY <2>1, <2>2, EarlierType DEF Schedule
<1>3. \A k \in Slots :
        /\ file'[k] \in Saved \cup {None}
        /\ file'[k] = None <=> file[k] = None
        /\ file[k] # None => /\ file'[k].set = file[k].set
                             /\ file'[k].next = Earlier(file[k].next)
                             /\ file[k].next \in Nat
  <2> SUFFICES ASSUME NEW k \in Slots
               PROVE  /\ file'[k] \in Saved \cup {None}
                      /\ file'[k] = None <=> file[k] = None
                      /\ file[k] # None => /\ file'[k].set = file[k].set
                                           /\ file'[k].next = Earlier(file[k].next)
                                           /\ file[k].next \in Nat
    OBVIOUS
  <2>1. file'[k] = IF file[k] = None THEN None
                     ELSE [file[k] EXCEPT !.next = Earlier(file[k].next)]
    BY DEF Tick
  <2>2. CASE file[k] = None
    BY <2>1, <2>2
  <2>3. CASE file[k] \in Saved
    <3>1. file[k].next \in Nat /\ Earlier(file[k].next) \in Nat
      BY <2>3, EarlierType DEF Saved
    <3>2. file[k] # None
      BY <2>3, NoneAssumption DEF Saved, Settings
    <3>3. [file[k] EXCEPT !.next = Earlier(file[k].next)] \in Saved
      BY <2>3, <3>1 DEF Saved
    <3> QED  BY <2>1, <2>3, <3>1, <3>2, <3>3, NoneAssumption DEF Saved, Settings
  <2> QED  BY <2>2, <2>3 DEF IInv, TypeOK
<1>4. TypeOK'
  <2>1. sched' \in [Slots -> Schedule]
    BY <1>2 DEF Tick
  <2>2. file' \in [Slots -> Saved \cup {None}]
    BY <1>3 DEF Tick
  <2> QED  BY <1>1, <2>1, <2>2 DEF IInv, TypeOK
<1>5. LoopInv' /\ RanInv' /\ OwedInv' /\ TokenInv'
  BY <1>1, <1>2 DEF IInv, LoopInv, RanInv, OwedInv, TokenInv, TypeOK
<1>6. FileIsCurrent'
  <2> SUFFICES ASSUME Up, ~unsaved, NEW k \in Slots
               PROVE  /\ k \in items <=> file'[k] # None
                      /\ k \in items => /\ file'[k].set = sched'[k].set
                                        /\ file'[k].next \in {sched'[k].next, 0}
    BY <1>1 DEF FileIsCurrent, Up
  <2>1. /\ k \in items <=> file[k] # None
        /\ k \in items => file[k].set = sched[k].set /\ file[k].next \in {sched[k].next, 0}
    BY DEF IInv, FileIsCurrent
  <2>2. Earlier(0) = 0
    BY DEF Earlier
  <2> QED  BY <1>2, <1>3, <2>1, <2>2
<1>7. NextRunFits'
  <2> SUFFICES ASSUME NEW k \in items
               PROVE  sched'[k].next <= (IF sched'[k].retries > 0 THEN RetryDelay
                                                                  ELSE sched'[k].set.period)
    BY <1>1 DEF NextRunFits
  <2>1. /\ sched[k].next \in Nat /\ sched[k].set.period \in Nat /\ RetryDelay \in Nat
        /\ k \in Slots
    BY TimesAssumption DEF IInv, TypeOK, Schedule, Settings
  <2>2. sched'[k].next \in Nat /\ sched'[k].next <= sched[k].next
    BY <1>2, <2>1, EarlierType
  <2>3. sched[k].next <= (IF sched[k].retries > 0 THEN RetryDelay ELSE sched[k].set.period)
    BY DEF IInv, NextRunFits
  <2> QED  BY <1>2, <2>1, <2>2, <2>3
<1>8. FileFits'
  <2> SUFFICES ASSUME NEW k \in Slots, file'[k] # None
               PROVE  file'[k].next <= file'[k].set.period
    BY DEF FileFits
  <2>1. file[k] # None /\ file[k] \in Saved /\ file[k].next <= file[k].set.period
    BY <1>3 DEF IInv, FileFits, TypeOK
  <2>2. file[k].set.period \in Nat
    BY <2>1, TimesAssumption DEF Saved, Settings
  <2> QED  BY <1>3, <2>1, <2>2, EarlierType
<1> QED  BY <1>4, <1>5, <1>6, <1>7, <1>8 DEF IInv

LEMMA CrashStep ==
  ASSUME IInv, Crash
  PROVE  IInv'
<1>1. \A k \in Slots : sched'[k] = Blank
  BY DEF Crash
<1>2. TypeOK'
  <2>1. sched' \in [Slots -> Schedule]
    BY BlankType DEF Crash
  <2>2. snapshot' \in Settings
    BY NoSettingsType DEF Crash
  <2>3. asking' \in 0..Askers /\ poke' \in BOOLEAN
    <3>1. 0 \in 0..Askers
      BY AskersAssumption
    <3> QED  BY <3>1 DEF Crash
  <2> QED  BY <2>1, <2>2, <2>3 DEF Crash, IInv, TypeOK
<1> QED  BY <1>1, <1>2, BlankType
         DEF Crash, IInv, LoopInv, RanInv, OwedInv, TokenInv, FileIsCurrent, NextRunFits,
             FileFits, Up

LEMMA BootStep ==
  ASSUME IInv, Boot
  PROVE  IInv'
<1>1. /\ loop = "down" /\ loop' = "waiting"
      /\ items' = {i \in Slots : file[i] # None}
      /\ unsaved' = FALSE
      /\ UNCHANGED <<file, due, current, snapshot, poke, asking, owed>>
  BY DEF Boot
<1>2. /\ sched' \in [Slots -> Schedule]
      /\ \A k \in Slots \ items' : sched'[k] = sched[k]
      /\ \A k \in items' : /\ sched'[k].set = file[k].set
                           /\ file[k].next \in {sched'[k].next, 0}
                           /\ file[k].next = 0 => sched'[k].next <= file[k].set.period
                           /\ sched'[k].ran = FALSE
                           /\ sched'[k].runNow = FALSE
                           /\ sched'[k].retries = 0
  <2>1. PICK next \in [Slots -> UNION {NextRuns(p) : p \in Periods}] :
          /\ \A i \in items' : next[i] \in NextRuns(file[i].set.period)
          /\ sched' = [i \in Slots |-> IF i \in items' THEN Load(i, next[i]) ELSE sched[i]]
    BY DEF Boot
  <2>2. \A k \in items' : file[k] \in Saved
    BY <1>1 DEF IInv, TypeOK
  <2>3. ASSUME NEW k \in items'
        PROVE  /\ sched'[k] \in Schedule
               /\ sched'[k].set = file[k].set
               /\ file[k].next \in {sched'[k].next, 0}
               /\ file[k].next = 0 => sched'[k].next <= file[k].set.period
               /\ sched'[k].ran = FALSE
               /\ sched'[k].runNow = FALSE
               /\ sched'[k].retries = 0
    <3>1. /\ file[k].set \in Settings /\ file[k].set.period \in Periods
          /\ file[k].next \in Nat
      BY <2>2 DEF Saved, Settings
    <3>2. next[k] \in Nat /\ next[k] <= file[k].set.period
      BY <2>1, <3>1, NextRunType
    <3>3. sched'[k] = NewSchedule(file[k].set,
                                  IF file[k].next = 0 THEN next[k] ELSE file[k].next)
      BY <1>1, <2>1 DEF Load
    <3>4. CASE file[k].next = 0
      <4>1. sched'[k] = NewSchedule(file[k].set, next[k])
        BY <3>3, <3>4
      <4>2. /\ sched'[k] \in Schedule
            /\ sched'[k].set = file[k].set
            /\ sched'[k].next = next[k]
            /\ sched'[k].ran = FALSE
            /\ sched'[k].runNow = FALSE
            /\ sched'[k].retries = 0
        <5>1. /\ NewSchedule(file[k].set, next[k]) \in Schedule
              /\ NewSchedule(file[k].set, next[k]).set = file[k].set
              /\ NewSchedule(file[k].set, next[k]).next = next[k]
              /\ NewSchedule(file[k].set, next[k]).ran = FALSE
              /\ NewSchedule(file[k].set, next[k]).runNow = FALSE
              /\ NewSchedule(file[k].set, next[k]).retries = 0
          BY <3>1, <3>2, TimesAssumption DEF NewSchedule, Schedule
        <5> QED  BY <4>1, <5>1
      <4> QED  BY <3>2, <3>4, <4>2
    <3>5. CASE file[k].next # 0
      <4>1. sched'[k] = NewSchedule(file[k].set, file[k].next)
        BY <3>3, <3>5
      <4>2. /\ sched'[k] \in Schedule
            /\ sched'[k].set = file[k].set
            /\ sched'[k].next = file[k].next
            /\ sched'[k].ran = FALSE
            /\ sched'[k].runNow = FALSE
            /\ sched'[k].retries = 0
        <5>1. /\ NewSchedule(file[k].set, file[k].next) \in Schedule
              /\ NewSchedule(file[k].set, file[k].next).set = file[k].set
              /\ NewSchedule(file[k].set, file[k].next).next = file[k].next
              /\ NewSchedule(file[k].set, file[k].next).ran = FALSE
              /\ NewSchedule(file[k].set, file[k].next).runNow = FALSE
              /\ NewSchedule(file[k].set, file[k].next).retries = 0
          BY <3>1, TimesAssumption DEF NewSchedule, Schedule
        <5> QED  BY <4>1, <5>1
      <4> QED  BY <3>5, <4>2
    <3> QED  BY <3>4, <3>5
  <2> QED  BY <1>1, <2>1, <2>3 DEF IInv, TypeOK
<1>3. TypeOK'
  BY <1>1, <1>2 DEF IInv, TypeOK
<1>4. LoopInv' /\ RanInv' /\ OwedInv' /\ TokenInv'
  BY <1>1, <1>2 DEF IInv, LoopInv, RanInv, OwedInv, TokenInv
<1>5. FileIsCurrent' /\ FileFits'
  BY <1>1, <1>2 DEF FileIsCurrent, FileFits, IInv
<1>6. NextRunFits'
  <2> SUFFICES ASSUME NEW k \in items'
               PROVE  sched'[k].next <= sched'[k].set.period
    BY <1>2 DEF NextRunFits
  <2> QED  BY <1>1, <1>2 DEF IInv, FileFits
<1> QED  BY <1>3, <1>4, <1>5, <1>6 DEF IInv

-----------------------------------------------------------------------------
(* The theorems *)

LEMMA InitInv == Init => IInv
<1> SUFFICES ASSUME Init PROVE IInv
  OBVIOUS
<1>1. \A k \in Slots : sched[k] = Blank /\ file[k] = None
  BY DEF Init
<1>2. TypeOK
  <2>1. sched \in [Slots -> Schedule]
    BY BlankType DEF Init
  <2>2. snapshot \in Settings
    BY NoSettingsType DEF Init
  <2>3. asking \in 0..Askers
    <3>1. 0 \in 0..Askers
      BY AskersAssumption
    <3> QED  BY <3>1 DEF Init
  <2> QED  BY <2>1, <2>2, <2>3 DEF Init, TypeOK
<1> QED  BY <1>1, <1>2, BlankType
         DEF Init, IInv, LoopInv, RanInv, OwedInv, TokenInv, FileIsCurrent, NextRunFits,
             FileFits, Up

LEMMA StepInv == IInv /\ [Next]_vars => IInv'
<1> SUFFICES ASSUME IInv, [Next]_vars PROVE IInv'
  OBVIOUS
<1>1. CASE Boot
  BY <1>1, BootStep
<1>2. CASE Crash
  BY <1>2, CrashStep
<1>3. CASE LoopStep
  BY <1>3, WakeStep, CollectStep, BeginStep, FinishStep, EndTickStep DEF LoopStep
<1>4. ASSUME NEW i \in Slots, Call(i) PROVE IInv'
  BY <1>4, EditStep, DeleteStep, RunNowStep DEF Call, Edit
<1>5. CASE Poke
  BY <1>5, PokeStep
<1>6. CASE Tick
  BY <1>6, TickStep
<1>7. CASE UNCHANGED vars
  BY <1>7 DEF vars, loopVars, IInv, TypeOK, LoopInv, RanInv, OwedInv, TokenInv,
              FileIsCurrent, NextRunFits, FileFits, Up
<1> QED  BY <1>1, <1>2, <1>3, <1>4, <1>5, <1>6, <1>7 DEF Next

(* The inductive invariant holds in every reachable state. *)
THEOREM Invariance == Spec => []IInv
BY InitInv, StepInv, PTL DEF Spec

(* The variables of the scheduler keep their types; in particular no       *)
(* schedule counts more retries than maxRetries (engine.go:113-123).       *)
THEOREM TypeCorrect == Spec => []TypeOK
BY Invariance, PTL DEF IInv

(* A restart finds the schedules as last saved (engine.go:226-279).        *)
THEOREM FileCorrect == Spec => []FileIsCurrent
BY Invariance, PTL DEF IInv

(* The next run follows the rule as last edited, also when the edit came   *)
(* during an execution (engine.go:89-126, 177-199).                        *)
THEOREM NextRunCorrect == Spec => []NextRunFits
BY Invariance, PTL DEF IInv

(* No RunNow waits for the timer, however many callers and executions      *)
(* overlap (engine.go:52-84, 218-241).                                     *)
THEOREM RunNowCorrect == Spec => []RunNowIsPending
<1>1. IInv => RunNowIsPending
  BY DEF IInv, OwedInv, TokenInv, RunNowIsPending
<1> QED  BY <1>1, Invariance, PTL

(* No occurrence is executed twice, over ticks and over restarts           *)
(* (engine.go:66-126, 243-262).                                            *)
THEOREM OnceCorrect == Spec => OncePerOccurrence
<1>1. ASSUME IInv, NEW i \in Slots, Begin(i) PROVE ~sched[i].ran
  BY <1>1, NoneAssumption DEF IInv, RanInv, LoopInv, Begin
<1>2. IInv => \A i \in Slots : Begin(i) /\ sched[i].next = 0 => ~sched[i].ran
  BY <1>1
<1> QED  BY <1>2, Invariance, PTL DEF OncePerOccurrence

(* The loop never changes what the operator set (engine.go:66-126).        *)
THEOREM EditsCorrect == Spec => EditsAreKept
<1>1. ASSUME IInv, LoopStep, NEW i \in items PROVE sched'[i].set = sched[i].set
  <2>1. i \in Slots
    BY <1>1 DEF IInv, TypeOK
  <2>2. CASE TimerFires \/ TakePoke \/ EndTick
    BY <2>2 DEF TimerFires, TakePoke, EndTick
  <2>3. CASE Collect
    BY <2>1, <2>3, <1>1 DEF Collect, IInv, TypeOK, Schedule
  <2>4. ASSUME NEW k \in Slots, Begin(k) PROVE sched'[i].set = sched[i].set
    BY <2>1, <2>4, <1>1 DEF Begin, IInv, TypeOK, Schedule
  <2>5. CASE Finish
    <3>1. CASE current \in items
      BY <2>1, <2>5, <3>1, <1>1 DEF Finish, AfterRun, IInv, TypeOK, Schedule
    <3>2. CASE current \notin items
      BY <2>1, <2>5, <3>2 DEF Finish, Dropped
    <3> QED  BY <3>1, <3>2
  <2> QED  BY <1>1, <2>2, <2>3, <2>4, <2>5 DEF LoopStep
<1>2. IInv => (LoopStep => \A i \in items : sched'[i].set = sched[i].set)
  BY <1>1
<1> QED  BY <1>2, Invariance, PTL DEF EditsAreKept

=============================================================================
