-------------------------- MODULE McInstanceProofs --------------------------
(***************************************************************************)
(* The supervision of one server, proved for any number of launches in     *)
(* memory, callers, restart limit, window and pipe size.                   *)
(*                                                                         *)
(* The argument: in.proc is the one launch that is not over (Owner), so a  *)
(* Start, which needs a server at rest, needs in.proc = nil and finds no   *)
(* process held; the reaping goroutine clears in.proc only after Wait.  A  *)
(* game left behind by its shell is no process of the panel any more.      *)
(***************************************************************************)
EXTENDS McInstance, FiniteSetTheorems, TLAPS

(* in.proc is set exactly while the server is shown as active. *)
ProcMatchesState == proc # None <=> state \in Active

(* The launch whose end is not recorded is the one in in.proc. *)
Owner == \A g \in Slots :
           waiter[g] \in {"unspawned", "waiting", "reaped"} <=> g = proc

(* Only that launch can hold a process, and not after it is reaped. *)
OwnerLives == \A g \in Slots : Held(g) => g = proc /\ waiter[g] # "reaped"

(* What an operator asked of the current launch is in in.stopRequested. *)
AskedIsRemembered == \A g \in asked : g = proc /\ stopRequested

(* A call that waits, waits for a launch. *)
CallsWaitForSlots ==
  \A c \in Callers :
    call[c].slot \in Slots <=> call[c].at \in {"awaitExit", "termSent", "killing", "killSent"}

IInv == /\ TypeOK /\ ProcMatchesState /\ Owner /\ OwnerLives
        /\ AskedIsRemembered /\ CallsWaitForSlots

-----------------------------------------------------------------------------

(* Shifting a register of ages and letting them grow keep it one. *)
LEMMA AgesType ==
  ASSUME NEW n \in Nat \ {0}, NEW ages \in [1..n -> 0..Window]
  PROVE  /\ Shift(ages) \in [1..n -> 0..Window]
         /\ Older(ages) \in [1..n -> 0..Window]
<1>1. DOMAIN ages = 1..n OBVIOUS
<1>2. \A i \in 1..n : i # 1 => i - 1 \in 1..n OBVIOUS
<1>3. Shift(ages) \in [1..n -> 0..Window]
  BY <1>1, <1>2, LimitAssumption DEF Shift
<1>4. Older(ages) \in [1..n -> 0..Window]
  BY <1>1, LimitAssumption DEF Older
<1>. QED BY <1>3, <1>4

(* So do both registers of the server. *)
LEMMA RegistersType ==
  ASSUME TypeOK
  PROVE  /\ {Shift(restartTimes), Older(restartTimes)}
              \subseteq [1..RestartLimit -> 0..Window]
         /\ {Shift(relaunches), Older(relaunches)}
              \subseteq [1..(RestartLimit + 1) -> 0..Window]
<1>1. RestartLimit \in Nat \ {0} /\ RestartLimit + 1 \in Nat \ {0}
  BY LimitAssumption
<1>2. /\ restartTimes \in [1..RestartLimit -> 0..Window]
      /\ relaunches \in [1..(RestartLimit + 1) -> 0..Window]
  BY DEF TypeOK
<1>3. /\ Shift(restartTimes) \in [1..RestartLimit -> 0..Window]
      /\ Older(restartTimes) \in [1..RestartLimit -> 0..Window]
  BY <1>1, <1>2, AgesType
<1>4. /\ Shift(relaunches) \in [1..(RestartLimit + 1) -> 0..Window]
      /\ Older(relaunches) \in [1..(RestartLimit + 1) -> 0..Window]
  BY <1>1, <1>2, AgesType
<1>. QED BY <1>3, <1>4

(* A line more in a pipe is still a pipe of lines. *)
LEMMA SayType ==
  ASSUME NEW g \in Slots, NEW line \in Lines, Say(g, line),
         console \in [Slots -> Seq(Lines)]
  PROVE  console' \in [Slots -> Seq(Lines)]
<1>1. Append(console[g], line) \in Seq(Lines)
  OBVIOUS
<1>. QED BY <1>1 DEF Say

(* A launch, whoever performs it, keeps the invariant: the server is at    *)
(* rest, so there is no process but the new one.                           *)
LEMMA LaunchInv ==
  ASSUME IInv, NEW g \in Slots,
         NEW w \in [Slots -> WaiterAt],
         \A h \in Slots : w[h] # waiter[h] => waiter[h] = "sleeping" /\ w[h] = "finished",
         Launch(g, w),
         call' \in [Callers -> [at : CallAt, slot : Slots \cup {None}, restart : BOOLEAN]],
         \A c \in Callers : call'[c] = call[c] \/ call'[c] = NoCall,
         relaunches' \in [1..(RestartLimit + 1) -> 0..Window]
  PROVE  IInv'
<1>. USE SlotsAssumption DEF IInv
<1>1. proc = None /\ state \in Idle
  BY DEF Launch, MayStart, ProcMatchesState, Idle, Active
<1>2. \A h \in Slots : ~Held(h)
  BY <1>1 DEF OwnerLives
<1>3. TypeOK'
  BY DEF Launch, TypeOK, WaiterAt, Idle, Active, Living
<1>4. ProcMatchesState'
  BY DEF Launch, ProcMatchesState, Active
<1>5. \A h \in Slots : w[h] \notin {"unspawned", "waiting", "reaped"}
  BY <1>1 DEF Owner
<1>6. waiter' = [w EXCEPT ![g] = "unspawned"] /\ proc' = g
  BY DEF Launch
<1>7. Owner'
  BY <1>5, <1>6 DEF Owner
<1>8. PICK front \in {"none", "up"} :
        os' = [os EXCEPT ![g] = "booting"] /\ shell' = [shell EXCEPT ![g] = front]
  BY DEF Launch
<1>9. OwnerLives'
  BY <1>2, <1>6, <1>8 DEF OwnerLives, Held, Status, TypeOK
<1>10. AskedIsRemembered'
  BY <1>1 DEF Launch, AskedIsRemembered, TypeOK
<1>11. CallsWaitForSlots'
  BY DEF CallsWaitForSlots, NoCall
<1>. QED BY <1>3, <1>4, <1>7, <1>9, <1>10, <1>11

-----------------------------------------------------------------------------
(* The invariant holds at first, and every step keeps it. *)

(* A call that moves on keeps its type. *)
LEMMA CallMoves ==
  ASSUME TypeOK, NEW c \in Callers, NEW a \in CallAt
  PROVE  [call EXCEPT ![c].at = a]
            \in [Callers -> [at : CallAt, slot : Slots \cup {None}, restart : BOOLEAN]]
BY DEF TypeOK

LEMMA InitInv == Init => IInv
<1>. USE SlotsAssumption, LimitAssumption
<1>. SUFFICES ASSUME Init PROVE IInv
  OBVIOUS
<1>1. TypeOK
  <2>1. Window \in 0..Window
    OBVIOUS
  <2>2. /\ restartTimes \in [1..RestartLimit -> 0..Window]
        /\ relaunches \in [1..(RestartLimit + 1) -> 0..Window]
    BY <2>1 DEF Init
  <2>3. console \in [Slots -> Seq(Lines)]
    BY DEF Init
  <2>4. call \in [Callers -> [at : CallAt, slot : Slots \cup {None}, restart : BOOLEAN]]
    BY DEF Init, CallAt, NoCall
  <2>. QED
    BY <2>2, <2>3, <2>4 DEF Init, TypeOK, Idle, Living, Gone, WaiterAt
<1>2. ProcMatchesState /\ Owner /\ OwnerLives /\ AskedIsRemembered
  BY DEF Init, ProcMatchesState, Owner, OwnerLives, AskedIsRemembered, Held, Status, Living, Ended, Active
<1>3. CallsWaitForSlots
  BY DEF Init, CallsWaitForSlots, NoCall
<1>. QED BY <1>1, <1>2, <1>3 DEF IInv

LEMMA SlotStepInv == ASSUME IInv, NEW g \in Slots, SlotStep(g) PROVE IInv'
<1>. USE SlotsAssumption, LimitAssumption DEF IInv, inVars, histVars
<1>. USE DEF ProcMatchesState, Owner, OwnerLives, AskedIsRemembered, CallsWaitForSlots
<1>1. CASE Spawn(g)
  BY <1>1 DEF Spawn, TypeOK, WaiterAt, Held, Status
<1>2. CASE Boot(g)
  <2>1. console' \in [Slots -> Seq(Lines)]
    BY <1>2, SayType DEF Boot, Lines, TypeOK
  <2>2. TypeOK'
    BY <1>2, <2>1 DEF Boot, TypeOK, Living
  <2>3. \A h \in Slots : Held(h)' <=> Held(h)
    BY <1>2 DEF Boot, TypeOK, Held, Status, Living, Ended
  <2>4. UNCHANGED <<state, stopRequested, proc, waiter, call, asked>>
    BY <1>2 DEF Boot
  <2>. QED
    BY <2>2, <2>3, <2>4
<1>3. CASE Quit(g)
  <2>1. console' \in [Slots -> Seq(Lines)]
    BY <1>3, SayType DEF Quit, Lines, TypeOK
  <2>2. TypeOK'
    BY <1>3, <2>1 DEF Quit, TypeOK, Living
  <2>3. \A h \in Slots : Held(h)' <=> Held(h)
    BY <1>3 DEF Quit, TypeOK, Held, Status, Living, Ended
  <2>4. UNCHANGED <<state, stopRequested, proc, waiter, call, asked>>
    BY <1>3 DEF Quit
  <2>. QED
    BY <2>2, <2>3, <2>4
<1>4. CASE Exit(g)
  <2>1. os' \in [Slots -> Living \cup Gone]
    BY <1>4 DEF Exit, TypeOK, Gone, Ended
  <2>2. \A h \in Slots : Held(h)' => Held(h)
    BY <1>4 DEF Exit, TypeOK, Held, Status, Living, Ended
  <2>3. UNCHANGED <<inVars, shell, console, waiter, call, histVars>>
    BY <1>4 DEF Exit
  <2>4. TypeOK'
    BY <2>1, <2>3 DEF TypeOK
  <2>. QED
    BY <2>2, <2>3, <2>4
<1>10. CASE ShellEnds(g)
  <2>1. shell' \in [Slots -> {"none", "up"} \cup Ended]
    BY <1>10 DEF ShellEnds, TypeOK
  <2>2. \A h \in Slots : Held(h)' => Held(h)
    BY <1>10 DEF ShellEnds, TypeOK, Held, Status, Living, Ended
  <2>3. UNCHANGED <<inVars, os, console, waiter, call, histVars>>
    BY <1>10 DEF ShellEnds
  <2>4. TypeOK'
    BY <2>1, <2>3 DEF TypeOK
  <2>. QED
    BY <2>2, <2>3, <2>4
<1>5. CASE Pump(g)
  <2>1. state' \in Active <=> state \in Active
    BY <1>5 DEF Pump, Active
  <2>2. console[g] \in Seq(Lines) /\ console[g] # <<>>
    BY <1>5 DEF Pump, TypeOK
  <2>3. Tail(console[g]) \in Seq(Lines)
    BY <2>2
  <2>4. TypeOK'
    BY <1>5, <2>1, <2>3 DEF Pump, TypeOK, Active
  <2>. QED
    BY <1>5, <2>1, <2>4 DEF Pump, Held, Status
<1>6. CASE Reap(g)
  BY <1>6 DEF Reap, ExitSeen, TypeOK, WaiterAt, Held, Status, Living, Ended
<1>7. CASE RecordExit(g)
  <2>1. g = proc /\ ~Held(g)
    BY <1>7 DEF RecordExit
  <2>2. /\ proc' = None /\ state' \in Idle
        /\ asked' = asked \ {g}
        /\ UNCHANGED <<stopRequested, autoRestart, console, call, relaunches>>
    BY <1>7 DEF RecordExit, Idle
  <2>3. PICK at \in {"sleeping", "finished"} : waiter' = [waiter EXCEPT ![g] = at]
    BY <1>7 DEF RecordExit
  <2>4. restartTimes' \in [1..RestartLimit -> 0..Window]
    BY <1>7, RegistersType DEF RecordExit, TypeOK
  <2>9. \/ UNCHANGED <<os, shell>>
        \/ os' = [os EXCEPT ![g] = "none"] /\ shell' = [shell EXCEPT ![g] = "none"]
    BY <1>7 DEF RecordExit
  <2>10. \A h \in Slots : Held(h)' => Held(h)
    BY <2>9 DEF TypeOK, Held, Status, Living
  <2>5. TypeOK'
    BY <2>2, <2>3, <2>4, <2>9 DEF TypeOK, Gone, WaiterAt
  <2>6. Owner' /\ ProcMatchesState'
    BY <2>1, <2>2, <2>3 DEF TypeOK, Idle, Active
  <2>7. OwnerLives'
    BY <2>1, <2>10
  <2>8. AskedIsRemembered' /\ CallsWaitForSlots'
    BY <2>1, <2>2 DEF TypeOK
  <2>. QED BY <2>5, <2>6, <2>7, <2>8
<1>8. CASE Relaunch(g)
  <2>1. PICK h \in Slots : Launch(h, [waiter EXCEPT ![g] = "finished"])
    BY <1>8 DEF Relaunch
  <2>2. relaunches' \in [1..(RestartLimit + 1) -> 0..Window] /\ call' = call
    BY <1>8, RegistersType DEF Relaunch, TypeOK
  <2>3. [waiter EXCEPT ![g] = "finished"] \in [Slots -> WaiterAt]
    BY DEF TypeOK, WaiterAt
  <2>. HIDE DEF IInv, ProcMatchesState, Owner, OwnerLives, AskedIsRemembered, CallsWaitForSlots
  <2>4. waiter[g] = "sleeping" /\ waiter \in [Slots -> WaiterAt]
    BY <1>8 DEF Relaunch, IInv, TypeOK
  <2>5. call' \in [Callers -> [at : CallAt, slot : Slots \cup {None}, restart : BOOLEAN]]
    BY <2>2 DEF IInv, TypeOK
  <2>. QED BY <2>1, <2>2, <2>3, <2>4, <2>5, LaunchInv
<1>9. CASE RelaunchRefused(g)
  BY <1>9 DEF RelaunchRefused, TypeOK, WaiterAt, Held, Status
<1>. QED
  BY <1>1, <1>2, <1>3, <1>4, <1>5, <1>6, <1>7, <1>8, <1>9, <1>10 DEF SlotStep

LEMMA CallStepInv == ASSUME IInv, NEW c \in Callers, CallStep(c) PROVE IInv'
<1>. USE SlotsAssumption, LimitAssumption DEF IInv, inVars, histVars
<1>. USE DEF ProcMatchesState, Owner, OwnerLives, AskedIsRemembered, CallsWaitForSlots
<1>1. CASE Stop(c) \/ Restart(c)
  <2>1. PICK restart \in BOOLEAN : StopBegin(c, restart)
    BY <1>1 DEF Stop, Restart
  <2>2. proc \in Slots
    BY <2>1 DEF StopBegin, TypeOK, Active
  <2>3. TypeOK'
    BY <2>1, <2>2 DEF StopBegin, TypeOK, CallAt, Active
  <2>. QED
    BY <2>1, <2>2, <2>3 DEF StopBegin, TypeOK, Active, Held, Status
<1>2. CASE Kill(c)
  <2>1. proc \in Slots
    BY <1>2 DEF Kill, TypeOK
  <2>2. TypeOK'
    BY <1>2, <2>1 DEF Kill, TypeOK, CallAt
  <2>. QED
    BY <1>2, <2>1, <2>2 DEF Kill, TypeOK, Held, Status
<1>3. CASE StopTimeout(c)
  <2>1. TypeOK'
    <3>1. call' = [call EXCEPT ![c].at = "termSent"]
      BY <1>3 DEF StopTimeout
    <3>2. call' \in [Callers -> [at : CallAt, slot : Slots \cup {None}, restart : BOOLEAN]]
      BY <3>1, CallMoves DEF CallAt
    <3>. QED BY <1>3, <3>2 DEF StopTimeout, TypeOK
  <2>2. UNCHANGED <<state, stopRequested, proc, os, shell, waiter, asked>>
    BY <1>3 DEF StopTimeout
  <2>3. CallsWaitForSlots'
    BY <1>3 DEF StopTimeout, TypeOK
  <2>. QED
    BY <2>1, <2>2, <2>3 DEF Held, Status
<1>4. CASE KillSignal(c)
  <2>1. call[c].slot \in Slots
    BY <1>4 DEF KillSignal, TypeOK
  <2>2. TypeOK'
    <3>1. /\ os' \in [Slots -> Living \cup Gone]
          /\ shell' \in [Slots -> {"none", "up"} \cup Ended]
      BY <1>4, <2>1 DEF KillSignal, TypeOK, Gone, Ended
    <3>2. call' \in [Callers -> [at : CallAt, slot : Slots \cup {None}, restart : BOOLEAN]]
      <4>1. call' = [call EXCEPT ![c].at = "killSent"]
        BY <1>4 DEF KillSignal
      <4>. QED BY <4>1, CallMoves DEF CallAt
    <3>. QED BY <1>4, <3>1, <3>2 DEF KillSignal, TypeOK
  <2>3. \A g \in Slots : Held(g)' => Held(g)
    BY <1>4, <2>1 DEF KillSignal, TypeOK, Held, Status, Living, Ended
  <2>. QED
    BY <1>4, <2>1, <2>2, <2>3 DEF KillSignal, TypeOK
<1>5. CASE Return(c)
  <2>1. TypeOK'
    BY <1>5 DEF Return, TypeOK, CallAt, NoCall
  <2>2. UNCHANGED <<state, stopRequested, proc, os, shell, waiter, asked>>
    BY <1>5 DEF Return
  <2>3. CallsWaitForSlots'
    BY <1>5 DEF Return, TypeOK, NoCall
  <2>. QED
    BY <2>1, <2>2, <2>3 DEF Held, Status
<1>6. CASE RestartStart(c)
  <2>1. PICK g \in Slots : Launch(g, waiter)
    BY <1>6 DEF RestartStart
  <2>2. /\ call' \in [Callers -> [at : CallAt, slot : Slots \cup {None}, restart : BOOLEAN]]
        /\ \A d \in Callers : call'[d] = call[d] \/ call'[d] = NoCall
        /\ relaunches' \in [1..(RestartLimit + 1) -> 0..Window]
        /\ waiter \in [Slots -> WaiterAt]
    BY <1>6 DEF RestartStart, TypeOK, NoCall, CallAt
  <2>. HIDE DEF IInv, ProcMatchesState, Owner, OwnerLives, AskedIsRemembered, CallsWaitForSlots
  <2>. QED BY <2>1, <2>2, LaunchInv
<1>7. CASE RestartRefused(c)
  <2>1. TypeOK'
    BY <1>7 DEF RestartRefused, TypeOK, CallAt, NoCall
  <2>. QED
    BY <1>7, <2>1 DEF RestartRefused, TypeOK, NoCall, Held, Status
<1>. QED
  BY <1>1, <1>2, <1>3, <1>4, <1>5, <1>6, <1>7 DEF CallStep

LEMMA StepInv == IInv /\ [Next]_vars => IInv'
<1>. SUFFICES ASSUME IInv, [Next]_vars PROVE IInv'
  OBVIOUS
<1>1. CASE Start
  <2>1. PICK g \in Slots : Launch(g, waiter)
    BY <1>1 DEF Start
  <2>2. call' = call /\ relaunches' = relaunches /\ TypeOK
    BY <1>1 DEF Start, IInv
  <2>. QED BY <2>1, <2>2, LaunchInv DEF TypeOK
<1>2. CASE UpdateConfig
  BY <1>2 DEF UpdateConfig, histVars, IInv, TypeOK, ProcMatchesState, Owner, OwnerLives,
              AskedIsRemembered, CallsWaitForSlots, Held, Status
<1>3. CASE Tick
  <2>1. TypeOK'
    BY <1>3, RegistersType DEF Tick, IInv, TypeOK
  <2>. QED
    BY <1>3, <2>1 DEF Tick, IInv, ProcMatchesState, Owner, OwnerLives,
                      AskedIsRemembered, CallsWaitForSlots, Held, Status
<1>4. ASSUME NEW g \in Slots, SlotStep(g) PROVE IInv'
  BY <1>4, SlotStepInv
<1>5. ASSUME NEW c \in Callers, CallStep(c) PROVE IInv'
  BY <1>5, CallStepInv
<1>6. CASE UNCHANGED vars
  BY <1>6 DEF vars, IInv, TypeOK, ProcMatchesState, Owner, OwnerLives,
              AskedIsRemembered, CallsWaitForSlots, Held, Status
<1>. QED
  BY <1>1, <1>2, <1>3, <1>4, <1>5, <1>6 DEF Next

(* The strengthened invariant of the supervision holds in every reachable  *)
(* state.                                                                  *)
THEOREM Invariance == Spec => []IInv
  BY InitInv, StepInv, PTL DEF Spec

(* Every variable keeps the values its Go field or goroutine can have. *)
THEOREM TypeCorrect == Spec => []TypeOK
<1>1. IInv => TypeOK
  BY DEF IInv
<1>. QED BY <1>1, Invariance, PTL

(* No interleaving of Start, Restart, the crash relaunch, the reaping      *)
(* goroutine and the operators brings up a second process the panel runs;  *)
(* a second game is only there beside one its shell left behind.           *)
THEOREM OneProcess == Spec => []AtMostOneProcess
<1>1. IInv => AtMostOneProcess
  BY DEF IInv, OwnerLives, AtMostOneProcess, Left
<1>. QED BY <1>1, Invariance, PTL

(* A server shown as stopped or crashed has no process the panel started;  *)
(* what lives of it is a game its shell left behind.                       *)
THEOREM IdleServerIsGone == Spec => []IdleMeansGone
<1>1. IInv => IdleMeansGone
  BY SlotsAssumption DEF IInv, OwnerLives, ProcMatchesState, IdleMeansGone, Left, Idle, Active
<1>. QED BY <1>1, Invariance, PTL

(* The end of a process an operator asked to stop or kill is recorded as a *)
(* stop and leads to no relaunch, even when the call has long returned.    *)
THEOREM OperatorEnd == Spec => OperatorEndIsNoCrash
<1>1. ASSUME IInv, [Next]_vars
      PROVE  [\A g \in Slots : waiter[g] = "reaped" /\ waiter'[g] # "reaped" /\ g \in asked
                => state' = "stopped" /\ waiter'[g] = "finished"]_vars
  <2>. SUFFICES ASSUME Next, NEW g \in Slots,
                       waiter[g] = "reaped", waiter'[g] # "reaped", g \in asked
                PROVE  state' = "stopped" /\ waiter'[g] = "finished"
    BY <1>1
  <2>1. waiter \in [Slots -> WaiterAt]
    BY <1>1 DEF IInv, TypeOK
  <2>2. ~ \E h \in Slots, w \in {waiter} \cup {[waiter EXCEPT ![k] = "finished"] : k \in Slots} :
          Launch(h, w)
    BY <1>1, SlotsAssumption DEF IInv, Launch, MayStart, ProcMatchesState, Owner, Idle, Active
  <2>3. ~Start /\ \A h \in Slots : ~Relaunch(h)
    BY <2>2 DEF Start, Relaunch
  <2>4. \A c \in Callers : CallStep(c) => waiter' = waiter
    BY <2>2 DEF CallStep, Stop, Restart, StopBegin, Kill, StopTimeout, KillSignal, Return,
                RestartStart, RestartRefused
  <2>5. ASSUME NEW h \in Slots, SlotStep(h) PROVE h = g /\ RecordExit(g)
    <3>1. CASE RecordExit(h)
      <4>1. h = proc /\ g = proc
        BY <1>1, <3>1 DEF RecordExit, IInv, Owner
      <4>. QED BY <3>1, <4>1
    <3>2. CASE Spawn(h) \/ Reap(h) \/ RelaunchRefused(h)
      BY <3>2, <2>1 DEF Spawn, Reap, RelaunchRefused
    <3>3. CASE Boot(h) \/ Quit(h) \/ Exit(h) \/ ShellEnds(h) \/ Pump(h)
      BY <3>3 DEF Boot, Quit, Exit, ShellEnds, Pump
    <3>. QED BY <2>3, <2>5, <3>1, <3>2, <3>3 DEF SlotStep
  <2>6. RecordExit(g)
    BY <2>3, <2>4, <2>5 DEF Next, UpdateConfig, Tick
  <2>7. stopRequested
    BY <1>1 DEF IInv, AskedIsRemembered
  <2>. QED BY <2>1, <2>6, <2>7 DEF RecordExit, Crashed
<1>. QED BY <1>1, Invariance, PTL DEF Spec, OperatorEndIsNoCrash

(* Stop and Kill return, and Restart goes on to Start, only when the       *)
(* process the panel started for that launch, game or shell, is gone.      *)
THEOREM CallsBlock == Spec => ReturnMeansGone
<1>1. ASSUME IInv, [Next]_vars
      PROVE  [\A c \in Callers : call[c].slot # None /\ call'[c].slot = None
                => ~Held(call[c].slot)]_vars
  <2>. SUFFICES ASSUME Next, NEW c \in Callers, call[c].slot # None, call'[c].slot = None
                PROVE  ~Held(call[c].slot)
    BY <1>1
  <2>. DEFINE s == call[c].slot
  <2>1. /\ s \in Slots
        /\ call \in [Callers -> [at : CallAt, slot : Slots \cup {None}, restart : BOOLEAN]]
        /\ call[c].at \in {"awaitExit", "termSent", "killing", "killSent"}
    BY <1>1 DEF IInv, TypeOK, CallsWaitForSlots
  <2>2. PICK d \in Callers : CallStep(d)
    BY DEF Next, Start, UpdateConfig, Tick, SlotStep, Spawn, Boot, Quit, Exit, ShellEnds, Pump, Reap,
           RecordExit, Relaunch, RelaunchRefused
  <2>3. d = c
    BY <2>1, <2>2 DEF CallStep, Stop, Restart, StopBegin, Kill, StopTimeout, KillSignal, Return,
                      RestartStart, RestartRefused
  <2>4. Return(c)
    <3>1. ~StopTimeout(c) /\ ~KillSignal(c)
      BY <2>1 DEF StopTimeout, KillSignal
    <3>2. ~Stop(c) /\ ~Restart(c) /\ ~Kill(c)
      BY <2>1 DEF Stop, Restart, StopBegin, Kill, NoCall
    <3>3. ~RestartStart(c) /\ ~RestartRefused(c)
      BY <2>1 DEF RestartStart, RestartRefused
    <3>. QED BY <2>2, <2>3, <3>1, <3>2, <3>3 DEF CallStep
  <2>5. Closed(s)
    BY <2>4 DEF Return, Released
  <2>. QED
    BY <1>1, <2>1, <2>5 DEF IInv, OwnerLives, Owner, Closed, TypeOK, WaiterAt
<1>. QED BY <1>1, Invariance, PTL DEF Spec, ReturnMeansGone

(* Every step of the supervised server is a step of the promised one, or   *)
(* changes neither the state shown nor whether a process is held.          *)
LEMMA LifecycleLaunch ==
  ASSUME IInv, IInv', NEW g \in Slots, NEW w, Launch(g, w)
  PROVE  Lifecycle!Launch
<1>1. proc = None /\ state \in Idle /\ state' = "starting"
  BY SlotsAssumption DEF Launch, MayStart, IInv, ProcMatchesState, Idle, Active
<1>2. \A h \in Slots : ~Held(h)
  BY <1>1, SlotsAssumption DEF IInv, OwnerLives
<1>3. Held(g)'
  BY DEF Launch, IInv, TypeOK, Held, Status, Living, Ended
<1>4. (\E h \in Slots : Held(h))' = TRUE
  BY <1>3
<1>. QED BY <1>1, <1>2, <1>4 DEF Lifecycle!Launch, Lifecycle!Idle, Idle

LEMMA LifecycleStep ==
  ASSUME IInv, IInv', [Next]_vars
  PROVE  [Lifecycle!Next]_(Lifecycle!vars)
<1>. DEFINE live == \E g \in Slots : Held(g)
<1>. USE DEF Lifecycle!vars
<1>1. CASE Start
  BY <1>1, LifecycleLaunch DEF Start, Lifecycle!Next
<1>2. CASE UpdateConfig \/ Tick
  BY <1>2 DEF UpdateConfig, Tick, Held, Status
<1>3. ASSUME NEW g \in Slots, SlotStep(g) PROVE [Lifecycle!Next]_(Lifecycle!vars)
  <2>1. CASE Spawn(g) \/ Reap(g) \/ RelaunchRefused(g)
    BY <2>1 DEF Spawn, Reap, RelaunchRefused, inVars, Held, Status
  <2>2. CASE Boot(g) \/ Quit(g)
    <3>1. \A h \in Slots : Held(h)' <=> Held(h)
      BY <2>2 DEF Boot, Quit, Held, Status, Living, Ended, IInv, TypeOK
    <3>2. UNCHANGED state
      BY <2>2 DEF Boot, Quit, inVars
    <3>. QED BY <3>1, <3>2
  <2>3. CASE Exit(g) \/ ShellEnds(g)
    <3>1. UNCHANGED state
      BY <2>3 DEF Exit, ShellEnds, inVars
    <3>2. /\ \A h \in Slots : Held(h)' => Held(h)
          /\ \A h \in Slots \ {g} : Held(h)' <=> Held(h)
      BY <2>3 DEF Exit, ShellEnds, IInv, TypeOK, Held, Status, Living, Ended
    <3>3. CASE Held(g) /\ ~Held(g)'
      <4>1. \A h \in Slots : ~Held(h)'
        BY <3>2, <3>3 DEF IInv, OwnerLives
      <4>. QED BY <3>1, <3>3, <4>1 DEF Lifecycle!Next, Lifecycle!Die
    <3>4. CASE ~(Held(g) /\ ~Held(g)')
      <4>1. \A h \in Slots : Held(h)' <=> Held(h)
        BY <3>2, <3>4
      <4>. QED BY <3>1, <4>1
    <3>. QED BY <3>3, <3>4
  <2>4. CASE Pump(g)
    <3>1. UNCHANGED <<os, shell>>
      BY <2>4 DEF Pump
    <3>2. \/ UNCHANGED state
          \/ state = "starting" /\ state' = "running"
          \/ state = "running" /\ state' = "stopping"
      BY <2>4 DEF Pump
    <3>. QED BY <3>1, <3>2 DEF Lifecycle!Next, Lifecycle!Ready, Lifecycle!Wind, Held, Status
  <2>5. CASE RecordExit(g)
    <3>1. g = proc /\ state \in Active /\ state' \in Idle
      BY <2>5, SlotsAssumption DEF RecordExit, IInv, Owner, ProcMatchesState, Idle
    <3>2. \A h \in Slots : ~Held(h) /\ ~Held(h)'
      BY <2>5, <3>1 DEF RecordExit, IInv, OwnerLives, TypeOK, Held, Status, Living, Ended
    <3>. QED BY <3>1, <3>2 DEF Lifecycle!Next, Lifecycle!Ended, Lifecycle!Idle,
                               Lifecycle!Active, Idle, Active
  <2>6. CASE Relaunch(g)
    BY <2>6, LifecycleLaunch DEF Relaunch, Lifecycle!Next
  <2>. QED BY <1>3, <2>1, <2>2, <2>3, <2>4, <2>5, <2>6 DEF SlotStep
<1>4. ASSUME NEW c \in Callers, CallStep(c) PROVE [Lifecycle!Next]_(Lifecycle!vars)
  <2>1. CASE Stop(c) \/ Restart(c)
    BY <2>1 DEF Stop, Restart, StopBegin, Held, Status, Lifecycle!Next, Lifecycle!Wind
  <2>2. CASE Kill(c) \/ StopTimeout(c) \/ Return(c) \/ RestartRefused(c)
    BY <2>2 DEF Kill, StopTimeout, Return, RestartRefused, inVars, Held, Status
  <2>3. CASE KillSignal(c)
    <3>1. UNCHANGED state
      BY <2>3 DEF KillSignal, inVars
    <3>2. PICK s \in Slots : s = call[c].slot
      BY <2>3 DEF KillSignal, IInv, CallsWaitForSlots
    <3>3. /\ ~Held(s)'
          /\ \A h \in Slots \ {s} : Held(h)' <=> Held(h)
      <4>1. /\ shell' = IF shell[s] = "up" THEN [shell EXCEPT ![s] = "exitErr"] ELSE shell
            /\ os' = IF shell[s] = "none" /\ Live(s) THEN [os EXCEPT ![s] = "exitErr"] ELSE os
        BY <2>3, <3>2 DEF KillSignal
      <4>2. /\ os \in [Slots -> Living \cup Gone]
            /\ shell \in [Slots -> {"none", "up"} \cup Ended]
        BY DEF IInv, TypeOK
      <4>. QED BY <4>1, <4>2 DEF Held, Status, Live, Living, Gone, Ended
    <3>4. CASE Held(s)
      <4>1. \A h \in Slots : ~Held(h)'
        BY <3>2, <3>3, <3>4 DEF IInv, OwnerLives
      <4>. QED BY <3>1, <3>2, <3>4, <4>1 DEF Lifecycle!Next, Lifecycle!Die
    <3>5. CASE ~Held(s)
      <4>1. \A h \in Slots : Held(h)' <=> Held(h)
        BY <3>2, <3>3, <3>5
      <4>. QED BY <3>1, <4>1
    <3>. QED BY <3>4, <3>5
  <2>4. CASE RestartStart(c)
    BY <2>4, LifecycleLaunch DEF RestartStart, Lifecycle!Next
  <2>. QED BY <1>4, <2>1, <2>2, <2>3, <2>4 DEF CallStep
<1>5. CASE UNCHANGED vars
  BY <1>5 DEF vars, Held, Status
<1>. QED BY <1>1, <1>2, <1>3, <1>4, <1>5 DEF Next

(* The goroutines, pipes and channels of instance.go implement the server  *)
(* McLifecycle promises.                                                   *)
THEOREM Implementation == Spec => ImplementsLifecycle
<1>1. Init => Lifecycle!Init
  BY DEF Init, Lifecycle!Init, Held, Status, Living, Ended
<1>2. IInv /\ IInv' /\ [Next]_vars => [Lifecycle!Next]_(Lifecycle!vars)
  BY LifecycleStep
<1>. QED BY <1>1, <1>2, Invariance, PTL DEF Spec, ImplementsLifecycle, Lifecycle!Spec

-----------------------------------------------------------------------------
(* The rate of the relaunches.  A crash is entered in in.restartTimes at   *)
(* once, the relaunch it pays for comes later or never: while p of them    *)
(* sleep, the i-th last relaunch is at least as old as entry i + p.        *)

Sleepers == {g \in Slots : waiter[g] = "sleeping"}

(* Entries past the last of in.restartTimes count as out of the window. *)
Age(times, i) == IF i <= RestartLimit THEN times[i] ELSE Window

Sorted(ages, n) == \A i, j \in 1..n : i <= j => ages[i] <= ages[j]

Spaced(p, times, rel) ==
  /\ p <= RestartLimit
  /\ Sorted(times, RestartLimit) /\ Sorted(rel, RestartLimit + 1)
  /\ \A i \in 1..RestartLimit : i <= p => times[i] = 0
  /\ \A i \in 1..(RestartLimit + 1) :
       i + p <= RestartLimit + 1 => rel[i] >= Age(times, i + p)

RateInv ==
  /\ IsFiniteSet(Sleepers)
  /\ Spaced(Cardinality(Sleepers), restartTimes, relaunches)

(* What the registers hold, entry by entry. *)
LEMMA RegisterValues ==
  ASSUME NEW n \in Nat \ {0}, NEW ages \in [1..n -> 0..Window]
  PROVE  /\ \A i \in 1..n : /\ ages[i] \in Nat /\ ages[i] <= Window
                            /\ Shift(ages)[i] = IF i = 1 THEN 0 ELSE ages[i - 1]
                            /\ Older(ages)[i] = IF ages[i] < Window THEN ages[i] + 1 ELSE Window
         /\ Sorted(ages, n) => Sorted(Shift(ages), n) /\ Sorted(Older(ages), n)
<1>1. DOMAIN ages = 1..n OBVIOUS
<1>2. \A i \in 1..n : ages[i] \in Nat /\ ages[i] <= Window
  BY LimitAssumption
<1>3. \A i \in 1..n : Shift(ages)[i] = IF i = 1 THEN 0 ELSE ages[i - 1]
  BY <1>1 DEF Shift
<1>4. \A i \in 1..n : Older(ages)[i] = IF ages[i] < Window THEN ages[i] + 1 ELSE Window
  BY <1>1 DEF Older
<1>5. ASSUME Sorted(ages, n) PROVE Sorted(Shift(ages), n)
  <2>1. SUFFICES ASSUME NEW i \in 1..n, NEW j \in 1..n, i <= j
                 PROVE  Shift(ages)[i] <= Shift(ages)[j]
    BY DEF Sorted
  <2>2. CASE i = 1
    <3>1. Shift(ages)[j] \in Nat
      BY <1>2, <1>3
    <3>. QED BY <1>3, <2>2, <3>1
  <2>3. CASE i # 1
    <3>1. i - 1 \in 1..n /\ j - 1 \in 1..n /\ i - 1 <= j - 1 /\ j # 1
      BY <2>1, <2>3
    <3>. QED BY <1>3, <1>5, <2>3, <3>1 DEF Sorted
  <2>. QED BY <2>2, <2>3
<1>6. ASSUME Sorted(ages, n) PROVE Sorted(Older(ages), n)
  <2>1. SUFFICES ASSUME NEW i \in 1..n, NEW j \in 1..n, i <= j
                 PROVE  Older(ages)[i] <= Older(ages)[j]
    BY DEF Sorted
  <2>2. ages[i] <= ages[j]
    BY <1>6, <2>1 DEF Sorted
  <2>. QED BY <1>2, <1>4, <2>2, LimitAssumption
<1>. QED BY <1>2, <1>3, <1>4, <1>5, <1>6

(* A crash within the budget: its entry is younger than any other, and the *)
(* oldest one, out of the window, goes.                                    *)
LEMMA SpacedCrash ==
  ASSUME NEW p \in Nat,
         NEW times \in [1..RestartLimit -> 0..Window],
         NEW rel \in [1..(RestartLimit + 1) -> 0..Window],
         Spaced(p, times, rel),
         Cardinality({i \in 1..RestartLimit : times[i] < Window}) < RestartLimit
  PROVE  Spaced(p + 1, Shift(times), rel)
<1>. DEFINE L == RestartLimit
<1>1. L \in Nat \ {0} /\ Window \in Nat \ {0}
  BY LimitAssumption
<1>2. /\ \A i \in 1..L : /\ times[i] \in Nat /\ times[i] <= Window
                         /\ Shift(times)[i] = IF i = 1 THEN 0 ELSE times[i - 1]
      /\ Sorted(Shift(times), L) /\ Sorted(times, L)
  BY <1>1, RegisterValues DEF Spaced
<1>3. times[L] = Window
  <2>. SUFFICES ASSUME times[L] < Window PROVE FALSE
    BY <1>1, <1>2
  <2>1. L \in 1..L
    BY <1>1
  <2>2. \A i \in 1..L : times[i] < Window
    <3>. SUFFICES ASSUME NEW i \in 1..L PROVE times[i] < Window
      OBVIOUS
    <3>1. times[i] <= times[L]
      BY <1>2, <2>1 DEF Sorted
    <3>. QED BY <1>1, <1>2, <2>1, <3>1
  <2>. DEFINE recent == {i \in 1..L : times[i] < Window}
  <2>3. recent = 1..L
    BY <2>2
  <2>4. Cardinality(1..L) = L
    BY <1>1, FS_Interval
  <2>5. Cardinality(recent) < L
    OBVIOUS
  <2>. HIDE DEF recent
  <2>. QED BY <1>1, <2>3, <2>4, <2>5
<1>4. p < L
  BY <1>1, <1>3 DEF Spaced
<1>5. \A i \in 1..L : i <= p + 1 => Shift(times)[i] = 0
  <2>. SUFFICES ASSUME NEW i \in 1..L, i <= p + 1, i # 1 PROVE times[i - 1] = 0
    BY <1>2
  <2>1. i - 1 \in 1..L /\ i - 1 <= p
    BY <1>1
  <2>. QED BY <2>1 DEF Spaced
<1>6. \A i \in 1..(L + 1) : i + (p + 1) <= L + 1 => rel[i] >= Age(Shift(times), i + (p + 1))
  <2>. SUFFICES ASSUME NEW i \in 1..(L + 1), i + (p + 1) <= L + 1
                PROVE  rel[i] >= Age(Shift(times), i + (p + 1))
    OBVIOUS
  <2>1. i + p \in 1..L /\ i + p <= L + 1
    BY <1>1
  <2>2. rel[i] >= times[i + p]
    BY <2>1 DEF Spaced, Age
  <2>3. CASE i + (p + 1) <= L
    <3>1. i + (p + 1) \in 1..L /\ i + (p + 1) # 1 /\ (i + (p + 1)) - 1 = i + p
      BY <2>3
    <3>2. Age(Shift(times), i + (p + 1)) = times[i + p]
      BY <1>2, <2>3, <3>1 DEF Age
    <3>. QED BY <2>2, <3>2
  <2>4. CASE ~(i + (p + 1) <= L)
    <3>1. i + p = L
      BY <1>1, <2>1, <2>4
    <3>. QED BY <1>3, <2>2, <2>4, <3>1 DEF Age
  <2>. QED BY <2>3, <2>4
<1>7. p + 1 <= L
  BY <1>1, <1>4
<1>. QED BY <1>2, <1>5, <1>6, <1>7 DEF Spaced

(* A sleeper that relaunches passes from one register to the other. *)
LEMMA SpacedRelaunch ==
  ASSUME NEW p \in Nat,
         NEW times \in [1..RestartLimit -> 0..Window],
         NEW rel \in [1..(RestartLimit + 1) -> 0..Window],
         Spaced(p + 1, times, rel)
  PROVE  Spaced(p, times, Shift(rel))
<1>. DEFINE L == RestartLimit
<1>1. L \in Nat \ {0} /\ L + 1 \in Nat \ {0} /\ Window \in Nat \ {0}
  BY LimitAssumption
<1>2. /\ \A i \in 1..(L + 1) : Shift(rel)[i] = IF i = 1 THEN 0 ELSE rel[i - 1]
      /\ Sorted(Shift(rel), L + 1)
  BY <1>1, RegisterValues DEF Spaced
<1>3. p + 1 <= L
  BY DEF Spaced
<1>4. \A i \in 1..L : i <= p => times[i] = 0
  BY DEF Spaced
<1>5. \A i \in 1..(L + 1) : i + p <= L + 1 => Shift(rel)[i] >= Age(times, i + p)
  <2>. SUFFICES ASSUME NEW i \in 1..(L + 1), i + p <= L + 1
                PROVE  Shift(rel)[i] >= Age(times, i + p)
    OBVIOUS
  <2>1. CASE i = 1
    <3>1. p + 1 \in 1..L /\ i + p = p + 1
      BY <1>1, <1>3, <2>1
    <3>2. Age(times, i + p) = 0
      BY <1>3, <3>1 DEF Spaced, Age
    <3>. QED BY <1>2, <2>1, <3>2
  <2>2. CASE i # 1
    <3>1. i - 1 \in 1..(L + 1) /\ (i - 1) + (p + 1) = i + p
      BY <1>1, <2>2
    <3>2. rel[i - 1] >= Age(times, i + p)
      BY <3>1 DEF Spaced
    <3>. QED BY <1>2, <2>2, <3>2
  <2>. QED BY <2>1, <2>2
<1>. QED BY <1>1, <1>2, <1>3, <1>4, <1>5 DEF Spaced

(* One that is refused leaves its entry behind, which only spaces more. *)
LEMMA SpacedRefused ==
  ASSUME NEW p \in Nat,
         NEW times \in [1..RestartLimit -> 0..Window],
         NEW rel \in [1..(RestartLimit + 1) -> 0..Window],
         Spaced(p + 1, times, rel)
  PROVE  Spaced(p, times, rel)
<1>. DEFINE L == RestartLimit
<1>1. L \in Nat \ {0} /\ L + 1 \in Nat \ {0} /\ Window \in Nat \ {0}
  BY LimitAssumption
<1>2. \A i \in 1..L : times[i] \in Nat /\ times[i] <= Window
  BY <1>1, RegisterValues
<1>3. \A i \in 1..(L + 1) : rel[i] \in Nat
  BY <1>1, RegisterValues
<1>4. p + 1 <= L /\ Sorted(times, L) /\ Sorted(rel, L + 1)
  BY DEF Spaced
<1>5. \A i \in 1..L : i <= p => times[i] = 0
  BY DEF Spaced
<1>6. \A i \in 1..(L + 1) : i + p <= L + 1 => rel[i] >= Age(times, i + p)
  <2>. SUFFICES ASSUME NEW i \in 1..(L + 1), i + p <= L + 1
                PROVE  rel[i] >= Age(times, i + p)
    OBVIOUS
  <2>1. CASE i + p <= L
    <3>1. i + p \in 1..L /\ i + (p + 1) <= L + 1 /\ i + (p + 1) = (i + p) + 1
      BY <1>1, <2>1
    <3>2. rel[i] >= Age(times, i + (p + 1))
      BY <3>1 DEF Spaced
    <3>3. CASE (i + p) + 1 <= L
      <4>1. (i + p) + 1 \in 1..L
        BY <3>1, <3>3
      <4>2. times[i + p] <= times[(i + p) + 1]
        BY <1>1, <1>4, <3>1, <4>1 DEF Sorted
      <4>. QED BY <1>2, <1>3, <2>1, <3>1, <3>2, <3>3, <4>1, <4>2 DEF Age
    <3>4. CASE ~((i + p) + 1 <= L)
      BY <1>1, <1>2, <1>3, <2>1, <3>1, <3>2, <3>4 DEF Age
    <3>. QED BY <3>3, <3>4
  <2>2. CASE ~(i + p <= L)
    <3>1. i + p = L + 1 /\ i - 1 \in 1..(L + 1) /\ (i - 1) + (p + 1) = L + 1
      BY <1>1, <1>4, <2>2
    <3>2. rel[i - 1] >= Window
      BY <1>1, <3>1 DEF Spaced, Age
    <3>3. rel[i - 1] <= rel[i]
      BY <1>1, <1>4, <3>1 DEF Sorted
    <3>. QED BY <1>1, <1>3, <2>2, <3>1, <3>2, <3>3 DEF Age
  <2>. QED BY <2>1, <2>2
<1>7. p <= L
  BY <1>1, <1>4
<1>. QED BY <1>4, <1>5, <1>6, <1>7 DEF Spaced

(* When nobody sleeps, time passes for both registers alike. *)
LEMMA SpacedTick ==
  ASSUME NEW times \in [1..RestartLimit -> 0..Window],
         NEW rel \in [1..(RestartLimit + 1) -> 0..Window],
         Spaced(0, times, rel)
  PROVE  Spaced(0, Older(times), Older(rel))
<1>. DEFINE L == RestartLimit
<1>1. L \in Nat \ {0} /\ L + 1 \in Nat \ {0} /\ Window \in Nat \ {0}
  BY LimitAssumption
<1>2. /\ \A i \in 1..L : /\ times[i] \in Nat /\ times[i] <= Window
                         /\ Older(times)[i] = IF times[i] < Window THEN times[i] + 1 ELSE Window
      /\ Sorted(Older(times), L)
  BY <1>1, RegisterValues DEF Spaced
<1>3. /\ \A i \in 1..(L + 1) : /\ rel[i] \in Nat /\ rel[i] <= Window
                               /\ Older(rel)[i] = IF rel[i] < Window THEN rel[i] + 1 ELSE Window
      /\ Sorted(Older(rel), L + 1)
  BY <1>1, RegisterValues DEF Spaced
<1>4. \A i \in 1..(L + 1) : i + 0 <= L + 1 => Older(rel)[i] >= Age(Older(times), i + 0)
  <2>. SUFFICES ASSUME NEW i \in 1..(L + 1) PROVE Older(rel)[i] >= Age(Older(times), i)
    BY <1>1
  <2>1. rel[i] >= Age(times, i)
    BY <1>1 DEF Spaced
  <2>2. CASE i <= L
    <3>1. i \in 1..L
      BY <1>1, <2>2
    <3>2. rel[i] >= times[i]
      BY <2>1, <2>2 DEF Age
    <3>. QED BY <1>1, <1>2, <1>3, <2>2, <3>1, <3>2 DEF Age
  <2>3. CASE ~(i <= L)
    BY <1>1, <1>3, <2>1, <2>3 DEF Age
  <2>. QED BY <2>2, <2>3
<1>5. \A i \in 1..L : i <= 0 => Older(times)[i] = 0
  BY <1>1
<1>. QED BY <1>1, <1>2, <1>3, <1>4, <1>5 DEF Spaced

(* At first nothing is in the window and nobody sleeps. *)
LEMMA RateInit == Init => RateInv
<1>. SUFFICES ASSUME Init PROVE RateInv
  OBVIOUS
<1>1. RestartLimit \in Nat \ {0} /\ Window \in Nat \ {0}
  BY LimitAssumption
<1>2. Sleepers = {}
  BY DEF Init, Sleepers
<1>3. IsFiniteSet(Sleepers) /\ Cardinality(Sleepers) = 0
  BY <1>2, FS_EmptySet
<1>4. /\ \A i \in 1..RestartLimit : restartTimes[i] = Window
      /\ \A i \in 1..(RestartLimit + 1) : relaunches[i] = Window
  BY DEF Init
<1>5. Spaced(0, restartTimes, relaunches)
  BY <1>1, <1>4 DEF Spaced, Sorted, Age
<1>. QED BY <1>3, <1>5 DEF RateInv

(* A step that touches neither register and wakes nobody keeps the rate. *)
LEMMA RateStays ==
  ASSUME RateInv, UNCHANGED <<restartTimes, relaunches>>,
         \A h \in Slots : waiter'[h] = "sleeping" <=> waiter[h] = "sleeping"
  PROVE  RateInv'
<1>1. Sleepers' = Sleepers
  BY DEF Sleepers
<1>. QED BY <1>1 DEF RateInv, Spaced, Sorted, Age

(* One that wakes a sleeper and keeps in.restartTimes has p + 1 before it  *)
(* and p after it.                                                         *)
LEMMA SleeperWakes ==
  ASSUME RateInv, NEW g \in Slots, waiter[g] = "sleeping",
         waiter'[g] # "sleeping",
         \A h \in Slots \ {g} : waiter'[h] = "sleeping" <=> waiter[h] = "sleeping"
  PROVE  /\ IsFiniteSet(Sleepers')
         /\ Cardinality(Sleepers') \in Nat
         /\ Spaced(Cardinality(Sleepers') + 1, restartTimes, relaunches)
<1>1. Sleepers' = Sleepers \ {g} /\ g \in Sleepers
  BY DEF Sleepers
<1>2. IsFiniteSet(Sleepers)
  BY DEF RateInv
<1>3. IsFiniteSet(Sleepers') /\ Cardinality(Sleepers') = Cardinality(Sleepers) - 1
  BY <1>1, <1>2, FS_RemoveElement
<1>4. Cardinality(Sleepers) \in Nat /\ Cardinality(Sleepers') \in Nat
  BY <1>2, <1>3, FS_CardinalityType
<1>5. Cardinality(Sleepers') + 1 = Cardinality(Sleepers)
  BY <1>3, <1>4
<1>. QED BY <1>3, <1>4, <1>5 DEF RateInv

LEMMA RateStep == IInv /\ RateInv /\ [Next]_vars => RateInv'
<1>. SUFFICES ASSUME IInv, RateInv, [Next]_vars PROVE RateInv'
  OBVIOUS
<1>1. /\ waiter \in [Slots -> WaiterAt]
      /\ restartTimes \in [1..RestartLimit -> 0..Window]
      /\ relaunches \in [1..(RestartLimit + 1) -> 0..Window]
  BY DEF IInv, TypeOK
<1>2. ASSUME NEW h \in Slots, Launch(h, waiter), relaunches' = relaunches PROVE RateInv'
  <2>1. /\ restartTimes' = restartTimes /\ waiter' = [waiter EXCEPT ![h] = "unspawned"]
        /\ waiter[h] = "finished"
    BY <1>2 DEF Launch, Unused
  <2>. QED BY <1>1, <1>2, <2>1, RateStays
<1>3. CASE Start
  BY <1>2, <1>3 DEF Start
<1>4. CASE UpdateConfig
  BY <1>4, RateStays DEF UpdateConfig, histVars
<1>5. CASE Tick
  <2>1. Sleepers = {} /\ Sleepers' = {}
    BY <1>5 DEF Tick, Sleepers
  <2>2. IsFiniteSet({}) /\ Cardinality({}) = 0
    BY FS_EmptySet
  <2>3. Spaced(0, restartTimes, relaunches)
    BY <2>1, <2>2 DEF RateInv
  <2>4. Spaced(0, Older(restartTimes), Older(relaunches))
    BY <1>1, <2>3, SpacedTick
  <2>5. restartTimes' = Older(restartTimes) /\ relaunches' = Older(relaunches)
    BY <1>5 DEF Tick
  <2>6. Spaced(0, restartTimes', relaunches')
    BY <2>4, <2>5
  <2>. QED BY <2>1, <2>2, <2>6 DEF RateInv, Spaced, Sorted, Age
<1>6. ASSUME NEW g \in Slots, SlotStep(g) PROVE RateInv'
  <2>1. CASE \/ Spawn(g) \/ Boot(g) \/ Quit(g) \/ Exit(g) \/ ShellEnds(g)
             \/ Pump(g) \/ Reap(g)
    <3>1. UNCHANGED <<restartTimes, relaunches>>
      BY <2>1 DEF Spawn, Boot, Quit, Exit, ShellEnds, Pump, Reap, inVars, histVars
    <3>2. \A h \in Slots : waiter'[h] = "sleeping" <=> waiter[h] = "sleeping"
      BY <1>1, <2>1 DEF Spawn, Boot, Quit, Exit, ShellEnds, Pump, Reap
    <3>. QED BY <3>1, <3>2, RateStays
  <2>2. CASE RecordExit(g)
    <3>1. relaunches' = relaunches /\ waiter[g] = "reaped"
      BY <2>2 DEF RecordExit
    <3>2. CASE Crashed(g) /\ autoRestart /\ RestartBudget
      <4>1. restartTimes' = Shift(restartTimes) /\ waiter' = [waiter EXCEPT ![g] = "sleeping"]
        BY <2>2, <3>2 DEF RecordExit
      <4>2. Sleepers' = Sleepers \cup {g} /\ g \notin Sleepers
        BY <1>1, <3>1, <4>1 DEF Sleepers
      <4>3. IsFiniteSet(Sleepers)
        BY DEF RateInv
      <4>4. /\ Cardinality(Sleepers) \in Nat
            /\ IsFiniteSet(Sleepers') /\ Cardinality(Sleepers') = Cardinality(Sleepers) + 1
        BY <4>2, <4>3, FS_CardinalityType, FS_AddElement
      <4>5. Spaced(Cardinality(Sleepers), restartTimes, relaunches)
        BY DEF RateInv
      <4>6. Spaced(Cardinality(Sleepers) + 1, Shift(restartTimes), relaunches)
        BY <1>1, <3>2, <4>4, <4>5, SpacedCrash DEF RestartBudget
      <4>7. Spaced(Cardinality(Sleepers'), restartTimes', relaunches')
        BY <3>1, <4>1, <4>4, <4>6
      <4>. QED BY <4>4, <4>7 DEF RateInv, Spaced, Sorted, Age
    <3>3. CASE ~(Crashed(g) /\ autoRestart /\ RestartBudget)
      <4>1. restartTimes' = restartTimes /\ waiter' = [waiter EXCEPT ![g] = "finished"]
        BY <2>2, <3>3 DEF RecordExit
      <4>. QED BY <1>1, <3>1, <4>1, RateStays
    <3>. QED BY <3>2, <3>3
  <2>3. CASE Relaunch(g)
    <3>1. waiter[g] = "sleeping" /\ relaunches' = Shift(relaunches)
      BY <2>3 DEF Relaunch
    <3>2. PICK h \in Slots : Launch(h, [waiter EXCEPT ![g] = "finished"])
      BY <2>3 DEF Relaunch
    <3>3. /\ restartTimes' = restartTimes /\ waiter[h] = "finished"
          /\ waiter' = [[waiter EXCEPT ![g] = "finished"] EXCEPT ![h] = "unspawned"]
      BY <3>2 DEF Launch, Unused
    <3>4. /\ waiter'[g] # "sleeping"
          /\ \A k \in Slots \ {g} : waiter'[k] = "sleeping" <=> waiter[k] = "sleeping"
      BY <1>1, <3>1, <3>3
    <3>5. /\ IsFiniteSet(Sleepers') /\ Cardinality(Sleepers') \in Nat
          /\ Spaced(Cardinality(Sleepers') + 1, restartTimes, relaunches)
      BY <3>1, <3>4, SleeperWakes
    <3>6. Spaced(Cardinality(Sleepers'), restartTimes', relaunches')
      BY <1>1, <3>1, <3>3, <3>5, SpacedRelaunch
    <3>. QED BY <3>5, <3>6 DEF RateInv, Spaced, Sorted, Age
  <2>4. CASE RelaunchRefused(g)
    <3>1. /\ waiter[g] = "sleeping" /\ waiter' = [waiter EXCEPT ![g] = "finished"]
          /\ restartTimes' = restartTimes /\ relaunches' = relaunches
      BY <2>4 DEF RelaunchRefused, inVars, histVars
    <3>2. /\ waiter'[g] # "sleeping"
          /\ \A k \in Slots \ {g} : waiter'[k] = "sleeping" <=> waiter[k] = "sleeping"
      BY <1>1, <3>1
    <3>3. /\ IsFiniteSet(Sleepers') /\ Cardinality(Sleepers') \in Nat
          /\ Spaced(Cardinality(Sleepers') + 1, restartTimes, relaunches)
      BY <3>1, <3>2, SleeperWakes
    <3>4. Spaced(Cardinality(Sleepers'), restartTimes', relaunches')
      BY <1>1, <3>1, <3>3, SpacedRefused
    <3>. QED BY <3>3, <3>4 DEF RateInv, Spaced, Sorted, Age
  <2>. QED BY <1>6, <2>1, <2>2, <2>3, <2>4 DEF SlotStep
<1>7. ASSUME NEW c \in Callers, CallStep(c) PROVE RateInv'
  <2>1. CASE RestartStart(c)
    BY <1>2, <2>1 DEF RestartStart
  <2>2. CASE \/ Stop(c) \/ Restart(c) \/ Kill(c) \/ StopTimeout(c)
             \/ KillSignal(c) \/ Return(c) \/ RestartRefused(c)
    <3>1. UNCHANGED <<restartTimes, relaunches, waiter>>
      BY <2>2 DEF Stop, Restart, StopBegin, Kill, StopTimeout, KillSignal, Return,
                  RestartRefused, inVars, histVars
    <3>. QED BY <3>1, RateStays
  <2>. QED BY <1>7, <2>1, <2>2 DEF CallStep
<1>8. CASE UNCHANGED vars
  BY <1>8, RateStays DEF vars
<1>. QED
  BY <1>3, <1>4, <1>5, <1>6, <1>7, <1>8 DEF Next

(* Of the last RestartLimit + 1 relaunches the oldest is out of the        *)
(* window, so no window sees more of them than the limit, also when        *)
(* relaunches are refused and operators start the server in between.       *)
THEOREM RateCorrect == Spec => []RelaunchRate
<1>1. RateInv => RelaunchRate
  <2>. SUFFICES ASSUME RateInv PROVE RelaunchRate
    OBVIOUS
  <2>1. RestartLimit \in Nat \ {0}
    BY LimitAssumption
  <2>2. Cardinality(Sleepers) \in Nat
    BY FS_CardinalityType DEF RateInv
  <2>. DEFINE i == (RestartLimit + 1) - Cardinality(Sleepers)
  <2>3. i \in 1..(RestartLimit + 1) /\ i + Cardinality(Sleepers) = RestartLimit + 1
    BY <2>1, <2>2 DEF RateInv, Spaced
  <2>4. relaunches[i] >= Window
    BY <2>1, <2>3 DEF RateInv, Spaced, Age
  <2>. QED BY <2>3, <2>4 DEF RelaunchRate
<1>. QED BY <1>1, RateInit, RateStep, Invariance, PTL DEF Spec

=============================================================================
