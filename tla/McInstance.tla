----------------------------- MODULE McInstance -----------------------------
(***************************************************************************)
(* One supervised Minecraft server (src/internal/mc/instance.go): the      *)
(* fields guarded by in.mu, the two goroutines every launch spawns         *)
(* (pumpOutput reads the console, waitForExit reaps the process), the API  *)
(* calls that run beside them (Start, Stop, Restart, Kill, UpdateConfig),  *)
(* and the operating system processes themselves.                          *)
(*                                                                         *)
(* A SLOT is one launch: its exec.Cmd, its output pipe, its `exited`       *)
(* channel and its two goroutines.  A slot is used again only when nothing *)
(* of the earlier launch is left, so the number of slots bounds how many   *)
(* launches are in memory at once, never how many there are in a run.      *)
(*                                                                         *)
(* A launch is the game itself (`java -jar`), or a shell that runs run.sh  *)
(* and has the game for a child.  exec.Cmd knows the process it started    *)
(* and no other: cmd.Wait returns when the shell ends, and the signals of  *)
(* Stop and Kill go to its pid alone.  The game may outlive its shell.     *)
(*                                                                         *)
(* Each action is one critical section of in.mu, or one step between two   *)
(* of them.  Left out as data: argv, console text other than the two lines *)
(* that change the state, the player list, resource samples.               *)
(***************************************************************************)
EXTENDS Naturals, Sequences, FiniteSets

CONSTANTS
  Slots,         \* launches whose goroutines or pipe may exist at once
  Callers,       \* goroutines calling Stop, Restart and Kill
  None,          \* in.proc == nil
  RestartLimit,  \* automatic relaunches allowed per window (3 in the code)
  Window,        \* the window, in clock ticks (10 minutes in the code)
  PipeCap        \* console lines the output pipe holds

ASSUME SlotsAssumption == None \notin Slots
ASSUME LimitAssumption ==
  /\ RestartLimit \in Nat \ {0}
  /\ Window \in Nat \ {0}
  /\ PipeCap \in Nat \ {0}

VARIABLES
  state,          \* in.state
  stopRequested,  \* in.stopRequested
  proc,           \* in.proc, in.pid and in.stdin: the slot they belong to, or None
  autoRestart,    \* in.cfg.AutoRestart
  restartTimes,   \* ages of the last RestartLimit automatic restarts
  os,             \* the game of each slot
  shell,          \* the shell in front of it, or "none": see Held
  console,        \* lines each process wrote that pumpOutput has not read
  waiter,         \* where waitForExit of each slot stands; `exited` closes as it reaps
  call,           \* where each API call stands, and the launch it waits for
  asked,          \* history: launches an operator asked to stop or kill
  relaunches      \* history: ages of the last RestartLimit + 1 relaunches

inVars == <<state, stopRequested, proc, autoRestart, restartTimes>>
histVars == <<asked, relaunches>>
vars == <<state, stopRequested, proc, autoRestart, restartTimes,
          os, shell, console, waiter, call, asked, relaunches>>

Idle == {"stopped", "crashed"}
Active == {"starting", "running", "stopping"}
Living == {"booting", "ready", "quitting"}
Ended == {"exit0", "exitErr"}
Gone == {"none"} \cup Ended
Lines == {"done", "stopping"}
WaiterAt == {"unspawned", "waiting", "reaped", "sleeping", "finished"}
CallAt == {"idle", "awaitExit", "termSent", "killing", "killSent", "starting"}
NoCall == [at |-> "idle", slot |-> None, restart |-> FALSE]

Live(g) == os[g] \in Living

(* The process the launch started, which is the one cmd.Wait and the       *)
(* signals are about: the shell where there is one, the game otherwise.    *)
Status(g) == IF shell[g] = "none" THEN os[g] ELSE shell[g]

Held(g) == Status(g) \in Living \cup {"up"}

(* The shell is gone and its game is not: no variable of the panel knows   *)
(* of this process, only its console is still read.                        *)
Left(g) == Live(g) /\ ~Held(g)

(* The `exited` channel of the launch is closed. *)
Closed(g) == waiter[g] \in {"reaped", "sleeping", "finished"}

TypeOK ==
  /\ state \in Idle \cup Active
  /\ stopRequested \in BOOLEAN
  /\ proc \in Slots \cup {None}
  /\ autoRestart \in BOOLEAN
  /\ restartTimes \in [1..RestartLimit -> 0..Window]
  /\ os \in [Slots -> Living \cup Gone]
  /\ shell \in [Slots -> {"none", "up"} \cup Ended]
  /\ console \in [Slots -> Seq(Lines)]
  /\ waiter \in [Slots -> WaiterAt]
  /\ call \in [Callers -> [at : CallAt, slot : Slots \cup {None}, restart : BOOLEAN]]
  /\ asked \in SUBSET Slots
  /\ relaunches \in [1..(RestartLimit + 1) -> 0..Window]

Init ==
  /\ state = "stopped" /\ stopRequested = FALSE /\ proc = None
  /\ autoRestart \in BOOLEAN
  /\ restartTimes = [i \in 1..RestartLimit |-> Window]
  /\ os = [g \in Slots |-> "none"]
  /\ shell = [g \in Slots |-> "none"]
  /\ console = [g \in Slots |-> <<>>]
  /\ waiter = [g \in Slots |-> "finished"]
  /\ call = [c \in Callers |-> NoCall]
  /\ asked = {}
  /\ relaunches = [i \in 1..(RestartLimit + 1) |-> Window]

-----------------------------------------------------------------------------
(* Launching *)

(* Nothing of the slot's earlier launch is left. *)
Unused(g) ==
  /\ waiter[g] = "finished"
  /\ ~Live(g)
  /\ console[g] = <<>>
  /\ \A c \in Callers : call[c].slot # g

\* Mistake: only a server that runs is refused.
MayStartUnlessUp == state \notin {"starting", "running"}

MayStart == state \in Idle

(* The part of Start under in.mu, when every check passes and the process  *)
(* is created: a shell if in.cfg has a run.sh and no jar, which every      *)
(* Rescan and UpdateConfig settle anew.  A run.sh that ends in `exec java` *)
(* becomes the game.  The goroutines come after the unlock: Spawn.         *)
Launch(g, waiter0) ==
  /\ MayStart
  /\ Unused(g)
  /\ state' = "starting" /\ stopRequested' = FALSE /\ proc' = g
  /\ os' = [os EXCEPT ![g] = "booting"]
  /\ \E front \in {"none", "up"} : shell' = [shell EXCEPT ![g] = front]
  /\ waiter' = [waiter0 EXCEPT ![g] = "unspawned"]
  /\ UNCHANGED <<autoRestart, restartTimes, console, asked>>

(* An operator's Start.  A Start that is refused, because of the state,    *)
(* the EULA, the port or the exec, changes nothing.                        *)
Start ==
  /\ \E g \in Slots : Launch(g, waiter)
  /\ UNCHANGED <<call, relaunches>>

(* After in.mu is released and the change is published, Start spawns       *)
(* pumpOutput and waitForExit.                                             *)
Spawn(g) ==
  /\ waiter[g] = "unspawned"
  /\ waiter' = [waiter EXCEPT ![g] = "waiting"]
  /\ UNCHANGED <<inVars, os, shell, console, call, histVars>>

-----------------------------------------------------------------------------
(* The processes, outside the panel *)

Say(g, line) ==
  /\ Len(console[g]) < PipeCap
  /\ console' = [console EXCEPT ![g] = Append(@, line)]

(* The world is up: `Done (` goes to the console. *)
Boot(g) ==
  /\ os[g] = "booting"
  /\ os' = [os EXCEPT ![g] = "ready"]
  /\ Say(g, "done")
  /\ UNCHANGED <<inVars, shell, waiter, call, histVars>>

(* An orderly shutdown begins, on `stop` from stdin or from a player:      *)
(* `Stopping server` goes to the console.                                  *)
Quit(g) ==
  /\ os[g] = "ready"
  /\ os' = [os EXCEPT ![g] = "quitting"]
  /\ Say(g, "stopping")
  /\ UNCHANGED <<inVars, shell, waiter, call, histVars>>

(* The game ends at any moment; its status counts if nothing is in front.  *)
Exit(g) ==
  /\ Live(g)
  /\ \E end \in IF shell[g] = "none" THEN Ended ELSE {"none"} :
       os' = [os EXCEPT ![g] = end]
  /\ UNCHANGED <<inVars, shell, console, waiter, call, histVars>>

(* The shell ends, with its game or without it: at the end of its script,  *)
(* by the SIGINT of Stop, or by a signal from elsewhere.                   *)
ShellEnds(g) ==
  /\ shell[g] = "up"
  /\ \E end \in Ended : shell' = [shell EXCEPT ![g] = end]
  /\ UNCHANGED <<inVars, os, console, waiter, call, histVars>>

-----------------------------------------------------------------------------
(* pumpOutput and handleLine: the line may come from a process that is     *)
(* already reaped, and handleLine does not ask which launch it belongs to. *)

Pump(g) ==
  /\ waiter[g] # "unspawned"
  /\ console[g] # <<>>
  /\ console' = [console EXCEPT ![g] = Tail(@)]
  /\ state' = IF Head(console[g]) = "done" /\ state = "starting" THEN "running"
              ELSE IF Head(console[g]) = "stopping" /\ state = "running" THEN "stopping"
              ELSE state
  /\ UNCHANGED <<stopRequested, proc, autoRestart, restartTimes,
                 os, shell, waiter, call, histVars>>

-----------------------------------------------------------------------------
(* waitForExit *)

ExitSeen(g) == Status(g) \in Ended

(* cmd.Wait returns and `exited` is closed, before in.mu is taken. *)
Reap(g) ==
  /\ waiter[g] = "waiting"
  /\ ExitSeen(g)
  /\ waiter' = [waiter EXCEPT ![g] = "reaped"]
  /\ UNCHANGED <<inVars, os, shell, console, call, histVars>>

Crashed(g) ==
  /\ ~stopRequested
  /\ Status(g) = "exitErr" \/ state \in {"starting", "running"}

Shift(ages) == [i \in DOMAIN ages |-> IF i = 1 THEN 0 ELSE ages[i - 1]]

\* Mistake: off by one.
RestartBudgetPlusOne ==
  Cardinality({i \in 1..RestartLimit : restartTimes[i] < Window}) <= RestartLimit

(* recentRestartsLocked() < 3.  Only the last RestartLimit entries of      *)
(* in.restartTimes can bring the count up to the limit.                    *)
RestartBudget ==
  Cardinality({i \in 1..RestartLimit : restartTimes[i] < Window}) < RestartLimit

(* The critical section of waitForExit.  What it clears is the panel's own *)
(* record: a game its shell left behind goes on.                           *)
RecordExit(g) ==
  /\ waiter[g] = "reaped"
  /\ proc' = None
  /\ state' = IF Crashed(g) THEN "crashed" ELSE "stopped"
  /\ IF Crashed(g) /\ autoRestart /\ RestartBudget
     THEN /\ restartTimes' = Shift(restartTimes)
          /\ waiter' = [waiter EXCEPT ![g] = "sleeping"]
     ELSE /\ UNCHANGED restartTimes
          /\ waiter' = [waiter EXCEPT ![g] = "finished"]
  /\ IF Left(g)
     THEN UNCHANGED <<os, shell>>
     ELSE os' = [os EXCEPT ![g] = "none"] /\ shell' = [shell EXCEPT ![g] = "none"]
  /\ asked' = asked \ {g}
  /\ UNCHANGED <<stopRequested, autoRestart, console, call, relaunches>>

(* The ten seconds are over and Start succeeds. *)
Relaunch(g) ==
  /\ waiter[g] = "sleeping"
  /\ \E h \in Slots : Launch(h, [waiter EXCEPT ![g] = "finished"])
  /\ relaunches' = Shift(relaunches)
  /\ UNCHANGED call

(* The ten seconds are over and Start refuses. *)
RelaunchRefused(g) ==
  /\ waiter[g] = "sleeping"
  /\ waiter' = [waiter EXCEPT ![g] = "finished"]
  /\ UNCHANGED <<inVars, os, shell, console, call, histVars>>

-----------------------------------------------------------------------------
(* The API calls *)

(* Stop, and the first half of Restart: the critical section. *)
StopBegin(c, restart) ==
  /\ call[c] = NoCall
  /\ state \in {"running", "starting"}
  /\ stopRequested' = TRUE /\ state' = "stopping"
  /\ call' = [call EXCEPT ![c] = [at |-> "awaitExit", slot |-> proc, restart |-> restart]]
  /\ asked' = asked \cup ({proc} \ {None})
  /\ UNCHANGED <<proc, autoRestart, restartTimes,
                 os, shell, console, waiter, relaunches>>

Stop(c) == StopBegin(c, FALSE)
Restart(c) == StopBegin(c, TRUE)

(* The 90 seconds pass: SIGINT to the process that was started, which may  *)
(* ignore it; a shell that does not ends by ShellEnds.                     *)
StopTimeout(c) ==
  /\ call[c].at = "awaitExit"
  /\ call' = [call EXCEPT ![c].at = "termSent"]
  /\ UNCHANGED <<inVars, os, shell, console, waiter, histVars>>

(* The critical section of Kill. *)
Kill(c) ==
  /\ call[c] = NoCall /\ proc # None
  /\ stopRequested' = TRUE
  /\ call' = [call EXCEPT ![c] = [at |-> "killing", slot |-> proc, restart |-> FALSE]]
  /\ asked' = asked \cup {proc}
  /\ UNCHANGED <<state, proc, autoRestart, restartTimes,
                 os, shell, console, waiter, relaunches>>

\* Mistake: the escalation stops short of SIGKILL.
SignalIgnored(c) ==
  /\ call[c].at \in {"termSent", "killing"}
  /\ call' = [call EXCEPT ![c].at = "killSent"]
  /\ UNCHANGED <<inVars, os, shell, console, waiter, histVars>>

(* SIGKILL to the process the call captured, which may be gone by now:     *)
(* from Kill, or from Stop when SIGINT brought nothing for 15 seconds.  It *)
(* goes to the shell where there is one, and then the game lives on.       *)
KillSignal(c) ==
  LET g == call[c].slot IN
  /\ call[c].at \in {"termSent", "killing"}
  /\ shell' = IF shell[g] = "up" THEN [shell EXCEPT ![g] = "exitErr"] ELSE shell
  /\ os' = IF shell[g] = "none" /\ Live(g) THEN [os EXCEPT ![g] = "exitErr"] ELSE os
  /\ call' = [call EXCEPT ![c].at = "killSent"]
  /\ UNCHANGED <<inVars, console, waiter, histVars>>

\* Mistake: after SIGKILL nobody waits for the process to be gone.
ReleasedBySignal(c) == call[c].at \in {"termSent", "killSent"} \/ Closed(call[c].slot)

Released(c) == Closed(call[c].slot)

(* <-exited fires: Stop and Kill return, Restart goes on. *)
Return(c) ==
  /\ call[c].at \in {"awaitExit", "termSent", "killSent"}
  /\ Released(c)
  /\ call' = [call EXCEPT ![c] = IF call[c].restart
                                 THEN [at |-> "starting", slot |-> None, restart |-> TRUE]
                                 ELSE NoCall]
  /\ UNCHANGED <<inVars, os, shell, console, waiter, histVars>>

(* The second half of Restart is a Start like any other. *)
RestartStart(c) ==
  /\ call[c].at = "starting"
  /\ \E g \in Slots : Launch(g, waiter)
  /\ call' = [call EXCEPT ![c] = NoCall]
  /\ UNCHANGED relaunches

(* It is refused when waitForExit has closed `exited` but not yet taken    *)
(* in.mu, when someone else started the server, or by a failed check.      *)
RestartRefused(c) ==
  /\ call[c].at = "starting"
  /\ call' = [call EXCEPT ![c] = NoCall]
  /\ UNCHANGED <<inVars, os, shell, console, waiter, histVars>>

(* Manager.UpdateConfig switches crash recovery on or off. *)
UpdateConfig ==
  /\ autoRestart' = ~autoRestart
  /\ UNCHANGED <<state, stopRequested, proc, restartTimes,
                 os, shell, console, waiter, call, histVars>>

-----------------------------------------------------------------------------
(* The clock.  A tick is longer than the ten seconds of a relaunch, so it  *)
(* does not pass while one is pending.                                     *)

Older(ages) == [i \in DOMAIN ages |-> IF ages[i] < Window THEN ages[i] + 1 ELSE Window]

Tick ==
  /\ \A g \in Slots : waiter[g] # "sleeping"
  /\ restartTimes' = Older(restartTimes)
  /\ relaunches' = Older(relaunches)
  /\ UNCHANGED <<state, stopRequested, proc, autoRestart,
                 os, shell, console, waiter, call, asked>>

-----------------------------------------------------------------------------

SlotStep(g) ==
  \/ Spawn(g) \/ Boot(g) \/ Quit(g) \/ Exit(g) \/ ShellEnds(g) \/ Pump(g)
  \/ Reap(g) \/ RecordExit(g) \/ Relaunch(g) \/ RelaunchRefused(g)

CallStep(c) ==
  \/ Stop(c) \/ Restart(c) \/ Kill(c)
  \/ StopTimeout(c) \/ KillSignal(c) \/ Return(c)
  \/ RestartStart(c) \/ RestartRefused(c)

Next ==
  \/ Start \/ UpdateConfig \/ Tick
  \/ \E g \in Slots : SlotStep(g)
  \/ \E c \in Callers : CallStep(c)

Spec == Init /\ [][Next]_vars

(* The panel's own goroutines run and its timers fire.  Nothing is assumed *)
(* of the process (it may never boot, answer `stop` or end) nor of the     *)
(* operator: SIGKILL is the only thing a process cannot ignore.            *)
Fairness ==
  /\ \A g \in Slots : WF_vars(Spawn(g)) /\ WF_vars(Reap(g)) /\ WF_vars(RecordExit(g))
  /\ \A c \in Callers : /\ WF_vars(StopTimeout(c)) /\ WF_vars(KillSignal(c))
                        /\ WF_vars(Return(c)) /\ WF_vars(RestartRefused(c))

FairSpec == Spec /\ Fairness

-----------------------------------------------------------------------------
(* Properties *)

(* There are never two processes of one server, however Start, Restart and *)
(* the crash relaunch interleave: two servers on one world destroy it.  A  *)
(* server whose jar the panel runs has one process at most; where a run.sh *)
(* is in between, a second can only be there beside one whose shell left   *)
(* it behind.                                                              *)
AtMostOneProcess ==
  /\ \A g, h \in Slots : Held(g) /\ Held(h) => g = h
  /\ \A g, h \in Slots : Live(g) /\ Live(h) /\ g # h => Left(g) \/ Left(h)

(* A server shown as stopped or crashed has no process the panel started   *)
(* and could still signal: RestoreBackup swaps the directory of such a     *)
(* server and Rescan forgets it.  What can live is a game left behind.     *)
IdleMeansGone == state \in Idle =>
  proc = None /\ \A g \in Slots : ~Held(g) /\ (Live(g) => Left(g))

(* The end of a process an operator asked to stop or kill is never         *)
(* recorded as a crash, so it is never relaunched on that ground, even     *)
(* when the call has returned before waitForExit records the end.          *)
OperatorEndIsNoCrash ==
  [][\A g \in Slots : waiter[g] = "reaped" /\ waiter'[g] # "reaped" /\ g \in asked
       => state' = "stopped" /\ waiter'[g] = "finished"]_vars

(* `max 3 in 10 min`: relaunches never come faster than the limit, also    *)
(* when crashes, refused relaunches and operator starts mix.               *)
RelaunchRate == \E i \in 1..(RestartLimit + 1) : relaunches[i] >= Window

(* Stop and Kill block until the process the panel started is gone: not    *)
(* until the game is, which a run.sh may have left behind.                 *)
ReturnMeansGone ==
  [][\A c \in Callers : call[c].slot # None /\ call'[c].slot = None
       => ~Held(call[c].slot)]_vars

(* A Stop that waits for the current process brings the server to rest,    *)
(* whatever the process does: the escalation to SIGKILL and the reaping    *)
(* goroutine see to it.                                                    *)
StopEndsServer ==
  \A c \in Callers :
    (call[c].at = "awaitExit" /\ call[c].slot = proc) ~> state \in Idle

(* The detailed server implements the promised one. *)
Lifecycle == INSTANCE McLifecycle WITH live <- \E g \in Slots : Held(g)
ImplementsLifecycle == Lifecycle!Spec

(* `relaunch after a crash`: an automatic relaunch starts a server whose   *)
(* last process crashed, not one an operator has stopped since.            *)
RelaunchOnlyAfterCrash ==
  [][\A g \in Slots : waiter[g] = "sleeping" /\ relaunches' # relaunches
       => state = "crashed"]_vars

=============================================================================
