----------------------------- MODULE McManager -----------------------------
(***************************************************************************)
(* The supervisor of all Minecraft servers (src/internal/mc/manager.go):   *)
(* mc-running.json, which says who was up, the publish calls that write    *)
(* it, and the life of the panel around it: NewManager, StartupResume,     *)
(* GracefulShutdown, exit, crash.  Each server is an McLifecycle, which    *)
(* McInstance implements.                                                  *)
(*                                                                         *)
(* A SAVE is one run of saveRunningState: it collects who is up under      *)
(* m.mu, writes mc-running.json.tmp and renames it, the last two under no  *)
(* lock.  Every change of a server's state is followed by a save, in the   *)
(* goroutine that made the change, and there are publishes without one.    *)
(* Savers bounds the saves under way at once.                              *)
(*                                                                         *)
(* A server is STUCK while somebody holds its in.mu in a write to its      *)
(* stdin that does not return, because the game does not read: nothing     *)
(* that needs that mutex goes on, a save and GracefulShutdown included.    *)
(* That m.mu is held by who waits so is left out: more can go on here.     *)
(***************************************************************************)
EXTENDS FiniteSets

CONSTANTS
  Servers,
  AutoStart,  \* servers with autostart in their configuration
  Savers,     \* saves under way at once
  None        \* nobody

ASSUME ServersAssumption == AutoStart \subseteq Servers

VARIABLES
  state, live,  \* each server: what the panel shows, and its process
  panel,        \* where the panel process stands
  save,         \* each save: where it stands, for whom it runs, what it collected
  tmp, file,    \* mc-running.json.tmp and mc-running.json: {its list}, or {} if absent
  toStart,      \* servers StartupResume has still to start
  stopper,      \* the Stop that GracefulShutdown runs for each server
  stuck,        \* servers whose in.mu is held by a blocked stdin write
  doubtful,     \* history: the latest save to collect did so beside another, or failed
  wasUp,        \* history: who was up when the panel was told to stop
  waited        \* history: servers this shutdown stops, not launched again since

serverVars == <<state, live>>
saveVars == <<save, tmp, file, doubtful>>
vars == <<state, live, panel, save, tmp, file, toStart, stopper,
          stuck, doubtful, wasUp, waited>>

States == {"stopped", "crashed", "starting", "running", "stopping"}
PanelAt == {"booting", "serving", "saving", "stopping", "leaving", "late", "down"}
Files == {{}} \cup {{ids} : ids \in SUBSET Servers}
NoSave == [at |-> "idle", by |-> None, ids |-> {}]

Server(s) == INSTANCE McLifecycle WITH state <- state[s], live <- live[s]

Up == {s \in Servers : state[s] \in {"running", "starting"}}

TypeOK ==
  /\ state \in [Servers -> States]
  /\ live \in [Servers -> BOOLEAN]
  /\ panel \in PanelAt
  /\ save \in [Savers -> [at : {"idle", "asked", "collected", "written"},
                          by : Servers \cup {"starter", "main", None},
                          ids : SUBSET Servers]]
  /\ tmp \in Files /\ file \in Files
  /\ toStart \in SUBSET Servers
  /\ stopper \in [Servers -> {"none", "called", "waiting"}]
  /\ stuck \in SUBSET Servers
  /\ doubtful \in BOOLEAN
  /\ wasUp \in SUBSET Servers
  /\ waited \in SUBSET Servers

Init ==
  /\ state = [s \in Servers |-> "stopped"] /\ live = [s \in Servers |-> FALSE]
  /\ panel = "down"
  /\ save = [k \in Savers |-> NoSave]
  /\ tmp = {} /\ file = {}
  /\ toStart = {} /\ stopper = [s \in Servers |-> "none"]
  /\ stuck = {} /\ doubtful = FALSE /\ wasUp = {} /\ waited = {}

-----------------------------------------------------------------------------
(* saveRunningState *)

UnderWay(k) == save[k].at \in {"collected", "written"}
Saving(who) == \E k \in Savers : save[k].by = who

(* A change is published by `who`; its save begins. *)
Ask(k, who) ==
  /\ save[k] = NoSave
  /\ save' = [save EXCEPT ![k] = [at |-> "asked", by |-> who, ids |-> {}]]
  /\ UNCHANGED <<tmp, file, doubtful>>

Asked(who) == \E k \in Savers : Ask(k, who)

(* It takes the in.mu of every server. *)
Collect(k) ==
  /\ save[k].at = "asked" /\ stuck = {}
  /\ save' = [save EXCEPT ![k].at = "collected", ![k].ids = Up]
  /\ doubtful' = \E j \in Savers \ {k} : UnderWay(j)
  /\ UNCHANGED <<serverVars, panel, tmp, file, toStart, stopper, stuck, wasUp, waited>>

(* The error of WriteFile or Rename ends the save and is not looked at:    *)
(* nobody tries again before the next publish.                             *)
Fail(k) ==
  /\ save' = [save EXCEPT ![k] = NoSave]
  /\ doubtful' = TRUE
  /\ UNCHANGED <<serverVars, panel, file, toStart, stopper, stuck, wasUp, waited>>

(* A list that is cut short reads as nobody. *)
WriteFails(k) == save[k].at = "collected" /\ Fail(k) /\ tmp' \in {tmp, {{}}}

Write(k) ==
  /\ save[k].at = "collected"
  /\ save' = [save EXCEPT ![k].at = "written"]
  /\ tmp' = {save[k].ids}
  /\ UNCHANGED <<serverVars, panel, file, toStart, stopper, stuck, doubtful,
                 wasUp, waited>>

RenameFails(k) == save[k].at = "written" /\ Fail(k) /\ UNCHANGED tmp

(* Another save may have renamed the shared .tmp away: then nothing        *)
(* happens.                                                                *)
Rename(k) ==
  /\ save[k].at = "written"
  /\ save' = [save EXCEPT ![k] = NoSave]
  /\ file' = IF tmp = {} THEN file ELSE tmp
  /\ tmp' = {}
  /\ UNCHANGED <<serverVars, panel, toStart, stopper, stuck, doubtful,
                 wasUp, waited>>

-----------------------------------------------------------------------------
(* The servers, while the panel runs *)

Alive == panel # "down"
ApiOpen == panel \in {"serving", "saving", "stopping", "leaving", "late"}

Becomes(s, st, lv) == state' = [state EXCEPT ![s] = st] /\ live' = [live EXCEPT ![s] = lv]

(* An operator's Start, a relaunch after a crash, the scheduler.           *)
Launch(s) ==
  /\ ApiOpen
  /\ Becomes(s, "starting", TRUE) /\ Server(s)!Launch
  /\ Asked(None)
  /\ waited' = waited \ {s}
  /\ UNCHANGED <<panel, toStart, stopper, stuck, wasUp>>

(* The console shows the server up, or going down; or an operator stops    *)
(* it.                                                                     *)
Change(s) ==
  /\ Alive /\ s \notin stuck
  /\ \E st \in {"running", "stopping"} : Becomes(s, st, live[s])
  /\ Server(s)!Ready \/ Server(s)!Wind
  /\ Asked(None)
  /\ UNCHANGED <<panel, toStart, stopper, stuck, wasUp, waited>>

(* The process ends; waitForExit has yet to see it. *)
Die(s) ==
  /\ Alive
  /\ Becomes(s, state[s], FALSE) /\ Server(s)!Die
  /\ UNCHANGED <<panel, saveVars, toStart, stopper, stuck, wasUp, waited>>

\* Mistake: the end of a process is not published.
EndedQuietly(s) ==
  /\ Alive /\ s \notin stuck
  /\ \E st \in {"stopped", "crashed"} : Becomes(s, st, FALSE)
  /\ Server(s)!Ended
  /\ UNCHANGED <<panel, saveVars, toStart, stopper, stuck, wasUp, waited>>

(* waitForExit records the end. *)
Ended(s) ==
  /\ Alive /\ s \notin stuck
  /\ \E st \in {"stopped", "crashed"} : Becomes(s, st, FALSE)
  /\ Server(s)!Ended
  /\ Asked(None)
  /\ UNCHANGED <<panel, toStart, stopper, stuck, wasUp, waited>>

(* What else publishes changes no state: samples every two seconds while   *)
(* a browser looks on, a setting, a rescan, a restore, a new jar.          *)
Publish ==
  /\ Alive /\ Asked(None)
  /\ UNCHANGED <<serverVars, panel, toStart, stopper, stuck, wasUp, waited>>

(* A command (a Stop's `stop` among them) fills the pipe of a game that    *)
(* does not read.                                                          *)
Block(s) ==
  /\ Alive /\ s \notin stuck
  /\ state[s] \in {"starting", "running", "stopping"}
  /\ stuck' = stuck \cup {s}
  /\ UNCHANGED <<serverVars, panel, saveVars, toStart, stopper, wasUp, waited>>

(* It reads again, or its end of the pipe is closed. *)
Unblock(s) ==
  /\ s \in stuck
  /\ stuck' = stuck \ {s}
  /\ UNCHANGED <<serverVars, panel, saveVars, toStart, stopper, wasUp, waited>>

-----------------------------------------------------------------------------
(* The panel starts *)

(* NewManager: every server is found stopped, and Rescan publishes that in *)
(* a goroutine of its own.                                                 *)
Boot ==
  /\ panel = "down" /\ panel' = "booting"
  /\ Asked(None)
  /\ UNCHANGED <<serverVars, toStart, stopper, stuck, wasUp, waited>>

(* StartupResume reads the file while it holds m.mu. *)
Load ==
  /\ panel = "booting" /\ panel' = "serving"
  /\ toStart' = AutoStart \cup UNION file
  /\ wasUp' = {}
  /\ UNCHANGED <<serverVars, saveVars, stopper, stuck, waited>>

(* It starts them one by one; Start returns when its save is done. *)
StartNext(s) ==
  /\ ApiOpen /\ s \in toStart /\ ~Saving("starter")
  /\ toStart' = toStart \ {s}
  /\ Becomes(s, "starting", TRUE) /\ Server(s)!Launch
  /\ Asked("starter")
  /\ waited' = waited \ {s}
  /\ UNCHANGED <<panel, stopper, stuck, wasUp>>

(* Start refuses: no EULA, the port is taken, somebody was faster. *)
StartFails(s) ==
  /\ ApiOpen /\ s \in toStart /\ ~Saving("starter")
  /\ toStart' = toStart \ {s}
  /\ UNCHANGED <<serverVars, panel, saveVars, stopper, stuck, wasUp, waited>>

-----------------------------------------------------------------------------
(* The panel stops *)

(* SIGTERM: GracefulShutdown saves who is up. *)
Signal ==
  /\ panel = "serving" /\ panel' = "saving"
  /\ Asked("main")
  /\ wasUp' = Up
  /\ UNCHANGED <<serverVars, toStart, stopper, stuck, waited>>

(* It spawns a Stop for every server that is up, having taken the in.mu of *)
(* every one.                                                              *)
Pass ==
  /\ panel = "saving" /\ ~Saving("main") /\ stuck = {}
  /\ panel' = "stopping"
  /\ stopper' = [s \in Servers |-> IF s \in Up THEN "called" ELSE "none"]
  /\ UNCHANGED <<serverVars, saveVars, toStart, stuck, wasUp, waited>>

StopServer(s) ==
  /\ stopper[s] = "called" /\ s \in Up \ stuck
  /\ Becomes(s, "stopping", live[s]) /\ Server(s)!Wind
  /\ Asked(s)
  /\ stopper' = [stopper EXCEPT ![s] = "waiting"]
  /\ waited' = waited \cup {s}
  /\ UNCHANGED <<panel, toStart, stuck, wasUp>>

(* The server went down by itself since: Stop returns an error. *)
StopRefused(s) ==
  /\ stopper[s] = "called" /\ s \notin Up \cup stuck
  /\ stopper' = [stopper EXCEPT ![s] = "none"]
  /\ UNCHANGED <<serverVars, panel, saveVars, toStart, stuck, wasUp, waited>>

\* Mistake: Stop returns when its command is written.
StopReturnsAtOnce(s) ==
  /\ stopper[s] = "waiting" /\ ~Saving(s)
  /\ stopper' = [stopper EXCEPT ![s] = "none"]
  /\ UNCHANGED <<serverVars, panel, saveVars, toStart, stuck, wasUp, waited>>

(* Stop returns once the process it stopped is gone; a later launch (s has  *)
(* left `waited`) is not its business.                                     *)
StopReturns(s) ==
  /\ stopper[s] = "waiting" /\ ~Saving(s)
  /\ s \in waited => ~live[s]
  /\ stopper' = [stopper EXCEPT ![s] = "none"]
  /\ UNCHANGED <<serverVars, panel, saveVars, toStart, stuck, wasUp, waited>>

(* Every Stop has returned. *)
AllStopped ==
  /\ panel = "stopping" /\ \A s \in Servers : stopper[s] = "none"
  /\ panel' = "leaving"
  /\ UNCHANGED <<serverVars, saveVars, toStart, stopper, stuck, wasUp, waited>>

\* Mistake: GracefulShutdown waits without a limit.
NoTimeout == FALSE /\ UNCHANGED vars

(* Two minutes are over. *)
Timeout ==
  /\ panel = "stopping" /\ panel' = "late"
  /\ UNCHANGED <<serverVars, saveVars, toStart, stopper, stuck, wasUp, waited>>

(* The process ends, and with it its goroutines, and its children: systemd *)
(* kills what is left in the unit's control group.                         *)
Gone ==
  /\ panel' = "down"
  /\ state' = [s \in Servers |-> "stopped"] /\ live' = [s \in Servers |-> FALSE]
  /\ save' = [k \in Savers |-> NoSave]
  /\ toStart' = {} /\ stopper' = [s \in Servers |-> "none"]
  /\ waited' = {} /\ stuck' = {} /\ doubtful' = FALSE
  /\ UNCHANGED <<tmp, file>>

Exit == panel \in {"leaving", "late"} /\ Gone /\ UNCHANGED wasUp

Crash == Alive /\ Gone /\ wasUp' = {}

-----------------------------------------------------------------------------

SaveStep(k) ==
  Collect(k) \/ Write(k) \/ WriteFails(k) \/ Rename(k) \/ RenameFails(k)

ServerStep(s) ==
  \/ Launch(s) \/ Change(s) \/ Die(s) \/ Ended(s)
  \/ StartNext(s) \/ StartFails(s)
  \/ StopServer(s) \/ StopRefused(s) \/ StopReturns(s)
  \/ Block(s) \/ Unblock(s)

Next ==
  \/ Boot \/ Load \/ Publish
  \/ Signal \/ Pass \/ AllStopped \/ Timeout \/ Exit \/ Crash
  \/ \E k \in Savers : SaveStep(k)
  \/ \E s \in Servers : ServerStep(s)

Spec == Init /\ [][Next]_vars

(* The panel's goroutines run when the mutexes they need are free, and the *)
(* timer, once GracefulShutdown has set it, fires; a process, an operator  *)
(* and a signal owe nothing, and a blocked write need never return.        *)
Fairness ==
  /\ \A k \in Savers : WF_vars(SaveStep(k))
  /\ WF_vars(Pass) /\ WF_vars(AllStopped) /\ WF_vars(Timeout) /\ WF_vars(Exit)

FairSpec == Spec /\ Fairness

-----------------------------------------------------------------------------
(* Properties *)

(* Every change of who is up reaches mc-running.json: when no save is      *)
(* under way, and the latest one ran alone and did not fail, the file says *)
(* who is up.  Saves that overlap may leave an older list in the file, and *)
(* one whose write or rename fails leaves the old one.                     *)
QuietFileIsRight ==
  Alive /\ (\A k \in Savers : save[k] = NoSave) /\ ~doubtful
    => file = {Up}

(* `Stop game servers cleanly before the panel exits`: when                *)
(* GracefulShutdown returns in time, every server whose Stop was accepted  *)
(* has no process the panel started (game or shell, see McInstance),       *)
(* unless it was launched again.                                           *)
StopsAreAwaited == panel = "leaving" => \A s \in waited : ~live[s]

(* SIGTERM ends the panel.  Once the Stops are spawned it ends whatever    *)
(* the servers do, also one that never ends or never reads its stdin.      *)
(* Before, GracefulShutdown needs every in.mu and has no timer yet: it     *)
(* gets there if no write stays blocked for ever.                          *)
ShutdownEnds ==
  /\ panel = "stopping" ~> panel = "down"
  /\ <>[](stuck = {}) => (panel = "saving" ~> panel = "down")

(* `Restart servers that were running when the panel last shut down`.      *)
ResumesWhoWasUp ==
  [][panel = "booting" /\ panel' = "serving" => wasUp \subseteq toStart']_vars

=============================================================================
