------------------------------ MODULE Backups ------------------------------
(***************************************************************************)
(* Archives of one Minecraft server: CreateBackup, DeleteBackup and        *)
(* PruneBackups of src/internal/mc/manager.go and import.go, the archiver  *)
(* of backup.go, and the retention goroutine of                            *)
(* cmd/control-panel/sched_exec.go, beside the game they work around.      *)
(*                                                                         *)
(* A directory is what it holds: for every part of the world (a file) the  *)
(* save it is of, 0 when it is absent.  Archives are named by the second   *)
(* they are begun in, so names can collide.                                *)
(* MaxSave, MaxTime and MaxPipe bound the saves of the world, the clock    *)
(* and the commands the game has not read.                                 *)
(***************************************************************************)
EXTENDS Naturals, Sequences, FiniteSets

CONSTANTS
  Parts,      \* the files of a server directory
  FirstPart,  \* the file a new server has
  Keep,       \* how many archives a scheduled backup keeps
  MaxSave, MaxTime, MaxPipe,
  None        \* no directory, no archive

ASSUME BackupsAssumption ==
  /\ FirstPart \in Parts /\ Keep \in Nat \ {0}
  /\ MaxSave \in Nat \ {0} /\ MaxTime \in Nat \ {0} /\ MaxPipe \in Nat

VARIABLES
  live,      \* the server directory
  incoming,  \* what a restore is about to put there
  archives,  \* the archives by name
  partial,   \* the archive that is being written
  now,       \* the second the clock shows
  server,    \* in.state ("stopping" is the end of "running": Quit)
  home,      \* the game's process is in the live directory, not in a displaced one
  saves,     \* the game saves on its own
  pipe,      \* commands the game has not read
  job,       \* the backup job
  pruner,    \* the goroutine that applies retention after a scheduled backup
  made       \* history: the names of the archives that were finished

diskVars == <<live, incoming, archives, partial>>
gameVars == <<server, home, saves, pipe>>
vars == <<diskVars, gameVars, now, job, pruner, made>>

Times == 1..MaxTime
Dir == [Parts -> 0..MaxSave]
Empty == [p \in Parts |-> 0]

JobAt == {"none", "check", "save-off", "flush", "listen", "wait", "open", "archive", "resume", "end"}
NoJob == [at |-> "none", wasUp |-> FALSE, keep |-> FALSE, name |-> 0,
          todo |-> {}, ok |-> FALSE, calm |-> FALSE]
NoPruner == [at |-> "none", list |-> {}]

TypeOK ==
  /\ live \in Dir \cup {None} /\ incoming \in Dir \cup {None} /\ partial \in Dir \cup {None}
  /\ archives \in [Times -> Dir \cup {None}]
  /\ now \in Times
  /\ server \in {"stopped", "starting", "running"}
  /\ home \in BOOLEAN /\ saves \in BOOLEAN
  /\ pipe \in Seq({"off", "flush", "on"})
  /\ job \in [at : JobAt, wasUp : BOOLEAN, keep : BOOLEAN, name : Times \cup {0},
              todo : SUBSET Parts, ok : BOOLEAN, calm : BOOLEAN]
  /\ pruner \in [at : {"none", "watch", "delete"}, list : SUBSET Times]
  /\ made \in SUBSET Times

(* A new server: its first file, no archive, nothing running. *)
Init ==
  /\ live = [Empty EXCEPT ![FirstPart] = 1] /\ incoming = None /\ partial = None
  /\ archives = [t \in Times |-> None]
  /\ now = 1
  /\ server = "stopped" /\ home = TRUE /\ saves = TRUE /\ pipe = <<>>
  /\ job = NoJob /\ pruner = NoPruner
  /\ made = {}

Newest(d) == CHOOSE n \in {d[p] : p \in Parts} : \A p \in Parts : d[p] <= n
Even(d) == \A p, q \in Parts : d[p] = d[q]

(* The walk of a directory and an archive have one order. *)
NextFile(p, todo) == p \in todo /\ (FirstPart \in todo => p = FirstPart)

(* What a job archives is disturbed when the server starts or ends, or its *)
(* directory is exchanged, under it.                                       *)
Disturbed(j) == [j EXCEPT !.calm = FALSE]

(* A second in which nothing was named is left out. *)
Tick ==
  /\ now < MaxTime /\ (archives[now] # None \/ job.name = now)
  /\ now' = now + 1
  /\ UNCHANGED <<diskVars, gameVars, job, pruner, made>>

-----------------------------------------------------------------------------
(* The game *)

(* The process starts in the directory; without one it cannot. *)
Start ==
  /\ server = "stopped" /\ live # None
  /\ server' = "starting" /\ home' = TRUE /\ saves' = TRUE /\ pipe' = <<>>
  /\ job' = Disturbed(job)
  /\ UNCHANGED <<diskVars, now, pruner, made>>

Ready == server = "starting" /\ server' = "running"
         /\ UNCHANGED <<diskVars, home, saves, pipe, now, job, pruner, made>>

(* What the process of a displaced directory writes is of no use to us. *)
WriteWorld(d) ==
  /\ live' = IF home /\ live # None THEN d ELSE live
  /\ UNCHANGED <<incoming, archives, partial>>

(* The game saves one file of its world: a save has a first one and others. *)
Autosave(p) ==
  /\ server # "stopped" /\ saves /\ home /\ live # None
  /\ live[p] < MaxSave
  /\ IF p = FirstPart THEN Even(live) ELSE live[p] < live[FirstPart]
  /\ WriteWorld([live EXCEPT ![p] = @ + 1])
  /\ UNCHANGED <<gameVars, now, job, pruner, made>>

(* The process ends: an orderly one saves the whole world first. *)
Quit ==
  /\ server # "stopped"
  /\ server' = "stopped" /\ pipe' = <<>> /\ saves' = TRUE /\ home' = TRUE
  /\ \/ WriteWorld([p \in Parts |-> Newest(live)])
     \/ UNCHANGED diskVars
  /\ job' = Disturbed(job)
  /\ UNCHANGED <<now, pruner, made>>

(* The game reads its console; a flush writes everything and says so.  Only *)
(* a job that is listening hears it.                                       *)
ReadCommand ==
  /\ server = "running" /\ pipe # <<>>
  /\ pipe' = Tail(pipe)
  /\ saves' = IF Head(pipe) = "flush" THEN saves ELSE Head(pipe) = "on"
  /\ IF Head(pipe) = "flush"
     THEN /\ WriteWorld([p \in Parts |-> Newest(live)])
          /\ job' = IF job.at = "wait" THEN [job EXCEPT !.at = "open"] ELSE job
     ELSE UNCHANGED <<diskVars, job>>
  /\ UNCHANGED <<server, home, now, pruner, made>>

(* Command writes to a process that boots, runs or goes down; without one  *)
(* it fails, unheeded.                                                     *)
Command(c) ==
  IF server # "stopped" THEN Len(pipe) < MaxPipe /\ pipe' = Append(pipe, c) ELSE UNCHANGED pipe

(* An operator asks for a save of his own: the job may take its echo for   *)
(* the answer to its own.                                                  *)
OperatorSave ==
  /\ server # "stopped" /\ Command("flush")
  /\ job' = Disturbed(job)
  /\ UNCHANGED <<diskVars, server, home, saves, now, pruner, made>>

-----------------------------------------------------------------------------
(* The backup job *)

jobOnly == <<gameVars, now, pruner, made>>

(* The runner takes one job; a schedule with retention watches its own     *)
(* (one such goroutine at a time is enough here).                          *)
CreateBackup(keep) ==
  /\ job.at = "none"
  /\ keep => pruner = NoPruner
  /\ job' = [NoJob EXCEPT !.at = "check", !.keep = keep, !.todo = Parts]
  /\ pruner' = IF keep THEN [NoPruner EXCEPT !.at = "watch"] ELSE pruner
  /\ UNCHANGED <<diskVars, gameVars, now, made>>

CheckRunning ==
  /\ job.at = "check"
  /\ job' = [job EXCEPT !.wasUp = (server = "running"),
                        !.at = IF server = "running" THEN "save-off" ELSE "open",
                        !.calm = (server # "starting" /\ pipe = <<>> /\ home)]
  /\ UNCHANGED <<diskVars, jobOnly>>

AskSaveOff ==
  /\ job.at = "save-off" /\ Command("off")
  /\ job' = [job EXCEPT !.at = "flush"]
  /\ UNCHANGED <<diskVars, server, home, saves, now, pruner, made>>

AskFlush ==
  /\ job.at = "flush" /\ Command("flush")
  /\ job' = [job EXCEPT !.at = "listen"]
  /\ UNCHANGED <<diskVars, server, home, saves, now, pruner, made>>

\* Mistake: the archive is begun without waiting for the answer.
DoNotWait ==
  /\ job.at = "listen" /\ job' = [job EXCEPT !.at = "open"]
  /\ UNCHANGED <<diskVars, jobOnly>>

(* waitForLine subscribes only now: an answer that came before is missed. *)
Listen ==
  /\ job.at = "listen" /\ job' = [job EXCEPT !.at = "wait"]
  /\ UNCHANGED <<diskVars, jobOnly>>

(* No answer within a minute: archived anyway, with a warning. *)
WaitTimesOut ==
  /\ job.at = "wait" /\ job' = [job EXCEPT !.at = "open", !.calm = FALSE]
  /\ UNCHANGED <<diskVars, jobOnly>>

(* tarGzDir: the archive is written under another name. *)
OpenArchive ==
  /\ job.at = "open"
  /\ partial' = Empty
  /\ job' = [job EXCEPT !.at = "archive", !.name = now]
  /\ UNCHANGED <<live, incoming, archives, jobOnly>>

ArchivePart(p) ==
  /\ job.at = "archive" /\ NextFile(p, job.todo) /\ live # None
  /\ partial' = [partial EXCEPT ![p] = live[p]]
  /\ job' = [job EXCEPT !.todo = @ \ {p}]
  /\ UNCHANGED <<live, incoming, archives, jobOnly>>

(* The walk fails: canceled, no directory, or an error of the disk. *)
ArchiveFails ==
  /\ job.at \in {"open", "archive"}
  /\ partial' = IF job.at = "archive" THEN None ELSE partial
  /\ job' = [job EXCEPT !.at = "resume"]
  /\ UNCHANGED <<live, incoming, archives, jobOnly>>

ArchiveDone ==
  /\ job.at = "archive" /\ job.todo = {}
  /\ archives' = [archives EXCEPT ![job.name] = partial] /\ partial' = None
  /\ job' = [job EXCEPT !.at = "resume", !.ok = TRUE]
  /\ made' = made \cup {job.name}
  /\ UNCHANGED <<live, incoming, gameVars, now, pruner>>

\* Mistake: saves are resumed by the path that succeeds.
ResumeIfDone ==
  /\ job.at = "resume" /\ job' = [job EXCEPT !.at = "end"]
  /\ IF job.wasUp /\ job.ok THEN Command("on") ELSE UNCHANGED pipe
  /\ UNCHANGED <<diskVars, server, home, saves, now, pruner, made>>

(* The deferred save-on, on every way out. *)
ResumeSaves ==
  /\ job.at = "resume" /\ job' = [job EXCEPT !.at = "end"]
  /\ IF job.wasUp THEN Command("on") ELSE UNCHANGED pipe
  /\ UNCHANGED <<diskVars, server, home, saves, now, pruner, made>>

\* Mistake: the newest go.
BeyondOldest ==
  {t \in Times : archives[t] # None /\ Cardinality({u \in 1..t - 1 : archives[u] # None}) >= Keep}

(* Backups beyond the newest Keep, by the time of their last write. *)
Newer(t) == {u \in Times : archives[u] # None /\ u > t}
Beyond == {t \in Times : archives[t] # None /\ Cardinality(Newer(t)) >= Keep}

(* The end is recorded: a backup that failed, or was canceled however far   *)
(* it was, is not followed by retention.                                   *)
EndJob ==
  /\ job.at = "end"
  /\ job' = NoJob
  /\ \/ job.ok /\ UNCHANGED pruner
     \/ pruner' = IF job.keep THEN NoPruner ELSE pruner
  /\ UNCHANGED <<diskVars, gameVars, now, made>>

PruneList ==
  /\ pruner.at = "watch" /\ ~(job.at # "none" /\ job.keep)
  /\ pruner' = [at |-> "delete", list |-> Beyond]
  /\ UNCHANGED <<diskVars, gameVars, now, job, made>>

(* One archive goes; one that is gone already ends the pruning. *)
PruneDelete(t) ==
  /\ pruner.at = "delete" /\ t \in pruner.list /\ \A u \in pruner.list : u <= t
  /\ archives' = [archives EXCEPT ![t] = None]
  /\ pruner' = IF archives[t] = None THEN NoPruner ELSE [pruner EXCEPT !.list = @ \ {t}]
  /\ UNCHANGED <<live, incoming, partial, gameVars, now, job, made>>

(* Nothing is left to delete; or the hour is over while the job runs, or   *)
(* the job is no longer in the history.                                    *)
PruneEnds ==
  /\ \/ pruner.at = "delete" /\ pruner.list = {}
     \/ pruner.at = "watch"
  /\ pruner' = NoPruner
  /\ UNCHANGED <<diskVars, gameVars, now, job, made>>

DeleteBackup(t) ==
  /\ archives[t] # None
  /\ archives' = [archives EXCEPT ![t] = None]
  /\ UNCHANGED <<live, incoming, partial, gameVars, now, job, pruner, made>>

-----------------------------------------------------------------------------
(* RestoreBackup, as the archives see it: ServerDir has its steps and ways  *)
(* to fail.  The state was looked at long before the directories are moved, *)
(* and a process that runs by then goes on in the displaced one.           *)
MoveAside(t) ==
  /\ live # None /\ archives[t] # None
  /\ incoming' = archives[t] /\ live' = None
  /\ home' = FALSE
  /\ job' = Disturbed(job)
  /\ UNCHANGED <<archives, partial, server, saves, pipe, now, pruner, made>>

SwapIn ==
  /\ incoming # None
  /\ live' = incoming /\ incoming' = None
  /\ job' = Disturbed(job)
  /\ UNCHANGED <<archives, partial, gameVars, now, pruner, made>>

(* The panel dies, and its children with it; the files stay as they are. *)
Crash ==
  /\ server' = "stopped" /\ home' = TRUE /\ saves' = TRUE /\ pipe' = <<>>
  /\ job' = NoJob /\ pruner' = NoPruner
  /\ incoming' = None
  /\ UNCHANGED <<live, archives, partial, now, made>>

GameStep == Start \/ Ready \/ (\E p \in Parts : Autosave(p)) \/ Quit \/ ReadCommand \/ OperatorSave

JobStep ==
  \/ CheckRunning \/ AskSaveOff \/ AskFlush \/ Listen \/ WaitTimesOut
  \/ OpenArchive \/ (\E p \in Parts : ArchivePart(p)) \/ ArchiveFails \/ ArchiveDone
  \/ ResumeSaves \/ EndJob

PruneStep == PruneList \/ (\E t \in Times : PruneDelete(t)) \/ PruneEnds

Next ==
  \/ Tick \/ GameStep \/ JobStep \/ PruneStep \/ Crash
  \/ \E keep \in BOOLEAN : CreateBackup(keep)
  \/ (\E t \in Times : DeleteBackup(t) \/ MoveAside(t)) \/ SwapIn

Spec == Init /\ [][Next]_vars

-----------------------------------------------------------------------------
(* Properties *)

(* An archive of a running server whose job got its own answer and was     *)
(* disturbed by nothing holds one save of the world, not two halves.  (A   *)
(* server that crashed, boots or goes down is archived as it is.)          *)
CalmArchiveIsEven ==
  job.at = "archive" /\ job.todo = {} /\ job.calm /\ job.wasUp => Even(partial)

(* Once a backup job is over, the game saves on its own again as soon as   *)
(* it has read its console, however the job ended (the deferred save-on).  *)
SavesAreBack ==
  job.at = "none" /\ server = "running" /\ pipe = <<>> => saves

(* Retention deletes an archive only if Keep newer ones were finished.     *)
PruneKeepsNewest ==
  \A t \in pruner.list : archives[t] # None =>
    Cardinality({u \in made : u > t}) >= Keep

=============================================================================
