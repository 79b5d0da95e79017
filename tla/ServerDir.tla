----------------------------- MODULE ServerDir -----------------------------
(***************************************************************************)
(* The directory of one Minecraft server id and who makes, fills, replaces *)
(* and removes it: RestoreBackup and Rescan (src/internal/mc/manager.go),  *)
(* CreateServer and UpdateJar (provision.go, with the downloads of         *)
(* fetcher.go), ImportServer (import.go, with the extraction of            *)
(* mcfiles/zip.go), and a panel that may die at any point.                 *)
(*                                                                         *)
(* A directory is what it holds: for every file where it comes from.       *)
(* Restores run in their requests, several at a time; creation, import and *)
(* a new jar run as jobs, one at a time in the whole panel, but look at    *)
(* the directory before they have the job.  MaxTime bounds the clock that  *)
(* names displaced directories.                                            *)
(***************************************************************************)
EXTENDS Naturals, FiniteSets

CONSTANTS
  Files,     \* what a server directory may hold
  Jar,       \* the one of them that a creation downloads first
  Archives,  \* the archives of this id: each holds all files
  Requests,  \* requests of the API
  MaxTime,
  Nil        \* no directory, no archive, nobody

Origins == {"absent", "old", "new"} \cup Archives
Dir == [Files -> Origins]
All(origin) == [f \in Files |-> origin]
Empty == All("absent")

ASSUME ServerDirAssumption ==
  /\ Jar \in Files /\ MaxTime \in Nat \ {0}
  /\ Nil \notin Archives \cup Requests \cup Dir

VARIABLES
  live,      \* <root>/<id>
  tmp,       \* <root>/<id>.restore-tmp
  replaced,  \* <backups>/<id>/replaced-<time>
  now,       \* the second the clock shows
  listed,    \* m.instances has the id
  state,     \* in.state of the instance, listed or not
  runner,    \* the request whose job runs
  req        \* each request: what it does and how far it is

serverDirVars == <<live, tmp, replaced, now, listed, state, runner, req>>
diskVars == <<live, tmp, replaced>>

Times == 1..MaxTime

(* looksLikeServer: any of its files will do. *)
LooksLikeServer(d) == d # Nil /\ d # Empty

Idle == [kind |-> "none", at |-> "none", src |-> Nil, todo |-> {}, name |-> 0, alone |-> TRUE]
Kinds == {"restore", "create", "import", "jar"}
Steps == {"extract", "swap", "looked", "fill", "download", "write", "rescan"}

ServerDirTypeOK ==
  /\ live \in Dir \cup {Nil} /\ tmp \in Dir \cup {Nil}
  /\ replaced \in [Times -> Dir \cup {Nil}]
  /\ now \in Times /\ listed \in BOOLEAN
  /\ state \in {"stopped", "crashed", "up"}
  /\ runner \in Requests \cup {Nil}
  /\ req \in [Requests -> [kind : Kinds \cup {"none"}, at : Steps \cup {"none"},
                           src : Archives \cup {Nil}, todo : SUBSET Files,
                           name : Times \cup {0}, alone : BOOLEAN]]

(* A server the panel manages, or an id that is free. *)
ServerDirInit ==
  /\ \/ live = All("old") /\ listed = TRUE
     \/ live = Nil /\ listed = FALSE
  /\ tmp = Nil /\ replaced = [t \in Times |-> Nil] /\ now = 1
  /\ state = "stopped"
  /\ runner = Nil /\ req = [r \in Requests |-> Idle]

(* A second in which nothing was named is left out. *)
Tick ==
  /\ now < MaxTime /\ replaced[now] # Nil
  /\ now' = now + 1
  /\ UNCHANGED <<diskVars, listed, state, runner, req>>

At(r, kind, at) == req[r].kind = kind /\ req[r].at = at
NextFile(f, todo) == f \in todo /\ (Jar \in todo => f = Jar)
Put(d, f, origin) == [(IF d = Nil THEN Empty ELSE d) EXCEPT ![f] = origin]

-----------------------------------------------------------------------------
(* The server and the list of servers *)

(* Start finds the instance in the list; a crashed server with autoRestart *)
(* is started again by its own goroutine, which looks at no list.          *)
Launch ==
  /\ LooksLikeServer(live)
  /\ state = "crashed" \/ (state = "stopped" /\ listed)
  /\ state' = "up"
  /\ UNCHANGED <<diskVars, now, listed, runner, req>>

End ==
  /\ state = "up" /\ \E s \in {"stopped", "crashed"} : state' = s
  /\ UNCHANGED <<diskVars, now, listed, runner, req>>

(* Rescan: found directories are listed, instances at rest without one go. *)
Scanned ==
  IF LooksLikeServer(live) THEN TRUE ELSE listed /\ state = "up"

Rescan ==
  /\ listed' = Scanned /\ listed' # listed
  /\ UNCHANGED <<diskVars, now, state, runner, req>>

(* The panel dies and starts again: nothing but files survives. *)
Crash ==
  /\ listed' = LooksLikeServer(live) /\ state' = "stopped"
  /\ runner' = Nil /\ req' = [r \in Requests |-> Idle]
  /\ UNCHANGED <<diskVars, now>>

-----------------------------------------------------------------------------
(* RestoreBackup, in the goroutine of its request *)

serverVars == <<now, listed, state, runner>>
Restoring == {r \in Requests : req[r].kind = "restore"}

(* The state is checked under in.mu; then tmp is made anew. *)
RestoreBegin(r, a) ==
  /\ req[r] = Idle /\ listed /\ state # "up"
  /\ tmp' = Empty
  /\ req' = [q \in Requests |->
       IF q = r THEN [kind |-> "restore", at |-> "extract", src |-> a, todo |-> Files,
                      name |-> 0, alone |-> Restoring = {}]
       ELSE IF q \in Restoring THEN [req[q] EXCEPT !.alone = FALSE] ELSE req[q]]
  /\ UNCHANGED <<live, replaced, serverVars>>

(* extractTarGz makes the directories of a file again if they went. *)
Extract(r, f) ==
  /\ At(r, "restore", "extract") /\ NextFile(f, req[r].todo)
  /\ tmp' = Put(tmp, f, req[r].src)
  /\ req' = [req EXCEPT ![r].todo = @ \ {f}]
  /\ UNCHANGED <<live, replaced, serverVars>>

(* The archive cannot be read to its end: the server is untouched. *)
ExtractFails(r) ==
  /\ At(r, "restore", "extract")
  /\ tmp' = Nil /\ req' = [req EXCEPT ![r] = Idle]
  /\ UNCHANGED <<live, replaced, serverVars>>

\* Mistake: what stands in the way is removed.
MoveOver(r) ==
  /\ At(r, "restore", "extract") /\ req[r].todo = {} /\ live # Nil
  /\ replaced' = [replaced EXCEPT ![now] = live] /\ live' = Nil
  /\ req' = [req EXCEPT ![r].at = "swap", ![r].name = now]
  /\ UNCHANGED <<tmp, serverVars>>

\* Mistake: the directories are exchanged before the archive is extracted.
MoveEarly(r) ==
  /\ At(r, "restore", "extract") /\ live # Nil
  /\ replaced[now] \in {Nil, Empty}
  /\ replaced' = [replaced EXCEPT ![now] = live] /\ live' = Nil
  /\ req' = [req EXCEPT ![r].at = "swap", ![r].name = now]
  /\ UNCHANGED <<tmp, serverVars>>

(* The live directory is moved aside, whatever the server does by now; a   *)
(* rename to the name of a directory that holds something fails.           *)
MoveAside(r) ==
  /\ At(r, "restore", "extract") /\ req[r].todo = {} /\ live # Nil
  /\ replaced[now] \in {Nil, Empty}
  /\ replaced' = [replaced EXCEPT ![now] = live] /\ live' = Nil
  /\ req' = [req EXCEPT ![r].at = "swap", ![r].name = now]
  /\ UNCHANGED <<tmp, serverVars>>

MoveAsideFails(r) ==
  /\ At(r, "restore", "extract") /\ req[r].todo = {}
  /\ tmp' = Nil /\ req' = [req EXCEPT ![r] = Idle]
  /\ UNCHANGED <<live, replaced, serverVars>>

(* Whoever else works on this id is no longer alone. *)
Finished(r) == [q \in Requests |->
  IF q = r \/ req[q] = Idle THEN Idle ELSE [req[q] EXCEPT !.alone = FALSE]]

SwapIn(r) ==
  /\ At(r, "restore", "swap") /\ tmp # Nil /\ live \in {Nil, Empty}
  /\ live' = tmp /\ tmp' = Nil
  /\ req' = Finished(r)
  /\ UNCHANGED <<replaced, serverVars>>

(* The second rename failed: the first is undone, if the place is free. *)
RollBack(r) ==
  /\ At(r, "restore", "swap")
  /\ IF live \in {Nil, Empty}
     THEN live' = replaced[req[r].name] /\ replaced' = [replaced EXCEPT ![req[r].name] = Nil]
     ELSE UNCHANGED <<live, replaced>>
  /\ tmp' = Nil /\ req' = Finished(r)
  /\ UNCHANGED serverVars

-----------------------------------------------------------------------------
(* Jobs that fill the directory *)

(* CreateServer and ImportServer look whether the id is free... *)
Look(r, kind) ==
  /\ req[r] = Idle /\ ~listed /\ live = Nil
  /\ req' = [req EXCEPT ![r] = [Idle EXCEPT !.kind = kind, !.at = "looked"]]
  /\ UNCHANGED <<diskVars, now, listed, state, runner>>

(* ...and then take the job, and make the directory if there is none yet.  *)
(* alone records whether what was seen was still so.                       *)
MakeDir(r, kind) ==
  /\ At(r, kind, "looked") /\ runner = Nil
  /\ runner' = r /\ live' = IF live = Nil THEN Empty ELSE live
  /\ req' = [req EXCEPT ![r].at = "fill", ![r].todo = Files, ![r].alone = (live = Nil)]
  /\ UNCHANGED <<tmp, replaced, now, listed, state>>

Refused(r, kind) ==
  /\ At(r, kind, "looked") /\ runner # Nil
  /\ req' = [req EXCEPT ![r] = Idle]
  /\ UNCHANGED <<diskVars, now, listed, state, runner>>

(* UnzipInto: one entry, with the directories above it. *)
Unzip(r, f) ==
  /\ At(r, "import", "fill") /\ NextFile(f, req[r].todo)
  /\ live' = Put(live, f, "new")
  /\ req' = [req EXCEPT ![r].todo = @ \ {f}, ![r].at = IF @ = "fill" /\ req[r].todo = {f} THEN "rescan" ELSE @]
  /\ UNCHANGED <<tmp, replaced, now, listed, state, runner>>

(* FetchJar asks the project of the flavor for the name, the address and   *)
(* the checksum of the jar ...                                             *)
FetchJar(r, kind) ==
  /\ At(r, kind, "fill")
  /\ req' = [req EXCEPT ![r].at = "download", ![r].todo = {}]
  /\ UNCHANGED <<diskVars, now, listed, state, runner>>

(* ... and downloads it under another name, verifies it, and only then     *)
(* renames it; without its directory that fails.                           *)
Download(r, kind) ==
  /\ At(r, kind, "download") /\ live # Nil
  /\ live' = [live EXCEPT ![Jar] = "new"]
  /\ req' = [req EXCEPT ![r].at = IF kind = "create" THEN "write" ELSE "rescan"]
  /\ UNCHANGED <<tmp, replaced, now, listed, state, runner>>

(* `Leave nothing half-imported`: the directory is removed. *)
FillFails(r, kind) ==
  /\ At(r, kind, "fill") \/ At(r, kind, "download")
  /\ live' = IF kind = "jar" THEN live ELSE Nil
  /\ runner' = Nil /\ req' = [req EXCEPT ![r] = Idle]
  /\ UNCHANGED <<tmp, replaced, now, listed, state>>

(* server.properties and eula.txt, in the directory if it is there. *)
WriteInitialFiles(r) ==
  /\ At(r, "create", "write") /\ live # Nil
  /\ live' = [f \in Files |-> IF f = Jar THEN live[f] ELSE "new"]
  /\ req' = [req EXCEPT ![r].at = "rescan"]
  /\ UNCHANGED <<tmp, replaced, now, listed, state, runner>>

(* They cannot be written: the job fails and the directory stays. *)
WriteFails(r) ==
  /\ At(r, "create", "write")
  /\ runner' = Nil /\ req' = [req EXCEPT ![r] = Idle]
  /\ UNCHANGED <<diskVars, now, listed, state>>

(* The overrides are stored; a creation and an import rescan at the end. *)
JobEnds(r, kind) ==
  /\ At(r, kind, "rescan")
  /\ listed' = IF kind = "jar" THEN listed ELSE Scanned
  /\ runner' = Nil /\ req' = [req EXCEPT ![r] = Idle]
  /\ UNCHANGED <<diskVars, now, state>>

(* UpdateJar takes the job and writes into in.dir. *)
UpdateJar(r) ==
  /\ req[r] = Idle /\ listed /\ runner = Nil
  /\ runner' = r
  /\ req' = [req EXCEPT ![r] = [Idle EXCEPT !.kind = "jar", !.at = "fill"]]
  /\ UNCHANGED <<diskVars, now, listed, state>>

RestoreStep(r) ==
  \/ \E a \in Archives : RestoreBegin(r, a)
  \/ \E f \in Files : Extract(r, f)
  \/ ExtractFails(r) \/ MoveAside(r) \/ MoveAsideFails(r) \/ SwapIn(r) \/ RollBack(r)

JobStep(r) ==
  \/ \E kind \in {"create", "import"} : Look(r, kind) \/ MakeDir(r, kind) \/ Refused(r, kind)
  \/ \E f \in Files : Unzip(r, f)
  \/ \E kind \in {"create", "jar"} : FetchJar(r, kind) \/ Download(r, kind)
  \/ \E kind \in {"create", "import", "jar"} : FillFails(r, kind) \/ JobEnds(r, kind)
  \/ WriteInitialFiles(r) \/ WriteFails(r) \/ UpdateJar(r)

ServerDirNext ==
  \/ Tick \/ Launch \/ End \/ Rescan \/ Crash
  \/ \E r \in Requests : RestoreStep(r) \/ JobStep(r)

ServerDirSpec == ServerDirInit /\ [][ServerDirNext]_serverDirVars

-----------------------------------------------------------------------------
(* Properties *)

(* Directories that hold more than a creation or an import put there. *)
Kept(l, rep) ==
  {d \in ({l} \cup {rep[t] : t \in Times}) \ {Nil} : \E f \in Files : d[f] \notin {"absent", "new"}}

(* What jobs add to the directory.  A job whose look was stale when it took *)
(* the job, or that a restore crossed, removes what it did not make.       *)
Fills == \E r \in Requests : WriteInitialFiles(r) \/ Download(r, "create") \/ Download(r, "jar")
           \/ \E f \in Files : Unzip(r, f)
StaleCleanup == \E r \in Requests : ~req[r].alone /\ (FillFails(r, "create") \/ FillFails(r, "import"))

(* README: a restore `moves the replaced data aside instead of deleting    *)
(* it`.  A directory of a server, live or displaced, is still one of them  *)
(* after any step that does not write into it: with restores that run into *)
(* each other, roll-backs, creations and imports that fail and clean up,   *)
(* and a panel that dies at any point.                                     *)
NothingDeleted ==
  [][Fills \/ StaleCleanup \/ Kept(live, replaced) \subseteq Kept(live', replaced')]_serverDirVars

(* A restore that no other one ran into puts exactly its archive in place, *)
(* whatever a panel that died had left in tmp.                             *)
RestoredIsArchived ==
  [][\A r \in Requests : SwapIn(r) /\ req[r].alone => live' = All(req[r].src)]_serverDirVars

(* README: `Backup restore refuses to run while the server is running`.    *)
RestoreWhileStopped ==
  [][\A r \in Requests : MoveAside(r) => state # "up"]_serverDirVars

=============================================================================
