------------------------------- MODULE Panel -------------------------------
(***************************************************************************)
(* The panel as a service: main of src/cmd/control-panel/main.go from the  *)
(* configuration it loads (src/internal/config/config.go) to the orderly   *)
(* shutdown, the updater of src/internal/update/update.go that exchanges   *)
(* the binary under it, and systemd, which starts it again.                *)
(*                                                                         *)
(* A binary is its build: 0 is the one that was installed by hand, the     *)
(* others are releases, and Junk is a download that does not match its     *)
(* checksum.  The steps of the shutdown are only counted here: FanControl,  *)
(* McManager and Terminals look into them.                                 *)
(***************************************************************************)
EXTENDS Integers

CONSTANTS
  Configs,   \* configuration files an operator may write
  Builds,    \* releases of the pinned repository
  Junk, None

ASSUME PanelAssumption ==
  /\ 0 \notin Builds /\ Junk \notin Builds \cup {0, None} /\ None \notin Builds \cup {0}

VARIABLES
  file,    \* the configuration file
  cfg,     \* the configuration the process runs with
  proc,    \* how far main has come
  run,     \* the binary the process was started from
  asked,   \* SIGTERM has been sent
  wanted,  \* the unit is to be active
  exe, old, tmp, \* the binary, the one kept beside it and the download
  upd,     \* the Apply call
  timer,   \* the transient unit that will restart the panel
  stuck    \* history: a roll-back of the swap has failed

unitVars == <<proc, run, asked, wanted>>
confVars == <<file, cfg>>
swapVars == <<exe, old, tmp, upd, timer, stuck>>
vars == <<unitVars, confVars, swapVars>>

-----------------------------------------------------------------------------
(* The configuration *)

Modes == {"", "password", "none", "other"}

(* parses: the file is there, is YAML, knows every key, and its addresses, *)
(* roots, apps and URLs are well formed.                                   *)
Config == [parses : BOOLEAN, mode : Modes, hash : BOOLEAN, loopback : BOOLEAN, remote : BOOLEAN,
           cert : BOOLEAN, key : BOOLEAN, hours : Int, sample : Int, history : Int,
           fanTick : Int, idle : Int, sessions : Int]

ASSUME ConfigsAssumption == Configs \subseteq Config

Positive(n, default) == IF n <= 0 THEN default ELSE n
AtLeast(n, low) == IF n < low THEN low ELSE n
AtMost(n, high) == IF n > high THEN high ELSE n

(* Mistake: the default mode is not filled in. *)
NormalHalf(c) ==
  [c EXCEPT !.hours = Positive(@, 168), !.sample = AtLeast(@, 250),
            !.history = AtMost(AtLeast(@, 60), 3600), !.fanTick = AtLeast(@, 500),
            !.idle = Positive(@, 15), !.sessions = AtMost(Positive(@, 2), 8)]

(* validate: what it puts right ... *)
Normal(c) ==
  [c EXCEPT !.mode = IF c.mode = "" THEN "password" ELSE c.mode,
            !.hours = Positive(c.hours, 168),
            !.sample = AtLeast(c.sample, 250),
            !.history = AtMost(AtLeast(c.history, 60), 3600),
            !.fanTick = AtLeast(IF c.fanTick = 0 THEN 2000 ELSE c.fanTick, 500),
            !.idle = Positive(c.idle, 15),
            !.sessions = AtMost(Positive(c.sessions, 2), 8)]

(* ... and what it refuses. *)
Accepted(c) ==
  /\ c.parses
  /\ c.mode \in {"", "password", "none"}
  /\ c.mode = "none" => c.loopback \/ c.remote
  /\ c.cert = c.key

(* main refuses a password mode nobody could log in to. *)
Bootable(c) == Accepted(c) /\ (Normal(c).mode = "password" => c.hash)

-----------------------------------------------------------------------------
Running == {"loading", "ready", "serving", "terminals", "fans", "games"}
Serving == {"serving", "terminals", "fans", "games"}
Binaries == Builds \cup {0, None}
NoUpdate == [at |-> "none", tag |-> None]

TypeOK ==
  /\ file \in Configs /\ cfg \in Config \cup {None}
  /\ proc \in Running \cup {"down"} /\ run \in Builds \cup {0}
  /\ asked \in BOOLEAN /\ wanted \in BOOLEAN
  /\ exe \in Binaries /\ old \in Binaries /\ tmp \in Binaries \cup {Junk}
  /\ upd \in [at : {"none", "release", "download", "verify", "remove", "aside", "install", "restart"},
              tag : Builds \cup {None}]
  /\ timer \in BOOLEAN /\ stuck \in BOOLEAN

(* Installed by hand and not yet started. *)
Init ==
  /\ file \in Configs /\ cfg = None
  /\ proc = "down" /\ run = 0 /\ asked = FALSE /\ wanted = TRUE
  /\ exe = 0 /\ old = None /\ tmp = None /\ upd = NoUpdate /\ timer = FALSE /\ stuck = FALSE

-----------------------------------------------------------------------------
(* systemd and the operator *)

EditConfig(c) == file' = c /\ UNCHANGED <<unitVars, cfg, swapVars>>

(* A wanted unit is started, and started again after a failure. *)
Exec ==
  /\ proc = "down" /\ wanted /\ exe # None
  /\ proc' = "loading" /\ run' = exe /\ asked' = FALSE
  /\ UNCHANGED <<wanted, confVars, swapVars>>

StopUnit ==
  /\ wanted
  /\ wanted' = FALSE /\ asked' = (proc # "down")
  /\ UNCHANGED <<proc, run, confVars, swapVars>>

StartUnit ==
  /\ ~wanted
  /\ wanted' = TRUE
  /\ UNCHANGED <<proc, run, asked, confVars, swapVars>>

(* "systemctl restart", which the updater has scheduled. *)
TimerFires ==
  /\ timer /\ timer' = FALSE
  /\ wanted' = TRUE /\ asked' = (proc # "down")
  /\ UNCHANGED <<proc, run, confVars, exe, old, tmp, upd, stuck>>

(* The process ends; what its goroutines were doing ends with it. *)
Ends ==
  /\ proc' = "down" /\ asked' = FALSE
  /\ cfg' = None /\ upd' = NoUpdate
  /\ UNCHANGED <<run, wanted, file, exe, old, tmp, timer, stuck>>

(* A crash, the host's doing, or SIGKILL after TimeoutStopSec. *)
Killed == proc # "down" /\ Ends

-----------------------------------------------------------------------------
(* main *)

(* Signals are not caught until the configuration is loaded. *)
DiesEarly == proc = "loading" /\ asked /\ Ends

LoadConfig ==
  /\ proc = "loading" /\ Bootable(file)
  /\ cfg' = Normal(file) /\ proc' = "ready"
  /\ UNCHANGED <<run, asked, wanted, file, swapVars>>

LoadFails == proc = "loading" /\ ~Bootable(file) /\ Ends

Listen ==
  /\ proc = "ready"
  /\ proc' = "serving"
  /\ UNCHANGED <<run, asked, wanted, confVars, swapVars>>

(* The address is taken, or the certificate cannot be read: fatal, at once. *)
ListenFails == proc = "ready" /\ Ends

(* The shutdown, in order; requests are still served meanwhile. *)
Shutdown(from, to) ==
  /\ proc = from /\ asked
  /\ proc' = to
  /\ UNCHANGED <<run, asked, wanted, confVars, swapVars>>

CloseTerminals == Shutdown("serving", "terminals")
ReleaseFans == Shutdown("terminals", "fans")
(* Mistake: the shutdown waits for an update that is under way. *)
StopGamesLater == upd.at = "none" /\ Shutdown("fans", "games")

StopGames == Shutdown("fans", "games")
Leave == proc = "games" /\ Ends

-----------------------------------------------------------------------------
(* The updater *)

UpdateStep(from, to) ==
  /\ proc \in Serving /\ upd.at = from
  /\ upd' = IF to = "none" THEN NoUpdate ELSE [upd EXCEPT !.at = to]
  /\ UNCHANGED <<unitVars, confVars, timer>>

(* POST /api/update/apply: one at a time. *)
Apply(b) ==
  /\ proc \in Serving /\ upd.at = "none"
  /\ upd' = [at |-> "release", tag |-> b]
  /\ UNCHANGED <<unitVars, confVars, exe, old, tmp, timer, stuck>>

(* GitHub answers, or not: any failure ends the update. *)
AfterAnswer(next) == {next, "none"}

(* The release and its checksum are fetched; both may fail, or the client  *)
(* goes away, which cancels the call.                                      *)
FetchRelease ==
  /\ \E to \in AfterAnswer("download") : UpdateStep("release", to)
  /\ UNCHANGED <<exe, old, tmp, stuck>>

(* The download is begun in place of an older one ... *)
Download ==
  /\ UpdateStep("download", "verify")
  /\ tmp' \in {upd.tag, Junk}
  /\ UNCHANGED <<exe, old, stuck>>

(* ... and removed if it fails or does not match. *)
Verify ==
  /\ IF tmp = upd.tag THEN UpdateStep("verify", "remove") /\ UNCHANGED tmp
                      ELSE UpdateStep("verify", "none") /\ tmp' = None
  /\ UNCHANGED <<exe, old, stuck>>

RemoveOld ==
  /\ UpdateStep("remove", "aside")
  /\ old' = None
  /\ UNCHANGED <<exe, tmp, stuck>>

(* Mistake: the binary is removed to make room. *)
SetAsideAway ==
  /\ UpdateStep("aside", "install") /\ exe' = None
  /\ UNCHANGED <<old, tmp, stuck>>

SetAside ==
  \/ UpdateStep("aside", "install") /\ exe # None /\ old' = exe /\ exe' = None
     /\ UNCHANGED <<tmp, stuck>>
  \/ UpdateStep("aside", "none") /\ tmp' = None /\ UNCHANGED <<exe, old, stuck>>

(* A failure is rolled back, as far as that succeeds. *)
Install ==
  \/ UpdateStep("install", "restart") /\ exe' = tmp /\ tmp' = None /\ UNCHANGED <<old, stuck>>
  \/ /\ UpdateStep("install", "none") /\ tmp' = None
     /\ \/ exe' = old /\ old' = None /\ UNCHANGED stuck
        \/ stuck' = TRUE /\ UNCHANGED <<exe, old>>

(* systemd-run; it refuses while an earlier restart is still to come. *)
ScheduleRestart ==
  /\ proc \in Serving /\ upd.at = "restart"
  /\ upd' = NoUpdate
  /\ \/ ~timer /\ timer' = TRUE
     \/ UNCHANGED timer
  /\ UNCHANGED <<unitVars, confVars, exe, old, tmp, stuck>>

-----------------------------------------------------------------------------
Orderly == CloseTerminals \/ ReleaseFans \/ StopGames \/ Leave
Main == DiesEarly \/ LoadConfig \/ LoadFails \/ Listen \/ ListenFails \/ Orderly
Update ==
  \/ \E b \in Builds : Apply(b)
  \/ FetchRelease \/ Download \/ Verify \/ RemoveOld \/ SetAside \/ Install \/ ScheduleRestart

Next ==
  \/ \E c \in Configs : EditConfig(c)
  \/ Exec \/ StopUnit \/ StartUnit \/ TimerFires \/ Killed
  \/ Main \/ Update

Spec == Init /\ [][Next]_vars

(* systemd acts, and main goes on: GracefulShutdown has a deadline. *)
Fairness ==
  /\ WF_vars(Exec) /\ WF_vars(TimerFires)
  /\ WF_vars(DiesEarly) /\ WF_vars(LoadConfig) /\ WF_vars(LoadFails)
  /\ WF_vars(Listen \/ ListenFails) /\ WF_vars(Orderly)

FairSpec == Spec /\ Fairness

-----------------------------------------------------------------------------
(* Properties *)

(* Whatever interrupts an update, a whole binary is left: in its place, or *)
(* beside it where an operator can take it back from.  (When a roll-back   *)
(* has failed, the next update removes the one that was left.)             *)
BinaryIsLeft == stuck \/ exe # None \/ old # None

(* Nothing that failed its check is ever where systemd or an operator      *)
(* would start it, and what is being installed is what was confirmed.      *)
OnlyVerified ==
  /\ Junk \notin {exe, old}
  /\ upd.at \in {"remove", "aside", "install"} => tmp = upd.tag

(* The configuration a process runs with: somebody can log in or need not, *)
(* nobody is served openly but where the file allows it, and every number  *)
(* is in its range, so that loading what was loaded would change nothing.  *)
ModeIsSafe(c) ==
  \/ c.mode = "password" /\ c.hash
  \/ c.mode = "none" /\ (c.loopback \/ c.remote)
InRange(c) ==
  /\ c.hours > 0 /\ c.sample >= 250 /\ 60 <= c.history /\ c.history <= 3600
  /\ c.fanTick >= 500 /\ c.idle > 0 /\ c.sessions \in 1..8
Sound(c) == ModeIsSafe(c) /\ InRange(c) /\ Normal(c) = c
RunsOnSoundConfig == proc \in Serving \cup {"ready"} => Sound(cfg)

(* A scheduled restart ends in the installed binary running, unless the    *)
(* swap of a later update is under way or was cut short, or the unit was   *)
(* stopped.                                                                *)
UpdateTakesEffect ==
  timer ~> \/ proc # "down" /\ run = exe
           \/ exe = None \/ ~wanted
=============================================================================
