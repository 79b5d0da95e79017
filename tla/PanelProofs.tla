---------------------------- MODULE PanelProofs ----------------------------
(***************************************************************************)
(* What holds of the service for any configurations and any releases: it   *)
(* runs on a sound configuration, and whatever interrupts an update, a     *)
(* whole and confirmed binary is left.  And what holds of its downloads    *)
(* page for any number of browsers and any times.                          *)
(*                                                                         *)
(* BinaryIsLeft is not inductive: RemoveOld takes the second copy away and *)
(* relies on the first being in its place.  It is, because only a process  *)
(* updates, a process is only started from a binary that is there, and     *)
(* nobody but its own update moves it away (SwapInv).                      *)
(*                                                                         *)
(* What the page shows is settled long before it is shown: DInv follows    *)
(* the revision and the age of a status from qBittorrent's answer through  *)
(* the cache to each handler, and bounds what a call may still do by the   *)
(* answer that waits for its holder.                                       *)
(***************************************************************************)
EXTENDS Panel, Downloads, TLAPS

(* An update belongs to a process that serves. *)
UpdateServes == upd.at # "none" => proc \in Serving /\ upd.tag \in Builds

SwapInv ==
  /\ upd.at = "install" => old # None
  /\ stuck \/ exe # None \/ old # None
  /\ proc # "down" => stuck \/ exe # None \/ upd.at = "install"

IInv == TypeOK /\ RunsOnSoundConfig /\ UpdateServes /\ OnlyVerified /\ SwapInv

-----------------------------------------------------------------------------
(* The configuration *)

HasMode(c) == c.mode # ""

LEMMA Clamps ==
  ASSUME NEW x \in Int
  PROVE  /\ AtMost(AtLeast(x, 60), 3600) \in Int
         /\ 60 <= AtMost(AtLeast(x, 60), 3600) /\ AtMost(AtLeast(x, 60), 3600) <= 3600
         /\ AtMost(Positive(x, 2), 8) \in 1..8
         /\ 60 <= x /\ x <= 3600 => AtMost(AtLeast(x, 60), 3600) = x
         /\ x \in 1..8 => AtMost(Positive(x, 2), 8) = x
<1>1. /\ AtMost(AtLeast(x, 60), 3600) \in Int
      /\ 60 <= AtMost(AtLeast(x, 60), 3600) /\ AtMost(AtLeast(x, 60), 3600) <= 3600
  BY DEF AtLeast, AtMost
<1>2. AtMost(Positive(x, 2), 8) \in 1..8
  BY DEF Positive, AtMost
<1>3. 60 <= x /\ x <= 3600 => AtMost(AtLeast(x, 60), 3600) = x
  BY DEF AtLeast, AtMost
<1>4. x \in 1..8 => AtMost(Positive(x, 2), 8) = x
  BY DEF Positive, AtMost
<1> QED BY <1>1, <1>2, <1>3, <1>4
LEMMA NormalRanges ==
  ASSUME NEW c \in Config
  PROVE  InRange(Normal(c))
<1>1. Normal(c).hours > 0
  BY DEF Normal, Config, Positive
<1>2. Normal(c).idle > 0
  BY DEF Normal, Config, Positive
<1>3. Normal(c).sample >= 250
  BY DEF Normal, Config, AtLeast
<1>4. Normal(c).fanTick >= 500
  BY DEF Normal, Config, AtLeast
<1>5. 60 <= Normal(c).history /\ Normal(c).history <= 3600
  <2>1. c.history \in Int
    BY DEF Config
  <2>2. Normal(c).history = AtMost(AtLeast(c.history, 60), 3600)
    BY DEF Normal, Config
  <2>3. 60 <= AtMost(AtLeast(c.history, 60), 3600) /\ AtMost(AtLeast(c.history, 60), 3600) <= 3600
    BY <2>1, Clamps
  <2> QED BY <2>2, <2>3
<1>6. Normal(c).sessions \in 1..8
  <2>1. c.sessions \in Int
    BY DEF Config
  <2>2. Normal(c).sessions = AtMost(Positive(c.sessions, 2), 8)
    BY DEF Normal, Config
  <2>3. AtMost(Positive(c.sessions, 2), 8) \in 1..8
    BY <2>1, Clamps
  <2> QED BY <2>2, <2>3
<1> QED BY <1>1, <1>2, <1>3, <1>4, <1>5, <1>6 DEF InRange
LEMMA NormalIsConfig == ASSUME NEW c \in Config PROVE Normal(c) \in Config
<1> DEFINE m == IF c.mode = "" THEN "password" ELSE c.mode
           h == Positive(c.hours, 168)
           s == AtLeast(c.sample, 250)
           y == AtMost(AtLeast(c.history, 60), 3600)
           f == AtLeast(IF c.fanTick = 0 THEN 2000 ELSE c.fanTick, 500)
           w == Positive(c.idle, 15)
           n == AtMost(Positive(c.sessions, 2), 8)
<1>1. Normal(c) = [c EXCEPT !.mode = m, !.hours = h, !.sample = s, !.history = y,
                            !.fanTick = f, !.idle = w, !.sessions = n]
  BY DEF Normal
<1>2. m \in Modes
  BY DEF Config, Modes
<1>3. h \in Int /\ w \in Int
  BY DEF Config, Positive
<1>4. s \in Int /\ f \in Int
  BY DEF Config, AtLeast
<1>5. y \in Int
  <2>1. c.history \in Int
    BY DEF Config
  <2> QED BY <2>1, Clamps
<1>6. n \in Int
  <2>1. c.sessions \in Int
    BY DEF Config
  <2>2. n \in 1..8
    BY <2>1, Clamps
  <2> QED BY <2>2
<1> HIDE DEF m, h, s, y, f, w, n
<1>7. [c EXCEPT !.mode = m, !.hours = h, !.sample = s, !.history = y,
                !.fanTick = f, !.idle = w, !.sessions = n] \in Config
  BY <1>2, <1>3, <1>4, <1>5, <1>6 DEF Config
<1> QED BY <1>1, <1>7

LEMMA InRangeIsNormal ==
  ASSUME NEW c \in Config, InRange(c), HasMode(c)
  PROVE  Normal(c) = c
<1>1. Positive(c.hours, 168) = c.hours /\ Positive(c.idle, 15) = c.idle
  <2>1. c.hours \in Int /\ c.idle \in Int
    BY DEF Config
  <2>2. c.hours > 0 /\ c.idle > 0
    BY DEF InRange
  <2> QED BY <2>1, <2>2 DEF Positive
<1>2. AtLeast(c.sample, 250) = c.sample /\ c.fanTick # 0 /\ AtLeast(c.fanTick, 500) = c.fanTick
  <2>1. c.sample \in Int /\ c.fanTick \in Int
    BY DEF Config
  <2>2. c.sample >= 250 /\ c.fanTick >= 500
    BY DEF InRange
  <2> QED BY <2>1, <2>2 DEF AtLeast
<1>3. AtMost(AtLeast(c.history, 60), 3600) = c.history
  <2>1. c.history \in Int /\ 60 <= c.history /\ c.history <= 3600
    BY DEF Config, InRange
  <2> QED BY <2>1, Clamps
<1>4. AtMost(Positive(c.sessions, 2), 8) = c.sessions
  <2>1. c.sessions \in Int /\ c.sessions \in 1..8
    BY DEF Config, InRange
  <2> QED BY <2>1, Clamps
<1>5. Normal(c).hours = c.hours /\ Normal(c).idle = c.idle
  BY <1>1 DEF Normal, Config
<1>6. Normal(c).sample = c.sample
  BY <1>2 DEF Normal, Config
<1>7. Normal(c).fanTick = c.fanTick
  BY <1>2 DEF Normal, Config
<1>8. Normal(c).history = c.history
  BY <1>3 DEF Normal, Config
<1>9. Normal(c).sessions = c.sessions
  BY <1>4 DEF Normal, Config
<1>10. Normal(c).mode = c.mode
  <2>1. Normal(c).mode = IF c.mode = "" THEN "password" ELSE c.mode
    BY DEF Normal, Config
  <2> QED BY <2>1 DEF HasMode
<1>11. /\ Normal(c).parses = c.parses /\ Normal(c).hash = c.hash /\ Normal(c).loopback = c.loopback
       /\ Normal(c).remote = c.remote /\ Normal(c).cert = c.cert /\ Normal(c).key = c.key
  BY DEF Normal, Config
<1>12. Normal(c) \in Config
  BY NormalIsConfig
<1> QED BY <1>5, <1>6, <1>7, <1>8, <1>9, <1>10, <1>11, <1>12 DEF Config

LEMMA LoadedIsSound ==
  ASSUME NEW c \in Config, Bootable(c)
  PROVE  Normal(c) \in Config /\ Sound(Normal(c))
<1>1. Normal(c) \in Config /\ InRange(Normal(c))
  BY NormalIsConfig, NormalRanges
<1>2. Normal(Normal(c)) = Normal(c)
  <2>1. HasMode(Normal(c))
    <3>1. Normal(c).mode = IF c.mode = "" THEN "password" ELSE c.mode
      BY DEF Normal, Config
    <3> QED BY <3>1 DEF HasMode
  <2> QED BY <1>1, <2>1, InRangeIsNormal
<1>3. Normal(c).hash = c.hash /\ Normal(c).loopback = c.loopback /\ Normal(c).remote = c.remote
  BY DEF Normal, Config
<1>4. Normal(c).mode = IF c.mode = "" THEN "password" ELSE c.mode
  BY DEF Normal, Config
<1>5. ModeIsSafe(Normal(c))
  <2>1. c.mode \in {"", "password", "none"} /\ (c.mode = "none" => c.loopback \/ c.remote)
    BY DEF Bootable, Accepted
  <2>2. Normal(c).mode = "password" => c.hash
    BY DEF Bootable
  <2> QED BY <1>3, <1>4, <2>1, <2>2 DEF ModeIsSafe
<1> QED BY <1>1, <1>2, <1>5 DEF Sound

-----------------------------------------------------------------------------
LEMMA InitInv == Init => IInv
<1> SUFFICES ASSUME Init PROVE IInv
  OBVIOUS
<1>1. TypeOK
  BY DEF Init, TypeOK, Binaries, NoUpdate
<1>2. RunsOnSoundConfig /\ UpdateServes
  BY DEF Init, RunsOnSoundConfig, Serving, UpdateServes, NoUpdate
<1>3. OnlyVerified /\ SwapInv
  BY PanelAssumption DEF Init, OnlyVerified, SwapInv, NoUpdate
<1> QED BY <1>1, <1>2, <1>3 DEF IInv

(* The end of a process leaves the binaries and takes its update with it. *)
LEMMA EndsInv == ASSUME IInv, Ends PROVE IInv'
<1>1. TypeOK'
  BY DEF IInv, TypeOK, Ends, NoUpdate
<1>2. RunsOnSoundConfig' /\ UpdateServes' /\ SwapInv'
  BY DEF IInv, Ends, RunsOnSoundConfig, Serving, UpdateServes, SwapInv, NoUpdate
<1>3. OnlyVerified'
  BY DEF IInv, Ends, OnlyVerified, NoUpdate
<1> QED BY <1>1, <1>2, <1>3 DEF IInv

LEMMA NextInv == IInv /\ [Next]_vars => IInv'
<1> SUFFICES ASSUME IInv, [Next]_vars PROVE IInv'
  OBVIOUS
<1>0. /\ TypeOK /\ RunsOnSoundConfig /\ UpdateServes /\ OnlyVerified /\ SwapInv
      /\ Junk \notin Binaries /\ None \notin Builds \cup {0}
  BY PanelAssumption DEF IInv, Binaries
<1>1. ASSUME NEW c \in Configs, EditConfig(c) PROVE IInv'
  <2>1. TypeOK'
    BY <1>0, <1>1 DEF EditConfig, unitVars, swapVars, TypeOK
  <2>2. RunsOnSoundConfig'
    BY <1>0, <1>1 DEF EditConfig, unitVars, swapVars, RunsOnSoundConfig, Serving
  <2>3. UpdateServes'
    BY <1>0, <1>1 DEF EditConfig, unitVars, swapVars, UpdateServes, Serving
  <2>4. OnlyVerified'
    BY <1>0, <1>1 DEF EditConfig, unitVars, swapVars, OnlyVerified
  <2>5. SwapInv'
    BY <1>0, <1>1 DEF EditConfig, unitVars, swapVars, SwapInv, Serving
  <2> QED BY <2>1, <2>2, <2>3, <2>4, <2>5 DEF IInv
<1>2. CASE Exec
  <2>1. upd.at = "none"
    BY <1>0, <1>2 DEF Exec, UpdateServes, Serving
  <2>2. TypeOK'
    <3>1. proc' \in Running /\ asked' \in BOOLEAN /\ wanted' \in BOOLEAN
      BY <1>0, <1>2 DEF Exec, TypeOK, Running
    <3>2. run' \in Builds \cup {0}
      BY <1>0, <1>2 DEF Exec, TypeOK, Binaries
    <3>3. UNCHANGED <<confVars, swapVars>>
      BY <1>2 DEF Exec
    <3> QED BY <1>0, <3>1, <3>2, <3>3 DEF TypeOK, confVars, swapVars
  <2>3. RunsOnSoundConfig' /\ UpdateServes'
    BY <1>0, <1>2, <2>1 DEF Exec, RunsOnSoundConfig, Serving, UpdateServes, confVars, swapVars
  <2>4. OnlyVerified'
    BY <1>0, <1>2, <2>1 DEF Exec, OnlyVerified, confVars, swapVars
  <2>5. SwapInv'
    BY <1>0, <1>2, <2>1 DEF Exec, SwapInv, confVars, swapVars
  <2> QED BY <2>2, <2>3, <2>4, <2>5 DEF IInv
<1>3. CASE StopUnit
  <2>1. TypeOK'
    BY <1>0, <1>3 DEF StopUnit, confVars, swapVars, TypeOK
  <2>2. RunsOnSoundConfig'
    BY <1>0, <1>3 DEF StopUnit, confVars, swapVars, RunsOnSoundConfig, Serving
  <2>3. UpdateServes'
    BY <1>0, <1>3 DEF StopUnit, confVars, swapVars, UpdateServes, Serving
  <2>4. OnlyVerified'
    BY <1>0, <1>3 DEF StopUnit, confVars, swapVars, OnlyVerified
  <2>5. SwapInv'
    BY <1>0, <1>3 DEF StopUnit, confVars, swapVars, SwapInv, Serving
  <2> QED BY <2>1, <2>2, <2>3, <2>4, <2>5 DEF IInv
<1>4. CASE StartUnit
  <2>1. TypeOK'
    BY <1>0, <1>4 DEF StartUnit, confVars, swapVars, TypeOK
  <2>2. RunsOnSoundConfig'
    BY <1>0, <1>4 DEF StartUnit, confVars, swapVars, RunsOnSoundConfig, Serving
  <2>3. UpdateServes'
    BY <1>0, <1>4 DEF StartUnit, confVars, swapVars, UpdateServes, Serving
  <2>4. OnlyVerified'
    BY <1>0, <1>4 DEF StartUnit, confVars, swapVars, OnlyVerified
  <2>5. SwapInv'
    BY <1>0, <1>4 DEF StartUnit, confVars, swapVars, SwapInv, Serving
  <2> QED BY <2>1, <2>2, <2>3, <2>4, <2>5 DEF IInv
<1>5. CASE TimerFires
  <2>1. TypeOK'
    BY <1>0, <1>5 DEF TimerFires, confVars, TypeOK
  <2>2. RunsOnSoundConfig'
    BY <1>0, <1>5 DEF TimerFires, confVars, RunsOnSoundConfig, Serving
  <2>3. UpdateServes'
    BY <1>0, <1>5 DEF TimerFires, confVars, UpdateServes, Serving
  <2>4. OnlyVerified'
    BY <1>0, <1>5 DEF TimerFires, confVars, OnlyVerified
  <2>5. SwapInv'
    BY <1>0, <1>5 DEF TimerFires, confVars, SwapInv, Serving
  <2> QED BY <2>1, <2>2, <2>3, <2>4, <2>5 DEF IInv
<1>6. CASE Ends
  BY <1>6, EndsInv
<1>7. CASE LoadConfig
  <2>1. file \in Config
    BY <1>0, ConfigsAssumption DEF TypeOK
  <2>2. cfg' \in Config /\ Sound(cfg')
    BY <1>7, <2>1, LoadedIsSound DEF LoadConfig
  <2>3. upd.at = "none"
    BY <1>0, <1>7 DEF LoadConfig, UpdateServes, Serving
  <2>4. TypeOK'
    BY <1>0, <1>7, <2>2 DEF LoadConfig, TypeOK, Running, swapVars
  <2>5. RunsOnSoundConfig'
    BY <2>2 DEF RunsOnSoundConfig
  <2>6. UpdateServes' /\ OnlyVerified' /\ SwapInv'
    BY <1>0, <1>7, <2>3 DEF LoadConfig, UpdateServes, OnlyVerified, SwapInv, swapVars
  <2> QED BY <2>4, <2>5, <2>6 DEF IInv
<1>8. CASE Listen
  <2>1. TypeOK'
    BY <1>0, <1>8 DEF Listen, confVars, swapVars, TypeOK, Running
  <2>2. RunsOnSoundConfig'
    BY <1>0, <1>8 DEF Listen, confVars, swapVars, RunsOnSoundConfig, Serving
  <2>3. UpdateServes'
    BY <1>0, <1>8 DEF Listen, confVars, swapVars, UpdateServes, Serving
  <2>4. OnlyVerified'
    BY <1>0, <1>8 DEF Listen, confVars, swapVars, OnlyVerified
  <2>5. SwapInv'
    BY <1>0, <1>8 DEF Listen, confVars, swapVars, SwapInv, Serving
  <2> QED BY <2>1, <2>2, <2>3, <2>4, <2>5 DEF IInv
<1>9. ASSUME NEW from \in Serving, NEW to \in Serving, Shutdown(from, to) PROVE IInv'
  <2>1. TypeOK'
    <3>1. proc' \in Running
      BY <1>9 DEF Shutdown, Serving, Running
    <3>2. UNCHANGED <<run, asked, wanted, confVars, swapVars>>
      BY <1>9 DEF Shutdown
    <3> QED BY <1>0, <3>1, <3>2 DEF TypeOK, confVars, swapVars
  <2>2. RunsOnSoundConfig'
    BY <1>0, <1>9 DEF Shutdown, confVars, swapVars, RunsOnSoundConfig, Serving
  <2>3. UpdateServes'
    BY <1>0, <1>9 DEF Shutdown, confVars, swapVars, UpdateServes, Serving
  <2>4. OnlyVerified'
    BY <1>0, <1>9 DEF Shutdown, confVars, swapVars, OnlyVerified
  <2>5. SwapInv'
    BY <1>0, <1>9 DEF Shutdown, confVars, swapVars, SwapInv, Serving
  <2> QED BY <2>1, <2>2, <2>3, <2>4, <2>5 DEF IInv
<1>10. ASSUME NEW b \in Builds, Apply(b) PROVE IInv'
  <2>1. TypeOK'
    BY <1>0, <1>10 DEF Apply, unitVars, confVars, TypeOK
  <2>2. RunsOnSoundConfig'
    BY <1>0, <1>10 DEF Apply, unitVars, confVars, RunsOnSoundConfig, Serving
  <2>3. UpdateServes'
    BY <1>0, <1>10 DEF Apply, unitVars, confVars, UpdateServes, Serving
  <2>4. OnlyVerified'
    BY <1>0, <1>10 DEF Apply, unitVars, confVars, OnlyVerified
  <2>5. SwapInv'
    BY <1>0, <1>10 DEF Apply, unitVars, confVars, SwapInv, Serving
  <2> QED BY <2>1, <2>2, <2>3, <2>4, <2>5 DEF IInv
<1>11. CASE FetchRelease
  <2>1. PICK to \in {"download", "none"} : UpdateStep("release", to)
    BY <1>11 DEF FetchRelease, AfterAnswer
  <2>2. /\ upd.tag \in Builds /\ UNCHANGED <<unitVars, confVars, timer>>
        /\ upd.at = "release" /\ upd'.at = to /\ UpdateServes' /\ RunsOnSoundConfig'
        /\ upd' \in {NoUpdate, [at |-> to, tag |-> upd.tag]}
    BY <1>0, <2>1 DEF UpdateStep, UpdateServes, RunsOnSoundConfig, TypeOK, NoUpdate, unitVars, confVars, NoUpdate
  <2>3. TypeOK'
    BY <1>0, <1>11, <2>2 DEF FetchRelease, TypeOK, NoUpdate, unitVars, confVars
  <2>4. OnlyVerified' /\ SwapInv'
    BY <1>0, <1>11, <2>2 DEF FetchRelease, OnlyVerified, SwapInv, unitVars
  <2> QED BY <2>2, <2>3, <2>4 DEF IInv
<1>12. CASE Download
  <2>1. /\ upd.tag \in Builds /\ UNCHANGED <<unitVars, confVars, timer>>
        /\ upd.at = "download" /\ UpdateServes' /\ RunsOnSoundConfig'
        /\ upd' = [at |-> "verify", tag |-> upd.tag]
    BY <1>0, <1>12 DEF UpdateStep, UpdateServes, RunsOnSoundConfig, TypeOK, NoUpdate, unitVars, confVars, Download
  <2>2. TypeOK'
    BY <1>0, <1>12, <2>1 DEF Download, TypeOK, Binaries, unitVars, confVars
  <2>3. OnlyVerified' /\ SwapInv'
    BY <1>0, <1>12, <2>1 DEF Download, OnlyVerified, SwapInv, unitVars
  <2> QED BY <2>1, <2>2, <2>3 DEF IInv
<1>13. CASE Verify
  <2>1. CASE tmp = upd.tag
    <3>1. /\ upd.tag \in Builds /\ UNCHANGED <<unitVars, confVars, timer>>
          /\ upd.at = "verify" /\ UpdateServes' /\ RunsOnSoundConfig'
          /\ upd' = [at |-> "remove", tag |-> upd.tag]
      BY <1>0, <1>13, <2>1 DEF UpdateStep, UpdateServes, RunsOnSoundConfig, TypeOK, NoUpdate, unitVars, confVars, Verify
    <3>2. TypeOK'
      BY <1>0, <1>13, <2>1, <3>1 DEF Verify, TypeOK, unitVars, confVars
    <3>3. OnlyVerified' /\ SwapInv'
      BY <1>0, <1>13, <2>1, <3>1 DEF Verify, OnlyVerified, SwapInv, unitVars
    <3> QED BY <3>1, <3>2, <3>3 DEF IInv
  <2>2. CASE tmp # upd.tag
    <3>1. /\ UNCHANGED <<unitVars, confVars, timer>>
          /\ upd.at = "verify" /\ UpdateServes' /\ RunsOnSoundConfig'
          /\ upd' = NoUpdate
      BY <1>0, <1>13, <2>2 DEF UpdateStep, UpdateServes, RunsOnSoundConfig, TypeOK, NoUpdate, unitVars, confVars, Verify
    <3>2. TypeOK'
      BY <1>0, <1>13, <2>2, <3>1 DEF Verify, TypeOK, NoUpdate, Binaries, unitVars, confVars
    <3>3. OnlyVerified' /\ SwapInv'
      BY <1>0, <1>13, <2>2, <3>1 DEF Verify, OnlyVerified, SwapInv, NoUpdate, unitVars
    <3> QED BY <3>1, <3>2, <3>3 DEF IInv
  <2> QED BY <2>1, <2>2
<1>14. CASE RemoveOld
  <2>1. /\ upd.tag \in Builds /\ UNCHANGED <<unitVars, confVars, timer>>
        /\ upd.at = "remove" /\ UpdateServes' /\ RunsOnSoundConfig' /\ proc \in Serving
        /\ upd' = [at |-> "aside", tag |-> upd.tag]
    BY <1>0, <1>14 DEF UpdateStep, UpdateServes, RunsOnSoundConfig, TypeOK, NoUpdate, unitVars, confVars, RemoveOld
  <2>2. TypeOK'
    BY <1>0, <1>14, <2>1 DEF RemoveOld, TypeOK, Binaries, unitVars, confVars
  <2>3. OnlyVerified'
    BY <1>0, <1>14, <2>1, PanelAssumption DEF RemoveOld, OnlyVerified, Binaries
  <2>4. stuck \/ exe # None
    BY <1>0, <2>1 DEF SwapInv, Serving
  <2>5. SwapInv'
    BY <1>0, <1>14, <2>1, <2>4 DEF RemoveOld, SwapInv
  <2> QED BY <2>1, <2>2, <2>3, <2>5 DEF IInv
<1>15. CASE SetAside
  <2>1. CASE /\ UpdateStep("aside", "install") /\ exe # None /\ old' = exe /\ exe' = None
             /\ UNCHANGED <<tmp, stuck>>
    <3>1. /\ upd.tag \in Builds /\ UNCHANGED <<unitVars, confVars, timer>>
          /\ upd.at = "aside" /\ UpdateServes' /\ RunsOnSoundConfig'
          /\ upd' = [at |-> "install", tag |-> upd.tag]
      BY <1>0, <2>1 DEF UpdateStep, UpdateServes, RunsOnSoundConfig, TypeOK, NoUpdate, unitVars, confVars
    <3>2. TypeOK'
      BY <1>0, <2>1, <3>1 DEF TypeOK, Binaries, unitVars, confVars
    <3>3. OnlyVerified' /\ SwapInv'
      BY <1>0, <2>1, <3>1, PanelAssumption DEF OnlyVerified, SwapInv
    <3> QED BY <3>1, <3>2, <3>3 DEF IInv
  <2>2. CASE UpdateStep("aside", "none") /\ tmp' = None /\ UNCHANGED <<exe, old, stuck>>
    <3>1. /\ UNCHANGED <<unitVars, confVars, timer>>
          /\ upd.at = "aside" /\ UpdateServes' /\ RunsOnSoundConfig'
          /\ upd' = NoUpdate
      BY <1>0, <2>2 DEF UpdateStep, UpdateServes, RunsOnSoundConfig, TypeOK, NoUpdate, unitVars, confVars
    <3>2. TypeOK'
      BY <1>0, <2>2, <3>1 DEF TypeOK, NoUpdate, Binaries, unitVars, confVars
    <3>3. OnlyVerified' /\ SwapInv'
      BY <1>0, <2>2, <3>1 DEF OnlyVerified, SwapInv, NoUpdate, unitVars
    <3> QED BY <3>1, <3>2, <3>3 DEF IInv
  <2> QED BY <1>15, <2>1, <2>2 DEF SetAside
<1>16. CASE Install
  <2>1. CASE UpdateStep("install", "restart") /\ exe' = tmp /\ tmp' = None /\ UNCHANGED <<old, stuck>>
    <3>1. /\ upd.tag \in Builds /\ UNCHANGED <<unitVars, confVars, timer>>
          /\ upd.at = "install" /\ UpdateServes' /\ RunsOnSoundConfig'
          /\ upd' = [at |-> "restart", tag |-> upd.tag]
      BY <1>0, <2>1 DEF UpdateStep, UpdateServes, RunsOnSoundConfig, TypeOK, NoUpdate, unitVars, confVars
    <3>2. exe' \in Builds
      BY <1>0, <2>1, <3>1 DEF OnlyVerified
    <3>3. TypeOK'
      BY <1>0, <2>1, <3>1, <3>2 DEF TypeOK, Binaries, unitVars, confVars
    <3>4. OnlyVerified' /\ SwapInv'
      BY <1>0, <2>1, <3>1, <3>2, PanelAssumption DEF OnlyVerified, SwapInv
    <3> QED BY <3>1, <3>3, <3>4 DEF IInv
  <2>2. CASE /\ UpdateStep("install", "none") /\ tmp' = None
             /\ \/ exe' = old /\ old' = None /\ UNCHANGED stuck
                \/ stuck' = TRUE /\ UNCHANGED <<exe, old>>
    <3>1. /\ UNCHANGED <<unitVars, confVars, timer>>
          /\ upd.at = "install" /\ UpdateServes' /\ RunsOnSoundConfig'
          /\ upd' = NoUpdate
      BY <1>0, <2>2 DEF UpdateStep, UpdateServes, RunsOnSoundConfig, TypeOK, NoUpdate, unitVars, confVars
    <3>2. exe' \in Binaries /\ old' \in Binaries /\ stuck' \in BOOLEAN
      BY <1>0, <2>2 DEF TypeOK, Binaries
    <3>3. TypeOK'
      BY <1>0, <2>2, <3>1, <3>2 DEF TypeOK, NoUpdate, Binaries, unitVars, confVars
    <3>4. OnlyVerified'
      BY <1>0, <3>1, <3>2 DEF OnlyVerified, NoUpdate
    <3>5. SwapInv'
      <4>1. (stuck \/ exe # None \/ old # None) /\ (upd.at = "install" => old # None)
        BY <1>0 DEF SwapInv
      <4>2. upd.at = "install" /\ upd'.at = "none"
        BY <3>1 DEF NoUpdate
      <4> QED BY <1>0, <2>2, <4>1, <4>2 DEF SwapInv
    <3> QED BY <3>1, <3>3, <3>4, <3>5 DEF IInv
  <2> QED BY <1>16, <2>1, <2>2 DEF Install
<1>17. CASE ScheduleRestart
  <2>1. /\ upd.at = "restart" /\ upd' = NoUpdate /\ timer' \in BOOLEAN
        /\ UNCHANGED <<unitVars, confVars, exe, old, tmp, stuck>>
    BY <1>0, <1>17 DEF ScheduleRestart, TypeOK
  <2>2. TypeOK'
    BY <1>0, <2>1 DEF TypeOK, NoUpdate, unitVars, confVars
  <2>3. RunsOnSoundConfig' /\ UpdateServes' /\ OnlyVerified' /\ SwapInv'
    BY <1>0, <2>1 DEF RunsOnSoundConfig, UpdateServes, OnlyVerified, SwapInv, NoUpdate, unitVars, confVars
  <2> QED BY <2>2, <2>3 DEF IInv
<1>18. CASE UNCHANGED vars
  <2>1. TypeOK'
    BY <1>0, <1>18 DEF vars, unitVars, confVars, swapVars, TypeOK
  <2>2. RunsOnSoundConfig'
    BY <1>0, <1>18 DEF vars, unitVars, confVars, swapVars, RunsOnSoundConfig, Serving
  <2>3. UpdateServes'
    BY <1>0, <1>18 DEF vars, unitVars, confVars, swapVars, UpdateServes, Serving
  <2>4. OnlyVerified'
    BY <1>0, <1>18 DEF vars, unitVars, confVars, swapVars, OnlyVerified
  <2>5. SwapInv'
    BY <1>0, <1>18 DEF vars, unitVars, confVars, swapVars, SwapInv, Serving
  <2> QED BY <2>1, <2>2, <2>3, <2>4, <2>5 DEF IInv
<1>19. CASE Main
  <2>1. Main => \/ Ends \/ LoadConfig \/ Listen \/ Shutdown("serving", "terminals")
                \/ Shutdown("terminals", "fans") \/ Shutdown("fans", "games")
    BY DEF Main, DiesEarly, LoadFails, ListenFails, Orderly, CloseTerminals, ReleaseFans,
           StopGames, Leave
  <2> QED BY <1>6, <1>7, <1>8, <1>9, <1>19, <2>1 DEF Serving
<1>20. CASE Update
  BY <1>10, <1>11, <1>12, <1>13, <1>14, <1>15, <1>16, <1>17, <1>20 DEF Update
<1>21. CASE Killed
  BY <1>6, <1>21 DEF Killed
<1> QED BY <1>1, <1>2, <1>3, <1>4, <1>5, <1>18, <1>19, <1>20, <1>21 DEF Next

LEMMA Invariance == Spec => []IInv
BY InitInv, NextInv, PTL DEF Spec

-----------------------------------------------------------------------------
(* The variables of Panel have their types, for any constants. *)
THEOREM TypeCorrect == Spec => []TypeOK
<1>1. IInv => TypeOK
  BY DEF IInv
<1> QED BY <1>1, Invariance, PTL

(* Whatever file an operator writes, the process serves only on what       *)
(* config.validate made sound of it, and that is a fixed point of it.      *)
THEOREM ConfigCorrect == Spec => []RunsOnSoundConfig
<1>1. IInv => RunsOnSoundConfig
  BY DEF IInv
<1> QED BY <1>1, Invariance, PTL

(* A crash, a cancelled call or a failed step of update.go leaves a whole  *)
(* binary to start from, as long as every roll-back of a swap succeeds.    *)
THEOREM BinaryCorrect == Spec => []BinaryIsLeft
<1>1. IInv => BinaryIsLeft
  BY DEF IInv, SwapInv, BinaryIsLeft
<1> QED BY <1>1, Invariance, PTL

(* What does not match its checksum is never put where it would be started. *)
THEOREM VerifiedCorrect == Spec => []OnlyVerified
<1>1. IInv => OnlyVerified
  BY DEF IInv
<1> QED BY <1>1, Invariance, PTL

-----------------------------------------------------------------------------
(* The downloads page *)

Statuses == {"none", "list", "error"}
At == {"idle", "lock", "call", "sent", "index", "merge", "enrich", "answer"}

(* A status, whichever list it refers to; an index; an answer.             *)
StatusShape(c) == c \in [is : Statuses, rev : Nat, age : Nat, since : Nat, slice : {c.slice}]
IndexShape == [is : {"none", "index"}, listed : BOOLEAN, age : Nat, since : Nat]
ReplyShape == [code : {"none", "ok", "failed", "forbidden", "missing"}, rev : Nat, age : Nat]

Shapes ==
  /\ listed \in BOOLEAN /\ mu \in Handlers \cup {Nobody} /\ took \in 0..CallTime
  /\ reply \in ReplyShape /\ StatusShape(cached) /\ index \in IndexShape
  /\ pc \in [Handlers -> At] /\ mine \in [Handlers -> IndexShape]
  /\ got = [h \in Handlers |-> got[h]] /\ \A h \in Handlers : StatusShape(got[h])

(* Only the holder of the mutex makes a call.                              *)
OneCall == \A h \in Handlers : pc[h] \in {"call", "sent"} => mu = h

(* An answer is the holder's, as new as the call, and shows every action   *)
(* that has returned.                                                      *)
ReplyIsNew ==
  reply.code # "none" =>
    /\ mu \in Handlers /\ pc[mu] = "sent"
    /\ reply.age <= took /\ done <= reply.rev /\ reply.rev <= rev

AppliedOnce == applied = 0 \/ (applied = 1 /\ reply.code = "ok" /\ call \in {"new", "old"})

HeldOff == /\ hold \in Nat /\ quiet \in Nat /\ ~hasty
           /\ hold + quiet >= LoginBackoff

Revisions == /\ rev \in Nat /\ done \in Nat /\ floor \in [Handlers -> Nat]
             /\ done <= rev /\ \A h \in Handlers : floor[h] <= done

(* The caches: an entry is as old as it has been there, plus its call.     *)
CacheSound(c, n) ==
  /\ c.is = "list" => /\ c.since < StatusTTL /\ c.age <= c.since + CallTime
                      /\ n <= c.rev
  /\ c.is = "error" => c.since < ErrTTL /\ c.age = c.since
IndexSound(x) == x.is = "index" => x.since < AppsTTL /\ x.age <= x.since + RefreshTime

(* What a handler has got for its page: its status grows older while it    *)
(* waits for the apps, and no app's queue was read before that.            *)
PageSound(at, g, m, f) ==
  /\ at \in {"index", "merge", "enrich", "answer"} =>
       /\ g.is = "list" => /\ g.age < StatusTTL + CallTime + g.since
                           /\ g.since <= RefreshTime /\ f <= g.rev
       /\ g.is = "error" => g.age < ErrTTL
  /\ at \in {"index", "merge", "enrich"} => g.is = "list"
  /\ g.is = "list" => at \in {"index", "merge", "enrich", "answer"}
  /\ at = "merge" => m.since = 0 /\ m.age <= g.since
  /\ at \in {"enrich", "answer"} /\ g.is = "list" => m.age < AppsTTL + RefreshTime
Pages == \A h \in Handlers : PageSound(pc[h], got[h], mine[h], floor[h])

DInv == /\ Shapes /\ OneCall /\ ReplyIsNew /\ AppliedOnce /\ HeldOff /\ Revisions
        /\ CacheSound(cached, done) /\ IndexSound(index) /\ Pages

LEMMA DownloadsStarts == DownloadsInit => DInv
<1> SUFFICES ASSUME DownloadsInit PROVE DInv
  OBVIOUS
<1> USE DownloadsAssumption DEF DownloadsInit, NoStatus, NoReply, NoIndex, Nobody
<1>1. Shapes
  <2>1. StatusShape(cached) /\ \A h \in Handlers : StatusShape(got[h])
    BY DEF StatusShape, Statuses
  <2>2. reply \in ReplyShape /\ index \in IndexShape /\ mine \in [Handlers -> IndexShape]
    BY DEF ReplyShape, IndexShape
  <2>3. pc \in [Handlers -> At] /\ got = [h \in Handlers |-> got[h]]
    BY DEF At
  <2> QED BY <2>1, <2>2, <2>3 DEF Shapes
<1>2. OneCall /\ ReplyIsNew /\ AppliedOnce
  BY DEF OneCall, ReplyIsNew, AppliedOnce
<1>3. HeldOff /\ Revisions
  BY DEF HeldOff, Revisions
<1>4. CacheSound(cached, done) /\ IndexSound(index) /\ Pages
  BY DEF CacheSound, IndexSound, Pages, PageSound
<1> QED BY <1>1, <1>2, <1>3, <1>4 DEF DInv

(* A status for a page: its list is the cached one, its time there is not. *)
LEMMA HandedOut ==
  ASSUME NEW s, StatusShape(s)
  PROVE  /\ StatusShape([s EXCEPT !.since = 0])
         /\ [s EXCEPT !.since = 0].is = s.is /\ [s EXCEPT !.since = 0].rev = s.rev
         /\ [s EXCEPT !.since = 0].age = s.age /\ [s EXCEPT !.since = 0].since = 0
         /\ [s EXCEPT !.since = 0].slice = s.slice
BY DEF StatusShape

(* A handler that is given a sound status has something sound to show.     *)
LEMMA ReturnedSound ==
  ASSUME Shapes, Pages, Revisions, NEW h \in Handlers, NEW s, StatusShape(s),
         CacheSound(s, done), Returned(h, s), UNCHANGED <<mine, floor>>
  PROVE  /\ Pages'
         /\ pc' \in [Handlers -> At]
         /\ pc' = [pc EXCEPT ![h] = pc'[h]] /\ pc'[h] \notin {"call", "sent"}
         /\ got' = [k \in Handlers |-> got'[k]]
         /\ \A k \in Handlers : StatusShape(got'[k])
<1> DEFINE g == [s EXCEPT !.since = 0]
<1>1. /\ StatusShape(g) /\ g.is = s.is /\ g.rev = s.rev /\ g.age = s.age /\ g.since = 0
  BY HandedOut
<1> HIDE DEF g
<1>2. got' = [got EXCEPT ![h] = g]
  BY DEF Returned, g
<1>3. got'[h] = g /\ \A k \in Handlers \ {h} : got'[k] = got[k]
  BY <1>2 DEF Shapes
<1>4. /\ pc' \in [Handlers -> At] /\ pc' = [pc EXCEPT ![h] = pc'[h]]
      /\ pc'[h] \in {"index", "answer"} /\ (pc'[h] = "index" => s.is = "list")
      /\ (pc'[h] = "answer" => s.is # "list")
      /\ \A k \in Handlers \ {h} : pc'[k] = pc[k]
  BY DEF Returned, Shapes, At
<1>5. PageSound(pc'[h], g, mine[h], floor[h])
  <2>1. s.age \in Nat /\ s.since \in Nat /\ floor[h] <= done /\ floor[h] \in Nat /\ done \in Nat
    BY DEF Revisions, StatusShape
  <2>2. s.rev \in Nat
    BY DEF StatusShape
  <2>3. s.is = "list" => s.age < StatusTTL + CallTime /\ floor[h] <= s.rev
    BY <2>1, <2>2, DownloadsAssumption DEF CacheSound
  <2>4. s.is = "error" => s.age < ErrTTL
    BY <2>1, DownloadsAssumption DEF CacheSound
  <2>5. g.is = "list" => /\ g.age < StatusTTL + CallTime + g.since
                         /\ g.since <= RefreshTime /\ floor[h] <= g.rev
    BY <1>1, <2>1, <2>3, DownloadsAssumption
  <2> QED BY <1>1, <1>4, <2>4, <2>5 DEF PageSound
<1>6. Pages'
  BY <1>3, <1>4, <1>5 DEF Pages
<1> QED BY <1>1, <1>2, <1>3, <1>4, <1>6 DEF Shapes

(* The end of a call, whatever comes of it.                                *)
LEMMA FinishInv ==
  ASSUME DInv, NEW h \in Handlers, pc[h] \in {"call", "sent"}, NEW ok, NEW st,
         StatusShape(st), CacheSound(st, done), Finish(h, ok, st), HeldOff'
  PROVE  DInv'
<1> USE DEF DInv
<1>1. /\ mu' = Nobody /\ reply' = NoReply /\ took' = 0 /\ applied' = 0
      /\ UNCHANGED <<listed, mine, index, floor, rev>>
  BY DEF Finish, Release, outside
<1>2. mu = h
  BY DEF OneCall
<1>3. CASE task[h] = "status"
  <2>1. Returned(h, st) /\ cached' = st /\ done' = done
    BY <1>3 DEF Finish
  <2>2. /\ Pages' /\ pc' \in [Handlers -> At]
        /\ pc' = [pc EXCEPT ![h] = pc'[h]] /\ pc'[h] \notin {"call", "sent"}
        /\ got' = [k \in Handlers |-> got'[k]]
        /\ \A k \in Handlers : StatusShape(got'[k])
    BY <1>1, <2>1, ReturnedSound
  <2>3. Shapes'
    BY <1>1, <2>1, <2>2, DownloadsAssumption DEF Shapes, NoReply, ReplyShape
  <2>4. OneCall'
    BY <1>2, <2>2 DEF OneCall, Shapes
  <2>5. ReplyIsNew' /\ AppliedOnce'
    BY <1>1 DEF ReplyIsNew, AppliedOnce, NoReply
  <2>6. Revisions' /\ CacheSound(cached, done)' /\ IndexSound(index)'
    BY <1>1, <2>1 DEF Revisions
  <2> QED BY <2>2, <2>3, <2>4, <2>5, <2>6
<1>4. CASE task[h] # "status"
  <2>1. /\ cached' \in {cached, NoStatus} /\ done' \in {done, rev}
        /\ (done' # done => cached' = NoStatus)
        /\ pc' = [pc EXCEPT ![h] = "idle"] /\ got' = got
    BY <1>4 DEF Finish, Forget
  <2>2. Shapes'
    BY <1>1, <2>1, DownloadsAssumption
       DEF Shapes, NoReply, ReplyShape, At, NoStatus, StatusShape, Statuses
  <2>3. OneCall'
    BY <1>2, <2>1 DEF OneCall, Shapes
  <2>4. ReplyIsNew' /\ AppliedOnce'
    BY <1>1 DEF ReplyIsNew, AppliedOnce, NoReply
  <2>5. Revisions'
    BY <1>1, <2>1 DEF Revisions
  <2>6. CacheSound(cached, done)' /\ IndexSound(index)'
    BY <1>1, <2>1 DEF CacheSound, NoStatus
  <2>7. Pages'
    BY <1>1, <2>1 DEF Pages, PageSound, Shapes
  <2> QED BY <2>2, <2>3, <2>4, <2>5, <2>6, <2>7
<1> QED BY <1>3, <1>4

(* A call that failed leaves an error, which is new.                       *)
LEMMA FailInv ==
  ASSUME DInv, NEW h \in Handlers, pc[h] \in {"call", "sent"}, Fail(h), HeldOff'
  PROVE  DInv'
<1>1. StatusShape(Failure) /\ Failure.is = "error" /\ Failure.age = 0 /\ Failure.since = 0
  BY DEF StatusShape, Failure, NoStatus, Statuses
<1>2. CacheSound(Failure, done)
  BY <1>1, DownloadsAssumption DEF CacheSound
<1> QED BY <1>1, <1>2, FinishInv DEF Fail

(* The holder's next request.                                              *)
LEMMA ProceedInv ==
  ASSUME DInv, NEW h \in Handlers, pc[h] = "sent", applied = 0,
         NEW c, NEW second, Proceed(h, c, second)
  PROVE  DInv'
<1> USE DEF DInv
<1>1. /\ pc' = [pc EXCEPT ![h] = "call"] /\ reply' = NoReply /\ took' = 0
      /\ UNCHANGED <<listed, mu, hold, cached, got, mine, index, rev, applied, done, floor,
                     quiet, hasty>>
  BY DEF Proceed, outside, history
<1>2. Shapes'
  BY <1>1, DownloadsAssumption DEF Shapes, NoReply, ReplyShape, At
<1>3. OneCall'
  BY <1>1 DEF OneCall, Shapes
<1>4. ReplyIsNew' /\ AppliedOnce'
  BY <1>1 DEF ReplyIsNew, AppliedOnce, NoReply
<1>5. HeldOff' /\ Revisions' /\ CacheSound(cached, done)' /\ IndexSound(index)'
  BY <1>1 DEF HeldOff, Revisions
<1>6. Pages'
  BY <1>1 DEF Pages, PageSound, Shapes
<1> QED BY <1>2, <1>3, <1>4, <1>5, <1>6

-----------------------------------------------------------------------------
(* Requests, and the calls of qbit.client *)

LEMMA BeginInv ==
  ASSUME DInv, NEW h \in Handlers, NEW t, Begin(h, t)
  PROVE  DInv'
<1> USE DEF DInv
<1>1. /\ pc' = [pc EXCEPT ![h] = "lock"] /\ pc[h] = "idle"
      /\ floor' \in {[floor EXCEPT ![h] = done], [floor EXCEPT ![h] = 0]}
      /\ UNCHANGED <<listed, rev, mu, hold, cached, reply, call, took, got, mine, index,
                     applied, done, quiet, hasty>>
  BY DEF Begin, outside, client, transport
<1>2. Shapes'
  BY <1>1 DEF Shapes, At
<1>3. OneCall'
  BY <1>1 DEF OneCall, Shapes
<1>4. ReplyIsNew'
  BY <1>1 DEF ReplyIsNew, Shapes
<1>5. AppliedOnce' /\ HeldOff' /\ CacheSound(cached, done)' /\ IndexSound(index)'
  BY <1>1 DEF AppliedOnce, HeldOff
<1>6. Revisions'
  BY <1>1 DEF Revisions
<1>7. Pages'
  <2> SUFFICES ASSUME NEW k \in Handlers PROVE PageSound(pc[k], got[k], mine[k], floor[k])'
    BY DEF Pages
  <2>1. CASE k = h
    <3>1. PageSound(pc[h], got[h], mine[h], floor[h])
      BY DEF Pages
    <3> QED BY <1>1, <2>1, <3>1 DEF PageSound, Shapes
  <2>2. CASE k # h
    <3>1. pc'[k] = pc[k] /\ floor'[k] = floor[k]
      BY <1>1, <2>2 DEF Shapes, Revisions
    <3> QED BY <1>1, <3>1 DEF Pages, PageSound
  <2> QED BY <2>1, <2>2
<1> QED BY <1>2, <1>3, <1>4, <1>5, <1>6, <1>7

LEMMA HitInv == ASSUME DInv, NEW h \in Handlers, Hit(h) PROVE DInv'
<1> USE DEF DInv
<1>1. /\ pc[h] = "lock" /\ Returned(h, cached) /\ cached' = cached
      /\ UNCHANGED <<listed, rev, mu, hold, reply, call, took, mine, index, applied, done,
                     floor, quiet, hasty>>
  BY DEF Hit, AfterHit, outside, transport, history
<1>2. /\ Pages' /\ pc' \in [Handlers -> At]
      /\ pc' = [pc EXCEPT ![h] = pc'[h]] /\ pc'[h] \notin {"call", "sent"}
      /\ got' = [k \in Handlers |-> got'[k]]
      /\ \A k \in Handlers : StatusShape(got'[k])
  BY <1>1, ReturnedSound DEF Shapes
<1>3. Shapes'
  BY <1>1, <1>2 DEF Shapes
<1>4. OneCall'
  BY <1>1, <1>2 DEF OneCall, Shapes
<1>5. ReplyIsNew'
  BY <1>1, <1>2 DEF ReplyIsNew, Shapes
<1>6. AppliedOnce' /\ HeldOff' /\ Revisions' /\ CacheSound(cached, done)' /\ IndexSound(index)'
  BY <1>1 DEF AppliedOnce, HeldOff, Revisions
<1> QED BY <1>2, <1>3, <1>4, <1>5, <1>6

LEMMA EnterInv == ASSUME DInv, NEW h \in Handlers, Enter(h) PROVE DInv'
<1> USE DEF DInv
<1>1. /\ pc[h] = "lock" /\ mu = Nobody /\ mu' = h /\ pc' = [pc EXCEPT ![h] = "call"]
      /\ UNCHANGED <<listed, rev, hold, cached, reply, took, got, mine, index, applied, done,
                     floor, quiet, hasty>>
  BY DEF Enter, outside, history
<1>2. reply.code = "none"
  BY <1>1, DownloadsAssumption DEF ReplyIsNew, Nobody
<1>3. Shapes'
  BY <1>1 DEF Shapes, At
<1>4. OneCall'
  BY <1>1, DownloadsAssumption DEF OneCall, Shapes, Nobody
<1>5. ReplyIsNew' /\ AppliedOnce'
  BY <1>1, <1>2 DEF ReplyIsNew, AppliedOnce
<1>6. HeldOff' /\ Revisions' /\ CacheSound(cached, done)' /\ IndexSound(index)'
  BY <1>1 DEF HeldOff, Revisions
<1>7. Pages'
  BY <1>1 DEF Pages, PageSound, Shapes
<1> QED BY <1>3, <1>4, <1>5, <1>6, <1>7

(* Steps that only change what qBittorrent or the session is like.         *)
LEMMA ElsewhereInv ==
  ASSUME DInv, listed' \in BOOLEAN, rev' \in Nat, rev <= rev',
         UNCHANGED <<mu, hold, cached, call, reply, took, handler, history>>
  PROVE  DInv'
<1>1. ReplyIsNew' /\ Revisions'
  BY DEF DInv, handler, history, ReplyIsNew, Revisions, Shapes, ReplyShape
<1> QED BY <1>1 DEF DInv, handler, history, Shapes, OneCall, AppliedOnce, HeldOff, Pages

LEMMA LoginRejectedInv == ASSUME DInv, NEW h \in Handlers, LoginRejected(h) PROVE DInv'
<1>1. pc[h] = "call" /\ hold = 0 /\ Fail(h)
  BY DEF LoginRejected
<1>2. ~(quiet < LoginBackoff)
  BY <1>1, DownloadsAssumption DEF DInv, HeldOff
<1>3. ~hasty'
  <2>1. hasty' = (hasty \/ quiet < LoginBackoff) /\ ~hasty
    BY DEF DInv, HeldOff, LoginRejected
  <2> QED BY <2>1, <1>2, Zenon
<1>4. hold' = LoginBackoff /\ quiet' = 0
  BY DEF LoginRejected, HoldOff
<1>5. HeldOff'
  BY <1>3, <1>4, DownloadsAssumption DEF HeldOff
<1> QED BY <1>1, <1>5, FailInv

LEMMA LoginFailsInv == ASSUME DInv, NEW h \in Handlers, LoginFails(h) PROVE DInv'
<1>1. pc[h] = "call" /\ Fail(h)
  BY DEF LoginFails
<1>2. HeldOff'
  BY DEF DInv, HeldOff, LoginFails
<1> QED BY <1>1, <1>2, FailInv

LEMMA SendInv == ASSUME DInv, NEW h \in Handlers, Send(h) PROVE DInv'
<1> USE DEF DInv
<1>1. /\ pc[h] = "call" /\ pc' = [pc EXCEPT ![h] = "sent"]
      /\ UNCHANGED <<listed, rev, mu, hold, cached, call, reply, took, got, mine, index,
                     applied, done, floor, quiet, hasty>>
  BY DEF Send, outside, client, transport, history
<1>2. Shapes'
  BY <1>1 DEF Shapes, At
<1>3. OneCall' /\ ReplyIsNew'
  BY <1>1 DEF OneCall, ReplyIsNew, Shapes
<1>4. AppliedOnce' /\ HeldOff' /\ Revisions' /\ CacheSound(cached, done)' /\ IndexSound(index)'
  BY <1>1 DEF AppliedOnce, HeldOff, Revisions
<1>5. Pages'
  BY <1>1 DEF Pages, PageSound, Shapes
<1> QED BY <1>2, <1>3, <1>4, <1>5

LEMMA ServeInv == ASSUME DInv, NEW h \in Handlers, Serve(h) PROVE DInv'
<1> USE DEF DInv
<1>1. PICK c \in {"ok", "failed", "forbidden", "missing"} :
        /\ rev' = IF call \in {"new", "old"} /\ c = "ok" THEN rev + 1 ELSE rev
        /\ applied' = IF call \in {"new", "old"} /\ c = "ok" THEN applied + 1 ELSE applied
        /\ reply' = [code |-> c, rev |-> rev', age |-> 0]
  BY DEF Serve, Acts
<1>2. /\ pc[h] = "sent" /\ reply.code = "none"
      /\ UNCHANGED <<listed, mu, hold, cached, call, took, pc, got, mine, index, done, floor,
                     quiet, hasty>>
  BY DEF Serve, handler
<1>3. mu = h /\ applied = 0
  BY <1>2 DEF OneCall, AppliedOnce
<1>4. rev' \in Nat /\ rev <= rev' /\ reply'.code = c /\ reply'.rev = rev' /\ reply'.age = 0
  BY <1>1 DEF Revisions
<1>5. reply' \in ReplyShape
  BY <1>1, <1>4 DEF ReplyShape
<1>6. Shapes'
  BY <1>2, <1>5 DEF Shapes
<1>7. OneCall' /\ AppliedOnce'
  BY <1>1, <1>2, <1>3, <1>4 DEF OneCall, AppliedOnce
<1>8. ReplyIsNew'
  BY <1>2, <1>3, <1>4 DEF ReplyIsNew, Revisions, Shapes
<1>9. HeldOff' /\ Revisions' /\ CacheSound(cached, done)' /\ IndexSound(index)' /\ Pages'
  BY <1>2, <1>4 DEF HeldOff, Revisions, Pages
<1> QED BY <1>6, <1>7, <1>8, <1>9

LEMMA ReloginInv == ASSUME DInv, NEW h \in Handlers, Relogin(h) PROVE DInv'
<1>1. pc[h] = "sent" /\ reply.code = "forbidden" /\ Proceed(h, call, TRUE)
  BY DEF Relogin, TryAgain
<1>2. applied = 0
  BY <1>1 DEF DInv, AppliedOnce
<1> QED BY <1>1, <1>2, ProceedInv

LEMMA LegacyInv == ASSUME DInv, NEW h \in Handlers, Legacy(h) PROVE DInv'
<1>1. pc[h] = "sent" /\ reply.code = "missing" /\ Proceed(h, "old", FALSE)
  BY DEF Legacy, TryLegacy
<1>2. applied = 0
  BY <1>1 DEF DInv, AppliedOnce
<1> QED BY <1>1, <1>2, ProceedInv

LEMMA ContinueInv == ASSUME DInv, NEW h \in Handlers, Continue(h) PROVE DInv'
<1>1. pc[h] = "sent" /\ call \in {"version", "maindata"} /\ \E c : Proceed(h, c, FALSE)
  BY DEF Continue
<1>2. applied = 0
  BY <1>1 DEF DInv, AppliedOnce
<1> QED BY <1>1, <1>2, ProceedInv

LEMMA SucceedInv == ASSUME DInv, NEW h \in Handlers, Succeed(h) PROVE DInv'
<1>1. /\ pc[h] = "sent" /\ reply.code = "ok" /\ Finish(h, TRUE, Listing)
      /\ UNCHANGED <<hold, quiet, hasty>>
  BY DEF Succeed
<1>2. reply.age <= took /\ took <= CallTime /\ done <= reply.rev
      /\ reply.age \in Nat /\ reply.rev \in Nat
  BY <1>1, DownloadsAssumption DEF DInv, ReplyIsNew, Shapes, ReplyShape
<1>3. /\ Listing.is = "list" /\ Listing.rev = reply.rev /\ Listing.age = reply.age
      /\ Listing.since = 0 /\ StatusShape(Listing)
  BY <1>2 DEF Listing, StatusShape, Statuses
<1>4. CacheSound(Listing, done)
  <2>1. took \in Nat
    BY DownloadsAssumption DEF DInv, Shapes
  <2> QED BY <1>2, <1>3, <2>1, DownloadsAssumption DEF CacheSound
<1>5. HeldOff'
  BY <1>1 DEF DInv, HeldOff
<1> QED BY <1>1, <1>3, <1>4, <1>5, FinishInv

LEMMA GiveUpInv == ASSUME DInv, NEW h \in Handlers, GiveUp(h) PROVE DInv'
<1>1. pc[h] = "sent" /\ Fail(h)
  BY DEF GiveUp
<1>2. HeldOff'
  BY DEF DInv, HeldOff, GiveUp
<1> QED BY <1>1, <1>2, FailInv

-----------------------------------------------------------------------------
(* The apps' index, and the answers *)

(* A step of a handler that makes no call and changes only its own: the    *)
(* rest of the invariant is that its page stays sound.                     *)
LEMMA HandlerInv ==
  ASSUME DInv, NEW h \in Handlers, pc[h] \notin {"call", "sent"},
         NEW to \in At \ {"call", "sent"}, pc' = [pc EXCEPT ![h] = to],
         UNCHANGED <<listed, rev, client, applied, done, quiet, hasty>>,
         mine' \in [Handlers -> IndexShape],
         got' = [k \in Handlers |-> got'[k]],
         StatusShape(got'[h]), floor'[h] \in Nat, floor'[h] <= done,
         floor' \in [Handlers -> Nat],
         \A k \in Handlers \ {h} :
           mine'[k] = mine[k] /\ got'[k] = got[k] /\ floor'[k] = floor[k],
         index' \in IndexShape, IndexSound(index)',
         PageSound(to, got'[h], mine'[h], floor'[h])
  PROVE  DInv'
<1> USE DEF DInv
<1>1. UNCHANGED <<mu, hold, cached, call, reply, took>>
  BY DEF client, transport
<1>2. pc'[h] = to /\ \A k \in Handlers \ {h} : pc'[k] = pc[k]
  BY DEF Shapes
<1>3. Shapes'
  <2>1. pc' \in [Handlers -> At]
    BY DEF Shapes
  <2>2. \A k \in Handlers : StatusShape(got'[k])
    BY DEF Shapes
  <2> QED BY <1>1, <2>1, <2>2 DEF Shapes
<1>4. OneCall'
  BY <1>1, <1>2 DEF OneCall
<1>5. ReplyIsNew'
  BY <1>1, <1>2 DEF ReplyIsNew
<1>6. AppliedOnce' /\ HeldOff' /\ CacheSound(cached, done)'
  BY <1>1 DEF AppliedOnce, HeldOff
<1>7. Revisions'
  BY DEF Revisions
<1>8. Pages'
  BY <1>2 DEF Pages
<1> QED BY <1>3, <1>4, <1>5, <1>6, <1>7, <1>8

LEMMA IndexHitInv == ASSUME DInv, NEW h \in Handlers, IndexHit(h) PROVE DInv'
<1> DEFINE m == [index EXCEPT !.since = 0]
<1>1. /\ pc[h] = "index" /\ index.is = "index" /\ mine' = [mine EXCEPT ![h] = m]
      /\ pc' = [pc EXCEPT ![h] = "enrich"]
      /\ UNCHANGED <<listed, rev, client, got, index, applied, done, floor, quiet, hasty>>
  BY DEF IndexHit, outside, history
<1>2. m \in IndexShape /\ m.age = index.age
  BY DEF DInv, Shapes, IndexShape
<1>3. m.age < AppsTTL + RefreshTime
  <2>1. index.since < AppsTTL /\ index.age <= index.since + RefreshTime
    BY <1>1 DEF DInv, IndexSound
  <2>2. index.since \in Nat /\ index.age \in Nat
    BY DEF DInv, Shapes, IndexShape
  <2> QED BY <1>2, <2>1, <2>2, DownloadsAssumption
<1> HIDE DEF m
<1>4. mine' \in [Handlers -> IndexShape] /\ mine'[h] = m
      /\ \A k \in Handlers \ {h} : mine'[k] = mine[k]
  BY <1>1, <1>2 DEF DInv, Shapes
<1>5. PageSound("enrich", got[h], m, floor[h])
  BY <1>1, <1>3 DEF DInv, Pages, PageSound
<1>6. /\ got = [k \in Handlers |-> got[k]] /\ StatusShape(got[h]) /\ index \in IndexShape
      /\ IndexSound(index) /\ floor[h] \in Nat /\ floor[h] <= done /\ floor \in [Handlers -> Nat]
  BY DEF DInv, Shapes, Revisions
<1> QED BY <1>1, <1>4, <1>5, <1>6, HandlerInv DEF At

LEMMA IndexMissInv == ASSUME DInv, NEW h \in Handlers, IndexMiss(h) PROVE DInv'
<1>1. PICK l \in Queued :
        mine' = [mine EXCEPT ![h] = [is |-> "index", listed |-> l, age |-> 0, since |-> 0]]
  BY DEF IndexMiss
<1> DEFINE m == [is |-> "index", listed |-> l, age |-> 0, since |-> 0]
<1>2. /\ pc[h] = "index" /\ mine' = [mine EXCEPT ![h] = m]
      /\ pc' = [pc EXCEPT ![h] = "merge"]
      /\ UNCHANGED <<listed, rev, client, got, index, applied, done, floor, quiet, hasty>>
  BY <1>1 DEF IndexMiss, outside, history
<1>3. m \in IndexShape /\ m.age = 0 /\ m.since = 0
  BY DEF IndexShape, Queued, DInv, Shapes
<1> HIDE DEF m
<1>4. mine' \in [Handlers -> IndexShape] /\ mine'[h] = m
      /\ \A k \in Handlers \ {h} : mine'[k] = mine[k]
  BY <1>2, <1>3 DEF DInv, Shapes
<1>5. PageSound("merge", got[h], m, floor[h])
  <2>1. got[h].since \in Nat
    BY DEF DInv, Shapes, StatusShape
  <2> QED BY <1>2, <1>3, <2>1, DownloadsAssumption DEF DInv, Pages, PageSound
<1>6. /\ got = [k \in Handlers |-> got[k]] /\ StatusShape(got[h]) /\ index \in IndexShape
      /\ IndexSound(index) /\ floor[h] \in Nat /\ floor[h] <= done /\ floor \in [Handlers -> Nat]
  BY DEF DInv, Shapes, Revisions
<1> QED BY <1>2, <1>4, <1>5, <1>6, HandlerInv DEF At

LEMMA StoreIndexInv == ASSUME DInv, NEW h \in Handlers, StoreIndex(h) PROVE DInv'
<1>1. /\ pc[h] = "merge" /\ index' = mine[h]
      /\ pc' = [pc EXCEPT ![h] = "enrich"]
      /\ UNCHANGED <<listed, rev, client, got, mine, applied, done, floor, quiet, hasty>>
  BY DEF StoreIndex, outside, history
<1>2. /\ mine[h] \in IndexShape /\ mine[h].since = 0 /\ mine[h].age <= RefreshTime
      /\ mine \in [Handlers -> IndexShape] /\ mine[h].age \in Nat
  <2>1. got[h].since \in Nat /\ mine[h] \in IndexShape
    BY DEF DInv, Shapes, StatusShape
  <2>2. PageSound(pc[h], got[h], mine[h], floor[h])
    BY DEF DInv, Pages
  <2>3. /\ mine[h].since = 0 /\ mine[h].age <= got[h].since /\ got[h].since <= RefreshTime
        /\ mine[h].age \in Nat
    BY <1>1, <2>1, <2>2 DEF PageSound, IndexShape
  <2> QED BY <2>1, <2>3, DownloadsAssumption DEF DInv, Shapes
<1>3. IndexSound(index)'
  BY <1>1, <1>2, DownloadsAssumption DEF IndexSound
<1>4. mine[h].age < AppsTTL + RefreshTime
  BY <1>2, DownloadsAssumption
<1>5. PageSound("enrich", got[h], mine[h], floor[h])
  BY <1>1, <1>4 DEF DInv, Pages, PageSound
<1>6. /\ got = [k \in Handlers |-> got[k]] /\ StatusShape(got[h])
      /\ floor[h] \in Nat /\ floor[h] <= done /\ floor \in [Handlers -> Nat]
  BY DEF DInv, Shapes, Revisions
<1> QED BY <1>1, <1>2, <1>3, <1>5, <1>6, HandlerInv DEF At

LEMMA EnrichInv == ASSUME DInv, NEW h \in Handlers, Enrich(h) PROVE DInv'
<1>1. /\ pc[h] = "enrich" /\ pc' = [pc EXCEPT ![h] = "answer"]
      /\ UNCHANGED <<listed, rev, client, got, mine, index, applied, done, floor, quiet, hasty>>
  BY DEF Enrich, outside, history
<1>2. PageSound("answer", got[h], mine[h], floor[h])
  BY <1>1 DEF DInv, Pages, PageSound
<1>3. /\ got = [k \in Handlers |-> got[k]] /\ StatusShape(got[h]) /\ index \in IndexShape
      /\ IndexSound(index) /\ floor[h] \in Nat /\ floor[h] <= done /\ floor \in [Handlers -> Nat]
      /\ mine \in [Handlers -> IndexShape]
  BY DEF DInv, Shapes, Revisions
<1> QED BY <1>1, <1>2, <1>3, HandlerInv DEF At

LEMMA AnswerInv == ASSUME DInv, NEW h \in Handlers, Answer(h) PROVE DInv'
<1>1. /\ pc[h] = "answer" /\ pc' = [pc EXCEPT ![h] = "idle"]
      /\ got' = [got EXCEPT ![h] = NoStatus] /\ mine' = [mine EXCEPT ![h] = NoIndex]
      /\ floor' = [floor EXCEPT ![h] = 0]
      /\ UNCHANGED <<listed, rev, client, index, applied, done, quiet, hasty>>
  BY DEF Answer, outside
<1>2. StatusShape(NoStatus) /\ NoIndex \in IndexShape
  BY DEF StatusShape, NoStatus, Statuses, IndexShape, NoIndex
<1>3. /\ got'[h] = NoStatus /\ got' = [k \in Handlers |-> got'[k]]
      /\ mine' \in [Handlers -> IndexShape] /\ floor' \in [Handlers -> Nat] /\ floor'[h] = 0
      /\ \A k \in Handlers \ {h} :
           mine'[k] = mine[k] /\ got'[k] = got[k] /\ floor'[k] = floor[k]
  BY <1>1, <1>2 DEF DInv, Shapes, Revisions
<1>4. PageSound("idle", got'[h], mine'[h], floor'[h])
  BY <1>3 DEF PageSound, NoStatus
<1>5. index \in IndexShape /\ IndexSound(index) /\ 0 <= done
  BY DEF DInv, Shapes, Revisions
<1> QED BY <1>1, <1>2, <1>3, <1>4, <1>5, HandlerInv DEF At

-----------------------------------------------------------------------------
(* Time *)

(* A cached status grows older, or its time is over.                       *)
LEMMA CacheAges ==
  ASSUME NEW c, StatusShape(c), NEW n, CacheSound(c, n),
         NEW o, o = Older(c, TTL(c), NoStatus)
  PROVE  StatusShape(o) /\ CacheSound(o, n)
<1> DEFINE i == c.since + 1
           j == c.age + 1
           aged == [c EXCEPT !.since = i, !.age = j]
<1>1. c.age \in Nat /\ c.since \in Nat
  BY DEF StatusShape
<1>2. /\ StatusShape(aged) /\ aged.is = c.is /\ aged.rev = c.rev
      /\ aged.age = c.age + 1 /\ aged.since = c.since + 1
  <2>1. i \in Nat /\ j \in Nat
    BY <1>1
  <2> HIDE DEF i, j
  <2>2. /\ StatusShape(aged) /\ aged.is = c.is /\ aged.rev = c.rev
        /\ aged.age = j /\ aged.since = i
    BY <2>1 DEF StatusShape
  <2> HIDE DEF aged
  <2> QED BY <2>2 DEF i, j
<1>3. StatusShape(NoStatus) /\ NoStatus.is = "none"
  BY DEF StatusShape, NoStatus, Statuses
<1>4. TTL(c) \in Nat
  BY DownloadsAssumption DEF TTL
<1>5. CASE c.is = "none" \/ c.since + 1 >= TTL(c)
  <2>1. o = NoStatus
    BY <1>5 DEF Older
  <2> QED BY <2>1, <1>3 DEF CacheSound
<1>6. CASE ~(c.is = "none" \/ c.since + 1 >= TTL(c))
  <2>1. o = aged
    BY <1>6 DEF Older
  <2>2. c.since + 1 < TTL(c)
    BY <1>1, <1>4, <1>6
  <2> HIDE DEF aged
  <2>3. CacheSound(aged, n)
    <3>1. c.is = "list" => aged.since < StatusTTL /\ aged.age <= aged.since + CallTime
      BY <1>1, <1>2, <2>2, DownloadsAssumption DEF CacheSound, TTL
    <3>2. c.is = "error" => aged.since < ErrTTL /\ aged.age = aged.since
      BY <1>1, <1>2, <2>2, DownloadsAssumption DEF CacheSound, TTL
    <3> QED BY <1>2, <3>1, <3>2 DEF CacheSound
  <2> QED BY <1>2, <2>1, <2>3
<1> QED BY <1>5, <1>6

LEMMA IndexAges ==
  ASSUME NEW x \in IndexShape, IndexSound(x), NEW o, o = Older(x, AppsTTL, NoIndex)
  PROVE  o \in IndexShape /\ IndexSound(o)
<1> DEFINE i == x.since + 1
           j == x.age + 1
           aged == [x EXCEPT !.since = i, !.age = j]
<1>1. x.age \in Nat /\ x.since \in Nat
  BY DEF IndexShape
<1>2. aged \in IndexShape /\ aged.is = x.is /\ aged.age = x.age + 1 /\ aged.since = x.since + 1
  <2>1. i \in Nat /\ j \in Nat
    BY <1>1
  <2> HIDE DEF i, j
  <2>2. /\ aged \in IndexShape /\ aged.is = x.is
        /\ aged.age = j /\ aged.since = i
    BY <2>1 DEF IndexShape
  <2> HIDE DEF aged
  <2> QED BY <2>2 DEF i, j
<1>3. NoIndex \in IndexShape /\ NoIndex.is = "none"
  BY DEF IndexShape, NoIndex
<1>4. CASE x.is = "none" \/ x.since + 1 >= AppsTTL
  <2>1. o = NoIndex
    BY <1>4 DEF Older
  <2> QED BY <2>1, <1>3 DEF IndexSound
<1>5. CASE ~(x.is = "none" \/ x.since + 1 >= AppsTTL)
  <2>1. o = aged
    BY <1>5 DEF Older
  <2> HIDE DEF aged
  <2>2. IndexSound(aged)
    BY <1>1, <1>2, <1>5, DownloadsAssumption DEF IndexSound
  <2> QED BY <1>2, <2>1, <2>2
<1> QED BY <1>4, <1>5

(* The status of a handler that waits for the apps, a tick later.          *)
LEMMA GotAges ==
  ASSUME NEW g, StatusShape(g)
  PROVE  /\ StatusShape(Waited(g)) /\ Waited(g).is = g.is /\ Waited(g).rev = g.rev
         /\ Waited(g).slice = g.slice
         /\ Waited(g).age = g.age + 1 /\ Waited(g).since = g.since + 1
<1> DEFINE i == g.since + 1
           j == g.age + 1
           o == [g EXCEPT !.age = j, !.since = i]
<1>1. i \in Nat /\ j \in Nat
  BY DEF StatusShape
<1> HIDE DEF i, j
<1>2. /\ StatusShape(o) /\ o.is = g.is /\ o.rev = g.rev /\ o.slice = g.slice
      /\ o.age = j /\ o.since = i
  BY <1>1 DEF StatusShape
<1> HIDE DEF o
<1>3. Waited(g) = o
  BY DEF Waited, o, i, j
<1> QED BY <1>2, <1>3 DEF i, j

LEMMA ClockGot ==
  ASSUME Shapes, Tick
  PROVE  /\ got' = [h \in Handlers |-> got'[h]]
         /\ \A h \in Handlers :
              /\ StatusShape(got'[h]) /\ pc[h] \notin {"enrich", "answer"}
              /\ got'[h].is = got[h].is /\ got'[h].slice = got[h].slice
              /\ IF AskingApps(h)
                 THEN /\ got[h].since < RefreshTime /\ got'[h].rev = got[h].rev
                      /\ got'[h].age = got[h].age + 1 /\ got'[h].since = got[h].since + 1
                 ELSE got'[h] = got[h]
<1>1. /\ got' = [h \in Handlers |-> got'[h]]
      /\ \A h \in Handlers :
           /\ got'[h] = IF AskingApps(h) THEN Waited(got[h]) ELSE got[h]
           /\ pc[h] \notin {"enrich", "answer"}
           /\ AskingApps(h) => got[h].since < RefreshTime
  BY DEF Tick
<1>2. ASSUME NEW h \in Handlers
      PROVE  /\ StatusShape(got'[h])
             /\ got'[h].is = got[h].is /\ got'[h].slice = got[h].slice
             /\ IF AskingApps(h)
                THEN /\ got[h].since < RefreshTime /\ got'[h].rev = got[h].rev
                     /\ got'[h].age = got[h].age + 1 /\ got'[h].since = got[h].since + 1
                ELSE got'[h] = got[h]
  <2>1. StatusShape(got[h])
    BY DEF Shapes
  <2>2. CASE AskingApps(h)
    BY <1>1, <2>1, <2>2, GotAges
  <2>3. CASE ~AskingApps(h)
    BY <1>1, <2>1, <2>3
  <2> QED BY <2>2, <2>3
<1> QED BY <1>1, <1>2

LEMMA ClockInv == ASSUME DInv, Tick PROVE DInv'
<1> USE DEF DInv
<1>1. /\ took < CallTime /\ took \in Nat
      /\ UNCHANGED <<listed, rev, mu, call, pc, applied, done, floor, hasty>>
  BY DownloadsAssumption DEF Tick, outside, Shapes
<1>2. StatusShape(cached)' /\ CacheSound(cached, done)'
  <2>1. cached' = Older(cached, TTL(cached), NoStatus)
    BY DEF Tick
  <2> QED BY <1>1, <2>1, CacheAges DEF Shapes
<1>3. index' \in IndexShape /\ IndexSound(index)'
  <2>1. index' = Older(index, AppsTTL, NoIndex)
    BY DEF Tick
  <2> QED BY <2>1, IndexAges DEF Shapes
<1>4. /\ took' \in 0..CallTime
      /\ \A h \in Handlers : pc[h] = "sent" => took' = took + 1
  BY <1>1, DownloadsAssumption DEF Tick
<1>5. /\ reply' \in ReplyShape /\ reply'.code = reply.code /\ reply'.rev = reply.rev
      /\ reply.code # "none" => reply'.age = reply.age + 1
  BY DEF Tick, Shapes, ReplyShape
<1>6. ReplyIsNew'
  <2>1. reply.age \in Nat
    BY DEF Shapes, ReplyShape
  <2> QED BY <1>1, <1>4, <1>5, <2>1 DEF ReplyIsNew
<1>7. HeldOff'
  <2>1. hold' = (IF hold = 0 THEN 0 ELSE hold - 1)
        /\ quiet' = (IF quiet = LoginBackoff THEN quiet ELSE quiet + 1)
    BY DEF Tick
  <2> QED BY <1>1, <2>1, DownloadsAssumption DEF HeldOff
<1>8. /\ mine' \in [Handlers -> IndexShape]
      /\ \A h \in Handlers :
           pc[h] = "merge" => mine'[h].age = mine[h].age + 1 /\ mine'[h].since = mine[h].since
  <2>1. mine' = [h \in Handlers |->
                   IF pc[h] = "merge" THEN [mine[h] EXCEPT !.age = @ + 1] ELSE mine[h]]
    BY DEF Tick
  <2>2. \A h \in Handlers : mine[h] \in IndexShape
    BY DEF Shapes
  <2>3. \A h \in Handlers :
          /\ [mine[h] EXCEPT !.age = @ + 1] \in IndexShape
          /\ [mine[h] EXCEPT !.age = @ + 1].age = mine[h].age + 1
          /\ [mine[h] EXCEPT !.age = @ + 1].since = mine[h].since
    BY <2>2 DEF IndexShape
  <2> QED BY <2>1, <2>2, <2>3
<1>9. Pages'
  <2> SUFFICES ASSUME NEW h \in Handlers PROVE PageSound(pc[h], got'[h], mine'[h], floor[h])
    BY <1>1 DEF Pages
  <2>1. /\ PageSound(pc[h], got[h], mine[h], floor[h]) /\ StatusShape(got[h])
        /\ mine[h].age \in Nat
    BY DEF Pages, Shapes, IndexShape
  <2>2. got[h].age \in Nat /\ got[h].since \in Nat
    BY <2>1 DEF StatusShape
  <2>3. CASE AskingApps(h)
    <3>1. /\ got'[h].is = got[h].is /\ got'[h].rev = got[h].rev /\ got[h].since < RefreshTime
          /\ got'[h].age = got[h].age + 1 /\ got'[h].since = got[h].since + 1
          /\ pc[h] \in {"index", "merge"}
      BY <2>3, ClockGot DEF AskingApps
    <3>2. /\ got[h].is = "list" /\ got[h].age < StatusTTL + CallTime + got[h].since
          /\ floor[h] <= got[h].rev
          /\ pc[h] = "merge" => mine[h].since = 0 /\ mine[h].age <= got[h].since
      BY <2>1, <3>1 DEF PageSound
    <3>3. /\ got'[h].age < StatusTTL + CallTime + got'[h].since
          /\ got'[h].since <= RefreshTime
      BY <2>2, <3>1, <3>2, DownloadsAssumption
    <3>4. pc[h] = "merge" => mine'[h].since = 0 /\ mine'[h].age <= got'[h].since
      BY <1>8, <2>1, <2>2, <3>1, <3>2
    <3> QED BY <3>1, <3>2, <3>3, <3>4 DEF PageSound
  <2>4. CASE ~AskingApps(h)
    <3>1. got'[h] = got[h] /\ pc[h] \notin {"index", "merge", "enrich", "answer"}
      BY <2>4, ClockGot DEF AskingApps
    <3> QED BY <2>1, <3>1 DEF PageSound
  <2> QED BY <2>3, <2>4
<1>10. Shapes'
  <2>1. /\ got' = [h \in Handlers |-> got'[h]] /\ \A h \in Handlers : StatusShape(got'[h])
    BY ClockGot
  <2> QED BY <1>1, <1>2, <1>3, <1>4, <1>5, <1>8, <2>1 DEF Shapes
<1>11. OneCall' /\ AppliedOnce' /\ Revisions'
  BY <1>1, <1>5 DEF OneCall, AppliedOnce, Revisions
<1> QED BY <1>2, <1>3, <1>6, <1>7, <1>9, <1>10, <1>11

-----------------------------------------------------------------------------
(* The invariant, and what follows *)

LEMMA DownloadsStep == DInv /\ [DownloadsNext]_downloadsVars => DInv'
<1> SUFFICES ASSUME DInv, [DownloadsNext]_downloadsVars PROVE DInv'
  OBVIOUS
<1>1. CASE Outside \/ ServeLate
  <2>1. listed' \in BOOLEAN
    <3>1. CASE Outside
      BY <3>1 DEF Outside, DInv, Shapes
    <3>2. CASE ServeLate
      BY <3>2 DEF ServeLate, DInv, Shapes
    <3> QED BY <1>1, <3>1, <3>2
  <2>2. UNCHANGED <<mu, hold, cached, call, reply, took, handler, history>>
    BY <1>1 DEF Outside, ServeLate, client, transport
  <2>3. rev' \in {rev, rev + 1}
    BY <1>1 DEF Outside, ServeLate
  <2> QED BY <2>1, <2>2, <2>3, ElsewhereInv DEF DInv, Revisions
<1>2. CASE Tick
  BY <1>2, ClockInv
<1>3. ASSUME NEW h \in Handlers, Step(h) PROVE DInv'
  <2>1. CASE handleQbit(h) \/ handleQbitFiles(h) \/ handleQbitAction(h)
    BY <2>1, BeginInv DEF handleQbit, handleQbitFiles, handleQbitAction
  <2>2. CASE LoginOk(h) \/ LoginUnasked(h)
    <3>1. /\ listed' = listed
          /\ UNCHANGED <<rev, mu, hold, cached, call, reply, took, handler, history>>
      BY <2>2 DEF LoginOk, LoginUnasked, outside, transport
    <3> QED BY <3>1, ElsewhereInv DEF DInv, Shapes, Revisions
  <2>3. CASE Hit(h) \/ Enter(h) \/ LoginRejected(h) \/ LoginFails(h) \/ Send(h) \/ Serve(h)
    BY <2>3, HitInv, EnterInv, LoginRejectedInv, LoginFailsInv, SendInv, ServeInv
  <2>4. CASE Relogin(h) \/ Legacy(h) \/ Continue(h) \/ Succeed(h) \/ GiveUp(h)
    BY <2>4, ReloginInv, LegacyInv, ContinueInv, SucceedInv, GiveUpInv
  <2>5. CASE IndexHit(h) \/ IndexMiss(h) \/ StoreIndex(h) \/ Enrich(h) \/ Answer(h)
    BY <2>5, IndexHitInv, IndexMissInv, StoreIndexInv, EnrichInv, AnswerInv
  <2> QED BY <1>3, <2>1, <2>2, <2>3, <2>4, <2>5 DEF Step
<1>4. CASE UNCHANGED downloadsVars
  <2>1. /\ listed' = listed
        /\ UNCHANGED <<rev, mu, hold, cached, call, reply, took, handler, history>>
    BY <1>4 DEF downloadsVars, outside, client, transport
  <2> QED BY <2>1, ElsewhereInv DEF DInv, Shapes, Revisions
<1> QED BY <1>1, <1>2, <1>3, <1>4 DEF DownloadsNext

LEMMA DownloadsInvariance == DownloadsSpec => []DInv
BY DownloadsStarts, DownloadsStep, PTL DEF DownloadsSpec

-----------------------------------------------------------------------------
(* The lists of torrents, and the media that handlers write into them      *)

(* The media in a list are no older than an index can be when it is joined *)
(* plus the time the list has been cached, and for a handler that has the  *)
(* list plus all the time it may have been plus its wait.                  *)
ListShape == [media : BOOLEAN, runtime : BOOLEAN, age : Nat]
CachedSound(c, l) ==
  c.is = "list" => /\ c.slice \in DOMAIN l
                   /\ l[c.slice].age < AppsTTL + RefreshTime + c.since
GotSound(g, l) ==
  g.is = "list" => /\ g.slice \in DOMAIN l
                   /\ l[g.slice].age + 1 < AppsTTL + RefreshTime + StatusTTL + g.since
ListsInv ==
  /\ \A s \in DOMAIN lists : lists[s] \in ListShape
  /\ CachedSound(cached, lists)
  /\ \A h \in Handlers : GotSound(got[h], lists)

(* Lists keeps what is referred to, and its new ones hold nothing yet.     *)
LEMMA ListsKept ==
  ASSUME NEW c, NEW g, NEW new, NEW l, l = Lists(c, g, new),
         \A s \in DOMAIN lists : lists[s] \in ListShape,
         c.is = "list" => c.slice \in new \/ c.slice \in DOMAIN lists,
         \A h \in Handlers : g[h].is = "list" => g[h].slice \in new \/ g[h].slice \in DOMAIN lists
  PROVE  /\ \A s \in DOMAIN l : l[s] \in ListShape /\ l[s] = IF s \in new THEN Blank ELSE lists[s]
         /\ c.is = "list" => c.slice \in DOMAIN l
         /\ \A h \in Handlers : g[h].is = "list" => g[h].slice \in DOMAIN l
<1> DEFINE held == {x \in {c} \cup {g[h] : h \in Handlers} : x.is = "list"}
           used == {x.slice : x \in held}
<1>1. l = [s \in used |-> IF s \in new THEN Blank ELSE lists[s]]
  BY DEF Lists
<1>2. DOMAIN l = used /\ \A s \in DOMAIN l : l[s] = IF s \in new THEN Blank ELSE lists[s]
  BY <1>1
<1>3. Blank \in ListShape
  BY DEF Blank, ListShape
<1>4. \A s \in used : s \in new \/ s \in DOMAIN lists
  OBVIOUS
<1>5. \A s \in DOMAIN l : l[s] \in ListShape
  BY <1>2, <1>3, <1>4
<1>6. /\ c.is = "list" => c.slice \in used
      /\ \A h \in Handlers : g[h].is = "list" => g[h].slice \in used
  OBVIOUS
<1> QED BY <1>2, <1>5, <1>6

LEMMA ListsSound ==
  ASSUME NEW c, NEW g, NEW new, NEW l, l = Lists(c, g, new),
         \A s \in DOMAIN lists : lists[s] \in ListShape,
         c.since \in Nat, \A h \in Handlers : g[h].since \in Nat,
         c.is = "list" => c.slice \in new \/ CachedSound(c, lists),
         \A h \in Handlers : g[h].is = "list" => g[h].slice \in new \/ GotSound(g[h], lists)
  PROVE  /\ \A s \in DOMAIN l : l[s] \in ListShape
         /\ CachedSound(c, l)
         /\ \A h \in Handlers : GotSound(g[h], l)
<1>1. /\ \A s \in DOMAIN l : l[s] \in ListShape /\ l[s] = IF s \in new THEN Blank ELSE lists[s]
      /\ c.is = "list" => c.slice \in DOMAIN l
      /\ \A h \in Handlers : g[h].is = "list" => g[h].slice \in DOMAIN l
  BY ListsKept DEF CachedSound, GotSound
<1>2. Blank.age = 0
  BY DEF Blank
<1>3. CachedSound(c, l)
  BY <1>1, <1>2, DownloadsAssumption DEF CachedSound
<1>4. ASSUME NEW h \in Handlers PROVE GotSound(g[h], l)
  BY <1>1, <1>2, DownloadsAssumption DEF GotSound
<1> QED BY <1>1, <1>3, <1>4

(* What a cached status gives to the handler that it is handed out to.     *)
LEMMA GotFromCache ==
  ASSUME NEW s, StatusShape(s), NEW n, CacheSound(s, n), CachedSound(s, lists),
         \A x \in DOMAIN lists : lists[x] \in ListShape
  PROVE  GotSound([s EXCEPT !.since = 0], lists)
<1> DEFINE g == [s EXCEPT !.since = 0]
<1>1. g.is = s.is /\ g.since = 0 /\ g.slice = s.slice
  BY HandedOut
<1> HIDE DEF g
<1>2. ASSUME s.is = "list" PROVE lists[s.slice].age + 1 < AppsTTL + RefreshTime + StatusTTL
  <2>1. /\ s.slice \in DOMAIN lists /\ lists[s.slice].age < AppsTTL + RefreshTime + s.since
        /\ s.since < StatusTTL
    BY <1>2 DEF CachedSound, CacheSound
  <2>2. s.since \in Nat /\ lists[s.slice].age \in Nat
    BY <2>1 DEF StatusShape, ListShape
  <2> QED BY <2>1, <2>2, DownloadsAssumption
<1>3. GotSound(g, lists)
  BY <1>1, <1>2, DownloadsAssumption DEF GotSound, CachedSound
<1> QED BY <1>3 DEF g

LEMMA ListsStay == ASSUME ListsInv, UNCHANGED <<cached, got, lists>> PROVE ListsInv'
BY DEF ListsInv, CachedSound, GotSound

LEMMA FinishLists ==
  ASSUME DInv, DInv', ListsInv, NEW h \in Handlers, NEW ok, NEW st, StatusShape(st),
         Finish(h, ok, st)
  PROVE  ListsInv'
<1> DEFINE new == IF st.is = "list" THEN {st.slice} ELSE {}
<1>1. lists' = Lists(cached', got', new)
  BY DEF Finish
<1>2. cached'.since \in Nat /\ \A k \in Handlers : got'[k].since \in Nat
  BY DEF DInv, Shapes, StatusShape
<1>3. \A s \in DOMAIN lists : lists[s] \in ListShape
  BY DEF ListsInv
<1>4. CASE task[h] = "status"
  <2> DEFINE g == [st EXCEPT !.since = 0]
  <2>1. cached' = st /\ got' = [got EXCEPT ![h] = g]
    BY <1>4 DEF Finish, Returned
  <2>2. g.is = st.is /\ g.slice = st.slice
    BY HandedOut
  <2> HIDE DEF g
  <2>3. \A k \in Handlers : got'[k] = IF k = h THEN g ELSE got[k]
    BY <2>1 DEF DInv, Shapes
  <2>4. cached'.is = "list" => cached'.slice \in new
    BY <2>1
  <2>5. \A k \in Handlers : got'[k].is = "list" => got'[k].slice \in new \/ GotSound(got'[k], lists)
    BY <2>2, <2>3 DEF ListsInv
  <2> HIDE DEF new
  <2> QED BY <1>1, <1>2, <1>3, <2>4, <2>5, ListsSound DEF ListsInv
<1>5. CASE task[h] # "status"
  <2>1. cached' \in {cached, NoStatus} /\ got' = got
    BY <1>5 DEF Finish, Forget
  <2>2. cached'.is = "list" => CachedSound(cached', lists)
    BY <2>1 DEF ListsInv, NoStatus
  <2>3. \A k \in Handlers : GotSound(got'[k], lists)
    BY <2>1 DEF ListsInv
  <2> HIDE DEF new
  <2> QED BY <1>1, <1>2, <1>3, <2>2, <2>3, ListsSound DEF ListsInv
<1> QED BY <1>4, <1>5

LEMMA HitLists ==
  ASSUME DInv, ListsInv, NEW h \in Handlers, Hit(h)
  PROVE  ListsInv'
<1> DEFINE g == [cached EXCEPT !.since = 0]
<1>1. got' = [got EXCEPT ![h] = g] /\ UNCHANGED <<cached, lists>>
  BY DEF Hit, Returned, AfterHit
<1>2. GotSound(g, lists)
  BY GotFromCache DEF DInv, Shapes, ListsInv
<1> HIDE DEF g
<1>3. \A k \in Handlers : got'[k] = IF k = h THEN g ELSE got[k]
  BY <1>1 DEF DInv, Shapes
<1>4. \A k \in Handlers : GotSound(got'[k], lists)
  BY <1>2, <1>3 DEF ListsInv
<1> QED BY <1>1, <1>4 DEF ListsInv, CachedSound, GotSound

(* A handler writes media that are no older than its index.                *)
LEMMA EnrichLists ==
  ASSUME DInv, ListsInv, NEW h \in Handlers, Enrich(h)
  PROVE  ListsInv'
<1> DEFINE s == got[h].slice
           a == IF mine[h].listed THEN mine[h].age ELSE lists[s].age
           x == [media |-> lists[s].media \/ mine[h].listed, runtime |-> mine[h].listed, age |-> a]
<1>1. lists' = [lists EXCEPT ![s] = x] /\ pc[h] = "enrich" /\ UNCHANGED <<cached, got>>
  BY DEF Enrich, client
<1>2. /\ mine[h] \in IndexShape /\ PageSound(pc[h], got[h], mine[h], floor[h])
      /\ GotSound(got[h], lists)
  BY DEF DInv, Shapes, Pages, ListsInv
<1>3. got[h].is = "list" /\ mine[h].age < AppsTTL + RefreshTime
  BY <1>1, <1>2 DEF PageSound
<1>4. s \in DOMAIN lists /\ lists[s] \in ListShape /\ lists[s].age \in Nat
  BY <1>2, <1>3 DEF GotSound, ListsInv, ListShape
<1>5. x \in ListShape /\ x.age = a
  BY <1>2, <1>4 DEF ListShape, IndexShape
<1> HIDE DEF x
<1>6. DOMAIN lists' = DOMAIN lists /\ \A r \in DOMAIN lists : lists'[r] = IF r = s THEN x ELSE lists[r]
  BY <1>1, <1>4
<1>7. mine[h].age \in Nat
  BY <1>2 DEF IndexShape
<1>8. CachedSound(cached, lists')
  <2>1. CachedSound(cached, lists) /\ cached.since \in Nat
    BY DEF DInv, Shapes, StatusShape, ListsInv
  <2> QED BY <1>3, <1>5, <1>6, <1>7, <2>1, DownloadsAssumption DEF CachedSound
<1>9. ASSUME NEW k \in Handlers PROVE GotSound(got[k], lists')
  <2>1. GotSound(got[k], lists) /\ got[k].since \in Nat
    BY DEF DInv, Shapes, StatusShape, ListsInv
  <2> QED BY <1>3, <1>5, <1>6, <1>7, <2>1, DownloadsAssumption DEF GotSound
<1>10. \A r \in DOMAIN lists' : lists'[r] \in ListShape
  BY <1>5, <1>6 DEF ListsInv
<1> QED BY <1>1, <1>8, <1>9, <1>10 DEF ListsInv

LEMMA AnswerLists ==
  ASSUME DInv, DInv', ListsInv, NEW h \in Handlers, Answer(h)
  PROVE  ListsInv'
<1>1. lists' = Lists(cached, got', {}) /\ got' = [got EXCEPT ![h] = NoStatus] /\ cached' = cached
  BY DEF Answer, client
<1>2. cached.since \in Nat /\ \A k \in Handlers : got'[k].since \in Nat
  BY DEF DInv, Shapes, StatusShape
<1>3. (\A s \in DOMAIN lists : lists[s] \in ListShape) /\ CachedSound(cached, lists)
  BY DEF ListsInv
<1>4. \A k \in Handlers : got'[k] = IF k = h THEN NoStatus ELSE got[k]
  BY <1>1 DEF DInv, Shapes
<1>5. \A k \in Handlers : GotSound(got'[k], lists)
  BY <1>4 DEF ListsInv, GotSound, NoStatus
<1>6. /\ \A s \in DOMAIN lists' : lists'[s] \in ListShape
      /\ CachedSound(cached, lists')
      /\ \A k \in Handlers : GotSound(got'[k], lists')
  BY <1>1, <1>2, <1>3, <1>5, ListsSound
<1> QED BY <1>1, <1>6 DEF ListsInv

(* The media grow older with the status they are in.                       *)
LEMMA ClockLists ==
  ASSUME DInv, DInv', ListsInv, Tick
  PROVE  ListsInv'
<1> DEFINE l == Lists(cached', got', {})
<1>1. lists' = Aged(l) /\ cached' = Older(cached, TTL(cached), NoStatus)
  BY DEF Tick
<1>2. /\ cached'.since \in Nat /\ cached.since \in Nat
      /\ \A h \in Handlers : got'[h].since \in Nat /\ got[h].since \in Nat
  BY DEF DInv, Shapes, StatusShape
<1>3. cached'.is = "list" => /\ cached.is = "list" /\ cached'.slice = cached.slice
                             /\ cached'.since = cached.since + 1
  <2>1. CASE cached' = NoStatus
    BY <2>1 DEF NoStatus
  <2>2. CASE cached' # NoStatus
    <3>1. cached' = [cached EXCEPT !.since = @ + 1, !.age = @ + 1]
      BY <1>1, <2>2 DEF Older
    <3>2. StatusShape(cached)
      BY DEF DInv, Shapes
    <3>3. [cached EXCEPT !.since = @ + 1, !.age = @ + 1] = Waited(cached)
      BY <3>2 DEF Waited, StatusShape
    <3> QED BY <3>1, <3>2, <3>3, GotAges
  <2> QED BY <2>1, <2>2
<1>4. \A h \in Handlers :
        got'[h].is = "list" => /\ got[h].is = "list" /\ got'[h].slice = got[h].slice
                               /\ got'[h].since = got[h].since + 1
  <2> SUFFICES ASSUME NEW h \in Handlers, got'[h].is = "list"
               PROVE  /\ got[h].is = "list" /\ got'[h].slice = got[h].slice
                      /\ got'[h].since = got[h].since + 1
    OBVIOUS
  <2>1. /\ got[h].is = "list" /\ got'[h].slice = got[h].slice
        /\ pc[h] \notin {"enrich", "answer"}
        /\ AskingApps(h) => got'[h].since = got[h].since + 1
    BY ClockGot DEF DInv
  <2>2. PageSound(pc[h], got[h], mine[h], floor[h])
    BY DEF DInv, Pages
  <2>3. AskingApps(h)
    BY <2>1, <2>2 DEF PageSound, AskingApps
  <2> QED BY <2>1, <2>3
<1>5. /\ \A s \in DOMAIN l : l[s] \in ListShape /\ l[s] = lists[s]
      /\ cached'.is = "list" => cached'.slice \in DOMAIN l
      /\ \A h \in Handlers : got'[h].is = "list" => got'[h].slice \in DOMAIN l
  <2>1. cached'.is = "list" => cached'.slice \in DOMAIN lists
    BY <1>3 DEF ListsInv, CachedSound
  <2>2. \A h \in Handlers : got'[h].is = "list" => got'[h].slice \in DOMAIN lists
    BY <1>4 DEF ListsInv, GotSound
  <2> QED BY <2>1, <2>2, ListsKept DEF ListsInv
<1> HIDE DEF l
<1>6. /\ DOMAIN lists' = DOMAIN l
      /\ \A s \in DOMAIN l : /\ lists'[s] \in ListShape
                              /\ lists'[s].age <= l[s].age + 1
  <2>1. ASSUME NEW y \in ListShape
        PROVE  [y EXCEPT !.age = @ + 1] \in ListShape /\ [y EXCEPT !.age = @ + 1].age = y.age + 1
    BY DEF ListShape
  <2>2. \A s \in DOMAIN l : l[s].age \in Nat
    BY <1>5 DEF ListShape
  <2> QED BY <1>1, <1>5, <2>1, <2>2 DEF Aged
<1>7. CachedSound(cached', lists')
  <2>1. CachedSound(cached, lists)
    BY DEF ListsInv
  <2>2. ASSUME cached'.is = "list" PROVE lists'[cached'.slice].age < AppsTTL + RefreshTime + cached'.since
    <3> DEFINE s == cached'.slice
    <3>1. /\ s \in DOMAIN l /\ l[s] = lists[s] /\ lists'[s].age <= l[s].age + 1
          /\ l[s].age \in Nat /\ lists'[s].age \in Nat
      BY <1>5, <1>6, <2>2 DEF ListShape
    <3>2. lists[s].age < AppsTTL + RefreshTime + cached.since
      BY <1>3, <2>1, <2>2 DEF CachedSound
    <3> QED BY <1>2, <1>3, <2>2, <3>1, <3>2, DownloadsAssumption
  <2> QED BY <1>5, <1>6, <2>2 DEF CachedSound
<1>8. ASSUME NEW h \in Handlers PROVE GotSound(got'[h], lists')
  <2>1. GotSound(got[h], lists)
    BY DEF ListsInv
  <2>2. ASSUME got'[h].is = "list"
        PROVE  lists'[got'[h].slice].age + 1 < AppsTTL + RefreshTime + StatusTTL + got'[h].since
    <3> DEFINE s == got'[h].slice
    <3>1. /\ s \in DOMAIN l /\ l[s] = lists[s] /\ lists'[s].age <= l[s].age + 1
          /\ l[s].age \in Nat /\ lists'[s].age \in Nat
      BY <1>5, <1>6, <2>2 DEF ListShape
    <3>2. lists[s].age + 1 < AppsTTL + RefreshTime + StatusTTL + got[h].since
      BY <1>4, <2>1, <2>2 DEF GotSound
    <3> QED BY <1>2, <1>4, <2>2, <3>1, <3>2, DownloadsAssumption
  <2> QED BY <1>5, <1>6, <2>2 DEF GotSound
<1> QED BY <1>6, <1>7, <1>8 DEF ListsInv

LEMMA ListsNext ==
  ASSUME DInv, DInv', ListsInv, [DownloadsNext]_downloadsVars
  PROVE  ListsInv'
<1>1. CASE Outside \/ ServeLate \/ UNCHANGED downloadsVars
  BY <1>1, ListsStay DEF Outside, ServeLate, downloadsVars, client, handler
<1>2. CASE Tick
  BY <1>2, ClockLists
<1>3. ASSUME NEW h \in Handlers, Step(h) PROVE ListsInv'
  <2>1. CASE handleQbit(h) \/ handleQbitFiles(h) \/ handleQbitAction(h)
    BY <2>1, ListsStay DEF handleQbit, handleQbitFiles, handleQbitAction, Begin, client
  <2>2. CASE Enter(h) \/ LoginOk(h) \/ LoginUnasked(h) \/ Send(h) \/ Serve(h)
    BY <2>2, ListsStay DEF Enter, LoginOk, LoginUnasked, Send, Serve, client, handler
  <2>3. CASE Relogin(h) \/ Legacy(h) \/ Continue(h)
    BY <2>3, ListsStay DEF Relogin, Legacy, Continue, Proceed
  <2>4. CASE IndexHit(h) \/ IndexMiss(h) \/ StoreIndex(h)
    BY <2>4, ListsStay DEF IndexHit, IndexMiss, StoreIndex, client
  <2>5. StatusShape(Failure) /\ StatusShape(Listing)
    <3>1. StatusShape(Failure)
      BY DEF StatusShape, Failure, NoStatus, Statuses
    <3>2. reply.rev \in Nat /\ reply.age \in Nat
      BY DEF DInv, Shapes, ReplyShape
    <3>3. StatusShape(Listing)
      BY <3>2 DEF StatusShape, Listing, Statuses
    <3> QED BY <3>1, <3>3
  <2>6. CASE LoginRejected(h) \/ LoginFails(h) \/ GiveUp(h)
    <3>1. Finish(h, FALSE, Failure)
      BY <2>6 DEF LoginRejected, LoginFails, GiveUp, Fail
    <3> QED BY <2>5, <3>1, FinishLists
  <2>7. CASE Succeed(h)
    <3>1. Finish(h, TRUE, Listing)
      BY <2>7 DEF Succeed
    <3> QED BY <2>5, <3>1, FinishLists
  <2>8. CASE Hit(h) \/ Enrich(h) \/ Answer(h)
    BY <2>8, HitLists, EnrichLists, AnswerLists
  <2> QED BY <1>3, <2>1, <2>2, <2>3, <2>4, <2>6, <2>7, <2>8 DEF Step
<1> QED BY <1>1, <1>2, <1>3 DEF DownloadsNext

LEMMA ListsInvariance == DownloadsSpec => []ListsInv
<1>1. DownloadsInit => ListsInv
  BY DEF DownloadsInit, ListsInv, CachedSound, GotSound, NoStatus
<1>2. DInv /\ DInv' /\ ListsInv /\ [DownloadsNext]_downloadsVars => ListsInv'
  BY ListsNext
<1> QED BY <1>1, <1>2, DownloadsInvariance, PTL DEF DownloadsSpec

-----------------------------------------------------------------------------
(* The properties *)

(* Two logins that were answered with a rejection are at least the back-   *)
(* off apart, however many pages poll and whatever the client's cache says *)
(* in between: ensureAuth of qbit.go asks authUntil under the mutex.       *)
THEOREM LoginsSpaced == DownloadsSpec => []RejectionsAreSpaced
<1>1. DInv => RejectionsAreSpaced
  BY DEF DInv, HeldOff, RejectionsAreSpaced
<1> QED BY <1>1, DownloadsInvariance, PTL

(* Do carries an action out once at most: it is sent again only after a    *)
(* 403, and under its old name only after a 404, neither of which did it,  *)
(* and a request given up without an answer had not been carried out yet.  *)
THEOREM ActionsOnce == DownloadsSpec => []AppliedAtMostOnce
<1>1. DInv => AppliedAtMostOnce
  BY DEF DInv, AppliedOnce, AppliedAtMostOnce
<1> QED BY <1>1, DownloadsInvariance, PTL

(* A status asked for after an action returned shows what had been carried *)
(* out by then: Do voids the cache before it lets go of the mutex, and a   *)
(* fetch holds it from its first call to its last.                         *)
THEOREM ActionsSeen == DownloadsSpec => []ActionIsSeen
<1>1. DInv => ActionIsSeen
  BY DEF DInv, Pages, PageSound, ActionIsSeen, Shapes, Revisions, StatusShape
<1> QED BY <1>1, DownloadsInvariance, PTL

(* The ages of what a page shows when it is sent, for any times a cache    *)
(* may hold an entry, a request may take and the apps may be waited for,   *)
(* any number of refreshes that overlap and of handlers that write media   *)
(* into the list another one shows.                                        *)
THEOREM AnswersRecent == DownloadsSpec => []AnswersAreRecent
<1>1. DInv /\ ListsInv => AnswersAreRecent
  <2> SUFFICES ASSUME DInv, ListsInv, NEW h \in Handlers, pc[h] = "answer"
               PROVE  /\ got[h].is = "list" =>
                           /\ got[h].age < StatusTTL + CallTime + RefreshTime
                           /\ mine[h].age < AppsTTL + RefreshTime
                           /\ LET t == lists[got[h].slice]
                              IN  t.media => t.age + 1 < AppsTTL + StatusTTL + 2 * RefreshTime
                      /\ got[h].is = "error" => got[h].age < ErrTTL
    BY DEF AnswersAreRecent
  <2>1. PageSound("answer", got[h], mine[h], floor[h]) /\ GotSound(got[h], lists)
    BY DEF DInv, Pages, ListsInv
  <2>2. got[h].age \in Nat /\ got[h].since \in Nat
    BY DEF DInv, Shapes, StatusShape
  <2>3. CASE got[h].is = "list"
    <3>1. /\ got[h].age < StatusTTL + CallTime + got[h].since /\ got[h].since <= RefreshTime
          /\ mine[h].age < AppsTTL + RefreshTime
          /\ lists[got[h].slice].age + 1 < AppsTTL + RefreshTime + StatusTTL + got[h].since
          /\ lists[got[h].slice].age \in Nat
      BY <2>1, <2>3 DEF PageSound, GotSound, ListsInv, ListShape
    <3> QED BY <2>2, <2>3, <3>1, DownloadsAssumption
  <2>4. CASE got[h].is # "list"
    BY <2>1, <2>4 DEF PageSound
  <2> QED BY <2>3, <2>4
<1> QED BY <1>1, DownloadsInvariance, ListsInvariance, PTL

=============================================================================
