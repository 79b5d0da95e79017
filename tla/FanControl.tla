----------------------------- MODULE FanControl -----------------------------
(***************************************************************************)
(* Fan control (src/internal/fans/controller.go and linux.go) over the     *)
(* life of one panel process: the control loop, Controller.Set called by   *)
(* the API, the shutdown path of main, and the pwm and pwm_enable          *)
(* registers of the hwmon driver, any access to which may fail.            *)
(*                                                                         *)
(* The registers and the settings file outlive the panel.  A panel starts  *)
(* with whatever a previous one left there, also one that was killed in    *)
(* the middle of a tick: Init allows every value.                          *)
(*                                                                         *)
(* A duty is a member of Duties.  The interpolation of a curve is left     *)
(* out: while its sensor is readable, a curve asks for any duty.           *)
(***************************************************************************)
EXTENDS FiniteSets

CONSTANTS
  Fans,
  Control,      \* fans.control in the configuration
  Duties,       \* duties a setting asks for
  Full,         \* 100%
  Firmware,     \* a pwm value the firmware chose
  None,         \* a register that could not be read
  WriteFaults,  \* the driver may refuse a write
  ReadFaults    \* a register may be unreadable when it is captured

ASSUME SwitchesAssumption ==
  /\ Control \in BOOLEAN /\ WriteFaults \in BOOLEAN /\ ReadFaults \in BOOLEAN
ASSUME DutiesAssumption ==
  /\ Full \in Duties
  /\ None \notin Duties \cup {Firmware, "auto", "manual"}
  /\ Duties \cap {"auto", "curve"} = {}

VARIABLES
  fan,       \* hwmonFan and its two registers
  settings,  \* c.settings; a duty stands for manual mode at that duty
  engaged,   \* c.engaged
  err,       \* fans whose State reports a refused or impossible write
  readable,  \* the sensor of the curves can be read
  seen,      \* the sensor was in the list this tick works with
  at,        \* where the control loop stands
  main,      \* where the main goroutine stands
  holder,    \* who holds c.mu across several steps
  todo,      \* fans the holder has still to visit
  before,    \* history: the registers as this panel found them
  lost,      \* history: fans with a register that could not be captured
  refused    \* history: fans with a refused write

loopVars == <<at, seen>>
histVars == <<before, lost, refused>>
vars == <<fan, settings, engaged, err, readable, seen,
          at, main, holder, todo, before, lost, refused>>

Settings == {"auto", "curve"} \cup Duties
Levels == Duties \cup {Firmware}
Enables == {"auto", "manual"}
LoopAt == {"select", "sensed", "tick", "release", "ended"}
MainAt == {"booting", "serving", "closing", "releasing", "leaving", "exited", "failed"}
Gone == {"exited", "failed"}

(* What hwmonFan holds: whether there is a pwm_enable register and whether *)
(* the driver lets the panel write, the registers, and what was captured.  *)
Fan == [hasEnable : BOOLEAN, writable : BOOLEAN,
        enable : Enables, pwm : Levels, taken : BOOLEAN,
        origEnable : Enables \cup {None}, origPwm : Levels \cup {None}]

(* A fan no panel process has touched yet.  Without pwm_enable a fan       *)
(* always follows its pwm register.                                        *)
Found ==
  {h \in Fan : /\ ~h.taken /\ h.origEnable = None /\ h.origPwm = None
               /\ h.hasEnable \/ h.enable = "manual"}

TypeOK ==
  /\ fan \in [Fans -> Fan]
  /\ settings \in [Fans -> Settings]
  /\ engaged \in SUBSET Fans
  /\ err \in SUBSET Fans
  /\ readable \in BOOLEAN /\ seen \in BOOLEAN
  /\ at \in LoopAt /\ main \in MainAt
  /\ holder \in {"nobody", "loop", "main"}
  /\ todo \in SUBSET Fans
  /\ before \in [Fans -> [enable : Enables, pwm : Levels]]
  /\ lost \in SUBSET Fans
  /\ refused \in SUBSET Fans

(* NewController has loaded the settings and begins its first tick. *)
Init ==
  /\ fan \in [Fans -> Found]
  /\ before = [f \in Fans |-> [enable |-> fan[f].enable, pwm |-> fan[f].pwm]]
  /\ settings \in [Fans -> Settings]
  /\ engaged = {} /\ err = {}
  /\ readable \in BOOLEAN /\ seen = readable
  /\ at = "sensed" /\ main = "booting" /\ holder = "nobody" /\ todo = {}
  /\ lost = {} /\ refused = {}

-----------------------------------------------------------------------------
(* The hwmon provider.  SetDuty and Release yield the set of their         *)
(* possible outcomes: the fan afterwards, and whether the call succeeded.  *)

Outcome(h, ok) == [fan |-> h, ok |-> ok]

(* readTrimmed: "" when the register cannot be read. *)
Read(register) == IF ReadFaults THEN {register, None} ELSE {register}

\* Mistake: the registers are captured by every SetDuty.
CapturedAlways(h, p, e) ==
  [h EXCEPT !.origPwm = p, !.origEnable = IF h.hasEnable THEN e ELSE @]

(* What firmware had configured is remembered when the fan is taken. *)
Captured(h, p, e) ==
  IF h.taken THEN h
  ELSE [h EXCEPT !.origPwm = p, !.origEnable = IF h.hasEnable THEN e ELSE @]

Unread(h) == h.origPwm = None \/ (h.hasEnable /\ h.origEnable = None)

Taken(h) ==
  [h EXCEPT !.taken = TRUE, !.enable = IF h.hasEnable /\ ~h.taken THEN "manual" ELSE @]

(* The rest of SetDuty, on a fan whose registers are captured: the enable  *)
(* register is refused, or the pwm register is, or neither.                *)
SetDuty(h, duty) ==
  {Outcome([Taken(h) EXCEPT !.pwm = duty], TRUE)}
  \cup {o \in {Outcome(h, FALSE)} : WriteFaults /\ h.hasEnable /\ ~h.taken}
  \cup {o \in {Outcome(Taken(h), FALSE)} : WriteFaults}

PwmRestored(h) == IF h.origPwm = None THEN h ELSE [h EXCEPT !.pwm = h.origPwm]

RestoresEnable(h) == h.hasEnable /\ h.origEnable # None

Restored(h) ==
  LET r == PwmRestored(h)
  IN  IF RestoresEnable(h) THEN [r EXCEPT !.enable = h.origEnable] ELSE r

(* The pwm register is refused, or the enable register is, or neither.     *)
Release(f) ==
  LET h == fan[f]
  IN  IF ~h.taken THEN {Outcome(h, TRUE)}
      ELSE {Outcome([Restored(h) EXCEPT !.taken = FALSE], TRUE)}
           \cup {o \in {Outcome(h, FALSE)} : WriteFaults /\ h.origPwm # None}
           \cup {o \in {Outcome(PwmRestored(h), FALSE)} : WriteFaults /\ RestoresEnable(h)}

-----------------------------------------------------------------------------
(* The control loop *)

(* The sensors that can be read at this moment. *)
ReadSensors == seen' = readable

(* Run: the timer fires or a settings change pokes the loop, and tick      *)
(* reads the sensors before it takes c.mu.  select picks at random, so     *)
(* this also happens when the context is already done.                     *)
Sense ==
  /\ at = "select"
  /\ at' = "sensed" /\ ReadSensors
  /\ UNCHANGED <<fan, settings, engaged, err, readable, main, holder, todo, histVars>>

Lock ==
  /\ at = "sensed" /\ holder = "nobody"
  /\ at' = "tick" /\ holder' = "loop" /\ todo' = Fans
  /\ UNCHANGED <<fan, settings, engaged, err, readable, seen, main, histVars>>

Visit(f) == f \in todo /\ todo' = todo \ {f}

(* The driver has made the pwm register writable. *)
Writable(f) == fan[f].writable

(* The setting of the fan is not auto and the panel may act on it.         *)
Driven(f) == Control /\ Writable(f) /\ settings[f] # "auto"

\* Mistake: a curve without its sensor keeps the duty it has.
TargetsKept(f) ==
  IF settings[f] # "curve" THEN {settings[f]}
  ELSE IF seen THEN Duties
  ELSE {fan[f].pwm}

\* Mistake: a duty is only written when the fan is taken.
TargetsOnce(f) ==
  IF settings[f] # "curve" THEN {IF f \in engaged THEN fan[f].pwm ELSE settings[f]}
  ELSE IF seen THEN Duties
  ELSE {Full}

(* The duties the setting may ask for in this tick; without its sensor a   *)
(* curve asks for 100%.                                                    *)
Targets(f) ==
  IF settings[f] # "curve" THEN {settings[f]}
  ELSE IF seen THEN Duties
  ELSE {Full}

Reported(f, ok) == IF ok THEN err \ {f} ELSE err \cup {f}

Drive(f) ==
  /\ at = "tick" /\ Visit(f) /\ Driven(f)
  /\ \E duty \in Targets(f), p \in Read(fan[f].pwm), e \in Read(fan[f].enable) :
     \E o \in SetDuty(Captured(fan[f], p, e), duty) :
       /\ fan' = [fan EXCEPT ![f] = o.fan]
       /\ engaged' = IF o.ok THEN engaged \cup {f} ELSE engaged
       /\ err' = Reported(f, o.ok)
       /\ refused' = IF o.ok THEN refused ELSE refused \cup {f}
       /\ lost' = IF ~fan[f].taken /\ o.fan.taken /\ Unread(o.fan)
                  THEN lost \cup {f} ELSE lost
  /\ UNCHANGED <<settings, readable, loopVars, main, holder, before>>

(* Shared by a tick and ReleaseAll; only the tick publishes the error.     *)
LetGo(f) ==
  \E o \in Release(f) :
    /\ fan' = [fan EXCEPT ![f] = o.fan]
    /\ engaged' = IF o.ok THEN engaged \ {f} ELSE engaged
    /\ refused' = IF o.ok THEN refused ELSE refused \cup {f}
    /\ err' = IF at = "tick" THEN Reported(f, o.ok) ELSE err

(* The setting is auto and the panel drives the fan. *)
Yield(f) ==
  /\ at = "tick" /\ Visit(f)
  /\ Control /\ settings[f] = "auto" /\ f \in engaged
  /\ LetGo(f)
  /\ UNCHANGED <<settings, readable, loopVars, main, holder, before, lost>>

(* Nothing is written: the fan is left to the firmware, or read-only with  *)
(* a setting from before a driver change, or control is switched off.      *)
Watch(f) ==
  /\ at = "tick" /\ Visit(f)
  /\ ~Driven(f) /\ ~(Control /\ settings[f] = "auto" /\ f \in engaged)
  /\ err' = Reported(f, Writable(f) \/ settings[f] = "auto")
  /\ UNCHANGED <<fan, settings, engaged, readable, loopVars, main, holder, histVars>>

(* The state is published and c.mu is free again.  The API opens after the *)
(* tick of NewController.                                                  *)
EndTick ==
  /\ at = "tick" /\ todo = {}
  /\ at' = "select" /\ holder' = "nobody"
  /\ main' = IF main = "booting" THEN "serving" ELSE main
  /\ UNCHANGED <<fan, settings, engaged, err, readable, seen, todo, histVars>>

-----------------------------------------------------------------------------
(* ReleaseAll, from Run when its context is done and from main *)

Done == main \notin {"booting", "serving"}

\* Mistake: the loop leaves the releasing to main.
LoopJustEnds ==
  /\ at = "select" /\ Done /\ holder = "nobody"
  /\ at' = "ended"
  /\ UNCHANGED <<fan, settings, engaged, err, readable, seen, main, holder, todo, histVars>>

LoopReleaseAll ==
  /\ at = "select" /\ Done /\ holder = "nobody"
  /\ at' = "release" /\ holder' = "loop" /\ todo' = engaged
  /\ UNCHANGED <<fan, settings, engaged, err, readable, seen, main, histVars>>

MainReleaseAll ==
  /\ main = "closing" /\ holder = "nobody"
  /\ main' = "releasing" /\ holder' = "main" /\ todo' = engaged
  /\ UNCHANGED <<fan, settings, engaged, err, readable, loopVars, histVars>>

ReleaseOne(f) ==
  /\ at = "release" \/ main = "releasing"
  /\ Visit(f) /\ LetGo(f)
  /\ UNCHANGED <<settings, readable, loopVars, main, holder, before, lost>>

LoopReleased ==
  /\ at = "release" /\ todo = {}
  /\ at' = "ended" /\ holder' = "nobody"
  /\ UNCHANGED <<fan, settings, engaged, err, readable, seen, main, todo, histVars>>

MainReleased ==
  /\ main = "releasing" /\ todo = {}
  /\ main' = "leaving" /\ holder' = "nobody"
  /\ UNCHANGED <<fan, settings, engaged, err, readable, loopVars, todo, histVars>>

(* SIGTERM or SIGINT. *)
Signal ==
  /\ main = "serving" /\ main' = "closing"
  /\ UNCHANGED <<fan, settings, engaged, err, readable, loopVars, holder, todo, histVars>>

(* GracefulShutdown is over and main returns: every goroutine is gone.     *)
(* Nothing waits for the control loop.                                     *)
Exit ==
  /\ main = "leaving" /\ main' = "exited"
  /\ UNCHANGED <<fan, settings, engaged, err, readable, loopVars, holder, todo, histVars>>

(* ListenAndServe fails: fatal ends the process where it stands. *)
ListenFails ==
  /\ main = "serving" /\ main' = "failed"
  /\ UNCHANGED <<fan, settings, engaged, err, readable, loopVars, holder, todo, histVars>>

-----------------------------------------------------------------------------
(* Controller.Set.  The setting counts in memory even when it cannot be    *)
(* saved; then the caller gets an error.  The poke after a save only cuts  *)
(* the wait for the timer short, and Sense waits for neither.              *)

(* Settings.Validate: a curve needs a sensor that is there; its points are *)
(* well formed.                                                            *)
Validate(s) == s = "curve" => readable

Permitted(f, s) ==
  /\ s # "auto" => Control /\ Writable(f)
  /\ Validate(s)

Set(f, s) ==
  /\ main \notin Gone \cup {"booting"} /\ holder = "nobody"
  /\ Permitted(f, s)
  /\ settings' = [settings EXCEPT ![f] = s]
  /\ UNCHANGED <<fan, engaged, err, readable, seen, at, main, holder, todo, histVars>>

(* The sensor vanishes or comes back. *)
Sensor ==
  /\ main \notin Gone
  /\ readable' = ~readable
  /\ UNCHANGED <<fan, settings, engaged, err, loopVars, main, holder, todo, histVars>>

-----------------------------------------------------------------------------

LoopStep ==
  /\ main \notin Gone
  /\ \/ Sense \/ Lock \/ EndTick \/ LoopReleaseAll \/ LoopReleased
     \/ \E f \in Fans : Drive(f) \/ Yield(f) \/ Watch(f)

MainStep == Signal \/ MainReleaseAll \/ MainReleased \/ Exit \/ ListenFails

Next ==
  \/ LoopStep \/ MainStep \/ Sensor
  \/ main \notin Gone /\ \E f \in Fans : ReleaseOne(f)
  \/ \E f \in Fans, s \in Settings : Set(f, s)

Spec == Init /\ [][Next]_vars

(* The goroutines of the panel run: the timer is always armed.  The        *)
(* sensor, the operator and the driver owe nothing.                        *)
Fairness ==
  /\ WF_vars(LoopStep)
  /\ WF_vars(main \notin Gone /\ \E f \in Fans : ReleaseOne(f))
  /\ WF_vars(MainReleaseAll) /\ WF_vars(MainReleased) /\ WF_vars(Exit)

FairSpec == Spec /\ Fairness

-----------------------------------------------------------------------------
(* Properties *)

(* The controller and the provider keep separate records of who drives a   *)
(* fan.  A fan the controller counts as its own is held by the provider,   *)
(* so releasing it writes the registers back.                              *)
EngagedIsTaken == \A f \in engaged : fan[f].taken

(* `releasing a fan restores the exact pwm/pwm_enable values it had before *)
(* the panel took over`: a fan the provider does not hold has the          *)
(* registers the panel found, through every order of settings, refused     *)
(* writes and repeated releases, unless one could not be read when the fan *)
(* was taken.                                                              *)
HandsOff ==
  \A f \in Fans \ lost :
    ~fan[f].taken => fan[f].pwm = before[f].pwm /\ fan[f].enable = before[f].enable

(* The loop releases last: once it has ended, whatever main and the API do *)
(* beside it, only a fan that refused a write is still held.               *)
NothingHeldAfterLoop == at = "ended" => \A f \in Fans : fan[f].taken => f \in refused

(* `a curve whose sensor disappears drives the fan to 100%`, or the page   *)
(* shows an error: the loop gets there whatever else changes.              *)
LostSensorDrivesFull ==
  \A f \in Fans :
    (main = "serving" /\ Driven(f) /\ settings[f] = "curve" /\ ~readable)
      ~> \/ fan[f].pwm = Full /\ fan[f].enable = "manual"
         \/ f \in err \/ readable \/ settings[f] # "curve" \/ main # "serving"

(* A setting is applied or an error is shown: a manual duty reaches the    *)
(* register, and a fan set to auto is given back.                          *)
SettingTakesEffect ==
  \A f \in Fans, s \in Settings \ {"curve"} :
    (main = "serving" /\ settings[f] = s /\ (Driven(f) \/ f \in engaged))
      ~> \/ IF s = "auto" THEN f \notin engaged ELSE fan[f].pwm = s
         \/ f \in err \/ settings[f] # s \/ main # "serving"

(* What those two rest on, a step at a time: a tick that has visited a fan  *)
(* and reports no error for it has done what the setting of the moment     *)
(* asks, since c.mu is held from the first fan to the last.                *)
TickApplies ==
  at = "tick" => \A f \in Fans \ (todo \cup err) : Driven(f) =>
    /\ f \in engaged /\ fan[f].taken /\ fan[f].enable = "manual"
    /\ settings[f] \in Duties => fan[f].pwm = settings[f]
    /\ settings[f] = "curve" /\ ~seen => fan[f].pwm = Full

(* `a dead panel must never leave a fan pinned`: a panel that has shut     *)
(* down in order holds no fan, a refused write apart.                      *)
ReleasedAtExit == main = "exited" => \A f \in Fans : fan[f].taken => f \in refused

(* `releasing a fan restores...`: a tick that finds a fan set to auto and  *)
(* reports no error leaves it to the firmware.                             *)
AutoIsReleased ==
  \A f \in Fans :
    at = "tick" /\ f \notin todo /\ settings[f] = "auto" /\ f \notin err
      => ~fan[f].taken

=============================================================================
