-------------------------- MODULE FanControlProofs --------------------------
(***************************************************************************)
(* What holds of fan control for every set of fans, every set of duties    *)
(* and every pattern of refused writes and unreadable registers.  And what *)
(* holds of the directory of a server for any restores, creations, imports *)
(* and updates that meet in it.                                            *)
(*                                                                         *)
(* HandsOff is not inductive: a release puts back what was captured, so    *)
(* the invariant says what a capture holds (CaptureKept).  That nothing is *)
(* held after the loop needs to know how far ReleaseAll has come           *)
(* (ReleasePending), and that a held fan is either engaged, so ReleaseAll  *)
(* will visit it, or has refused a write (HeldIsKnown).  What a tick has    *)
(* done stays done while it holds c.mu (ApplyInv).                         *)
(*                                                                         *)
(* That a directory is not deleted is about single steps, but the step     *)
(* that deletes one, the clean-up of a creation or an import, is right     *)
(* only for what has come about before: DirInv follows what the job has    *)
(* put there (FillOK), and what a restore has extracted (RestoreOK).       *)
(***************************************************************************)
EXTENDS FanControl, ServerDir, TLAPS

(* c.mu has one holder. *)
Exclusive ==
  /\ (at \in {"tick", "release"}) <=> (holder = "loop")
  /\ (main = "releasing") <=> (holder = "main")

CaptureKept ==
  \A f \in Fans \ lost :
    fan[f].taken => /\ fan[f].origPwm = before[f].pwm
                    /\ fan[f].hasEnable => fan[f].origEnable = before[f].enable

AlwaysManual ==
  \A f \in Fans : ~fan[f].hasEnable => fan[f].enable = before[f].enable

HeldIsKnown == \A f \in Fans : fan[f].taken => f \in engaged \cup refused

ReleasePending ==
  at = "release" => \A f \in Fans : fan[f].taken => f \in todo \cup refused

IInv ==
  /\ TypeOK
  /\ Exclusive
  /\ EngagedIsTaken
  /\ HandsOff
  /\ CaptureKept
  /\ AlwaysManual
  /\ HeldIsKnown
  /\ ReleasePending
  /\ NothingHeldAfterLoop

-----------------------------------------------------------------------------
(* The hwmon provider *)

(* What a call of SetDuty does to a fan, however it ends. *)
LEMMA SetDutyFacts ==
  ASSUME NEW f \in Fans, fan[f] \in Fan, NEW duty \in Duties,
         NEW p \in Read(fan[f].pwm), NEW e \in Read(fan[f].enable),
         NEW o \in SetDuty(Captured(fan[f], p, e), duty)
  PROVE  /\ o.ok \in BOOLEAN /\ o.fan \in Fan
         /\ o.fan.hasEnable = fan[f].hasEnable
         /\ o.ok => o.fan.taken
         /\ ~o.fan.taken => /\ ~fan[f].taken
                            /\ o.fan.pwm = fan[f].pwm
                            /\ o.fan.enable = fan[f].enable
         /\ fan[f].taken => /\ o.fan.taken
                            /\ o.fan.origPwm = fan[f].origPwm
                            /\ o.fan.origEnable = fan[f].origEnable
         /\ ~fan[f].taken /\ ~Unread(o.fan) =>
              /\ o.fan.origPwm = fan[f].pwm
              /\ o.fan.hasEnable => o.fan.origEnable = fan[f].enable
         /\ ~o.fan.hasEnable => o.fan.enable = fan[f].enable
<1> DEFINE h == fan[f]
           c == Captured(h, p, e)
<1>1. /\ p \in {h.pwm, None} /\ p \in Levels \cup {None}
      /\ e \in {h.enable, None} /\ e \in Enables \cup {None}
  BY DEF Read, Fan
<1>2. /\ c \in Fan
      /\ c.hasEnable = h.hasEnable /\ c.taken = h.taken
      /\ c.pwm = h.pwm /\ c.enable = h.enable
      /\ h.taken => c.origPwm = h.origPwm /\ c.origEnable = h.origEnable
      /\ ~h.taken => c.origPwm = p /\ (h.hasEnable => c.origEnable = e)
  BY <1>1 DEF Captured, Fan
<1> HIDE DEF c
<1>3. /\ Taken(c) \in Fan /\ Taken(c).taken
      /\ Taken(c).hasEnable = c.hasEnable /\ Taken(c).pwm = c.pwm
      /\ Taken(c).origPwm = c.origPwm /\ Taken(c).origEnable = c.origEnable
      /\ ~c.hasEnable => Taken(c).enable = c.enable
  BY <1>2 DEF Taken, Fan, Enables
<1>4. \/ o = Outcome([Taken(c) EXCEPT !.pwm = duty], TRUE)
      \/ o = Outcome(c, FALSE) /\ ~c.taken
      \/ o = Outcome(Taken(c), FALSE)
  BY DEF SetDuty, c
<1>5. CASE o = Outcome([Taken(c) EXCEPT !.pwm = duty], TRUE)
  <2>1. /\ o.ok = TRUE /\ o.fan = [Taken(c) EXCEPT !.pwm = duty]
    BY <1>5 DEF Outcome
  <2>2. /\ o.fan \in Fan /\ o.fan.taken
        /\ o.fan.hasEnable = c.hasEnable
        /\ o.fan.origPwm = c.origPwm /\ o.fan.origEnable = c.origEnable
        /\ ~c.hasEnable => o.fan.enable = c.enable
    BY <2>1, <1>3 DEF Fan, Levels
  <2> QED BY <2>1, <2>2, <1>1, <1>2 DEF Unread
<1>6. CASE o = Outcome(c, FALSE) /\ ~c.taken
  <2>1. o.ok = FALSE /\ o.fan = c
    BY <1>6 DEF Outcome
  <2> QED BY <2>1, <1>6, <1>1, <1>2 DEF Unread
<1>7. CASE o = Outcome(Taken(c), FALSE)
  <2>1. o.ok = FALSE /\ o.fan = Taken(c)
    BY <1>7 DEF Outcome
  <2> QED BY <2>1, <1>1, <1>2, <1>3 DEF Unread
<1> QED BY <1>4, <1>5, <1>6, <1>7

(* What a call of Release does to a fan, however it ends. *)
LEMMA ReleaseFacts ==
  ASSUME NEW f \in Fans, fan[f] \in Fan, NEW o \in Release(f)
  PROVE  /\ o.ok \in BOOLEAN /\ o.fan \in Fan
         /\ o.fan.hasEnable = fan[f].hasEnable
         /\ o.fan.origPwm = fan[f].origPwm /\ o.fan.origEnable = fan[f].origEnable
         /\ o.ok <=> ~o.fan.taken
         /\ ~fan[f].taken => o.fan = fan[f]
         /\ fan[f].taken /\ o.ok =>
              /\ fan[f].origPwm # None => o.fan.pwm = fan[f].origPwm
              /\ fan[f].hasEnable /\ fan[f].origEnable # None
                   => o.fan.enable = fan[f].origEnable
         /\ ~fan[f].hasEnable => o.fan.enable = fan[f].enable
<1> DEFINE h == fan[f]
<1>1. /\ PwmRestored(h) \in Fan
      /\ PwmRestored(h).hasEnable = h.hasEnable /\ PwmRestored(h).taken = h.taken
      /\ PwmRestored(h).enable = h.enable
      /\ PwmRestored(h).origPwm = h.origPwm /\ PwmRestored(h).origEnable = h.origEnable
      /\ h.origPwm # None => PwmRestored(h).pwm = h.origPwm
  BY DutiesAssumption DEF PwmRestored, Fan, Levels
<1>2. /\ Restored(h) \in Fan
      /\ Restored(h).hasEnable = h.hasEnable
      /\ Restored(h).origPwm = h.origPwm /\ Restored(h).origEnable = h.origEnable
      /\ h.origPwm # None => Restored(h).pwm = h.origPwm
      /\ h.hasEnable /\ h.origEnable # None => Restored(h).enable = h.origEnable
      /\ ~h.hasEnable => Restored(h).enable = h.enable
  <2> DEFINE r == PwmRestored(h)
  <2>1. CASE RestoresEnable(h)
    <3>1. Restored(h) = [r EXCEPT !.enable = h.origEnable]
      BY <2>1 DEF Restored
    <3>2. h.origEnable \in Enables
      BY <2>1 DEF RestoresEnable, Fan
    <3> QED BY <1>1, <3>1, <3>2, <2>1 DEF Fan, RestoresEnable
  <2>2. CASE ~RestoresEnable(h)
    BY <2>2, <1>1 DEF Restored, RestoresEnable
  <2> QED BY <2>1, <2>2
<1>3. CASE ~h.taken
  <2>1. o = Outcome(h, TRUE)
    BY <1>3 DEF Release
  <2> QED BY <1>3, <2>1 DEF Outcome, Fan
<1>4. CASE h.taken
  <2>1. \/ o = Outcome([Restored(h) EXCEPT !.taken = FALSE], TRUE)
        \/ o = Outcome(h, FALSE)
        \/ o = Outcome(PwmRestored(h), FALSE)
    BY <1>4 DEF Release
  <2>2. CASE o = Outcome([Restored(h) EXCEPT !.taken = FALSE], TRUE)
    <3>1. o.ok = TRUE /\ o.fan = [Restored(h) EXCEPT !.taken = FALSE]
      BY <2>2 DEF Outcome
    <3> QED BY <3>1, <1>2, <1>4 DEF Fan
  <2>3. CASE o = Outcome(h, FALSE)
    BY <2>3, <1>4 DEF Outcome
  <2>4. CASE o = Outcome(PwmRestored(h), FALSE)
    BY <2>4, <1>4, <1>1 DEF Outcome
  <2> QED BY <2>1, <2>2, <2>3, <2>4
<1> QED BY <1>3, <1>4

-----------------------------------------------------------------------------
(* The invariant *)

LEMMA InitInv == Init => IInv
<1> SUFFICES ASSUME Init PROVE IInv
  OBVIOUS
<1>1. \A f \in Fans : /\ fan[f] \in Fan /\ ~fan[f].taken
                       /\ before[f] = [enable |-> fan[f].enable, pwm |-> fan[f].pwm]
  BY DEF Init, Found
<1>2. TypeOK
  BY <1>1 DEF Init, TypeOK, Found, Fan, LoopAt, MainAt
<1>3. Exclusive /\ EngagedIsTaken /\ ReleasePending /\ NothingHeldAfterLoop
  BY DEF Init, Exclusive, EngagedIsTaken, ReleasePending, NothingHeldAfterLoop
<1>4. \A f \in Fans : before[f].pwm = fan[f].pwm /\ before[f].enable = fan[f].enable
  BY DEF Init
<1>5. HandsOff /\ AlwaysManual
  BY <1>4 DEF HandsOff, AlwaysManual
<1>6. CaptureKept /\ HeldIsKnown
  BY <1>1 DEF CaptureKept, HeldIsKnown
<1> QED BY <1>2, <1>3, <1>5, <1>6 DEF IInv

(* A tick drives a fan. *)
LEMMA DriveInv == ASSUME IInv, NEW f \in Fans, Drive(f) PROVE IInv'
<1> USE DEF IInv
<1>1. /\ fan[f] \in Fan /\ at = "tick" /\ fan \in [Fans -> Fan]
      /\ before[f] \in [enable : Enables, pwm : Levels]
  BY DEF TypeOK, Drive
<1>2. PICK duty \in Targets(f), p \in Read(fan[f].pwm), e \in Read(fan[f].enable) :
      \E o \in SetDuty(Captured(fan[f], p, e), duty) :
        /\ fan' = [fan EXCEPT ![f] = o.fan]
        /\ engaged' = IF o.ok THEN engaged \cup {f} ELSE engaged
        /\ err' = Reported(f, o.ok)
        /\ refused' = IF o.ok THEN refused ELSE refused \cup {f}
        /\ lost' = IF ~fan[f].taken /\ o.fan.taken /\ Unread(o.fan)
                   THEN lost \cup {f} ELSE lost
  BY DEF Drive
<1>3. PICK o \in SetDuty(Captured(fan[f], p, e), duty) :
        /\ fan' = [fan EXCEPT ![f] = o.fan]
        /\ engaged' = IF o.ok THEN engaged \cup {f} ELSE engaged
        /\ err' = Reported(f, o.ok)
        /\ refused' = IF o.ok THEN refused ELSE refused \cup {f}
        /\ lost' = IF ~fan[f].taken /\ o.fan.taken /\ Unread(o.fan)
                   THEN lost \cup {f} ELSE lost
  BY <1>2
<1>4. duty \in Duties
  BY <1>2, DutiesAssumption DEF Targets, TypeOK, Settings, Drive, Driven
<1>5. /\ o.ok \in BOOLEAN /\ o.fan \in Fan
      /\ o.fan.hasEnable = fan[f].hasEnable
      /\ o.ok => o.fan.taken
      /\ ~o.fan.taken => /\ ~fan[f].taken
                         /\ o.fan.pwm = fan[f].pwm
                         /\ o.fan.enable = fan[f].enable
      /\ fan[f].taken => /\ o.fan.taken
                         /\ o.fan.origPwm = fan[f].origPwm
                         /\ o.fan.origEnable = fan[f].origEnable
      /\ ~fan[f].taken /\ ~Unread(o.fan) =>
           /\ o.fan.origPwm = fan[f].pwm
           /\ o.fan.hasEnable => o.fan.origEnable = fan[f].enable
      /\ ~o.fan.hasEnable => o.fan.enable = fan[f].enable
  BY <1>1, <1>2, <1>3, <1>4, SetDutyFacts
<1>6. /\ UNCHANGED <<settings, readable, at, seen, main, holder, before>>
      /\ todo' = todo \ {f}
  BY DEF Drive, loopVars, Visit
<1>7. /\ fan' \in [Fans -> Fan] /\ fan'[f] = o.fan
      /\ \A g \in Fans \ {f} : fan'[g] = fan[g]
  BY <1>1, <1>3, <1>5
<1>8. TypeOK'
  BY <1>3, <1>6, <1>7 DEF TypeOK, Reported
<1>9. Exclusive' /\ ReleasePending' /\ NothingHeldAfterLoop'
  BY <1>1, <1>6 DEF Exclusive, ReleasePending, NothingHeldAfterLoop
<1>10. EngagedIsTaken' /\ HeldIsKnown'
  BY <1>3, <1>5, <1>7 DEF EngagedIsTaken, HeldIsKnown, TypeOK
<1>11. HandsOff'
  BY <1>3, <1>5, <1>6, <1>7 DEF HandsOff
<1>12. CaptureKept'
  BY <1>3, <1>5, <1>6, <1>7 DEF CaptureKept, HandsOff
<1>13. AlwaysManual'
  BY <1>5, <1>6, <1>7 DEF AlwaysManual
<1> QED BY <1>8, <1>9, <1>10, <1>11, <1>12, <1>13

(* A tick or ReleaseAll lets go of a fan. *)
LEMMA LetGoInv ==
  ASSUME IInv, NEW f \in Fans, Visit(f), LetGo(f),
         UNCHANGED <<settings, readable, loopVars, main, holder, before, lost>>
  PROVE  IInv'
<1> USE DEF IInv
<1>1. fan[f] \in Fan /\ fan \in [Fans -> Fan]
  BY DEF TypeOK
<1>2. PICK o \in Release(f) :
        /\ fan' = [fan EXCEPT ![f] = o.fan]
        /\ engaged' = IF o.ok THEN engaged \ {f} ELSE engaged
        /\ refused' = IF o.ok THEN refused ELSE refused \cup {f}
        /\ err' = IF at = "tick" THEN Reported(f, o.ok) ELSE err
  BY DEF LetGo
<1>3. /\ o.ok \in BOOLEAN /\ o.fan \in Fan
      /\ o.fan.hasEnable = fan[f].hasEnable
      /\ o.fan.origPwm = fan[f].origPwm /\ o.fan.origEnable = fan[f].origEnable
      /\ o.ok <=> ~o.fan.taken
      /\ ~fan[f].taken => o.fan = fan[f]
      /\ fan[f].taken /\ o.ok =>
           /\ fan[f].origPwm # None => o.fan.pwm = fan[f].origPwm
           /\ fan[f].hasEnable /\ fan[f].origEnable # None
                => o.fan.enable = fan[f].origEnable
      /\ ~fan[f].hasEnable => o.fan.enable = fan[f].enable
  BY <1>1, <1>2, ReleaseFacts
<1>4. /\ UNCHANGED <<settings, readable, at, seen, main, holder, before, lost>>
      /\ todo' = todo \ {f}
  BY DEF loopVars, Visit
<1>5. /\ fan' \in [Fans -> Fan] /\ fan'[f] = o.fan
      /\ \A g \in Fans \ {f} : fan'[g] = fan[g]
  BY <1>1, <1>2, <1>3
<1>6. TypeOK'
  BY <1>2, <1>4, <1>5 DEF TypeOK, Reported
<1>7. Exclusive'
  BY <1>4 DEF Exclusive
<1>8. EngagedIsTaken' /\ HeldIsKnown'
  BY <1>2, <1>3, <1>5 DEF EngagedIsTaken, HeldIsKnown, TypeOK
<1>9. HandsOff'
  <2> SUFFICES ASSUME NEW g \in Fans \ lost, ~fan'[g].taken
               PROVE  fan'[g].pwm = before[g].pwm /\ fan'[g].enable = before[g].enable
    BY <1>4 DEF HandsOff
  <2>1. CASE g # f \/ ~fan[g].taken
    BY <2>1, <1>3, <1>5 DEF HandsOff
  <2>2. CASE g = f /\ fan[g].taken
    <3>1. before[f].pwm # None /\ before[f].enable # None
      BY DutiesAssumption DEF TypeOK, Levels, Enables
    <3>2. /\ fan[f].origPwm = before[f].pwm
          /\ fan[f].hasEnable => fan[f].origEnable = before[f].enable
          /\ ~fan[f].hasEnable => fan[f].enable = before[f].enable
      BY <2>2 DEF CaptureKept, AlwaysManual
    <3>3. o.ok /\ fan[f].hasEnable \in BOOLEAN
      BY <2>2, <1>1, <1>3, <1>5 DEF Fan
    <3> QED BY <2>2, <3>1, <3>2, <3>3, <1>3, <1>5
  <2> QED BY <2>1, <2>2
<1>10. CaptureKept'
  BY <1>3, <1>4, <1>5 DEF CaptureKept
<1>11. AlwaysManual'
  BY <1>3, <1>4, <1>5 DEF AlwaysManual
<1>12. ReleasePending'
  BY <1>2, <1>3, <1>4, <1>5 DEF ReleasePending
<1>13. NothingHeldAfterLoop'
  BY <1>2, <1>3, <1>4, <1>5 DEF NothingHeldAfterLoop
<1> QED BY <1>6, <1>7, <1>8, <1>9, <1>10, <1>11, <1>12, <1>13

(* Every step keeps the invariant. *)
LEMMA StepInv == IInv /\ [Next]_vars => IInv'
<1> SUFFICES ASSUME IInv, [Next]_vars PROVE IInv'
  OBVIOUS
<1> USE DEF IInv
<1> DEFINE Quiet == UNCHANGED <<fan, engaged, before, lost, refused>>
<1>1. ASSUME Quiet, TypeOK', Exclusive', ReleasePending', NothingHeldAfterLoop'
      PROVE  IInv'
  BY <1>1 DEF EngagedIsTaken, HandsOff, CaptureKept, AlwaysManual, HeldIsKnown
<1>2. CASE Sense
  BY <1>1, <1>2 DEF Sense, ReadSensors, histVars, TypeOK, LoopAt, Exclusive, ReleasePending,
                    NothingHeldAfterLoop
<1>3. CASE Lock
  BY <1>1, <1>3 DEF Lock, histVars, TypeOK, LoopAt, Exclusive, ReleasePending,
                    NothingHeldAfterLoop
<1>4. CASE EndTick
  BY <1>1, <1>4 DEF EndTick, histVars, TypeOK, LoopAt, MainAt, Exclusive,
                    ReleasePending, NothingHeldAfterLoop
<1>5. CASE LoopReleaseAll
  BY <1>1, <1>5 DEF LoopReleaseAll, histVars, TypeOK, LoopAt, Exclusive,
                    HeldIsKnown, ReleasePending, NothingHeldAfterLoop
<1>6. CASE LoopReleased
  BY <1>1, <1>6 DEF LoopReleased, histVars, TypeOK, LoopAt, Exclusive,
                    ReleasePending, NothingHeldAfterLoop
<1>7. ASSUME NEW f \in Fans, Drive(f) PROVE IInv'
  BY <1>7, DriveInv
<1>8. ASSUME NEW f \in Fans, Yield(f) PROVE IInv'
  BY <1>8, LetGoInv DEF Yield
<1>9. ASSUME NEW f \in Fans, Watch(f) PROVE IInv'
  BY <1>1, <1>9 DEF Watch, Visit, Reported, loopVars, histVars, TypeOK, Exclusive,
                    ReleasePending, NothingHeldAfterLoop
<1>10. ASSUME NEW f \in Fans, ReleaseOne(f) PROVE IInv'
  BY <1>10, LetGoInv DEF ReleaseOne
<1>11. CASE Signal
  BY <1>1, <1>11 DEF Signal, loopVars, histVars, TypeOK, MainAt, Exclusive,
                     ReleasePending, NothingHeldAfterLoop
<1>12. CASE MainReleaseAll
  BY <1>1, <1>12 DEF MainReleaseAll, loopVars, histVars, TypeOK, MainAt, Exclusive,
                     ReleasePending, NothingHeldAfterLoop
<1>13. CASE MainReleased
  BY <1>1, <1>13 DEF MainReleased, loopVars, histVars, TypeOK, MainAt, Exclusive,
                     ReleasePending, NothingHeldAfterLoop
<1>14. CASE Exit \/ ListenFails
  BY <1>1, <1>14 DEF Exit, ListenFails, loopVars, histVars, TypeOK, MainAt, Exclusive,
                     ReleasePending, NothingHeldAfterLoop
<1>15. ASSUME NEW f \in Fans, NEW s \in Settings, Set(f, s) PROVE IInv'
  BY <1>1, <1>15 DEF Set, histVars, TypeOK, Exclusive, ReleasePending,
                     NothingHeldAfterLoop
<1>16. CASE Sensor
  BY <1>1, <1>16 DEF Sensor, loopVars, histVars, TypeOK, Exclusive, ReleasePending,
                     NothingHeldAfterLoop
<1>17. CASE UNCHANGED vars
  BY <1>1, <1>17 DEF vars, TypeOK, Exclusive, ReleasePending, NothingHeldAfterLoop
<1> QED BY <1>2, <1>3, <1>4, <1>5, <1>6, <1>7, <1>8, <1>9, <1>10, <1>11, <1>12,
           <1>13, <1>14, <1>15, <1>16, <1>17 DEF Next, LoopStep, MainStep

-----------------------------------------------------------------------------
(* Theorems *)

(* The inductive invariant holds of every behaviour. *)
THEOREM Invariance == Spec => []IInv
<1>1. Init => IInv
  BY InitInv
<1>2. IInv /\ [Next]_vars => IInv'
  BY StepInv
<1> QED BY <1>1, <1>2, PTL DEF Spec

(* Every variable keeps its type; in particular no register ever receives  *)
(* the mark of one that could not be read.                                 *)
THEOREM TypeCorrect == Spec => []TypeOK
<1>1. IInv => TypeOK
  BY DEF IInv
<1> QED BY <1>1, Invariance, PTL

(* The controller never counts as its own a fan the provider has let go.   *)
THEOREM Bookkeeping == Spec => []EngagedIsTaken
<1>1. IInv => EngagedIsTaken
  BY DEF IInv
<1> QED BY <1>1, Invariance, PTL

(* A fan the panel does not hold has the registers the panel found, for    *)
(* every set of fans, every setting and every pattern of refused writes.   *)
THEOREM Restoration == Spec => []HandsOff
<1>1. IInv => HandsOff
  BY DEF IInv
<1> QED BY <1>1, Invariance, PTL

(* Once the control loop has ended only a fan that refused a write is held.*)
THEOREM LastRelease == Spec => []NothingHeldAfterLoop
<1>1. IInv => NothingHeldAfterLoop
  BY DEF IInv
<1> QED BY <1>1, Invariance, PTL

-----------------------------------------------------------------------------
(* What a tick does *)

(* The panel drives with the enable register on manual, and only a failed  *)
(* call leaves it there for a fan the panel let go.                        *)
HeldIsManual ==
  \A f \in Fans : fan[f].taken \/ ~fan[f].hasEnable => fan[f].enable = "manual"

(* A successful SetDuty writes both registers, and no call that takes or   *)
(* keeps the fan takes enable off manual.                                  *)
LEMMA SetDutyWrites ==
  ASSUME NEW h \in Fan, NEW duty \in Duties, NEW p, NEW e, NEW c, c = Captured(h, p, e),
         p \in Levels \cup {None}, e \in Enables \cup {None},
         h.taken \/ ~h.hasEnable => h.enable = "manual", NEW o \in SetDuty(c, duty)
  PROVE  /\ o.ok => o.fan.pwm = duty
         /\ o.fan.taken \/ ~o.fan.hasEnable => o.fan.enable = "manual"
<1>1. c \in Fan /\ c.hasEnable = h.hasEnable /\ c.taken = h.taken /\ c.enable = h.enable
  BY DEF Captured, Fan
<1>2. /\ Taken(c) \in Fan /\ Taken(c).hasEnable = c.hasEnable
      /\ Taken(c).enable = "manual"
  <2> DEFINE v == IF c.hasEnable /\ ~c.taken THEN "manual" ELSE c.enable
  <2>1. v = "manual" /\ v \in Enables
    BY <1>1 DEF Enables, Fan
  <2>2. Taken(c) = [c EXCEPT !.taken = TRUE, !.enable = v]
    BY DEF Taken
  <2> HIDE DEF v
  <2>3. Taken(c) \in Fan
    BY <1>1, <2>1, <2>2 DEF Fan
  <2>4. Taken(c).hasEnable = c.hasEnable /\ Taken(c).enable = v
    BY <1>1, <2>2 DEF Fan
  <2> QED BY <2>1, <2>3, <2>4
<1>3. \/ o = Outcome([Taken(c) EXCEPT !.pwm = duty], TRUE)
      \/ o = Outcome(c, FALSE) /\ ~c.taken
      \/ o = Outcome(Taken(c), FALSE)
  BY DEF SetDuty
<1>4. CASE o = Outcome([Taken(c) EXCEPT !.pwm = duty], TRUE)
  <2>1. o.fan = [Taken(c) EXCEPT !.pwm = duty]
    BY <1>4 DEF Outcome
  <2>2. o.fan.pwm = duty /\ o.fan.enable = "manual"
    BY <2>1, <1>2 DEF Fan
  <2> QED BY <2>2
<1>5. CASE o = Outcome(c, FALSE) /\ ~c.taken
  BY <1>1, <1>5 DEF Outcome
<1>6. CASE o = Outcome(Taken(c), FALSE)
  BY <1>2, <1>6 DEF Outcome
<1> QED BY <1>3, <1>4, <1>5, <1>6

(* A Release that fails leaves enable as it is.                            *)
LEMMA ReleaseKeepsManual ==
  ASSUME NEW f \in Fans, fan[f] \in Fan, NEW o \in Release(f),
         fan[f].taken \/ ~fan[f].hasEnable => fan[f].enable = "manual"
  PROVE  o.fan.taken \/ ~o.fan.hasEnable => o.fan.enable = "manual"
<1> DEFINE h == fan[f]
<1>1. /\ o.fan.hasEnable = h.hasEnable
      /\ ~h.hasEnable => o.fan.enable = h.enable
      /\ ~h.taken => o.fan = h
  BY ReleaseFacts
<1>2. CASE o.fan.taken /\ h.taken
  <2>1. \/ o = Outcome([Restored(h) EXCEPT !.taken = FALSE], TRUE)
        \/ o = Outcome(h, FALSE)
        \/ o = Outcome(PwmRestored(h), FALSE)
    BY <1>2 DEF Release
  <2>2. o.ok <=> ~o.fan.taken
    BY ReleaseFacts
  <2>3. o = Outcome(h, FALSE) \/ o = Outcome(PwmRestored(h), FALSE)
    BY <1>2, <2>1, <2>2 DEF Outcome
  <2>4. PwmRestored(h).enable = h.enable
    BY DEF PwmRestored, Fan
  <2> QED BY <1>2, <2>3, <2>4 DEF Outcome
<1> QED BY <1>1, <1>2

ApplyInv == HeldIsManual /\ TickApplies

(* The steps of the tick itself. *)
LEMMA DriveApplies == ASSUME IInv, ApplyInv, NEW f \in Fans, Drive(f) PROVE ApplyInv'
<1>1. /\ fan[f] \in Fan /\ at = "tick" /\ fan \in [Fans -> Fan] /\ Driven(f)
      /\ UNCHANGED <<settings, at, seen>> /\ todo' = todo \ {f} /\ err \in SUBSET Fans
  BY DEF IInv, TypeOK, Drive, Visit, loopVars
<1>2. PICK duty \in Targets(f), p \in Read(fan[f].pwm), e \in Read(fan[f].enable) :
      \E o \in SetDuty(Captured(fan[f], p, e), duty) :
        /\ fan' = [fan EXCEPT ![f] = o.fan]
        /\ engaged' = IF o.ok THEN engaged \cup {f} ELSE engaged
        /\ err' = Reported(f, o.ok)
  BY DEF Drive
<1>3. PICK o \in SetDuty(Captured(fan[f], p, e), duty) :
        /\ fan' = [fan EXCEPT ![f] = o.fan]
        /\ engaged' = IF o.ok THEN engaged \cup {f} ELSE engaged
        /\ err' = Reported(f, o.ok)
  BY <1>2
<1>4. /\ duty \in Duties
      /\ settings[f] \in Duties => duty = settings[f]
      /\ settings[f] = "curve" /\ ~seen => duty = Full
  BY <1>1, <1>2, DutiesAssumption DEF IInv, Targets, TypeOK, Settings, Driven
<1>5. /\ p \in {fan[f].pwm, None} /\ p \in Levels \cup {None}
      /\ e \in {fan[f].enable, None} /\ e \in Enables \cup {None}
  BY <1>1, <1>2 DEF Read, Fan
<1>6. /\ o.ok => o.fan.pwm = duty
      /\ o.fan.taken \/ ~o.fan.hasEnable => o.fan.enable = "manual"
  BY <1>1, <1>3, <1>4, <1>5, SetDutyWrites DEF ApplyInv, HeldIsManual
<1>7. o.ok \in BOOLEAN /\ (o.ok => o.fan.taken)
  BY <1>1, <1>2, <1>3, <1>4, SetDutyFacts
<1>8. fan'[f] = o.fan /\ \A g \in Fans \ {f} : fan'[g] = fan[g]
  BY <1>1, <1>3
<1>9. HeldIsManual'
  BY <1>6, <1>8 DEF ApplyInv, HeldIsManual
<1>10. ASSUME NEW g \in Fans \ (todo' \cup err'), Driven(g)'
       PROVE  /\ g \in engaged' /\ fan'[g].taken /\ fan'[g].enable = "manual"
              /\ settings[g] \in Duties => fan'[g].pwm = settings[g]
              /\ settings[g] = "curve" /\ ~seen => fan'[g].pwm = Full
  <2>1. CASE g = f
    <3>1. o.ok
      BY <1>3, <1>7, <1>10, <2>1 DEF Reported
    <3> QED BY <1>3, <1>4, <1>6, <1>7, <1>8, <2>1, <3>1
  <2>2. CASE g # f
    <3>1. g \in Fans \ (todo \cup err)
      BY <1>1, <1>3, <1>10, <2>2 DEF Reported
    <3>2. Driven(g) /\ fan'[g] = fan[g]
      BY <1>1, <1>8, <1>10, <2>2 DEF Driven, Writable
    <3> QED BY <1>1, <1>3, <3>1, <3>2 DEF ApplyInv, TickApplies
  <2> QED BY <2>1, <2>2
<1> QED BY <1>1, <1>9, <1>10 DEF ApplyInv, TickApplies

LEMMA LetGoApplies ==
  ASSUME IInv, ApplyInv, NEW f \in Fans, Visit(f), LetGo(f),
         at = "tick" => settings[f] = "auto", UNCHANGED <<settings, at, seen>>
  PROVE  ApplyInv'
<1>1. /\ fan[f] \in Fan /\ fan \in [Fans -> Fan] /\ todo' = todo \ {f}
  BY DEF IInv, TypeOK, Visit
<1>2. PICK o \in Release(f) :
        /\ fan' = [fan EXCEPT ![f] = o.fan]
        /\ engaged' = IF o.ok THEN engaged \ {f} ELSE engaged
        /\ err' = IF at = "tick" THEN Reported(f, o.ok) ELSE err
  BY DEF LetGo
<1>3. o.fan.taken \/ ~o.fan.hasEnable => o.fan.enable = "manual"
  BY <1>1, <1>2, ReleaseKeepsManual DEF ApplyInv, HeldIsManual
<1>4. fan'[f] = o.fan /\ \A g \in Fans \ {f} : fan'[g] = fan[g]
  BY <1>1, <1>2
<1>5. HeldIsManual'
  BY <1>3, <1>4 DEF ApplyInv, HeldIsManual
<1>6. ASSUME at = "tick", NEW g \in Fans \ (todo' \cup err'), Driven(g)'
      PROVE  /\ g \in engaged' /\ fan'[g].taken /\ fan'[g].enable = "manual"
             /\ settings[g] \in Duties => fan'[g].pwm = settings[g]
             /\ settings[g] = "curve" /\ ~seen => fan'[g].pwm = Full
  <2>1. g # f
    BY <1>6 DEF Driven
  <2>2. g \in Fans \ (todo \cup err)
    BY <1>1, <1>2, <1>6, <2>1 DEF Reported
  <2>3. Driven(g) /\ fan'[g] = fan[g] /\ (g \in engaged => g \in engaged')
    BY <1>2, <1>4, <1>6, <2>1 DEF Driven, Writable
  <2> QED BY <1>6, <2>2, <2>3 DEF ApplyInv, TickApplies
<1> QED BY <1>5, <1>6 DEF ApplyInv, TickApplies

LEMMA ApplyStep == ASSUME IInv, ApplyInv, [Next]_vars PROVE ApplyInv'
<1> DEFINE Quiet == UNCHANGED <<fan, engaged>>
<1>1. ASSUME Quiet, at' # "tick" PROVE ApplyInv'
  BY <1>1 DEF ApplyInv, HeldIsManual, TickApplies
<1>2. ASSUME Quiet, UNCHANGED <<settings, err, seen, at, todo>> PROVE ApplyInv'
  BY <1>2 DEF ApplyInv, HeldIsManual, TickApplies, Driven, Writable
<1>3. CASE Sense \/ EndTick \/ LoopReleaseAll \/ LoopReleased
  BY <1>1, <1>3 DEF Sense, EndTick, LoopReleaseAll, LoopReleased
<1>4. CASE Lock
  BY <1>4 DEF Lock, ApplyInv, HeldIsManual, TickApplies
<1>5. ASSUME NEW f \in Fans, Drive(f) PROVE ApplyInv'
  BY <1>5, DriveApplies
<1>6. ASSUME NEW f \in Fans, Yield(f) PROVE ApplyInv'
  BY <1>6, LetGoApplies DEF Yield, loopVars
<1>7. ASSUME NEW f \in Fans, Watch(f) PROVE ApplyInv'
  <2>1. /\ at = "tick" /\ todo' = todo \ {f} /\ ~Driven(f) /\ err' \in {err \ {f}, err \cup {f}}
        /\ UNCHANGED <<fan, engaged, settings, at, seen>>
    BY <1>7 DEF Watch, Visit, Reported, loopVars
  <2>2. \A g \in Fans : Driven(g)' <=> Driven(g)
    BY <2>1 DEF Driven, Writable
  <2>3. \A g \in Fans \ (todo' \cup err') : Driven(g) => g \in Fans \ (todo \cup err)
    BY <2>1
  <2> QED BY <2>1, <2>2, <2>3 DEF ApplyInv, HeldIsManual, TickApplies
<1>8. ASSUME NEW f \in Fans, ReleaseOne(f) PROVE ApplyInv'
  <2>1. at # "tick"
    BY <1>8 DEF ReleaseOne, IInv, Exclusive
  <2> QED BY <1>8, <2>1, LetGoApplies DEF ReleaseOne, loopVars
<1>9. CASE MainReleaseAll
  <2>1. at' # "tick"
    BY <1>9 DEF MainReleaseAll, loopVars, IInv, Exclusive
  <2> QED BY <1>1, <1>9, <2>1 DEF MainReleaseAll
<1>10. CASE Signal \/ MainReleased \/ Exit \/ ListenFails \/ Sensor \/ UNCHANGED vars
  BY <1>2, <1>10 DEF Signal, MainReleased, Exit, ListenFails, Sensor, vars, loopVars
<1>11. ASSUME NEW f \in Fans, NEW s \in Settings, Set(f, s) PROVE ApplyInv'
  <2>1. at' # "tick"
    BY <1>11 DEF Set, IInv, Exclusive
  <2> QED BY <1>1, <1>11, <2>1 DEF Set
<1> QED BY <1>3, <1>4, <1>5, <1>6, <1>7, <1>8, <1>9, <1>10, <1>11 DEF Next, LoopStep, MainStep

(* A tick that visits a fan brings it to what its setting asks, or shows   *)
(* an error: no Set and no ReleaseAll comes between (tick, under c.mu).    *)
THEOREM TickCorrect == Spec => []TickApplies
<1>1. Init => ApplyInv
  <2> SUFFICES ASSUME Init PROVE ApplyInv
    OBVIOUS
  <2>1. \A f \in Fans : ~fan[f].taken /\ (fan[f].hasEnable \/ fan[f].enable = "manual")
    BY DEF Init, Found
  <2> QED BY <2>1 DEF Init, ApplyInv, HeldIsManual, TickApplies
<1>2. IInv /\ ApplyInv /\ [Next]_vars => ApplyInv'
  BY ApplyStep
<1>3. ApplyInv => TickApplies
  BY DEF ApplyInv
<1> QED BY <1>1, <1>2, <1>3, Invariance, PTL DEF Spec

-----------------------------------------------------------------------------
(* The directory of a server *)

(* A restore knows its archive, and after the exchange where the displaced *)
(* directory is; a job that works holds the panel's one job.               *)
Request == [kind : Kinds \cup {"none"}, at : Steps \cup {"none"},
            src : Archives \cup {Nil}, todo : SUBSET Files,
            name : Times \cup {0}, alone : BOOLEAN]

RequestOK(q, x, run) ==
  /\ x \in Request
  /\ x.kind = "restore" => x.at \in {"extract", "swap"} /\ x.src \in Archives
  /\ x.kind = "restore" /\ x.at = "swap" => x.name \in Times /\ x.todo = {}
  /\ x.kind # "restore" => x.at \notin {"extract", "swap"}
  /\ x.at \in {"fill", "download", "write", "rescan"} => run = q

(* A creation or an import that nothing crossed fills a directory of its   *)
(* own: whatever it holds by now is new.                                   *)
Made(d) == d = Nil \/ \A f \in Files : d[f] \in {"absent", "new"}
FillOK(x, d) ==
  x.kind \in {"create", "import"} /\ x.at \in {"fill", "download"} /\ x.alone => Made(d)

(* A restore that no other one ran into is the only one, and what it has   *)
(* extracted is in tmp.                                                    *)
RestoreOK(q, x, others, d) ==
  x.kind = "restore" /\ x.alone =>
    others = {q} /\ d \in Dir /\ \A f \in Files \ x.todo : d[f] = x.src

DirInv ==
  /\ live \in Dir \cup {Nil} /\ tmp \in Dir \cup {Nil}
  /\ replaced \in [Times -> Dir \cup {Nil}]
  /\ now \in Times /\ listed \in BOOLEAN
  /\ state \in {"stopped", "crashed", "up"}
  /\ runner \in Requests \cup {Nil}
  /\ req = [q \in Requests |-> req[q]]
  /\ \A q \in Requests : /\ RequestOK(q, req[q], runner)
                         /\ FillOK(req[q], live)
                         /\ RestoreOK(q, req[q], Restoring, tmp)

LEMMA TypesOfDirInv == DirInv => ServerDirTypeOK
<1> SUFFICES ASSUME DirInv PROVE ServerDirTypeOK
  OBVIOUS
<1>1. req \in [Requests -> Request]
  BY DEF DirInv, RequestOK
<1> QED BY <1>1 DEF DirInv, ServerDirTypeOK, Request

LEMMA IdleIsSound ==
  /\ \A q, run : RequestOK(q, Idle, run)
  /\ \A d : FillOK(Idle, d)
  /\ \A q, others, d : RestoreOK(q, Idle, others, d)
<1>1. Idle \in Request
  BY DEF Idle, Request, Kinds, Steps
<1>2. Idle.kind = "none" /\ Idle.at = "none"
  BY DEF Idle
<1> QED BY <1>1, <1>2 DEF RequestOK, FillOK, RestoreOK

LEMMA DirStarts == ServerDirInit => DirInv
<1> SUFFICES ASSUME ServerDirInit PROVE DirInv
  OBVIOUS
<1> USE DEF ServerDirInit
<1>1. live \in Dir \cup {Nil} /\ listed \in BOOLEAN
  BY DEF Dir, All, Origins
<1>2. now \in Times /\ replaced \in [Times -> Dir \cup {Nil}]
  BY ServerDirAssumption DEF Times
<1>3. req = [q \in Requests |-> req[q]] /\ \A q \in Requests : req[q] = Idle
  OBVIOUS
<1> QED BY <1>1, <1>2, <1>3, IdleIsSound DEF DirInv

(* Put one file of a known origin into a directory, which is made if need  *)
(* be.                                                                     *)
LEMMA PutIsDir ==
  ASSUME NEW d \in Dir \cup {Nil}, NEW f \in Files, NEW o \in Origins
  PROVE  /\ Put(d, f, o) \in Dir /\ Put(d, f, o) # Nil
         /\ Put(d, f, o)[f] = o
         /\ d \in Dir => \A g \in Files \ {f} : Put(d, f, o)[g] = d[g]
         /\ d = Nil => \A g \in Files \ {f} : Put(d, f, o)[g] = "absent"
<1>1. Empty \in Dir /\ \A g \in Files : Empty[g] = "absent"
  BY DEF Empty, All, Dir, Origins
<1>2. CASE d = Nil
  <2>1. Put(d, f, o) = [Empty EXCEPT ![f] = o]
    BY <1>2 DEF Put
  <2> QED BY <1>1, <1>2, <2>1, ServerDirAssumption DEF Dir
<1>3. CASE d # Nil
  <2>1. Put(d, f, o) = [d EXCEPT ![f] = o]
    BY <1>3 DEF Put
  <2> QED BY <1>3, <2>1, ServerDirAssumption DEF Dir
<1> QED BY <1>2, <1>3

-----------------------------------------------------------------------------
(* Steps of a request *)

(* A step of a job that leaves the directories and the job alone.          *)
LEMMA RequestMoves ==
  ASSUME DirInv, NEW r \in Requests, NEW e, req' = [req EXCEPT ![r] = e],
         req[r].kind # "restore", e.kind # "restore",
         RequestOK(r, e, runner), FillOK(e, live),
         UNCHANGED <<diskVars, now, state, runner>>, listed' \in BOOLEAN
  PROVE  DirInv'
<1>1. req'[r] = e /\ (\A q \in Requests \ {r} : req'[q] = req[q])
      /\ req' = [q \in Requests |-> req'[q]]
  BY DEF DirInv
<1>2. Restoring' = Restoring
  BY <1>1 DEF Restoring
<1>3. UNCHANGED <<live, tmp, replaced>>
  BY DEF diskVars
<1>4. \A q \in Requests : /\ RequestOK(q, req'[q], runner)
                          /\ FillOK(req'[q], live)
                          /\ RestoreOK(q, req'[q], Restoring, tmp)
  BY <1>1 DEF DirInv, RestoreOK
<1> QED BY <1>1, <1>2, <1>3, <1>4 DEF DirInv

(* A step of the request that has the job or takes it.                     *)
LEMMA JobMoves ==
  ASSUME DirInv, NEW r \in Requests, NEW e, req' = [req EXCEPT ![r] = e],
         req[r].kind # "restore", e.kind # "restore",
         runner \in {r, Nil}, runner' \in {r, Nil},
         RequestOK(r, e, runner'), FillOK(e, live'),
         live' \in Dir \cup {Nil}, listed' \in BOOLEAN,
         UNCHANGED <<tmp, replaced, now, state>>
  PROVE  DirInv'
<1>1. req'[r] = e /\ (\A q \in Requests \ {r} : req'[q] = req[q])
      /\ req' = [q \in Requests |-> req'[q]]
  BY DEF DirInv
<1>2. Restoring' = Restoring
  BY <1>1 DEF Restoring
<1>3. \A q \in Requests \ {r} :
        req[q].at \notin {"fill", "download", "write", "rescan"}
  BY ServerDirAssumption DEF DirInv, RequestOK
<1>4. \A q \in Requests \ {r} :
        RequestOK(q, req[q], runner') /\ FillOK(req[q], live')
  BY <1>3 DEF DirInv, RequestOK, FillOK
<1>5. \A q \in Requests : RestoreOK(q, req'[q], Restoring, tmp)
  BY <1>1 DEF DirInv, RestoreOK
<1> QED BY <1>1, <1>2, <1>4, <1>5 DEF DirInv

(* A step of a restore, or its end: live may go, tmp is its own.           *)
LEMMA RestoreMoves ==
  ASSUME DirInv, NEW r \in Requests, NEW e, req' = [req EXCEPT ![r] = e],
         req[r].kind = "restore", RequestOK(r, e, runner),
         e = Idle \/ (e.kind = "restore" /\ e.alone = req[r].alone),
         tmp' \in Dir \cup {Nil}, live' \in {live, Nil},
         replaced' \in [Times -> Dir \cup {Nil}],
         req[r].alone => RestoreOK(r, e, {r}, tmp'),
         UNCHANGED serverVars
  PROVE  DirInv'
<1>1. req'[r] = e /\ (\A q \in Requests \ {r} : req'[q] = req[q])
      /\ req' = [q \in Requests |-> req'[q]]
  BY DEF DirInv
<1>2. UNCHANGED <<now, listed, state, runner>>
  BY DEF serverVars
<1>3. \A q \in Requests \ {r} : RestoreOK(q, req[q], Restoring', tmp')
  <2>1. r \in Restoring
    BY DEF Restoring
  <2> QED BY <2>1 DEF DirInv, RestoreOK
<1>4. RestoreOK(r, e, Restoring', tmp')
  <2>1. CASE e = Idle
    BY <2>1, IdleIsSound
  <2>2. CASE e.kind = "restore" /\ e.alone = req[r].alone /\ req[r].alone
    <3>1. Restoring = {r}
      BY <2>2 DEF DirInv, RestoreOK
    <3>2. Restoring' = Restoring
      BY <1>1, <2>2 DEF Restoring
    <3> QED BY <2>2, <3>1, <3>2
  <2>3. CASE e.kind = "restore" /\ e.alone = req[r].alone /\ ~req[r].alone
    BY <2>3 DEF RestoreOK
  <2> QED BY <2>1, <2>2, <2>3
<1>5. FillOK(e, live') /\ \A q \in Requests \ {r} : FillOK(req[q], live')
  <2>1. FillOK(e, live')
    BY IdleIsSound DEF FillOK
  <2> QED BY <2>1 DEF DirInv, FillOK, Made
<1> QED BY <1>1, <1>2, <1>3, <1>4, <1>5 DEF DirInv

(* The end of a restore that had displaced the directory.                  *)
LEMMA Finishes ==
  ASSUME DirInv, NEW r \in Requests, req' = Finished(r),
         live' \in Dir \cup {Nil}, tmp' \in Dir \cup {Nil},
         replaced' \in [Times -> Dir \cup {Nil}], UNCHANGED serverVars
  PROVE  DirInv'
<1>1. UNCHANGED <<now, listed, state, runner>>
  BY DEF serverVars
<1>2. req' = [q \in Requests |-> req'[q]]
  BY DEF Finished
<1>3. ASSUME NEW q \in Requests
      PROVE  /\ RequestOK(q, req'[q], runner) /\ FillOK(req'[q], live')
             /\ RestoreOK(q, req'[q], Restoring', tmp')
  <2>1. CASE req'[q] = Idle
    BY <2>1, IdleIsSound
  <2>2. CASE req'[q] # Idle
    <3>1. req'[q] = [req[q] EXCEPT !.alone = FALSE]
      BY <2>2 DEF Finished
    <3>2. req[q] \in Request /\ RequestOK(q, req[q], runner)
      BY DEF DirInv, RequestOK
    <3>3. /\ req'[q] \in Request /\ req'[q].alone = FALSE
          /\ req'[q].kind = req[q].kind /\ req'[q].at = req[q].at /\ req'[q].src = req[q].src
          /\ req'[q].todo = req[q].todo /\ req'[q].name = req[q].name
      BY <3>1, <3>2 DEF Request
    <3>4. RequestOK(q, req'[q], runner)
      BY <3>2, <3>3 DEF RequestOK
    <3> QED BY <3>3, <3>4 DEF FillOK, RestoreOK
  <2> QED BY <2>1, <2>2
<1> QED BY <1>1, <1>2, <1>3 DEF DirInv

-----------------------------------------------------------------------------
(* The server, the list and the crash *)

LEMMA AroundInv ==
  ASSUME DirInv, Tick \/ Launch \/ End \/ Rescan \/ Crash
  PROVE  DirInv'
<1>1. CASE Tick
  <2>1. now' \in Times
    BY <1>1, ServerDirAssumption DEF DirInv, Tick, Times
  <2>2. UNCHANGED <<live, tmp, replaced, listed, state, runner, req>>
    BY <1>1 DEF Tick, diskVars
  <2> QED BY <2>1, <2>2 DEF DirInv, Restoring
<1>2. CASE Launch \/ End \/ Rescan
  <2>1. UNCHANGED <<live, tmp, replaced, now, runner, req>>
    BY <1>2 DEF Launch, End, Rescan, diskVars
  <2>2. listed' \in BOOLEAN /\ state' \in {"stopped", "crashed", "up"}
    <3>1. CASE Launch \/ End
      BY <3>1 DEF Launch, End, DirInv
    <3>2. CASE Rescan
      <4>1. Scanned \in BOOLEAN
        BY DEF DirInv, Scanned
      <4> QED BY <3>2, <4>1 DEF Rescan, DirInv
    <3> QED BY <1>2, <3>1, <3>2
  <2> QED BY <2>1, <2>2 DEF DirInv, Restoring
<1>3. CASE Crash
  <2>1. /\ UNCHANGED <<live, tmp, replaced, now>> /\ state' = "stopped"
        /\ listed' = LooksLikeServer(live) /\ runner' = Nil /\ req' = [r \in Requests |-> Idle]
    BY <1>3 DEF Crash, diskVars
  <2>2. LooksLikeServer(live) \in BOOLEAN
    BY DEF LooksLikeServer
  <2>3. req' = [q \in Requests |-> req'[q]] /\ \A q \in Requests : req'[q] = Idle
    BY <2>1
  <2> QED BY <2>1, <2>2, <2>3, IdleIsSound DEF DirInv
<1> QED BY <1>1, <1>2, <1>3

-----------------------------------------------------------------------------
(* Restores *)

LEMMA RestoreBeginInv ==
  ASSUME DirInv, NEW r \in Requests, NEW a \in Archives, RestoreBegin(r, a)
  PROVE  DirInv'
<1> DEFINE e == [kind |-> "restore", at |-> "extract", src |-> a, todo |-> Files,
                 name |-> 0, alone |-> Restoring = {}]
<1>1. /\ UNCHANGED <<live, replaced, now, listed, state, runner>> /\ tmp' = Empty
      /\ req[r] = Idle
      /\ req' = [q \in Requests |->
           IF q = r THEN e
           ELSE IF q \in Restoring THEN [req[q] EXCEPT !.alone = FALSE] ELSE req[q]]
  BY DEF RestoreBegin, serverVars
<1>2. tmp' \in Dir
  BY <1>1 DEF Empty, All, Dir, Origins
<1>3. /\ e \in Request /\ e.kind = "restore" /\ e.at = "extract" /\ e.src = a
      /\ e.todo = Files /\ (e.alone => Restoring = {})
  BY DEF Request, Kinds, Steps
<1> HIDE DEF e
<1>4. /\ req' = [q \in Requests |-> req'[q]] /\ req'[r] = e
      /\ \A q \in Requests \ {r} :
           req'[q] = IF q \in Restoring THEN [req[q] EXCEPT !.alone = FALSE] ELSE req[q]
  BY <1>1
<1>5. RequestOK(r, e, runner) /\ FillOK(e, live)
  BY <1>3 DEF RequestOK, FillOK
<1>6. ASSUME NEW q \in Requests \ {r}, q \in Restoring
      PROVE  /\ RequestOK(q, req'[q], runner) /\ FillOK(req'[q], live)
             /\ RestoreOK(q, req'[q], Restoring', tmp')
  <2>1. req'[q] = [req[q] EXCEPT !.alone = FALSE] /\ req[q].kind = "restore"
    BY <1>4, <1>6 DEF Restoring
  <2>2. req[q] \in Request /\ RequestOK(q, req[q], runner)
    BY DEF DirInv, RequestOK
  <2>3. /\ req'[q] \in Request /\ req'[q].alone = FALSE
        /\ req'[q].kind = req[q].kind /\ req'[q].at = req[q].at /\ req'[q].src = req[q].src
        /\ req'[q].todo = req[q].todo /\ req'[q].name = req[q].name
    BY <2>1, <2>2 DEF Request
  <2>4. RequestOK(q, req'[q], runner)
    BY <2>2, <2>3 DEF RequestOK
  <2> QED BY <2>3, <2>4 DEF FillOK, RestoreOK
<1>7. ASSUME NEW q \in Requests \ {r}, q \notin Restoring
      PROVE  /\ RequestOK(q, req'[q], runner) /\ FillOK(req'[q], live)
             /\ RestoreOK(q, req'[q], Restoring', tmp')
  <2>1. req'[q] = req[q] /\ req[q].kind # "restore"
    BY <1>4, <1>7 DEF Restoring
  <2> QED BY <2>1 DEF DirInv, RestoreOK
<1>8. RestoreOK(r, e, Restoring', tmp')
  <2>1. CASE Restoring = {}
    <3>1. \A q \in Requests \ {r} : req'[q] = req[q] /\ req[q].kind # "restore"
      BY <1>4, <2>1 DEF Restoring
    <3>2. Restoring' = {r}
      BY <1>3, <1>4, <3>1 DEF Restoring
    <3> QED BY <1>2, <1>3, <3>2 DEF RestoreOK
  <2>2. CASE Restoring # {}
    BY <1>3, <2>2 DEF RestoreOK
  <2> QED BY <2>1, <2>2
<1>9. \A q \in Requests :
        /\ RequestOK(q, req'[q], runner) /\ FillOK(req'[q], live)
        /\ RestoreOK(q, req'[q], Restoring', tmp')
  BY <1>4, <1>5, <1>6, <1>7, <1>8
<1> QED BY <1>1, <1>2, <1>4, <1>9 DEF DirInv

LEMMA ExtractInv ==
  ASSUME DirInv, NEW r \in Requests, NEW f \in Files, Extract(r, f)
  PROVE  DirInv'
<1> DEFINE x == req[r]
           e == [x EXCEPT !.todo = @ \ {f}]
<1>1. /\ x.kind = "restore" /\ x.at = "extract" /\ tmp' = Put(tmp, f, x.src)
      /\ req' = [req EXCEPT ![r] = e] /\ UNCHANGED <<live, replaced>> /\ UNCHANGED serverVars
  BY DEF Extract, At
<1>2. RequestOK(r, x, runner) /\ x \in Request /\ x.src \in Archives
  BY <1>1 DEF DirInv, RequestOK
<1>3. /\ e \in Request /\ e.kind = "restore" /\ e.at = "extract" /\ e.src = x.src
      /\ e.alone = x.alone /\ e.todo = x.todo \ {f}
  BY <1>1, <1>2 DEF Request
<1>4. RestoreOK(r, x, Restoring, tmp) /\ tmp \in Dir \cup {Nil}
      /\ replaced \in [Times -> Dir \cup {Nil}]
  BY DEF DirInv
<1> HIDE DEF x, e
<1>5. RequestOK(r, e, runner)
  BY <1>2, <1>3 DEF RequestOK
<1>6. /\ tmp' \in Dir /\ tmp'[f] = x.src
      /\ tmp \in Dir => \A g \in Files \ {f} : tmp'[g] = tmp[g]
  <2>1. x.src \in Origins
    BY <1>2 DEF Origins
  <2>2. tmp \in Dir \cup {Nil}
    BY <1>4
  <2>3. /\ Put(tmp, f, x.src) \in Dir /\ Put(tmp, f, x.src)[f] = x.src
        /\ tmp \in Dir => \A g \in Files \ {f} : Put(tmp, f, x.src)[g] = tmp[g]
    BY <2>1, <2>2, PutIsDir
  <2> QED BY <1>1, <2>3
<1>7. x.alone => RestoreOK(r, e, {r}, tmp')
  BY <1>1, <1>3, <1>4, <1>6 DEF RestoreOK
<1> QED BY <1>1, <1>3, <1>4, <1>5, <1>6, <1>7, RestoreMoves DEF x

LEMMA RestoreFailsInv ==
  ASSUME DirInv, NEW r \in Requests, ExtractFails(r) \/ MoveAsideFails(r)
  PROVE  DirInv'
<1>1. /\ req[r].kind = "restore" /\ tmp' = Nil /\ req' = [req EXCEPT ![r] = Idle]
      /\ UNCHANGED <<live, replaced>> /\ UNCHANGED serverVars
  BY DEF ExtractFails, MoveAsideFails, At
<1>2. replaced \in [Times -> Dir \cup {Nil}]
  BY DEF DirInv
<1> QED BY <1>1, <1>2, IdleIsSound, RestoreMoves

LEMMA MoveAsideInv ==
  ASSUME DirInv, NEW r \in Requests, MoveAside(r)
  PROVE  DirInv'
<1> DEFINE x == req[r]
           e == [x EXCEPT !.at = "swap", !.name = now]
<1>1. /\ x.kind = "restore" /\ x.at = "extract" /\ x.todo = {}
      /\ req' = [req EXCEPT ![r].at = "swap", ![r].name = now]
      /\ live' = Nil /\ replaced' = [replaced EXCEPT ![now] = live]
      /\ tmp' = tmp /\ UNCHANGED serverVars
  BY DEF MoveAside, At
<1>2. req' = [req EXCEPT ![r] = e]
  BY <1>1
<1>3. RequestOK(r, x, runner) /\ x \in Request /\ x.src \in Archives /\ now \in Times
  BY <1>1 DEF DirInv, RequestOK
<1>4. /\ e \in Request /\ e.kind = "restore" /\ e.at = "swap" /\ e.src = x.src
      /\ e.alone = x.alone /\ e.todo = {} /\ e.name = now
  BY <1>1, <1>3 DEF Request, Steps
<1>5. /\ RestoreOK(r, x, Restoring, tmp) /\ tmp \in Dir \cup {Nil}
      /\ replaced' \in [Times -> Dir \cup {Nil}]
  BY <1>1, <1>3 DEF DirInv
<1> HIDE DEF x, e
<1>6. RequestOK(r, e, runner)
  BY <1>3, <1>4 DEF RequestOK
<1>7. x.alone => RestoreOK(r, e, {r}, tmp')
  BY <1>1, <1>4, <1>5 DEF RestoreOK
<1> QED BY <1>1, <1>2, <1>4, <1>5, <1>6, <1>7, RestoreMoves DEF x

LEMMA ExchangeInv ==
  ASSUME DirInv, NEW r \in Requests, SwapIn(r) \/ RollBack(r)
  PROVE  DirInv'
<1>1. req' = Finished(r) /\ tmp' = Nil /\ UNCHANGED serverVars
  BY DEF SwapIn, RollBack
<1>2. /\ live \in Dir \cup {Nil} /\ tmp \in Dir \cup {Nil}
      /\ replaced \in [Times -> Dir \cup {Nil}]
      /\ req[r].kind = "restore" /\ req[r].at = "swap" => req[r].name \in Times
  BY DEF DirInv, RequestOK
<1>3. live' \in Dir \cup {Nil} /\ replaced' \in [Times -> Dir \cup {Nil}]
  BY <1>2 DEF SwapIn, RollBack, At
<1> QED BY <1>1, <1>3, Finishes

-----------------------------------------------------------------------------
(* Jobs *)

LEMMA LookInv ==
  ASSUME DirInv, NEW r \in Requests, NEW kind \in {"create", "import"}, Look(r, kind)
  PROVE  DirInv'
<1> DEFINE e == [Idle EXCEPT !.kind = kind, !.at = "looked"]
<1>1. /\ req[r] = Idle /\ req' = [req EXCEPT ![r] = e]
      /\ UNCHANGED <<diskVars, now, state, runner>> /\ listed' = listed
  BY DEF Look
<1>2. e \in Request /\ e.kind = kind /\ e.at = "looked" /\ Idle.kind = "none"
  BY DEF Idle, Request, Kinds, Steps
<1> HIDE DEF e
<1>3. RequestOK(r, e, runner) /\ FillOK(e, live)
  BY <1>2 DEF RequestOK, FillOK
<1>4. listed' \in BOOLEAN
  BY <1>1 DEF DirInv
<1> QED BY <1>1, <1>2, <1>3, <1>4, RequestMoves

LEMMA RefusedInv ==
  ASSUME DirInv, NEW r \in Requests, NEW kind \in {"create", "import"}, Refused(r, kind)
  PROVE  DirInv'
<1>1. /\ req[r].kind # "restore" /\ req' = [req EXCEPT ![r] = Idle]
      /\ UNCHANGED <<diskVars, now, state, runner>> /\ listed' = listed
  BY DEF Refused, At
<1>2. Idle.kind # "restore" /\ RequestOK(r, Idle, runner) /\ FillOK(Idle, live)
  BY IdleIsSound DEF Idle
<1>3. listed' \in BOOLEAN
  BY <1>1 DEF DirInv
<1> QED BY <1>1, <1>2, <1>3, RequestMoves

LEMMA MakeDirInv ==
  ASSUME DirInv, NEW r \in Requests, NEW kind \in {"create", "import"}, MakeDir(r, kind)
  PROVE  DirInv'
<1> DEFINE x == req[r]
           free == live = Nil
           e == [x EXCEPT !.at = "fill", !.todo = Files, !.alone = free]
<1>1. /\ x.kind = kind /\ runner = Nil /\ runner' = r
      /\ live' = (IF live = Nil THEN Empty ELSE live)
      /\ req' = [req EXCEPT ![r].at = "fill", ![r].todo = Files, ![r].alone = (live = Nil)]
      /\ UNCHANGED <<tmp, replaced, now, state>> /\ listed' = listed
  BY DEF MakeDir, At
<1>2. req' = [req EXCEPT ![r] = e]
  BY <1>1
<1>3. x \in Request /\ free \in BOOLEAN
  BY DEF DirInv, RequestOK
<1> HIDE DEF free
<1>4. e \in Request /\ e.kind = kind /\ e.at = "fill" /\ e.alone = free
  BY <1>1, <1>3 DEF Request, Steps
<1>5. Empty \in Dir /\ Made(Empty)
  BY DEF Empty, All, Dir, Origins, Made
<1>6. live' \in Dir \cup {Nil} /\ listed' \in BOOLEAN
  BY <1>1, <1>5 DEF DirInv
<1> HIDE DEF x, e
<1>7. RequestOK(r, e, runner')
  BY <1>1, <1>4 DEF RequestOK
<1>8. FillOK(e, live')
  BY <1>1, <1>4, <1>5 DEF FillOK, free
<1> QED BY <1>1, <1>2, <1>4, <1>6, <1>7, <1>8, JobMoves DEF x

(* The request that works has the job.                                     *)
LEMMA WorkerHasJob ==
  ASSUME DirInv, NEW r \in Requests,
         req[r].at \in {"fill", "download", "write", "rescan"}
  PROVE  /\ runner = r /\ req[r] \in Request /\ req[r].kind # "restore"
         /\ FillOK(req[r], live) /\ live \in Dir \cup {Nil} /\ listed \in BOOLEAN
BY DEF DirInv, RequestOK

LEMMA UnzipInv ==
  ASSUME DirInv, NEW r \in Requests, NEW f \in Files, Unzip(r, f)
  PROVE  DirInv'
<1> DEFINE x == req[r]
           to == IF x.at = "fill" /\ x.todo = {f} THEN "rescan" ELSE x.at
           e == [x EXCEPT !.todo = @ \ {f}, !.at = to]
<1>1. /\ x.kind = "import" /\ x.at = "fill" /\ live' = Put(live, f, "new")
      /\ req' = [req EXCEPT ![r].todo = @ \ {f},
                   ![r].at = IF @ = "fill" /\ req[r].todo = {f} THEN "rescan" ELSE @]
      /\ UNCHANGED <<tmp, replaced, now, state>> /\ listed' = listed /\ runner' = runner
  BY DEF Unzip, At
<1>2. req' = [req EXCEPT ![r] = e]
  BY <1>1
<1>3. /\ runner = r /\ x \in Request /\ FillOK(x, live)
      /\ live \in Dir \cup {Nil} /\ listed \in BOOLEAN
  BY <1>1, WorkerHasJob
<1>4. to \in {"fill", "rescan"}
  BY <1>1
<1> HIDE DEF to
<1>5. e \in Request /\ e.kind = "import" /\ e.at = to /\ e.alone = x.alone
  BY <1>1, <1>3, <1>4 DEF Request, Steps
<1>6. /\ live' \in Dir /\ live'[f] = "new"
      /\ live \in Dir => \A g \in Files \ {f} : live'[g] = live[g]
      /\ live = Nil => \A g \in Files \ {f} : live'[g] = "absent"
  <2>1. "new" \in Origins
    BY DEF Origins
  <2> QED BY <1>1, <1>3, <2>1, PutIsDir
<1> HIDE DEF x, e
<1>7. RequestOK(r, e, runner')
  BY <1>1, <1>3, <1>4, <1>5 DEF RequestOK
<1>8. FillOK(e, live')
  BY <1>1, <1>3, <1>5, <1>6 DEF FillOK, Made
<1> QED BY <1>1, <1>2, <1>3, <1>5, <1>6, <1>7, <1>8, JobMoves DEF x

LEMMA FetchJarInv ==
  ASSUME DirInv, NEW r \in Requests, NEW kind \in {"create", "jar"}, FetchJar(r, kind)
  PROVE  DirInv'
<1> DEFINE x == req[r]
           e == [x EXCEPT !.at = "download", !.todo = {}]
<1>1. /\ x.kind = kind /\ x.at = "fill"
      /\ req' = [req EXCEPT ![r].at = "download", ![r].todo = {}]
      /\ UNCHANGED <<diskVars, now, state, runner>> /\ listed' = listed
  BY DEF FetchJar, At
<1>2. req' = [req EXCEPT ![r] = e]
  BY <1>1
<1>3. /\ runner = r /\ x \in Request /\ FillOK(x, live) /\ listed \in BOOLEAN
  BY <1>1, WorkerHasJob
<1>4. e \in Request /\ e.kind = kind /\ e.at = "download" /\ e.alone = x.alone
  BY <1>1, <1>3 DEF Request, Steps
<1> HIDE DEF x, e
<1>5. RequestOK(r, e, runner) /\ FillOK(e, live)
  BY <1>1, <1>3, <1>4 DEF RequestOK, FillOK
<1> QED BY <1>1, <1>2, <1>3, <1>4, <1>5, RequestMoves DEF x

LEMMA DownloadInv ==
  ASSUME DirInv, NEW r \in Requests, NEW kind \in {"create", "jar"}, Download(r, kind)
  PROVE  DirInv'
<1> DEFINE x == req[r]
           to == IF kind = "create" THEN "write" ELSE "rescan"
           e == [x EXCEPT !.at = to]
<1>1. /\ x.kind = kind /\ x.at = "download" /\ live # Nil
      /\ live' = [live EXCEPT ![Jar] = "new"] /\ req' = [req EXCEPT ![r] = e]
      /\ UNCHANGED <<tmp, replaced, now, state>> /\ listed' = listed /\ runner' = runner
  BY DEF Download, At
<1>2. /\ runner = r /\ x \in Request /\ live \in Dir \cup {Nil} /\ listed \in BOOLEAN
  BY <1>1, WorkerHasJob
<1>3. to \in {"write", "rescan"}
  OBVIOUS
<1> HIDE DEF to
<1>4. e \in Request /\ e.kind = kind /\ e.at = to
  BY <1>1, <1>2, <1>3 DEF Request, Steps
<1>5. live' \in Dir
  BY <1>1, <1>2 DEF Dir, Origins
<1> HIDE DEF x, e
<1>6. RequestOK(r, e, runner') /\ FillOK(e, live')
  BY <1>1, <1>2, <1>3, <1>4 DEF RequestOK, FillOK
<1> QED BY <1>1, <1>2, <1>4, <1>5, <1>6, JobMoves DEF x

LEMMA WriteInv ==
  ASSUME DirInv, NEW r \in Requests, WriteInitialFiles(r)
  PROVE  DirInv'
<1> DEFINE x == req[r]
           e == [x EXCEPT !.at = "rescan"]
<1>1. /\ x.kind = "create" /\ x.at = "write" /\ live # Nil
      /\ live' = [f \in Files |-> IF f = Jar THEN live[f] ELSE "new"]
      /\ req' = [req EXCEPT ![r] = e]
      /\ UNCHANGED <<tmp, replaced, now, state>> /\ listed' = listed /\ runner' = runner
  BY DEF WriteInitialFiles, At
<1>2. /\ runner = r /\ x \in Request /\ live \in Dir \cup {Nil} /\ listed \in BOOLEAN
  BY <1>1, WorkerHasJob
<1>3. e \in Request /\ e.kind = "create" /\ e.at = "rescan"
  BY <1>1, <1>2 DEF Request, Steps
<1>4. live' \in Dir
  BY <1>1, <1>2 DEF Dir, Origins
<1> HIDE DEF x, e
<1>5. RequestOK(r, e, runner') /\ FillOK(e, live')
  BY <1>1, <1>2, <1>3 DEF RequestOK, FillOK
<1> QED BY <1>1, <1>2, <1>3, <1>4, <1>5, JobMoves DEF x

(* A job that fails, or ends.                                              *)
LEMMA JobOverInv ==
  ASSUME DirInv, NEW r \in Requests, NEW kind \in {"create", "import", "jar"},
         FillFails(r, kind) \/ WriteFails(r) \/ JobEnds(r, kind)
  PROVE  DirInv'
<1>1. /\ req[r].at \in {"fill", "download", "write", "rescan"} /\ runner' = Nil
      /\ req' = [req EXCEPT ![r] = Idle] /\ live' \in {live, Nil}
      /\ UNCHANGED <<tmp, replaced, now, state>> /\ listed' \in {listed, Scanned}
  BY DEF FillFails, WriteFails, JobEnds, At, diskVars
<1>2. /\ runner = r /\ req[r].kind # "restore" /\ live \in Dir \cup {Nil} /\ listed \in BOOLEAN
  BY <1>1, WorkerHasJob
<1>3. Scanned \in BOOLEAN
  BY <1>2 DEF Scanned
<1>4. Idle.kind # "restore" /\ RequestOK(r, Idle, runner') /\ FillOK(Idle, live')
  BY IdleIsSound DEF Idle
<1> QED BY <1>1, <1>2, <1>3, <1>4, JobMoves

LEMMA UpdateJarInv ==
  ASSUME DirInv, NEW r \in Requests, UpdateJar(r)
  PROVE  DirInv'
<1> DEFINE e == [Idle EXCEPT !.kind = "jar", !.at = "fill"]
<1>1. /\ req[r] = Idle /\ runner = Nil /\ runner' = r /\ req' = [req EXCEPT ![r] = e]
      /\ UNCHANGED <<live, tmp, replaced, now, state>> /\ listed' = listed
  BY DEF UpdateJar, diskVars
<1>2. e \in Request /\ e.kind = "jar" /\ e.at = "fill" /\ Idle.kind = "none"
  BY DEF Idle, Request, Kinds, Steps
<1> HIDE DEF e
<1>3. RequestOK(r, e, runner') /\ FillOK(e, live')
  BY <1>1, <1>2 DEF RequestOK, FillOK
<1>4. listed' \in BOOLEAN /\ live' \in Dir \cup {Nil}
  BY <1>1 DEF DirInv
<1> QED BY <1>1, <1>2, <1>3, <1>4, JobMoves

-----------------------------------------------------------------------------
(* The invariant *)

LEMMA DirStep == DirInv /\ [ServerDirNext]_serverDirVars => DirInv'
<1> SUFFICES ASSUME DirInv, [ServerDirNext]_serverDirVars PROVE DirInv'
  OBVIOUS
<1>1. CASE Tick \/ Launch \/ End \/ Rescan \/ Crash
  BY <1>1, AroundInv
<1>2. ASSUME NEW r \in Requests, RestoreStep(r) PROVE DirInv'
  BY <1>2, RestoreBeginInv, ExtractInv, RestoreFailsInv, MoveAsideInv, ExchangeInv
     DEF RestoreStep
<1>3. ASSUME NEW r \in Requests, JobStep(r) PROVE DirInv'
  <2>1. ASSUME NEW kind \in {"create", "import"},
               Look(r, kind) \/ MakeDir(r, kind) \/ Refused(r, kind)
        PROVE  DirInv'
    BY <2>1, LookInv, MakeDirInv, RefusedInv
  <2>2. ASSUME NEW f \in Files, Unzip(r, f) PROVE DirInv'
    BY <2>2, UnzipInv
  <2>3. ASSUME NEW kind \in {"create", "jar"}, FetchJar(r, kind) \/ Download(r, kind)
        PROVE  DirInv'
    BY <2>3, FetchJarInv, DownloadInv
  <2>4. ASSUME NEW kind \in {"create", "import", "jar"}, FillFails(r, kind) \/ JobEnds(r, kind)
        PROVE  DirInv'
    BY <2>4, JobOverInv
  <2>5. CASE WriteInitialFiles(r) \/ WriteFails(r) \/ UpdateJar(r)
    BY <2>5, WriteInv, JobOverInv, UpdateJarInv
  <2> QED BY <1>3, <2>1, <2>2, <2>3, <2>4, <2>5 DEF JobStep
<1>4. CASE UNCHANGED serverDirVars
  BY <1>4 DEF serverDirVars, DirInv, Restoring
<1> QED BY <1>1, <1>2, <1>3, <1>4 DEF ServerDirNext

LEMMA DirInvariance == ServerDirSpec => []DirInv
BY DirStarts, DirStep, PTL DEF ServerDirSpec

(* The directories, the clock and the requests keep their types; the names *)
(* of displaced directories are times the clock has shown.                 *)
THEOREM ServerDirTypes == ServerDirSpec => []ServerDirTypeOK
BY DirInvariance, TypesOfDirInv, PTL

-----------------------------------------------------------------------------
(* What is never deleted *)

NothingLost == Kept(live, replaced) \subseteq Kept(live', replaced')

LEMMA KeptMember ==
  ASSUME NEW l, NEW rep, NEW d
  PROVE  d \in Kept(l, rep) <=>
           /\ d # Nil /\ (d = l \/ \E t \in Times : d = rep[t])
           /\ \E f \in Files : d[f] \notin {"absent", "new"}
BY DEF Kept

(* Neither nothing nor an empty directory holds anything of a server.      *)
LEMMA NoneKept ==
  /\ \A l, rep : Nil \notin Kept(l, rep) /\ Empty \notin Kept(l, rep)
  /\ \A d, l, rep : Made(d) => d \notin Kept(l, rep)
<1>1. \A f \in Files : Empty[f] = "absent"
  BY DEF Empty, All
<1> QED BY <1>1, KeptMember DEF Made

LEMMA SamePlaces ==
  ASSUME replaced' = replaced, live' = live \/ \A l, rep : live \notin Kept(l, rep)
  PROVE  NothingLost
BY KeptMember DEF NothingLost

LEMMA RestoreLosesNothing ==
  ASSUME DirInv, NEW r \in Requests, RestoreStep(r)
  PROVE  NothingLost
<1>1. CASE (\E a \in Archives : RestoreBegin(r, a)) \/ (\E f \in Files : Extract(r, f))
           \/ ExtractFails(r) \/ MoveAsideFails(r)
  <2>1. live' = live /\ replaced' = replaced
    BY <1>1 DEF RestoreBegin, Extract, ExtractFails, MoveAsideFails
  <2> QED BY <2>1, SamePlaces
<1>2. CASE MoveAside(r)
  <2>1. /\ replaced[now] \in {Nil, Empty} /\ replaced' = [replaced EXCEPT ![now] = live]
        /\ now \in Times /\ replaced \in [Times -> Dir \cup {Nil}]
    BY <1>2 DEF MoveAside, DirInv
  <2>2. replaced'[now] = live /\ \A t \in Times \ {now} : replaced'[t] = replaced[t]
    BY <2>1
  <2>3. ASSUME NEW d, d \in Kept(live, replaced) PROVE d \in Kept(live', replaced')
    <3>1. /\ d # Nil /\ d # Empty /\ (d = live \/ \E t \in Times : d = replaced[t])
          /\ \E f \in Files : d[f] \notin {"absent", "new"}
      BY <2>3, KeptMember, NoneKept
    <3>2. \E t \in Times : d = replaced'[t]
      BY <2>1, <2>2, <3>1
    <3> QED BY <3>1, <3>2, KeptMember
  <2> QED BY <2>3 DEF NothingLost
<1>3. CASE SwapIn(r)
  <2>1. replaced' = replaced /\ live \in {Nil, Empty}
    BY <1>3 DEF SwapIn
  <2> QED BY <2>1, SamePlaces, NoneKept
<1>4. CASE RollBack(r)
  <2>1. CASE live \notin {Nil, Empty}
    <3>1. live' = live /\ replaced' = replaced
      BY <1>4, <2>1 DEF RollBack
    <3> QED BY <3>1, SamePlaces
  <2>2. CASE live \in {Nil, Empty}
    <3> DEFINE n == req[r].name
    <3>1. /\ live' = replaced[n] /\ replaced' = [replaced EXCEPT ![n] = Nil]
          /\ replaced \in [Times -> Dir \cup {Nil}]
      BY <1>4, <2>2 DEF RollBack, DirInv
    <3>2. n \in Times
      BY <1>4 DEF RollBack, At, DirInv, RequestOK
    <3> HIDE DEF n
    <3>3. \A t \in Times \ {n} : replaced'[t] = replaced[t]
      BY <3>1, <3>2
    <3>4. ASSUME NEW d, d \in Kept(live, replaced) PROVE d \in Kept(live', replaced')
      <4>1. /\ d # Nil /\ d # Empty /\ (d = live \/ \E t \in Times : d = replaced[t])
            /\ \E f \in Files : d[f] \notin {"absent", "new"}
        BY <3>4, KeptMember, NoneKept
      <4>2. d = live' \/ \E t \in Times : d = replaced'[t]
        BY <2>2, <3>1, <3>3, <4>1
      <4> QED BY <4>1, <4>2, KeptMember
    <3> QED BY <3>4 DEF NothingLost
  <2> QED BY <2>1, <2>2
<1> QED BY <1>1, <1>2, <1>3, <1>4 DEF RestoreStep

LEMMA JobLosesNothing ==
  ASSUME DirInv, NEW r \in Requests, JobStep(r)
  PROVE  Fills \/ StaleCleanup \/ NothingLost
<1>1. CASE \E kind \in {"create", "import"} :
             Look(r, kind) \/ MakeDir(r, kind) \/ Refused(r, kind)
  <2>1. replaced' = replaced /\ (live' = live \/ live = Nil)
    BY <1>1 DEF Look, MakeDir, Refused, diskVars
  <2> QED BY <2>1, SamePlaces, NoneKept
<1>2. CASE WriteInitialFiles(r) \/ Download(r, "create") \/ Download(r, "jar")
           \/ \E f \in Files : Unzip(r, f)
  BY <1>2 DEF Fills
<1>3. CASE \/ FetchJar(r, "create") \/ FetchJar(r, "jar") \/ WriteFails(r) \/ UpdateJar(r)
           \/ \E kind \in {"create", "import", "jar"} : JobEnds(r, kind)
  <2>1. live' = live /\ replaced' = replaced
    BY <1>3 DEF FetchJar, WriteFails, UpdateJar, JobEnds, diskVars
  <2> QED BY <2>1, SamePlaces
<1>4. CASE FillFails(r, "jar")
  <2>1. live' = live /\ replaced' = replaced
    BY <1>4 DEF FillFails
  <2> QED BY <2>1, SamePlaces
<1>5. CASE FillFails(r, "create") \/ FillFails(r, "import")
  <2>1. CASE req[r].alone
    <3>1. Made(live) /\ replaced' = replaced
      BY <1>5, <2>1 DEF FillFails, At, DirInv, FillOK
    <3> QED BY <3>1, SamePlaces, NoneKept
  <2>2. CASE ~req[r].alone
    BY <1>5, <2>2 DEF StaleCleanup
  <2> QED BY <2>1, <2>2
<1> QED BY <1>1, <1>2, <1>3, <1>4, <1>5 DEF JobStep

(* A restore moves what it replaces aside, and neither it nor a job that   *)
(* fails deletes a directory of a server: for any number of restores,      *)
(* creations and imports in one another's way, and a panel that dies       *)
(* between any two steps.                                                  *)
THEOREM KeepsDirectories == ServerDirSpec => NothingDeleted
<1>1. ASSUME DirInv, [ServerDirNext]_serverDirVars
      PROVE  [Fills \/ StaleCleanup
              \/ Kept(live, replaced) \subseteq Kept(live', replaced')]_serverDirVars
  <2>1. CASE Tick \/ Launch \/ End \/ Rescan \/ Crash
    <3>1. live' = live /\ replaced' = replaced
      BY <2>1 DEF Tick, Launch, End, Rescan, Crash, diskVars
    <3> QED BY <3>1
  <2>2. ASSUME NEW r \in Requests, RestoreStep(r) PROVE NothingLost
    BY <1>1, <2>2, RestoreLosesNothing
  <2>3. ASSUME NEW r \in Requests, JobStep(r) PROVE Fills \/ StaleCleanup \/ NothingLost
    BY <1>1, <2>3, JobLosesNothing
  <2> QED BY <1>1, <2>1, <2>2, <2>3 DEF ServerDirNext, NothingLost
<1> QED BY <1>1, DirInvariance, PTL DEF ServerDirSpec, NothingDeleted

(* A restore that no other one ran into puts its archive in place, all of  *)
(* it and nothing else, whatever was left in the directory it extracts to. *)
THEOREM RestoresArchive == ServerDirSpec => RestoredIsArchived
<1>1. ASSUME DirInv, NEW r \in Requests, SwapIn(r), req[r].alone
      PROVE  live' = All(req[r].src)
  <2>1. /\ live' = tmp /\ req[r].kind = "restore" /\ req[r].at = "swap"
    BY <1>1 DEF SwapIn, At
  <2>2. req[r].todo = {} /\ tmp \in Dir /\ \A f \in Files \ req[r].todo : tmp[f] = req[r].src
    BY <1>1, <2>1 DEF DirInv, RequestOK, RestoreOK
  <2> QED BY <2>1, <2>2 DEF Dir, All
<1>2. DirInv /\ [ServerDirNext]_serverDirVars =>
        [\A r \in Requests : SwapIn(r) /\ req[r].alone => live' = All(req[r].src)]_serverDirVars
  BY <1>1
<1> QED BY <1>2, DirInvariance, PTL DEF ServerDirSpec, RestoredIsArchived

=============================================================================
