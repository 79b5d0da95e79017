---------------------------- MODULE MCFanControl ----------------------------
(* One fan of every kind, as the firmware had it or as a panel that was    *)
(* killed left it: in manual control at a low duty.                        *)
EXTENDS FanControl

CONSTANT Low

AsFirmwareHadIt(h) == h.pwm = Firmware /\ (h.hasEnable => h.enable = "auto")
AsLeftPinned(h) == h.pwm = Low /\ h.enable = "manual"

MCInit ==
  /\ Init
  /\ \A f \in Fans : AsFirmwareHadIt(fan[f]) \/ AsLeftPinned(fan[f])

MCSpec == MCInit /\ [][Next]_vars /\ Fairness
=============================================================================
