-------------------------- MODULE McManagerProofs --------------------------
(***************************************************************************)
(* mc-running.json and the shutdown, proved for any servers and any number *)
(* of saves at once.                                                       *)
(*                                                                         *)
(* The argument for the file: a save that collected while no other was     *)
(* under way stays alone until it ends or until the next one collects, so  *)
(* what it collected is what the .tmp and then the file say, unless a      *)
(* write or a rename fails, which leaves a doubt behind; and whenever      *)
(* somebody's state changes after it collected, another save has been      *)
(* asked for.                                                              *)
(***************************************************************************)
EXTENDS McManager, TLAPS

IdleIsBlank == \A k \in Savers : save[k].at = "idle" => save[k] = NoSave

Alone == \A j, k \in Savers : UnderWay(j) /\ UnderWay(k) => j = k

WrittenIsInTmp == \A k \in Savers : save[k].at = "written" => tmp = {save[k].ids}

NobodyAsked == \A k \in Savers : save[k].at # "asked"

CarriesUp ==
  \/ \E k \in Savers : UnderWay(k) /\ save[k].ids = Up
  \/ (\A k \in Savers : save[k] = NoSave) /\ file = {Up}

(* The save part of the inductive invariant. *)
SaveInv ==
  /\ IdleIsBlank
  /\ ~doubtful => Alone /\ WrittenIsInTmp
  /\ ~doubtful /\ Alive /\ NobodyAsked => CarriesUp

(* The shutdown part. *)
StopInv ==
  /\ \A s \in waited : stopper[s] = "waiting" \/ ~live[s]
  /\ panel \notin {"stopping", "late"} => \A s \in Servers : stopper[s] = "none"
  /\ panel \notin {"stopping", "leaving", "late"} => waited = {}

IInv == TypeOK /\ SaveInv /\ StopInv

-----------------------------------------------------------------------------
(* The saves *)

(* A step that changes no save and no state the panel shows. *)
LEMMA NoSaveStep ==
  ASSUME SaveInv, UNCHANGED <<saveVars, state>>, Alive' => Alive
  PROVE  SaveInv'
BY DEF SaveInv, saveVars, IdleIsBlank, Alone, WrittenIsInTmp, NobodyAsked, CarriesUp,
       UnderWay, Up, NoSave

(* A change of who is up, with the save it asks for. *)
LEMMA AskStep ==
  ASSUME TypeOK, SaveInv, NEW who \in Servers \cup {"starter", "main", None}, Asked(who)
  PROVE  SaveInv' /\ (save \in [Savers -> [at : {"idle", "asked", "collected", "written"},
                          by : Servers \cup {"starter", "main", None},
                          ids : SUBSET Servers]])'
<1>1. PICK k \in Savers : Ask(k, who)
  BY DEF Asked
<1> DEFINE new == [at |-> "asked", by |-> who, ids |-> {}]
<1>2. /\ save' = [save EXCEPT ![k] = new] /\ save[k] = NoSave
      /\ tmp' = tmp /\ file' = file /\ doubtful' = doubtful
  BY <1>1 DEF Ask
<1>3. /\ save'[k] = new
      /\ \A j \in Savers \ {k} : save'[j] = save[j]
  BY <1>2 DEF TypeOK
<1>4. new.at = "asked" OBVIOUS
<1>5. IdleIsBlank'
  BY <1>3, <1>4 DEF SaveInv, IdleIsBlank, NoSave
<1>6. \A j \in Savers : UnderWay(j)' => UnderWay(j) /\ save'[j] = save[j]
  BY <1>3, <1>4 DEF UnderWay
<1>7. ~doubtful' => Alone' /\ WrittenIsInTmp'
  BY <1>2, <1>6 DEF SaveInv, Alone, WrittenIsInTmp, UnderWay
<1>8. ~NobodyAsked'
  BY <1>3, <1>4 DEF NobodyAsked
<1>9. save' \in [Savers -> [at : {"idle", "asked", "collected", "written"},
                          by : Servers \cup {"starter", "main", None},
                          ids : SUBSET Servers]]
  BY <1>2 DEF TypeOK
<1> QED BY <1>5, <1>7, <1>8, <1>9 DEF SaveInv

(* What a save has collected keeps its type. *)
LEMMA SaveCollected ==
  ASSUME TypeOK, NEW k \in Savers, NEW ids \in SUBSET Servers
  PROVE  [save EXCEPT ![k].at = "collected", ![k].ids = ids]
            \in [Savers -> [at : {"idle", "asked", "collected", "written"},
                            by : Servers \cup {"starter", "main", None},
                            ids : SUBSET Servers]]
<1> DEFINE Saves == [at : {"idle", "asked", "collected", "written"},
                     by : Servers \cup {"starter", "main", None}, ids : SUBSET Servers]
           new == [save[k] EXCEPT !.at = "collected", !.ids = ids]
<1>1. save \in [Savers -> Saves]
  BY DEF TypeOK
<1>2. new \in Saves
  BY <1>1
<1>3. [save EXCEPT ![k].at = "collected", ![k].ids = ids] = [save EXCEPT ![k] = new]
  BY <1>1
<1> HIDE DEF Saves, new
<1>4. [save EXCEPT ![k] = new] \in [Savers -> Saves]
  BY <1>1, <1>2
<1> QED BY <1>3, <1>4 DEF Saves

LEMMA CollectStep ==
  ASSUME TypeOK, SaveInv, NEW k \in Savers, Collect(k)
  PROVE  SaveInv' /\ TypeOK'
<1>1. /\ save[k].at = "asked"
      /\ save' = [save EXCEPT ![k].at = "collected", ![k].ids = Up]
      /\ doubtful' = \E j \in Savers \ {k} : UnderWay(j)
      /\ UNCHANGED <<state, live, panel, tmp, file, toStart, stopper, stuck, wasUp, waited>>
  BY DEF Collect, serverVars
<1>2. /\ save'[k] = [save[k] EXCEPT !.at = "collected", !.ids = Up]
      /\ save[k] \in [at : {"idle", "asked", "collected", "written"},
                      by : Servers \cup {"starter", "main", None}, ids : SUBSET Servers]
      /\ \A j \in Savers \ {k} : save'[j] = save[j]
  BY <1>1 DEF TypeOK
<1>3. save'[k].at = "collected" /\ save'[k].ids = Up
  BY <1>2
<1>4. Up' = Up /\ Up \in SUBSET Servers
  BY <1>1 DEF Up
<1>5. TypeOK'
  <2>1. save' \in [Savers -> [at : {"idle", "asked", "collected", "written"},
                             by : Servers \cup {"starter", "main", None},
                             ids : SUBSET Servers]]
    BY <1>1, <1>4, SaveCollected
  <2>2. doubtful' \in BOOLEAN
    BY <1>1
  <2> QED BY <1>1, <2>1, <2>2 DEF TypeOK
<1>6. IdleIsBlank'
  <2>1. \A j \in Savers : save'[j].at = "idle" => j # k /\ save'[j] = save[j]
    BY <1>2, <1>3
  <2> QED BY <2>1 DEF SaveInv, IdleIsBlank, NoSave
<1>7. ASSUME ~doubtful' PROVE Alone' /\ WrittenIsInTmp'
  <2>1. \A j \in Savers \ {k} : ~UnderWay(j)'
    BY <1>1, <1>2, <1>7 DEF UnderWay
  <2> QED BY <2>1, <1>3 DEF Alone, WrittenIsInTmp, UnderWay
<1>8. CarriesUp'
  BY <1>3, <1>4 DEF CarriesUp, UnderWay
<1> QED BY <1>5, <1>6, <1>7, <1>8 DEF SaveInv

LEMMA WriteStep ==
  ASSUME TypeOK, SaveInv, NEW k \in Savers, Write(k)
  PROVE  SaveInv' /\ TypeOK'
<1>1. /\ save[k].at = "collected"
      /\ save' = [save EXCEPT ![k].at = "written"]
      /\ tmp' = {save[k].ids}
      /\ UNCHANGED <<state, live, panel, file, toStart, stopper, stuck, doubtful, wasUp, waited>>
  BY DEF Write, serverVars
<1>2. /\ save'[k] = [save[k] EXCEPT !.at = "written"]
      /\ save[k] \in [at : {"idle", "asked", "collected", "written"},
                      by : Servers \cup {"starter", "main", None}, ids : SUBSET Servers]
      /\ \A j \in Savers \ {k} : save'[j] = save[j]
  BY <1>1 DEF TypeOK
<1>3. save'[k].at = "written" /\ save'[k].ids = save[k].ids
  BY <1>2
<1>4. TypeOK'
  BY <1>1, <1>2 DEF TypeOK, Files
<1>5. IdleIsBlank'
  BY <1>2, <1>3 DEF SaveInv, IdleIsBlank, NoSave
<1>6. \A j \in Savers : UnderWay(j)' <=> UnderWay(j)
  BY <1>1, <1>2, <1>3 DEF UnderWay
<1>7. ~doubtful' => Alone'
  BY <1>1, <1>6 DEF SaveInv, Alone
<1>8. ~doubtful' => WrittenIsInTmp'
  BY <1>1, <1>2, <1>3 DEF SaveInv, Alone, WrittenIsInTmp, UnderWay
<1>9. ASSUME ~doubtful', Alive', NobodyAsked' PROVE CarriesUp'
  <2>1. Alive /\ NobodyAsked /\ ~doubtful
    BY <1>1, <1>2, <1>9 DEF Alive, NobodyAsked
  <2>2. PICK j \in Savers : UnderWay(j) /\ save[j].ids = Up
    BY <2>1, <1>1 DEF SaveInv, CarriesUp, NoSave
  <2>3. j = k
    BY <2>1, <2>2, <1>1 DEF SaveInv, Alone, UnderWay
  <2> QED BY <2>2, <2>3, <1>1, <1>3 DEF CarriesUp, UnderWay, Up
<1> QED BY <1>4, <1>5, <1>7, <1>8, <1>9 DEF SaveInv

LEMMA RenameStep ==
  ASSUME TypeOK, SaveInv, NEW k \in Savers, Rename(k)
  PROVE  SaveInv' /\ TypeOK'
<1>1. /\ save[k].at = "written"
      /\ save' = [save EXCEPT ![k] = NoSave]
      /\ file' = IF tmp = {} THEN file ELSE tmp
      /\ tmp' = {}
      /\ UNCHANGED <<state, live, panel, toStart, stopper, stuck, doubtful, wasUp, waited>>
  BY DEF Rename, serverVars
<1>2. save'[k] = NoSave /\ \A j \in Savers \ {k} : save'[j] = save[j]
  BY <1>1 DEF TypeOK
<1>3. TypeOK'
  BY <1>1 DEF TypeOK, Files, NoSave
<1>4. IdleIsBlank'
  BY <1>2 DEF SaveInv, IdleIsBlank, NoSave
<1>5. ~doubtful' => \A j \in Savers : ~UnderWay(j)'
  BY <1>1, <1>2 DEF SaveInv, Alone, UnderWay, NoSave
<1>6. ~doubtful' => Alone' /\ WrittenIsInTmp'
  BY <1>5 DEF Alone, WrittenIsInTmp, UnderWay
<1>7. ASSUME ~doubtful', Alive', NobodyAsked' PROVE CarriesUp'
  <2>1. Alive /\ NobodyAsked /\ ~doubtful
    BY <1>1, <1>2, <1>7 DEF Alive, NobodyAsked
  <2>2. PICK j \in Savers : UnderWay(j) /\ save[j].ids = Up
    BY <2>1, <1>1 DEF SaveInv, CarriesUp, NoSave
  <2>3. j = k
    BY <2>1, <2>2, <1>1 DEF SaveInv, Alone, UnderWay
  <2>4. file' = {Up}
    BY <2>1, <2>2, <2>3, <1>1 DEF SaveInv, WrittenIsInTmp
  <2>5. \A i \in Savers : save'[i].at = "idle"
    <3>1. \A i \in Savers : save'[i].at \in {"idle", "asked", "collected", "written"}
      BY <1>3 DEF TypeOK
    <3> QED BY <3>1, <1>5, <1>7 DEF UnderWay, NobodyAsked
  <2>6. \A i \in Savers : save'[i] = NoSave
    BY <2>5, <1>4 DEF IdleIsBlank, NoSave
  <2> QED BY <2>4, <2>6, <1>1 DEF CarriesUp, Up, NoSave
<1> QED BY <1>3, <1>4, <1>6, <1>7 DEF SaveInv

(* A save that fails is over, and what the file says is in doubt. *)
LEMMA FailStep ==
  ASSUME TypeOK, SaveInv, NEW k \in Savers, Fail(k), tmp' \in {tmp, {{}}}
  PROVE  SaveInv' /\ TypeOK'
<1>1. /\ save' = [save EXCEPT ![k] = NoSave] /\ doubtful' = TRUE
      /\ UNCHANGED <<state, live, panel, file, toStart, stopper, stuck, wasUp, waited>>
  BY DEF Fail, serverVars
<1>2. save'[k] = NoSave /\ \A j \in Savers \ {k} : save'[j] = save[j]
  BY <1>1 DEF TypeOK
<1>3. tmp' \in Files
  BY DEF TypeOK, Files
<1>4. TypeOK'
  BY <1>1, <1>3 DEF TypeOK, NoSave
<1>5. IdleIsBlank'
  BY <1>2 DEF SaveInv, IdleIsBlank, NoSave
<1> QED BY <1>1, <1>4, <1>5 DEF SaveInv

(* The end of the panel process forgets every save. *)
LEMMA GoneStep ==
  ASSUME TypeOK, Gone, wasUp' \in SUBSET Servers
  PROVE  IInv'
<1>1. TypeOK'
  BY DEF Gone, TypeOK, States, PanelAt, NoSave
<1>2. \A k \in Savers : save'[k] = NoSave
  BY DEF Gone
<1>3. SaveInv'
  BY <1>2 DEF Gone, Alive, SaveInv, IdleIsBlank, Alone, WrittenIsInTmp, UnderWay, NoSave
<1>4. StopInv'
  BY DEF Gone, StopInv
<1> QED BY <1>1, <1>3, <1>4 DEF IInv

-----------------------------------------------------------------------------
(* The servers and the shutdown *)

(* What a change of one server does to the two functions. *)
LEMMA BecomesFacts ==
  ASSUME TypeOK, NEW s \in Servers, NEW st \in States, NEW lv \in BOOLEAN, Becomes(s, st, lv)
  PROVE  /\ state' \in [Servers -> States] /\ live' \in [Servers -> BOOLEAN]
         /\ live'[s] = lv
         /\ \A t \in Servers \ {s} : live'[t] = live[t]
BY DEF TypeOK, Becomes

(* A launch asks for a save and takes the server out of `waited`. *)
LEMMA LaunchKeeps ==
  ASSUME IInv, NEW s \in Servers, NEW who \in {"starter", None},
         Becomes(s, "starting", TRUE), Asked(who), toStart' \in SUBSET Servers,
         waited' = waited \ {s}, UNCHANGED <<panel, stopper, stuck, wasUp>>
  PROVE  IInv'
<1> USE DEF IInv
<1>1. /\ state' \in [Servers -> States] /\ live' \in [Servers -> BOOLEAN]
      /\ \A t \in Servers \ {s} : live'[t] = live[t]
  BY BecomesFacts DEF States
<1>2. UNCHANGED <<tmp, file, doubtful>>
  BY DEF Asked, Ask
<1>3. SaveInv'
  BY AskStep
<1>4. TypeOK'
  BY AskStep, <1>1, <1>2 DEF TypeOK
<1>5. StopInv'
  BY <1>1 DEF TypeOK, StopInv
<1> QED BY <1>3, <1>4, <1>5

(* Another change of a server's state starts no process. *)
LEMMA ChangeKeeps ==
  ASSUME IInv, NEW s \in Servers, NEW st \in States, NEW lv \in BOOLEAN,
         Becomes(s, st, lv), lv => live[s],
         Asked(None), UNCHANGED <<panel, toStart, stopper, stuck, wasUp, waited>>
  PROVE  IInv'
<1> USE DEF IInv
<1>1. /\ state' \in [Servers -> States] /\ live' \in [Servers -> BOOLEAN]
      /\ \A t \in Servers : live'[t] => live[t]
  BY BecomesFacts
<1>2. UNCHANGED <<tmp, file, doubtful>>
  BY DEF Asked, Ask
<1>3. SaveInv'
  BY AskStep
<1>4. TypeOK'
  BY AskStep, <1>1, <1>2 DEF TypeOK
<1>5. StopInv'
  BY <1>1 DEF TypeOK, StopInv
<1> QED BY <1>3, <1>4, <1>5

LEMMA ServerStepKeeps ==
  ASSUME IInv, NEW s \in Servers, ServerStep(s)
  PROVE  IInv'
<1> USE DEF IInv
<1>1. CASE Launch(s)
  BY <1>1, LaunchKeeps DEF Launch, TypeOK
<1>2. CASE Change(s)
  <2>1. PICK st \in {"running", "stopping"} : Becomes(s, st, live[s])
    BY <1>2 DEF Change
  <2>2. st \in States /\ live[s] \in BOOLEAN
    BY DEF States, TypeOK
  <2> QED BY <1>2, <2>1, <2>2, ChangeKeeps DEF Change
<1>3. CASE Die(s)
  <2>1. Becomes(s, state[s], FALSE) /\ state[s] \in States
    BY <1>3 DEF Die, TypeOK
  <2>2. /\ state' = state /\ live' \in [Servers -> BOOLEAN]
        /\ \A t \in Servers : live'[t] => live[t]
    BY <2>1 DEF Becomes, TypeOK
  <2>3. UNCHANGED <<saveVars, panel, toStart, stopper, stuck, wasUp, waited>>
    BY <1>3 DEF Die
  <2>4. SaveInv'
    BY <2>2, <2>3, NoSaveStep DEF Alive
  <2>5. TypeOK' /\ StopInv'
    BY <2>2, <2>3 DEF TypeOK, StopInv, saveVars
  <2> QED BY <2>4, <2>5
<1>4. CASE Ended(s)
  <2>1. PICK st \in {"stopped", "crashed"} : Becomes(s, st, FALSE)
    BY <1>4 DEF Ended
  <2>2. st \in States
    BY DEF States
  <2> QED BY <1>4, <2>1, <2>2, ChangeKeeps DEF Ended
<1>5. CASE StartNext(s)
  BY <1>5, LaunchKeeps DEF StartNext, TypeOK
<1>6. CASE StartFails(s)
  <2>1. SaveInv'
    BY <1>6, NoSaveStep DEF StartFails, serverVars, Alive
  <2>2. TypeOK' /\ StopInv'
    BY <1>6 DEF StartFails, serverVars, saveVars, TypeOK, StopInv
  <2> QED BY <2>1, <2>2
<1>7. CASE StopServer(s)
  <2>1. /\ stopper[s] = "called" /\ Becomes(s, "stopping", live[s]) /\ Asked(s)
        /\ stopper' = [stopper EXCEPT ![s] = "waiting"]
        /\ waited' = waited \cup {s} /\ UNCHANGED <<panel, toStart, stuck, wasUp>>
    BY <1>7 DEF StopServer
  <2>2. /\ state' \in [Servers -> States] /\ live' \in [Servers -> BOOLEAN]
        /\ \A t \in Servers : live'[t] = live[t]
    BY <2>1, BecomesFacts DEF States, TypeOK
  <2>3. UNCHANGED <<tmp, file, doubtful>>
    BY <2>1 DEF Asked, Ask
  <2>4. SaveInv'
    BY <2>1, AskStep
  <2>5. TypeOK'
    BY <2>1, <2>2, <2>3, AskStep DEF TypeOK
  <2>6. StopInv'
    BY <2>1, <2>2 DEF TypeOK, StopInv
  <2> QED BY <2>4, <2>5, <2>6
<1>8. CASE StopRefused(s)
  <2>1. SaveInv'
    BY <1>8, NoSaveStep DEF StopRefused, serverVars, Alive
  <2>2. TypeOK' /\ StopInv'
    BY <1>8 DEF StopRefused, serverVars, saveVars, TypeOK, StopInv
  <2> QED BY <2>1, <2>2
<1>9. CASE StopReturns(s)
  <2>1. SaveInv'
    BY <1>9, NoSaveStep DEF StopReturns, serverVars, Alive
  <2>2. TypeOK' /\ StopInv'
    BY <1>9 DEF StopReturns, serverVars, saveVars, TypeOK, StopInv
  <2> QED BY <2>1, <2>2
<1>10. CASE Block(s) \/ Unblock(s)
  <2>1. /\ UNCHANGED <<state, live, panel, saveVars, toStart, stopper, wasUp, waited>>
        /\ stuck' \in SUBSET Servers
    BY <1>10 DEF Block, Unblock, serverVars, TypeOK
  <2>2. SaveInv'
    BY <2>1, NoSaveStep DEF Alive
  <2>3. TypeOK' /\ StopInv'
    BY <2>1 DEF saveVars, TypeOK, StopInv
  <2> QED BY <2>2, <2>3
<1> QED BY <1>1, <1>2, <1>3, <1>4, <1>5, <1>6, <1>7, <1>8, <1>9, <1>10 DEF ServerStep

-----------------------------------------------------------------------------
(* The life of the panel *)

LEMMA PanelStepKeeps ==
  ASSUME IInv,
         Boot \/ Load \/ Publish \/ Signal \/ Pass \/ AllStopped \/ Timeout \/ Exit \/ Crash
  PROVE  IInv'
<1> USE DEF IInv
<1>1. ASSUME Boot \/ Signal PROVE IInv'
  <2>1. PICK who \in {"main", None} : Asked(who)
    BY <1>1 DEF Boot, Signal
  <2>2. /\ UNCHANGED <<serverVars, tmp, file, doubtful, toStart, stopper, stuck, waited>>
        /\ panel \in {"down", "serving"} /\ panel' \in {"booting", "saving"}
        /\ wasUp' \in {wasUp, Up}
    BY <1>1, <2>1 DEF Boot, Signal, Asked, Ask
  <2>3. SaveInv'
    BY <2>1, AskStep
  <2>4. TypeOK'
    BY <2>1, <2>2, AskStep DEF TypeOK, serverVars, PanelAt, Up
  <2>5. StopInv'
    BY <2>2 DEF StopInv, serverVars
  <2> QED BY <2>3, <2>4, <2>5
<1>2. ASSUME Load \/ Pass \/ AllStopped \/ Timeout PROVE IInv'
  <2>1. SaveInv'
    BY <1>2, NoSaveStep DEF Load, Pass, AllStopped, Timeout, serverVars, Alive
  <2>2. CASE Load
    <3>1. AutoStart \cup UNION file \in SUBSET Servers
      BY ServersAssumption DEF TypeOK, Files
    <3>2. TypeOK' /\ StopInv'
      BY <2>2, <3>1 DEF Load, serverVars, saveVars, TypeOK, StopInv, PanelAt
    <3> QED BY <2>1, <3>2
  <2>3. CASE Pass
    BY <2>1, <2>3 DEF Pass, serverVars, saveVars, TypeOK, StopInv, PanelAt
  <2>4. CASE AllStopped
    BY <2>1, <2>4 DEF AllStopped, serverVars, saveVars, TypeOK, StopInv, PanelAt
  <2>5. CASE Timeout
    BY <2>1, <2>5 DEF Timeout, serverVars, saveVars, TypeOK, StopInv, PanelAt
  <2> QED BY <1>2, <2>2, <2>3, <2>4, <2>5
<1>3. CASE Exit \/ Crash
  BY <1>3, GoneStep DEF Exit, Crash, TypeOK
<1>4. CASE Publish
  <2>1. SaveInv'
    BY <1>4, AskStep DEF Publish
  <2>2. TypeOK'
    BY <1>4, AskStep DEF Publish, Asked, Ask, serverVars, TypeOK
  <2>3. StopInv'
    BY <1>4 DEF Publish, serverVars, StopInv
  <2> QED BY <2>1, <2>2, <2>3
<1> QED BY <1>1, <1>2, <1>3, <1>4

LEMMA SaveStepKeeps ==
  ASSUME IInv, NEW k \in Savers, SaveStep(k)
  PROVE  IInv'
<1>1. UNCHANGED <<serverVars, panel, stopper, waited>>
  BY DEF SaveStep, Collect, Write, WriteFails, Rename, RenameFails, Fail
<1>2. StopInv'
  BY <1>1 DEF IInv, StopInv, serverVars
<1>3. CASE WriteFails(k) \/ RenameFails(k)
  BY <1>2, <1>3, FailStep DEF WriteFails, RenameFails, IInv
<1>4. CASE ~(WriteFails(k) \/ RenameFails(k))
  BY <1>2, <1>4, CollectStep, WriteStep, RenameStep DEF IInv, SaveStep
<1> QED BY <1>3, <1>4

-----------------------------------------------------------------------------
(* Theorems *)

(* The inductive invariant holds of every behaviour. *)
THEOREM Invariance == Spec => []IInv
<1>1. Init => IInv
  <2> SUFFICES ASSUME Init PROVE IInv
    OBVIOUS
  <2>1. TypeOK
    BY DEF Init, TypeOK, NoSave, Files, States, PanelAt
  <2>2. \A k \in Savers : save[k] = NoSave
    BY DEF Init
  <2>3. SaveInv
    BY <2>2 DEF Init, SaveInv, IdleIsBlank, Alone, WrittenIsInTmp, UnderWay, Alive, NoSave
  <2>4. StopInv
    BY DEF Init, StopInv
  <2> QED BY <2>1, <2>3, <2>4 DEF IInv
<1>2. IInv /\ [Next]_vars => IInv'
  <2> SUFFICES ASSUME IInv, [Next]_vars PROVE IInv'
    OBVIOUS
  <2>1. CASE UNCHANGED vars
    BY <2>1, NoSaveStep DEF vars, saveVars, Alive, IInv, TypeOK, StopInv
  <2>2. CASE \E k \in Savers : SaveStep(k)
    BY <2>2, SaveStepKeeps
  <2>3. CASE \E s \in Servers : ServerStep(s)
    BY <2>3, ServerStepKeeps
  <2> QED BY <2>1, <2>2, <2>3, PanelStepKeeps DEF Next
<1> QED BY <1>1, <1>2, PTL DEF Spec

(* Every variable keeps its type; in particular each of the two files      *)
(* holds one list at most.                                                 *)
THEOREM TypeCorrect == Spec => []TypeOK
<1>1. IInv => TypeOK
  BY DEF IInv
<1> QED BY <1>1, Invariance, PTL

(* A save that ran alone and did not fail leaves the truth in              *)
(* mc-running.json, for any servers and any number of saves at once, also  *)
(* after saves that failed and crashes of the panel.                       *)
THEOREM FileCorrect == Spec => []QuietFileIsRight
<1>1. IInv => QuietFileIsRight
  BY DEF IInv, SaveInv, QuietFileIsRight, NobodyAsked, CarriesUp, UnderWay, NoSave
<1> QED BY <1>1, Invariance, PTL

(* A shutdown that returns in time leaves no process of a server it        *)
(* stopped, however many servers there are.                                *)
THEOREM ShutdownCorrect == Spec => []StopsAreAwaited
<1>1. IInv => StopsAreAwaited
  BY DEF IInv, TypeOK, StopInv, StopsAreAwaited
<1> QED BY <1>1, Invariance, PTL

=============================================================================
