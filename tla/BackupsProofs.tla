--------------------------- MODULE BackupsProofs ---------------------------
(***************************************************************************)
(* What holds of backups for any directory, any retention and any bounds.  *)
(*                                                                         *)
(* SavesAreBack looks at a moment at which everything is over.  What leads *)
(* there is that every "save-off", read or not, has a "save-on" behind it, *)
(* or a job that still owes one (SavesInv).  CalmArchiveIsEven follows the *)
(* commands of one job through the console, phase by phase (CalmInv).      *)
(* Retention is safe since the archives that are newer than a listed one   *)
(* were all made, and what was made is never unmade (PruneInv).  That      *)
(* directories and archives hold saves of the world rests on NewestSave:   *)
(* a flush writes what one of the files already holds.                     *)
(***************************************************************************)
EXTENDS Backups, FiniteSetTheorems, SequenceTheorems, WellFoundedInduction, TLAPS

JobOK(j) ==
  /\ j \in [at : JobAt, wasUp : BOOLEAN, keep : BOOLEAN, name : Times \cup {0},
            todo : SUBSET Parts, ok : BOOLEAN, calm : BOOLEAN]
  /\ j.at \in {"save-off", "flush", "listen", "wait"} => j.wasUp
  /\ j.at = "archive" => j.name \in Times
  /\ j.at \in {"check", "save-off", "flush", "listen", "wait", "open"} => j.todo = Parts

Shape ==
  /\ pipe \in Seq({"off", "flush", "on"}) /\ saves \in BOOLEAN
  /\ JobOK(job)
  /\ archives = [t \in Times |-> archives[t]]
  /\ now \in Times

(* Every "off" of the pipe, and the one in force, has an "on" behind it. *)
Heals(s, p) ==
  \A i \in 0..Len(p) :
    (IF i = 0 THEN ~s ELSE p[i] = "off") => \E j \in i + 1..Len(p) : p[j] = "on"

Owes == job.wasUp /\ job.at \in {"flush", "listen", "wait", "open", "archive", "resume"}

SavesInv ==
  /\ server = "stopped" => saves /\ pipe = <<>>
  /\ Heals(saves, pipe) \/ Owes

PruneInv ==
  /\ made \subseteq Times
  /\ \A u \in Times : archives[u] # None => u \in made
  /\ \A t \in pruner.list : Cardinality({u \in made : u > t}) >= Keep

CalmInv ==
  job.calm /\ job.wasUp =>
    /\ job.at \in {"save-off", "flush", "listen", "wait", "open", "archive"} =>
         server = "running" /\ home
    /\ job.at = "save-off" => pipe = <<>>
    /\ job.at = "flush" => pipe = <<"off">> \/ (~saves /\ pipe = <<>>)
    /\ job.at \in {"listen", "wait"} =>
         \/ pipe = <<"off", "flush">>
         \/ ~saves /\ pipe \in {<<"flush">>, <<>>}
    /\ job.at \in {"open", "archive"} =>
         ~saves /\ pipe = <<>> /\ (live # None => Even(live))
    /\ job.at = "archive" =>
         /\ partial = [q \in Parts |-> partial[q]]
         /\ job.todo = Parts \/ (Even(live) /\ \A q \in Parts \ job.todo : partial[q] = live[q])

IInv == Shape /\ SavesInv /\ PruneInv /\ CalmInv

-----------------------------------------------------------------------------
(* The commands in the pipe *)

LEMMA HealsEmpty == Heals(TRUE, <<>>)
BY DEF Heals

LEMMA HealsOn ==
  ASSUME NEW p \in Seq({"off", "flush", "on"}), NEW s \in BOOLEAN
  PROVE  Heals(s, Append(p, "on"))
<1> SUFFICES ASSUME NEW i \in 0..Len(Append(p, "on")),
                    IF i = 0 THEN ~s ELSE Append(p, "on")[i] = "off"
             PROVE  \E j \in i + 1..Len(Append(p, "on")) : Append(p, "on")[j] = "on"
  BY DEF Heals
<1>1. Len(Append(p, "on")) = Len(p) + 1 /\ Append(p, "on")[Len(p) + 1] = "on" /\ Len(p) \in Nat
  OBVIOUS
<1>2. i # Len(p) + 1
  BY <1>1
<1> WITNESS Len(p) + 1 \in i + 1..Len(Append(p, "on"))
<1> QED BY <1>1

LEMMA AppendFacts ==
  ASSUME NEW p \in Seq({"off", "flush", "on"})
  PROVE  LET q == Append(p, "flush")
         IN  /\ q \in Seq({"off", "flush", "on"}) /\ Len(q) = Len(p) + 1
             /\ q[Len(p) + 1] = "flush" /\ Len(p) \in Nat
             /\ \A k \in 1..Len(p) : q[k] = p[k]
OBVIOUS

LEMMA FlushAfterOff == Append(<<"off">>, "flush") = <<"off", "flush">>
<1> DEFINE p == <<"off">>
           a == Append(p, "flush")
           b == <<"off", "flush">>
<1>1. p \in Seq({"off", "flush", "on"}) /\ Len(p) = 1 /\ p[1] = "off"
  OBVIOUS
<1>2. b \in Seq({"off", "flush", "on"}) /\ Len(b) = 2 /\ b[1] = "off" /\ b[2] = "flush"
  OBVIOUS
<1> HIDE DEF p, b
<1>3. /\ a \in Seq({"off", "flush", "on"}) /\ Len(a) = Len(p) + 1
      /\ a[Len(p) + 1] = "flush" /\ \A k \in 1..Len(p) : a[k] = p[k]
  BY <1>1, AppendFacts
<1> HIDE DEF a
<1>4. Len(a) = 2 /\ a[1] = "off" /\ a[2] = "flush"
  BY <1>1, <1>3
<1>5. a = b
  BY <1>2, <1>3, <1>4, SeqEqual
<1> QED BY <1>5 DEF p, a, b

LEMMA HealsFlush ==
  ASSUME NEW p \in Seq({"off", "flush", "on"}), NEW s \in BOOLEAN, Heals(s, p)
  PROVE  Heals(s, Append(p, "flush"))
<1> DEFINE q == Append(p, "flush")
<1> SUFFICES ASSUME NEW i \in 0..Len(q), IF i = 0 THEN ~s ELSE q[i] = "off"
             PROVE  \E j \in i + 1..Len(q) : q[j] = "on"
  BY DEF Heals
<1>1. Len(q) = Len(p) + 1 /\ q[Len(p) + 1] = "flush" /\ Len(p) \in Nat /\ \A k \in 1..Len(p) : q[k] = p[k]
  OBVIOUS
<1>2. i \in 0..Len(p)
  BY <1>1
<1>3. IF i = 0 THEN ~s ELSE p[i] = "off"
  BY <1>1, <1>2
<1>4. PICK j \in i + 1..Len(p) : p[j] = "on"
  BY <1>2, <1>3 DEF Heals
<1> QED BY <1>1, <1>2, <1>4

LEMMA HealsRead ==
  ASSUME NEW p \in Seq({"off", "flush", "on"}), p # <<>>, NEW s \in BOOLEAN, Heals(s, p)
  PROVE  Heals(IF Head(p) = "flush" THEN s ELSE Head(p) = "on", Tail(p))
<1> DEFINE q == Tail(p)
           r == IF Head(p) = "flush" THEN s ELSE Head(p) = "on"
<1> SUFFICES ASSUME NEW i \in 0..Len(q), IF i = 0 THEN ~r ELSE q[i] = "off"
             PROVE  \E j \in i + 1..Len(q) : q[j] = "on"
  BY DEF Heals
<1>1. /\ Len(q) = Len(p) - 1 /\ Len(p) \in Nat \ {0} /\ Head(p) = p[1]
      /\ \A k \in 1..Len(q) : q[k] = p[k + 1]
      /\ p[1] \in {"off", "flush", "on"}
  OBVIOUS
<1>2. ASSUME NEW j \in i + 2..Len(p), p[j] = "on" PROVE \E k \in i + 1..Len(q) : q[k] = "on"
  <2>1. j - 1 \in i + 1..Len(q) /\ q[j - 1] = p[j]
    BY <1>1
  <2> QED BY <1>2, <2>1
<1>3. CASE i > 0
  <2>1. i + 1 \in 0..Len(p) /\ p[i + 1] = "off" /\ i + 1 # 0
    BY <1>1, <1>3
  <2>2. PICK j \in i + 2..Len(p) : p[j] = "on"
    BY <2>1 DEF Heals
  <2> QED BY <1>2, <2>2
<1>4. CASE i = 0
  <2>0. ~r
    BY <1>4
  <2>1. p[1] # "on"
    BY <1>1, <2>0
  <2>2. CASE p[1] = "off"
    <3>1. PICK j \in 1 + 1..Len(p) : p[j] = "on"
      BY <1>1, <2>2 DEF Heals
    <3> QED BY <1>2, <1>4, <3>1
  <2>3. CASE p[1] = "flush"
    <3>0. ~s
      BY <1>1, <2>0, <2>3
    <3>1. PICK j \in 0 + 1..Len(p) : p[j] = "on"
      BY <1>1, <3>0 DEF Heals
    <3>2. j # 1
      BY <2>3, <3>1
    <3> QED BY <1>1, <1>2, <1>4, <3>1, <3>2
  <2> QED BY <1>1, <2>1, <2>2, <2>3
<1> QED BY <1>3, <1>4

-----------------------------------------------------------------------------
(* What was made *)

LEMMA MoreWereMade ==
  ASSUME NEW m \in SUBSET Times, NEW n \in SUBSET m, NEW t
  PROVE  /\ Cardinality({u \in n : u > t}) <= Cardinality({u \in m : u > t})
         /\ Cardinality({u \in n : u > t}) \in Nat /\ Cardinality({u \in m : u > t}) \in Nat
<1>1. IsFiniteSet(Times)
  BY BackupsAssumption, FS_Interval DEF Times
<1>2. IsFiniteSet({u \in m : u > t})
  BY <1>1, FS_Subset
<1>3. {u \in n : u > t} \subseteq {u \in m : u > t}
  OBVIOUS
<1>4. IsFiniteSet({u \in n : u > t}) /\ Cardinality({u \in n : u > t}) <= Cardinality({u \in m : u > t})
  BY <1>2, <1>3, FS_Subset
<1> QED BY <1>2, <1>4, FS_CardinalityType

LEMMA EvenWorld == ASSUME NEW n PROVE Even([p \in Parts |-> n])
BY DEF Even

-----------------------------------------------------------------------------
LEMMA InitInv == Init => IInv
<1> SUFFICES ASSUME Init PROVE IInv
  OBVIOUS
<1>1. Shape
  BY BackupsAssumption DEF Init, Shape, JobOK, NoJob, JobAt, Times
<1>2. SavesInv
  BY HealsEmpty DEF Init, SavesInv
<1>3. PruneInv
  BY DEF Init, PruneInv, NoPruner
<1>4. CalmInv
  BY DEF Init, CalmInv, NoJob
<1> QED BY <1>1, <1>2, <1>3, <1>4 DEF IInv

LEMMA SavesKept ==
  ASSUME SavesInv, UNCHANGED gameVars, Owes => Owes'
  PROVE  SavesInv'
BY DEF SavesInv, gameVars

LEMMA PruneKept ==
  ASSUME PruneInv, UNCHANGED <<archives, made>>, pruner'.list \subseteq pruner.list
  PROVE  PruneInv'
BY DEF PruneInv

LEMMA DisturbedOK ==
  ASSUME NEW j, JobOK(j)
  PROVE  /\ JobOK(Disturbed(j))
         /\ Disturbed(j).calm = FALSE /\ Disturbed(j).at = j.at /\ Disturbed(j).wasUp = j.wasUp
BY DEF JobOK, Disturbed

LEMMA Uncalm == ASSUME ~(job'.calm /\ job'.wasUp) PROVE CalmInv'
BY DEF CalmInv

LEMMA Outside ==
  ASSUME job'.at \in {"none", "check", "resume", "end"}
  PROVE  CalmInv'
BY DEF CalmInv

-----------------------------------------------------------------------------
(* The game *)

LEMMA StartInv == ASSUME IInv, Start PROVE IInv'
<1>1. JobOK(job') /\ job'.calm = FALSE
  BY DisturbedOK DEF IInv, Start, Shape
<1>2. Shape'
  BY <1>1 DEF IInv, Start, Shape, diskVars
<1>3. SavesInv'
  BY HealsEmpty DEF Start, SavesInv
<1>4. PruneInv'
  BY PruneKept DEF IInv, Start, diskVars
<1> QED BY <1>1, <1>2, <1>3, <1>4, Uncalm DEF IInv

LEMMA ReadyInv == ASSUME IInv, Ready PROVE IInv'
<1>1. Shape'
  BY DEF IInv, Ready, Shape, diskVars
<1>2. SavesInv'
  BY DEF IInv, Ready, SavesInv, Owes
<1>3. PruneInv'
  BY PruneKept DEF IInv, Ready, diskVars
<1>4. CalmInv'
  BY DEF IInv, Ready, CalmInv, Even, diskVars
<1> QED BY <1>1, <1>2, <1>3, <1>4 DEF IInv

LEMMA AutosaveInv == ASSUME IInv, NEW p \in Parts, Autosave(p) PROVE IInv'
<1>1. saves /\ UNCHANGED <<gameVars, now, job, pruner, made, archives, partial>>
  BY DEF Autosave, WriteWorld
<1>2. Shape'
  BY <1>1 DEF IInv, Shape, gameVars
<1>3. SavesInv'
  BY <1>1, SavesKept DEF IInv, Owes
<1>4. PruneInv'
  BY <1>1, PruneKept DEF IInv
<1>5. CalmInv'
  BY <1>1 DEF IInv, CalmInv, gameVars
<1> QED BY <1>2, <1>3, <1>4, <1>5 DEF IInv

LEMMA QuitInv == ASSUME IInv, Quit PROVE IInv'
<1>1. UNCHANGED <<archives, partial>>
  BY DEF Quit, WriteWorld, diskVars
<1>2. JobOK(job') /\ job'.calm = FALSE
  BY DisturbedOK DEF IInv, Quit, Shape
<1>3. Shape'
  BY <1>1, <1>2 DEF IInv, Quit, Shape
<1>4. SavesInv'
  BY HealsEmpty DEF Quit, SavesInv
<1>5. PruneInv'
  BY <1>1, PruneKept DEF IInv, Quit
<1> QED BY <1>2, <1>3, <1>4, <1>5, Uncalm DEF IInv

LEMMA ReadInv == ASSUME IInv, ReadCommand PROVE IInv'
<1>1. /\ server = "running" /\ pipe # <<>> /\ pipe' = Tail(pipe)
      /\ saves' = IF Head(pipe) = "flush" THEN saves ELSE Head(pipe) = "on"
      /\ UNCHANGED <<server, home, now, pruner, made, archives, partial>>
  BY DEF ReadCommand, WriteWorld, diskVars
<1>2. /\ job' = job \/ (job.at = "wait" /\ job' = [job EXCEPT !.at = "open"])
      /\ pipe \in Seq({"off", "flush", "on"}) /\ saves \in BOOLEAN
      /\ job \in [at : JobAt, wasUp : BOOLEAN, keep : BOOLEAN, name : Times \cup {0},
                  todo : SUBSET Parts, ok : BOOLEAN, calm : BOOLEAN]
  <2>1. job' = job \/ (job.at = "wait" /\ job' = [job EXCEPT !.at = "open"])
    <3>1. CASE Head(pipe) = "flush"
      BY <3>1 DEF ReadCommand
    <3>2. CASE Head(pipe) # "flush"
      BY <3>2 DEF ReadCommand
    <3> QED BY <3>1, <3>2
  <2> QED BY <2>1 DEF IInv, Shape, JobOK
<1>3. Shape'
  <2>0. pipe' \in Seq({"off", "flush", "on"})
    BY <1>1, <1>2
  <2>1. pipe' \in Seq({"off", "flush", "on"}) /\ saves' \in BOOLEAN
    BY <1>1, <1>2, <2>0, Zenon
  <2>2. CASE job' = job
    BY <1>1, <2>1, <2>2 DEF IInv, Shape
  <2>3. CASE job.at = "wait" /\ job' = [job EXCEPT !.at = "open"]
    <3>1. JobOK(job')
      BY <1>2, <2>3 DEF IInv, Shape, JobOK, JobAt
    <3> QED BY <1>1, <2>1, <3>1 DEF IInv, Shape
  <2> QED BY <1>2, <2>2, <2>3
<1>4. SavesInv'
  <2>1. Heals(saves, pipe) => Heals(saves', pipe')
    BY <1>1, <1>2, HealsRead
  <2>2. Owes => Owes'
    BY <1>2 DEF Owes
  <2> QED BY <1>1, <2>1, <2>2 DEF IInv, SavesInv
<1>5. PruneInv'
  BY <1>1, PruneKept DEF IInv
<1>6. CalmInv'
  <2> SUFFICES ASSUME job'.calm, job'.wasUp PROVE CalmInv'
    BY DEF CalmInv
  <2>1. job.calm /\ job.wasUp /\ CalmInv
    BY <1>2 DEF IInv
  <2>2. CASE Head(pipe) = "flush"
    <3>1. /\ live' = IF home /\ live # None THEN [p \in Parts |-> Newest(live)] ELSE live
          /\ job' = IF job.at = "wait" THEN [job EXCEPT !.at = "open"] ELSE job
          /\ saves' = saves
      BY <1>1, <2>2 DEF ReadCommand, WriteWorld
    <3>2. CASE job.at \in {"listen", "wait"}
      <4>1. pipe # <<"off", "flush">>
        BY <2>2
      <4>2. home /\ ~saves /\ pipe = <<"flush">>
        BY <1>1, <2>1, <3>2, <4>1 DEF CalmInv
      <4>3. pipe' = <<>>
        BY <1>1, <4>2
      <4>4. live' # None => Even(live')
        BY <3>1, <4>2, EvenWorld
      <4>5. job'.at \in {"listen", "open"}
        BY <1>2, <3>1, <3>2
      <4> QED BY <1>1, <3>1, <4>2, <4>3, <4>4, <4>5 DEF CalmInv
    <3>3. CASE job.at \notin {"listen", "wait"}
      <4>1. job' = job
        BY <3>1, <3>3
      <4>2. job.at \notin {"save-off", "flush", "open", "archive"}
        BY <1>1, <2>1, <2>2 DEF CalmInv
      <4> QED BY <3>3, <4>1, <4>2 DEF CalmInv
    <3> QED BY <3>2, <3>3
  <2>3. CASE Head(pipe) # "flush"
    <3>1. UNCHANGED <<diskVars, job>> /\ saves' = (Head(pipe) = "on")
      BY <1>1, <2>3 DEF ReadCommand
    <3>2. job.at \notin {"save-off", "open", "archive"}
      BY <1>1, <2>1 DEF CalmInv
    <3>3. CASE job.at = "flush"
      <4>1. pipe = <<"off">>
        BY <1>1, <2>1, <3>3 DEF CalmInv
      <4>2. Head(pipe) = "off" /\ Tail(pipe) = <<>>
        BY <4>1
      <4>3. pipe' = <<>> /\ ~saves'
        BY <1>1, <3>1, <4>2
      <4> QED BY <1>1, <2>1, <3>1, <3>3, <4>3 DEF CalmInv
    <3>4. CASE job.at \in {"listen", "wait"}
      <4>1. pipe = <<"off", "flush">>
        <5>1. pipe # <<"flush">>
          BY <2>3
        <5> QED BY <1>1, <2>1, <3>4, <5>1 DEF CalmInv
      <4>2. Head(pipe) = "off" /\ Tail(pipe) = <<"flush">>
        BY <4>1
      <4>3. pipe' = <<"flush">> /\ ~saves'
        BY <1>1, <3>1, <4>2
      <4> QED BY <1>1, <2>1, <3>1, <3>4, <4>3 DEF CalmInv
    <3>5. CASE job.at \in {"none", "check", "resume", "end"}
      BY <3>1, <3>5, Outside
    <3> QED BY <1>2, <3>2, <3>3, <3>4, <3>5 DEF JobAt
  <2> QED BY <2>2, <2>3
<1> QED BY <1>3, <1>4, <1>5, <1>6 DEF IInv

LEMMA OperatorSaveInv == ASSUME IInv, OperatorSave PROVE IInv'
<1>1. /\ server # "stopped" /\ pipe' = Append(pipe, "flush") /\ job' = Disturbed(job)
      /\ UNCHANGED <<diskVars, server, home, saves, now, pruner, made>>
  BY DEF OperatorSave, Command
<1>2. /\ pipe \in Seq({"off", "flush", "on"}) /\ saves \in BOOLEAN
      /\ JobOK(job') /\ job'.calm = FALSE /\ job'.at = job.at /\ job'.wasUp = job.wasUp
  BY <1>1, DisturbedOK DEF IInv, Shape
<1>3. Shape'
  BY <1>1, <1>2 DEF IInv, Shape, diskVars
<1>4. SavesInv'
  BY <1>1, <1>2, HealsFlush DEF IInv, SavesInv, Owes
<1>5. PruneInv'
  BY <1>1, PruneKept DEF IInv, diskVars
<1> QED BY <1>2, <1>3, <1>4, <1>5, Uncalm DEF IInv

-----------------------------------------------------------------------------
(* The job.  Each step first says what becomes of the record. *)

LEMMA CreateInv == ASSUME IInv, NEW keep \in BOOLEAN, CreateBackup(keep) PROVE IInv'
<1>1. /\ job.at = "none" /\ UNCHANGED <<diskVars, gameVars, now, made>>
      /\ job' = [NoJob EXCEPT !.at = "check", !.keep = keep, !.todo = Parts]
      /\ pruner' = pruner \/ pruner'.list = {}
  BY DEF CreateBackup, NoPruner
<1>2. JobOK(job') /\ job'.at = "check"
  BY <1>1 DEF JobOK, NoJob, JobAt
<1>3. Shape'
  BY <1>1, <1>2 DEF IInv, Shape, diskVars, gameVars
<1>4. SavesInv'
  BY <1>1, SavesKept DEF IInv, Owes
<1>5. PruneInv'
  BY <1>1, PruneKept DEF IInv, diskVars
<1> QED BY <1>2, <1>3, <1>4, <1>5, Outside DEF IInv

LEMMA CheckInv == ASSUME IInv, CheckRunning PROVE IInv'
<1>1. /\ job.at = "check" /\ JobOK(job) /\ UNCHANGED <<diskVars, jobOnly>>
      /\ job' = [job EXCEPT !.wasUp = (server = "running"),
                            !.at = IF server = "running" THEN "save-off" ELSE "open",
                            !.calm = (server # "starting" /\ pipe = <<>> /\ home)]
  BY DEF CheckRunning, IInv, Shape
<1>2. /\ JobOK(job')
      /\ job'.wasUp => server = "running" /\ job'.at = "save-off"
      /\ job'.calm => pipe = <<>> /\ home
  BY <1>1 DEF JobOK, JobAt
<1>3. Shape'
  BY <1>1, <1>2 DEF IInv, Shape, diskVars, gameVars, jobOnly
<1>4. SavesInv'
  BY <1>1, SavesKept DEF IInv, Owes, jobOnly
<1>5. PruneInv'
  BY <1>1, PruneKept DEF IInv, diskVars, jobOnly
<1>6. CalmInv'
  BY <1>1, <1>2 DEF CalmInv, jobOnly, gameVars
<1> QED BY <1>3, <1>4, <1>5, <1>6 DEF IInv

LEMMA AskSaveOffInv == ASSUME IInv, AskSaveOff PROVE IInv'
<1>1. /\ job.at = "save-off" /\ JobOK(job) /\ job' = [job EXCEPT !.at = "flush"]
      /\ UNCHANGED <<diskVars, server, home, saves, now, pruner, made>>
      /\ pipe \in Seq({"off", "flush", "on"})
      /\ pipe' = IF server # "stopped" THEN Append(pipe, "off") ELSE pipe
  BY DEF AskSaveOff, Command, IInv, Shape
<1>2. JobOK(job') /\ job'.at = "flush" /\ job'.wasUp = job.wasUp /\ job'.calm = job.calm /\ job.wasUp
  BY <1>1 DEF JobOK, JobAt
<1>3. Shape'
  <2>1. pipe' \in Seq({"off", "flush", "on"})
    BY <1>1
  <2> QED BY <1>1, <1>2, <2>1 DEF IInv, Shape, diskVars
<1>4. SavesInv'
  BY <1>1, <1>2 DEF IInv, SavesInv, Owes
<1>5. PruneInv'
  BY <1>1, PruneKept DEF IInv, diskVars
<1>6. CalmInv'
  <2> SUFFICES ASSUME job.calm PROVE CalmInv'
    BY <1>2 DEF CalmInv
  <2>1. server = "running" /\ home /\ pipe = <<>>
    BY <1>1, <1>2 DEF IInv, CalmInv
  <2>2. pipe' = <<"off">>
    BY <1>1, <2>1
  <2> QED BY <1>1, <1>2, <2>1, <2>2 DEF CalmInv
<1> QED BY <1>3, <1>4, <1>5, <1>6 DEF IInv

LEMMA AskFlushInv == ASSUME IInv, AskFlush PROVE IInv'
<1>1. /\ job.at = "flush" /\ JobOK(job) /\ job' = [job EXCEPT !.at = "listen"]
      /\ UNCHANGED <<diskVars, server, home, saves, now, pruner, made>>
      /\ pipe \in Seq({"off", "flush", "on"})
      /\ pipe' = IF server # "stopped" THEN Append(pipe, "flush") ELSE pipe
  BY DEF AskFlush, Command, IInv, Shape
<1>2. JobOK(job') /\ job'.at = "listen" /\ job'.wasUp = job.wasUp /\ job'.calm = job.calm /\ job.wasUp
  BY <1>1 DEF JobOK, JobAt
<1>3. Shape'
  <2>1. pipe' \in Seq({"off", "flush", "on"})
    BY <1>1
  <2> QED BY <1>1, <1>2, <2>1 DEF IInv, Shape, diskVars
<1>4. SavesInv'
  BY <1>1, <1>2 DEF IInv, SavesInv, Owes
<1>5. PruneInv'
  BY <1>1, PruneKept DEF IInv, diskVars
<1>6. CalmInv'
  <2> SUFFICES ASSUME job.calm PROVE CalmInv'
    BY <1>2 DEF CalmInv
  <2>1. server = "running" /\ home /\ (pipe = <<"off">> \/ (~saves /\ pipe = <<>>))
    BY <1>1, <1>2 DEF IInv, CalmInv
  <2>2. pipe' = Append(pipe, "flush")
    BY <1>1, <2>1
  <2>3. pipe' = <<"off", "flush">> \/ (~saves /\ pipe' = <<"flush">>)
    <3>1. CASE pipe = <<"off">>
      BY <2>2, <3>1, FlushAfterOff, Zenon
    <3>2. CASE ~saves /\ pipe = <<>>
      BY <2>2, <3>2
    <3> QED BY <2>1, <3>1, <3>2
  <2> QED BY <1>1, <1>2, <2>1, <2>3 DEF CalmInv
<1> QED BY <1>3, <1>4, <1>5, <1>6 DEF IInv

LEMMA ListenInv == ASSUME IInv, Listen PROVE IInv'
<1>1. /\ job.at = "listen" /\ JobOK(job) /\ job' = [job EXCEPT !.at = "wait"]
      /\ UNCHANGED <<diskVars, jobOnly>>
  BY DEF Listen, IInv, Shape
<1>2. JobOK(job') /\ job'.at = "wait" /\ job'.wasUp = job.wasUp /\ job'.calm = job.calm
  BY <1>1 DEF JobOK, JobAt
<1>3. Shape'
  BY <1>1, <1>2 DEF IInv, Shape, diskVars, gameVars, jobOnly
<1>4. SavesInv'
  BY <1>1, <1>2, SavesKept DEF IInv, Owes, jobOnly
<1>5. PruneInv'
  BY <1>1, PruneKept DEF IInv, diskVars, jobOnly
<1>6. CalmInv'
  BY <1>1, <1>2 DEF IInv, CalmInv, jobOnly, gameVars
<1> QED BY <1>3, <1>4, <1>5, <1>6 DEF IInv

LEMMA TimeoutInv == ASSUME IInv, WaitTimesOut PROVE IInv'
<1>1. /\ job.at = "wait" /\ JobOK(job) /\ job' = [job EXCEPT !.at = "open", !.calm = FALSE]
      /\ UNCHANGED <<diskVars, jobOnly>>
  BY DEF WaitTimesOut, IInv, Shape
<1>2. JobOK(job') /\ job'.at = "open" /\ job'.wasUp = job.wasUp /\ ~job'.calm
  BY <1>1 DEF JobOK, JobAt
<1>3. Shape'
  BY <1>1, <1>2 DEF IInv, Shape, diskVars, gameVars, jobOnly
<1>4. SavesInv'
  BY <1>1, <1>2, SavesKept DEF IInv, Owes, jobOnly
<1>5. PruneInv'
  BY <1>1, PruneKept DEF IInv, diskVars, jobOnly
<1> QED BY <1>2, <1>3, <1>4, <1>5, Uncalm DEF IInv

LEMMA OpenInv == ASSUME IInv, OpenArchive PROVE IInv'
<1>1. /\ job.at = "open" /\ JobOK(job) /\ job' = [job EXCEPT !.at = "archive", !.name = now]
      /\ partial' = Empty /\ now \in Times
      /\ UNCHANGED <<live, incoming, archives, jobOnly>>
  BY DEF OpenArchive, IInv, Shape
<1>2. /\ JobOK(job') /\ job'.at = "archive" /\ job'.wasUp = job.wasUp /\ job'.calm = job.calm
      /\ job'.todo = job.todo
  BY <1>1 DEF JobOK, JobAt
<1>3. Shape'
  BY <1>1, <1>2 DEF IInv, Shape, gameVars, jobOnly
<1>4. SavesInv'
  BY <1>1, <1>2, SavesKept DEF IInv, Owes, jobOnly
<1>5. PruneInv'
  BY <1>1, PruneKept DEF IInv, jobOnly
<1>6. CalmInv'
  <2> SUFFICES ASSUME job.calm, job.wasUp PROVE CalmInv'
    BY <1>2 DEF CalmInv
  <2>1. server = "running" /\ home /\ ~saves /\ pipe = <<>> /\ (live # None => Even(live))
        /\ job.todo = Parts
    BY <1>1 DEF IInv, CalmInv, JobOK
  <2>2. partial' = [q \in Parts |-> partial'[q]]
    BY <1>1 DEF Empty
  <2> QED BY <1>1, <1>2, <2>1, <2>2 DEF CalmInv, jobOnly, gameVars, Even
<1> QED BY <1>3, <1>4, <1>5, <1>6 DEF IInv

LEMMA ArchivePartInv == ASSUME IInv, NEW p \in Parts, ArchivePart(p) PROVE IInv'
<1>1. /\ job.at = "archive" /\ JobOK(job) /\ job' = [job EXCEPT !.todo = @ \ {p}]
      /\ partial' = [partial EXCEPT ![p] = live[p]] /\ live # None /\ p \in job.todo
      /\ UNCHANGED <<live, incoming, archives, jobOnly>>
  BY DEF ArchivePart, NextFile, IInv, Shape
<1>2. /\ JobOK(job') /\ job'.at = "archive" /\ job'.wasUp = job.wasUp /\ job'.calm = job.calm
      /\ job'.todo = job.todo \ {p} /\ job.todo \subseteq Parts
  BY <1>1 DEF JobOK, JobAt
<1>3. Shape'
  BY <1>1, <1>2 DEF IInv, Shape, gameVars, jobOnly
<1>4. SavesInv'
  BY <1>1, <1>2, SavesKept DEF IInv, Owes, jobOnly
<1>5. PruneInv'
  BY <1>1, PruneKept DEF IInv, jobOnly
<1>6. CalmInv'
  <2> SUFFICES ASSUME job.calm, job.wasUp PROVE CalmInv'
    BY <1>2 DEF CalmInv
  <2>1. /\ server = "running" /\ home /\ ~saves /\ pipe = <<>> /\ Even(live)
        /\ partial = [q \in Parts |-> partial[q]]
        /\ job.todo = Parts \/ \A q \in Parts \ job.todo : partial[q] = live[q]
    BY <1>1 DEF IInv, CalmInv
  <2>2. partial' = [q \in Parts |-> partial'[q]]
    BY <1>1, <2>1
  <2>3. \A q \in Parts \ job'.todo : partial'[q] = live[q]
    BY <1>1, <1>2, <2>1
  <2>4. Even(live)'
    BY <1>1, <2>1 DEF Even
  <2> QED BY <1>1, <1>2, <2>1, <2>2, <2>3, <2>4 DEF CalmInv, jobOnly, gameVars
<1> QED BY <1>3, <1>4, <1>5, <1>6 DEF IInv

LEMMA ArchiveFailsInv == ASSUME IInv, ArchiveFails PROVE IInv'
<1>1. /\ job.at \in {"open", "archive"} /\ JobOK(job) /\ job' = [job EXCEPT !.at = "resume"]
      /\ UNCHANGED <<live, incoming, archives, jobOnly>>
  BY DEF ArchiveFails, IInv, Shape
<1>2. JobOK(job') /\ job'.at = "resume" /\ job'.wasUp = job.wasUp
  BY <1>1 DEF JobOK, JobAt
<1>3. Shape'
  BY <1>1, <1>2 DEF IInv, Shape, gameVars, jobOnly
<1>4. SavesInv'
  BY <1>1, <1>2, SavesKept DEF IInv, Owes, jobOnly
<1>5. PruneInv'
  BY <1>1, PruneKept DEF IInv, jobOnly
<1> QED BY <1>2, <1>3, <1>4, <1>5, Outside DEF IInv

LEMMA ArchiveDoneInv == ASSUME IInv, ArchiveDone PROVE IInv'
<1>1. /\ job.at = "archive" /\ JobOK(job) /\ job' = [job EXCEPT !.at = "resume", !.ok = TRUE]
      /\ archives' = [archives EXCEPT ![job.name] = partial] /\ made' = made \cup {job.name}
      /\ archives = [t \in Times |-> archives[t]]
      /\ UNCHANGED <<live, incoming, gameVars, now, pruner>>
  BY DEF ArchiveDone, IInv, Shape
<1>2. JobOK(job') /\ job'.at = "resume" /\ job'.wasUp = job.wasUp /\ job.name \in Times
  BY <1>1 DEF JobOK, JobAt
<1>3. Shape'
  <2>1. archives' = [t \in Times |-> archives'[t]]
    BY <1>1
  <2> QED BY <1>1, <1>2, <2>1 DEF IInv, Shape, gameVars
<1>4. SavesInv'
  BY <1>1, <1>2, SavesKept DEF IInv, Owes
<1>5. PruneInv'
  <2>1. made \subseteq Times /\ made' \subseteq Times /\ made \subseteq made'
    BY <1>1, <1>2 DEF IInv, PruneInv
  <2>2. \A u \in Times : archives'[u] # None => u \in made'
    BY <1>1, <1>2 DEF IInv, PruneInv
  <2>3. ASSUME NEW t \in pruner.list PROVE Cardinality({u \in made' : u > t}) >= Keep
    <3>1. Cardinality({u \in made : u > t}) >= Keep
      BY <2>3 DEF IInv, PruneInv
    <3>2. /\ Cardinality({u \in made : u > t}) <= Cardinality({u \in made' : u > t})
          /\ Cardinality({u \in made : u > t}) \in Nat /\ Cardinality({u \in made' : u > t}) \in Nat
      BY <2>1, MoreWereMade
    <3> QED BY <3>1, <3>2, BackupsAssumption
  <2> QED BY <1>1, <2>1, <2>2, <2>3 DEF PruneInv
<1> QED BY <1>2, <1>3, <1>4, <1>5, Outside DEF IInv

LEMMA ResumeInv == ASSUME IInv, ResumeSaves PROVE IInv'
<1>1. /\ job.at = "resume" /\ JobOK(job) /\ job' = [job EXCEPT !.at = "end"]
      /\ UNCHANGED <<diskVars, server, home, saves, now, pruner, made>>
      /\ pipe \in Seq({"off", "flush", "on"}) /\ saves \in BOOLEAN
      /\ pipe' = IF job.wasUp /\ server # "stopped" THEN Append(pipe, "on") ELSE pipe
  BY DEF ResumeSaves, Command, IInv, Shape
<1>2. JobOK(job') /\ job'.at = "end"
  BY <1>1 DEF JobOK, JobAt
<1>3. Shape'
  <2>1. pipe' \in Seq({"off", "flush", "on"})
    BY <1>1
  <2> QED BY <1>1, <1>2, <2>1 DEF IInv, Shape, diskVars
<1>4. SavesInv'
  <2>1. CASE job.wasUp /\ server # "stopped"
    BY <1>1, <2>1, HealsOn DEF SavesInv
  <2>2. CASE server = "stopped"
    <3>1. saves /\ pipe = <<>>
      BY <2>2 DEF IInv, SavesInv
    <3>2. saves' = TRUE /\ pipe' = <<>>
      BY <1>1, <2>2, <3>1
    <3> QED BY <3>2, HealsEmpty DEF SavesInv
  <2>3. CASE ~job.wasUp
    <3>1. ~Owes
      BY <2>3 DEF Owes
    <3> QED BY <1>1, <2>3, <3>1 DEF IInv, SavesInv
  <2> QED BY <2>1, <2>2, <2>3
<1>5. PruneInv'
  BY <1>1, PruneKept DEF IInv, diskVars
<1> QED BY <1>2, <1>3, <1>4, <1>5, Outside DEF IInv

LEMMA EndInv == ASSUME IInv, EndJob PROVE IInv'
<1>1. /\ job.at = "end" /\ job' = NoJob /\ UNCHANGED <<diskVars, gameVars, now, made>>
      /\ pruner' = pruner \/ pruner'.list = {}
  BY DEF EndJob, NoPruner
<1>2. JobOK(job') /\ job'.at = "none"
  BY <1>1 DEF JobOK, NoJob, JobAt
<1>3. Shape'
  BY <1>1, <1>2 DEF IInv, Shape, diskVars, gameVars
<1>4. SavesInv'
  BY <1>1, SavesKept DEF IInv, Owes
<1>5. PruneInv'
  BY <1>1, PruneKept DEF IInv, diskVars
<1> QED BY <1>2, <1>3, <1>4, <1>5, Outside DEF IInv

-----------------------------------------------------------------------------
(* Retention, restores and crashes *)

LEMMA PruneListInv == ASSUME IInv, PruneList PROVE IInv'
<1>1. pruner'.list = Beyond /\ UNCHANGED <<diskVars, gameVars, now, job, made>>
  BY DEF PruneList
<1>2. Shape' /\ SavesInv'
  BY <1>1, SavesKept DEF IInv, Shape, Owes, diskVars, gameVars
<1>3. CalmInv'
  BY <1>1 DEF IInv, CalmInv, Even, diskVars, gameVars
<1>4. PruneInv'
  <2>1. made \subseteq Times /\ \A u \in Times : archives[u] # None => u \in made
    BY DEF IInv, PruneInv
  <2>2. ASSUME NEW t \in Beyond PROVE Cardinality({u \in made : u > t}) >= Keep
    <3> DEFINE n == {u \in Times : archives[u] # None}
    <3>2. n \in SUBSET made /\ made \in SUBSET Times
      BY <2>1
    <3>3. Newer(t) = {u \in n : u > t}
      BY DEF Newer
    <3>4. Cardinality(Newer(t)) >= Keep
      BY DEF Beyond
    <3> HIDE DEF n
    <3>5. /\ Cardinality({u \in n : u > t}) <= Cardinality({u \in made : u > t})
          /\ Cardinality({u \in n : u > t}) \in Nat /\ Cardinality({u \in made : u > t}) \in Nat
      BY <3>2, MoreWereMade
    <3> QED BY <3>3, <3>4, <3>5, BackupsAssumption
  <2> QED BY <1>1, <2>1, <2>2 DEF PruneInv, diskVars
<1> QED BY <1>2, <1>3, <1>4 DEF IInv

(* An archive that goes takes nothing from what was made. *)
LEMMA RemoveInv ==
  ASSUME IInv, NEW t \in Times, archives' = [archives EXCEPT ![t] = None],
         pruner'.list \subseteq pruner.list, UNCHANGED <<live, partial, gameVars, now, job, made>>
  PROVE  IInv'
<1>1. archives = [u \in Times |-> archives[u]]
  BY DEF IInv, Shape
<1>2. /\ archives' = [u \in Times |-> archives'[u]]
      /\ \A u \in Times : archives'[u] # None => archives[u] # None
  BY <1>1
<1>3. Shape' /\ SavesInv'
  BY <1>2, SavesKept DEF IInv, Shape, Owes, gameVars
<1>4. PruneInv'
  BY <1>2 DEF IInv, PruneInv
<1>5. CalmInv'
  BY DEF IInv, CalmInv, Even, gameVars
<1> QED BY <1>3, <1>4, <1>5 DEF IInv

LEMMA PruneEndsInv == ASSUME IInv, PruneEnds PROVE IInv'
<1>1. pruner'.list = {} /\ UNCHANGED <<diskVars, gameVars, now, job, made>>
  BY DEF PruneEnds, NoPruner
<1>2. Shape' /\ SavesInv' /\ PruneInv'
  BY <1>1, SavesKept, PruneKept DEF IInv, Shape, Owes, diskVars, gameVars
<1>3. CalmInv'
  BY <1>1 DEF IInv, CalmInv, Even, diskVars, gameVars
<1> QED BY <1>2, <1>3 DEF IInv

(* Both steps of a restore. *)
LEMMA MoveInv ==
  ASSUME IInv, job' = Disturbed(job), home' \in {home, FALSE},
         UNCHANGED <<archives, partial, server, saves, pipe, now, pruner, made>>
  PROVE  IInv'
<1>1. JobOK(job') /\ ~job'.calm /\ job'.at = job.at /\ job'.wasUp = job.wasUp
  BY DisturbedOK DEF IInv, Shape
<1>2. Shape' /\ SavesInv' /\ PruneInv'
  BY <1>1 DEF IInv, Shape, SavesInv, Owes, PruneInv
<1> QED BY <1>1, <1>2, Uncalm DEF IInv

LEMMA CrashInv == ASSUME IInv, Crash PROVE IInv'
<1>1. JobOK(job') /\ job'.at = "none" /\ pruner'.list = {}
  BY DEF Crash, JobOK, NoJob, JobAt, NoPruner
<1>2. Shape'
  BY <1>1 DEF IInv, Crash, Shape
<1>3. SavesInv'
  BY HealsEmpty DEF Crash, SavesInv
<1>4. PruneInv'
  BY <1>1, PruneKept DEF IInv, Crash
<1> QED BY <1>1, <1>2, <1>3, <1>4, Outside DEF IInv

LEMMA TickInv == ASSUME IInv, Tick PROVE IInv'
<1>1. now' \in Times /\ UNCHANGED <<diskVars, gameVars, job, pruner, made>>
  BY BackupsAssumption DEF Tick, IInv, Shape, Times
<1>2. Shape' /\ SavesInv' /\ PruneInv'
  BY <1>1, SavesKept, PruneKept DEF IInv, Shape, Owes, diskVars, gameVars
<1>3. CalmInv'
  BY <1>1 DEF IInv, CalmInv, Even, diskVars, gameVars
<1> QED BY <1>2, <1>3 DEF IInv

LEMMA NextInv == IInv /\ [Next]_vars => IInv'
<1> SUFFICES ASSUME IInv, [Next]_vars PROVE IInv'
  OBVIOUS
<1>1. CASE GameStep
  BY <1>1, StartInv, ReadyInv, AutosaveInv, QuitInv, ReadInv, OperatorSaveInv DEF GameStep
<1>2. CASE JobStep
  BY <1>2, CheckInv, AskSaveOffInv, AskFlushInv, ListenInv, TimeoutInv, OpenInv, ArchivePartInv,
     ArchiveFailsInv, ArchiveDoneInv, ResumeInv, EndInv DEF JobStep
<1>3. CASE PruneStep
  <2>1. ASSUME NEW t \in Times, PruneDelete(t) PROVE IInv'
    <3>1. pruner'.list \subseteq pruner.list
      BY <2>1 DEF PruneDelete, NoPruner
    <3> QED BY <2>1, <3>1, RemoveInv DEF PruneDelete
  <2> QED BY <1>3, <2>1, PruneListInv, PruneEndsInv DEF PruneStep
<1>4. ASSUME NEW keep \in BOOLEAN, CreateBackup(keep) PROVE IInv'
  BY <1>4, CreateInv
<1>5. ASSUME NEW t \in Times, DeleteBackup(t) PROVE IInv'
  BY <1>5, RemoveInv DEF DeleteBackup
<1>6. ASSUME NEW t \in Times, MoveAside(t) PROVE IInv'
  BY <1>6, MoveInv DEF MoveAside
<1>7. CASE SwapIn
  BY <1>7, MoveInv DEF SwapIn, gameVars
<1>8. CASE UNCHANGED vars
  <2>1. Shape' /\ SavesInv' /\ PruneInv'
    BY <1>8, SavesKept, PruneKept DEF vars, IInv, Shape, Owes, diskVars, gameVars
  <2>2. CalmInv'
    BY <1>8 DEF vars, IInv, CalmInv, Even, diskVars, gameVars
  <2> QED BY <2>1, <2>2 DEF IInv
<1> QED BY <1>1, <1>2, <1>3, <1>4, <1>5, <1>6, <1>7, <1>8, CrashInv, TickInv DEF Next

LEMMA Invariance == Spec => []IInv
BY InitInv, NextInv, PTL DEF Spec

-----------------------------------------------------------------------------
(* However a backup ends and whatever happens to the server meanwhile, a   *)
(* running game whose console is read saves on its own again (the deferred *)
(* save-on of CreateBackup).                                               *)
THEOREM SavesCorrect == Spec => []SavesAreBack
<1>1. IInv => SavesAreBack
  <2> SUFFICES ASSUME IInv, job.at = "none", pipe = <<>> PROVE saves
    BY DEF SavesAreBack
  <2>1. Heals(saves, <<>>)
    BY DEF IInv, SavesInv, Owes
  <2>2. 0 \in 0..Len(<<>>) /\ \A j \in 0 + 1..Len(<<>>) : FALSE
    OBVIOUS
  <2> QED BY <2>1, <2>2 DEF Heals
<1> QED BY <1>1, Invariance, PTL

(* Retention only deletes what Keep newer backups were finished after, for *)
(* any number of schedules, manual deletions and failures (PruneBackups).  *)
THEOREM RetentionCorrect == Spec => []PruneKeepsNewest
<1>1. IInv => PruneKeepsNewest
  BY DEF IInv, PruneInv, PruneKeepsNewest
<1> QED BY <1>1, Invariance, PTL

(* The archive of a job that heard its own flush and was not disturbed     *)
(* holds one save of the world, whatever else was going on before.         *)
THEOREM CalmCorrect == Spec => []CalmArchiveIsEven
<1>1. IInv => CalmArchiveIsEven
  <2> SUFFICES ASSUME IInv, job.at = "archive", job.todo = {}, job.calm, job.wasUp
               PROVE  Even(partial)
    BY DEF CalmArchiveIsEven
  <2>1. job.todo # Parts
    BY BackupsAssumption
  <2>2. Even(live) /\ \A q \in Parts : partial[q] = live[q]
    BY <2>1 DEF IInv, CalmInv
  <2> QED BY <2>2 DEF Even
<1> QED BY <1>1, Invariance, PTL

-----------------------------------------------------------------------------
(* The contents of directories and archives *)

(* A set of numbers has a least one, since < is well-founded. *)
LEMMA LeastNumber ==
  ASSUME NEW T, T \subseteq Nat, T # {}
  PROVE  \E x \in T : \A y \in T : x <= y
<1> DEFINE R == {ss \in Nat \X Nat : ss[1] < ss[2]}
<1>1. IsWellFoundedOn(R, Nat)
  BY NatLessThanWellFounded DEF OpToRel
<1>2. \A x, y \in Nat : y < x => <<y, x>> \in R
  OBVIOUS
<1> HIDE DEF R
<1>3. PICK x \in T : \A y \in T : ~(<<y, x>> \in R)
  BY <1>1, WFMin
<1>4. ASSUME NEW y \in T PROVE x <= y
  <2>1. x \in Nat /\ y \in Nat
    OBVIOUS
  <2>2. ~(y < x)
    BY <1>2, <1>3, <2>1
  <2> QED BY <2>1, <2>2
<1> QED BY <1>4

(* The newest save of a directory is one of its saves: the least bound of a *)
(* finite set is reached.                                                  *)
LEMMA NewestSave ==
  ASSUME NEW d \in Dir
  PROVE  Newest(d) \in 0..MaxSave
<1> DEFINE T == {n \in Nat : \A p \in Parts : d[p] <= n}
<1>1. MaxSave \in Nat /\ FirstPart \in Parts /\ \A p \in Parts : d[p] \in 0..MaxSave
  BY BackupsAssumption DEF Dir
<1>2. MaxSave \in T
  BY <1>1
<1>3. PICK n \in T : \A m \in T : n <= m
  BY <1>2, LeastNumber
<1>4. \E p \in Parts : d[p] = n
  <2> SUFFICES ASSUME \A p \in Parts : d[p] # n PROVE FALSE
    OBVIOUS
  <2>1. \A p \in Parts : d[p] <= n - 1 /\ n - 1 \in Nat
    BY <1>1
  <2>2. n - 1 \in T
    BY <1>1, <2>1
  <2> QED BY <1>3, <2>2
<1>5. \E k \in {d[p] : p \in Parts} : \A p \in Parts : d[p] <= k
  BY <1>4
<1>6. Newest(d) \in {d[p] : p \in Parts}
  BY <1>5 DEF Newest
<1> QED BY <1>1, <1>6

LEMMA WholeWorld == ASSUME NEW d \in Dir PROVE [p \in Parts |-> Newest(d)] \in Dir
BY NewestSave DEF Dir

(* What a job is writing is there, so that what it finishes is an archive. *)
Written == job.at = "archive" => partial \in Dir

DiskOK ==
  /\ live \in Dir \cup {None} /\ incoming \in Dir \cup {None} /\ partial \in Dir \cup {None}
  /\ archives \in [Times -> Dir \cup {None}]
  /\ Written

ServerOK ==
  /\ server \in {"stopped", "starting", "running"} /\ home \in BOOLEAN
  /\ pruner \in [at : {"none", "watch", "delete"}, list : SUBSET Times]

LEMMA EmptyWorld == Empty \in Dir /\ [Empty EXCEPT ![FirstPart] = 1] \in Dir
<1>1. MaxSave \in Nat \ {0} /\ 0 \in 0..MaxSave /\ 1 \in 0..MaxSave
  BY BackupsAssumption
<1> QED BY <1>1 DEF Empty, Dir

(* A step that leaves the disk alone and begins no archive. *)
LEMMA DiskKept ==
  ASSUME DiskOK, UNCHANGED diskVars, job'.at = "archive" => job.at = "archive"
  PROVE  DiskOK'
BY DEF DiskOK, Written, diskVars

LEMMA WriteWorldOK ==
  ASSUME DiskOK, NEW d \in Dir, WriteWorld(d), job'.at = "archive" => job.at = "archive"
  PROVE  DiskOK'
BY DEF DiskOK, Written, WriteWorld

(* The game writes the whole of the world it has, when it is there. *)
LEMMA FlushOK ==
  ASSUME DiskOK, WriteWorld([p \in Parts |-> Newest(live)]), job'.at = "archive" => job.at = "archive"
  PROVE  DiskOK'
<1>1. CASE live = None
  BY <1>1 DEF DiskOK, Written, WriteWorld
<1>2. CASE live # None
  <2>1. [p \in Parts |-> Newest(live)] \in Dir
    BY <1>2, WholeWorld DEF DiskOK
  <2> QED BY <2>1, WriteWorldOK
<1> QED BY <1>1, <1>2

LEMMA GameDisk == ASSUME IInv, DiskOK, GameStep PROVE DiskOK'
<1> USE DEF IInv, Shape
<1>1. Disturbed(job).at = job.at
  BY DisturbedOK
<1>2. ASSUME NEW p \in Parts, Autosave(p) PROVE DiskOK'
  <2>1. live \in Dir /\ live[p] < MaxSave /\ live[p] \in 0..MaxSave /\ MaxSave \in Nat
    BY <1>2, BackupsAssumption DEF Autosave, DiskOK, Dir
  <2>2. live[p] + 1 \in 0..MaxSave
    BY <2>1
  <2>3. [live EXCEPT ![p] = @ + 1] \in Dir
    BY <2>1, <2>2 DEF Dir
  <2> QED BY <1>2, <2>3, WriteWorldOK DEF Autosave
<1>3. CASE Quit
  BY <1>1, <1>3, FlushOK, DiskKept DEF Quit
<1>4. CASE ReadCommand
  <2>1. job'.at = "archive" => job.at = "archive"
    BY <1>4 DEF ReadCommand, JobOK
  <2> QED BY <1>4, <2>1, FlushOK, DiskKept DEF ReadCommand
<1>5. CASE Start \/ Ready \/ OperatorSave
  BY <1>1, <1>5, DiskKept DEF Start, Ready, OperatorSave
<1> QED BY <1>2, <1>3, <1>4, <1>5 DEF GameStep

LEMMA JobDisk == ASSUME IInv, DiskOK, JobStep PROVE DiskOK'
<1>0. JobOK(job)
  BY DEF IInv, Shape
<1>1. CASE CheckRunning \/ AskSaveOff \/ AskFlush \/ Listen \/ WaitTimesOut \/ ResumeSaves \/ EndJob
  <2>1. UNCHANGED diskVars
    BY <1>1 DEF CheckRunning, AskSaveOff, AskFlush, Listen, WaitTimesOut, ResumeSaves, EndJob
  <2>2. ASSUME CheckRunning \/ EndJob PROVE job'.at # "archive"
    <3>1. CASE EndJob
      BY <3>1 DEF EndJob, NoJob
    <3>2. CASE CheckRunning
      <4>1. job'.at = IF server = "running" THEN "save-off" ELSE "open"
        BY <1>0, <3>2 DEF CheckRunning, JobOK
      <4> QED BY <4>1
    <3> QED BY <2>2, <3>1, <3>2
  <2>3. ASSUME AskSaveOff \/ AskFlush \/ Listen \/ WaitTimesOut \/ ResumeSaves
        PROVE  job'.at # "archive"
    BY <1>0, <2>3 DEF AskSaveOff, AskFlush, Listen, WaitTimesOut, ResumeSaves, JobOK
  <2> QED BY <1>1, <2>1, <2>2, <2>3, DiskKept
<1>2. CASE OpenArchive
  BY <1>2, EmptyWorld DEF OpenArchive, DiskOK, Written
<1>3. ASSUME NEW p \in Parts, ArchivePart(p) PROVE DiskOK'
  <2>1. live \in Dir /\ partial \in Dir
    BY <1>3 DEF ArchivePart, DiskOK, Written
  <2>2. partial' \in Dir
    BY <1>3, <2>1 DEF ArchivePart, Dir
  <2> QED BY <1>3, <2>2 DEF ArchivePart, DiskOK, Written
<1>4. CASE ArchiveFails
  BY <1>0, <1>4 DEF ArchiveFails, DiskOK, Written, JobOK
<1>5. CASE ArchiveDone
  <2>1. archives' \in [Times -> Dir \cup {None}]
    BY <1>5 DEF ArchiveDone, DiskOK, Written
  <2>2. job'.at # "archive"
    BY <1>0, <1>5 DEF ArchiveDone, JobOK
  <2> QED BY <1>5, <2>1, <2>2 DEF ArchiveDone, DiskOK, Written
<1> QED BY <1>1, <1>2, <1>3, <1>4, <1>5 DEF JobStep

LEMMA DiskNext == ASSUME IInv, DiskOK, [Next]_vars PROVE DiskOK'
<1>1. Disturbed(job).at = job.at
  BY DisturbedOK DEF IInv, Shape
<1>2. ASSUME NEW t \in Times, PruneDelete(t) \/ DeleteBackup(t) PROVE DiskOK'
  BY <1>2 DEF PruneDelete, DeleteBackup, DiskOK, Written
<1>3. ASSUME NEW t \in Times, MoveAside(t) PROVE DiskOK'
  BY <1>1, <1>3 DEF MoveAside, DiskOK, Written
<1>4. CASE SwapIn
  BY <1>1, <1>4 DEF SwapIn, DiskOK, Written
<1>5. CASE Crash
  BY <1>5 DEF Crash, NoJob, DiskOK, Written
<1>6. CASE Tick \/ PruneList \/ PruneEnds \/ UNCHANGED vars
  BY <1>6, DiskKept DEF Tick, PruneList, PruneEnds, vars
<1>7. ASSUME NEW keep \in BOOLEAN, CreateBackup(keep) PROVE DiskOK'
  BY <1>7, DiskKept DEF CreateBackup, NoJob
<1> QED BY <1>2, <1>3, <1>4, <1>5, <1>6, <1>7, GameDisk, JobDisk DEF Next, PruneStep

LEMMA ServerNext == ASSUME ServerOK, [Next]_vars PROVE ServerOK'
<1> USE DEF ServerOK, gameVars
<1>1. CASE GameStep
  BY <1>1 DEF GameStep, Start, Ready, Autosave, Quit, ReadCommand, OperatorSave
<1>2. CASE JobStep
  BY <1>2 DEF JobStep, CheckRunning, AskSaveOff, AskFlush, Listen, WaitTimesOut, OpenArchive, ArchivePart,
     ArchiveFails, ArchiveDone, ResumeSaves, EndJob, jobOnly, NoPruner
<1>3. CASE PruneStep
  BY <1>3 DEF PruneStep, PruneList, PruneDelete, PruneEnds, Beyond, NoPruner
<1>4. ASSUME NEW keep \in BOOLEAN, CreateBackup(keep) PROVE ServerOK'
  BY <1>4 DEF CreateBackup, NoPruner
<1>5. ASSUME NEW t \in Times, DeleteBackup(t) \/ MoveAside(t) PROVE ServerOK'
  BY <1>5 DEF DeleteBackup, MoveAside
<1>6. CASE Tick \/ SwapIn \/ Crash \/ UNCHANGED vars
  <2>1. CASE Tick \/ SwapIn \/ UNCHANGED vars
    BY <2>1 DEF Tick, SwapIn, vars
  <2>2. CASE Crash
    BY <2>2 DEF Crash, NoPruner
  <2> QED BY <1>6, <2>1, <2>2
<1> QED BY <1>1, <1>2, <1>3, <1>4, <1>5, <1>6 DEF Next

(* Every archive holds, for every file, a save of the world, and so does   *)
(* the server directory whenever it is there, whatever is interrupted.     *)
THEOREM TypeCorrect == Spec => []TypeOK
<1>1. Init => DiskOK /\ ServerOK
  BY EmptyWorld DEF Init, DiskOK, Written, ServerOK, NoJob, NoPruner
<1>2. IInv /\ DiskOK /\ ServerOK /\ [Next]_vars => DiskOK' /\ ServerOK'
  BY DiskNext, ServerNext
<1>3. IInv /\ DiskOK /\ ServerOK => TypeOK
  BY DEF IInv, Shape, JobOK, PruneInv, DiskOK, ServerOK, TypeOK
<1> QED BY <1>1, <1>2, <1>3, Invariance, PTL DEF Spec

=============================================================================
