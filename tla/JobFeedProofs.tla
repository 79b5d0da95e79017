--------------------------- MODULE JobFeedProofs ---------------------------
(***************************************************************************)
(* The job runner and what browsers see of it, for any number of jobs,     *)
(* goroutines and browsers and for queues of any length.                   *)
(*                                                                         *)
(* The argument for the view: whenever the list changes, a goroutine is    *)
(* spawned that has yet to take it.  When none is, and the latest list was *)
(* not taken while another was unpublished, then either that list is the   *)
(* one still to be published, or everybody who did not miss it has it last *)
(* in the queue, or shows it.                                              *)
(***************************************************************************)
EXTENDS JobFeed, SequenceTheorems, TLAPS

RecentIsRecorded == \A i \in 1..Len(recent) : job[recent[i]] \in Outcomes

RunnerInv == RunnerTypeOK /\ OneAtATime /\ CancelIsRecorded /\ RecentIsRecorded
               /\ HistoryIsRecent

AwayIsEmpty == \A b \in Browsers : browser[b] = "away" => queue[b] = <<>>

Alone == ~overlapped =>
           \A m, n \in Notices : notice[m].at = "listed" /\ notice[n].at = "listed" => m = n

NoneSpawned == \A n \in Notices : notice[n].at # "spawned"
NoneListed == \A n \in Notices : notice[n].at # "listed"

\* The last list b has, shown or still in its queue, is the list of now.
HasList(b) ==
  /\ queue[b] # <<>> => queue[b][Len(queue[b])] = List
  /\ queue[b] = <<>> /\ browser[b] = "open" => view[b] = List

Carried ==
  NoneSpawned /\ ~overlapped =>
    /\ \A n \in Notices : notice[n].at = "listed" => notice[n].list = List
    /\ NoneListed => \A b \in Browsers \ missed : HasList(b)

IInv == TypeOK /\ RunnerInv /\ AwayIsEmpty /\ Alone /\ Carried

-----------------------------------------------------------------------------
(* The runner *)

LEMMA InitRunner == RunnerInit => RunnerInv
BY RunnerAssumption
DEF RunnerInit, RunnerInv, RunnerTypeOK, OneAtATime, CancelIsRecorded, RecentIsRecorded,
    HistoryIsRecent, Unrecorded, Outcomes

LEMMA RecentType ==
  ASSUME RunnerTypeOK
  PROVE  Len(recent) \in Nat /\ \A i \in 1..Len(recent) : recent[i] \in Jobs
BY LenProperties, ElementOfSeq DEF RunnerTypeOK

(* A step that records no end. *)
LEMMA NoEndRunner ==
  ASSUME RunnerInv, NEW j \in Jobs, Start(j) \/ Return(j) \/ Cancel(j)
  PROVE  RunnerInv'
<1> USE DEF RunnerInv
<1>1. /\ RunnerTypeOK'
      /\ OneAtATime'
      /\ CancelIsRecorded'
      /\ \A k \in Jobs : job[k] \in Outcomes => job'[k] \in Outcomes
  <2>1. CASE Start(j)
    BY <2>1, RunnerAssumption
    DEF Start, RunnerTypeOK, OneAtATime, CancelIsRecorded, Unrecorded, Outcomes
  <2>2. CASE Return(j)
    BY <2>2, RunnerAssumption
    DEF Return, RunnerTypeOK, OneAtATime, CancelIsRecorded, Unrecorded, Outcomes
  <2>3. CASE Cancel(j)
    BY <2>3, RunnerAssumption
    DEF Cancel, RunnerTypeOK, OneAtATime, CancelIsRecorded, Unrecorded, Outcomes
  <2> QED  BY <2>1, <2>2, <2>3
<1>2. recent' = recent /\ ended' = ended
  BY DEF Start, Return, Cancel
<1>3. RecentIsRecorded'
  BY <1>1, <1>2, RecentType DEF RecentIsRecorded
<1>4. HistoryIsRecent'
  BY <1>2 DEF HistoryIsRecent
<1> QED  BY <1>1, <1>3, <1>4

(* What one more job makes of the history. *)
LEMMA Trimming ==
  ASSUME NEW s \in Seq(Jobs), Len(s) <= MaxRecent, NEW j \in Jobs
  PROVE  LET t == Trimmed(Append(s, j))
         IN  /\ t \in Seq(Jobs)
             /\ Len(s) < MaxRecent => t = Append(s, j)
             /\ Len(s) = MaxRecent =>
                  /\ Len(t) = MaxRecent
                  /\ \A i \in 1..MaxRecent : t[i] = Append(s, j)[i + 1]
<1> DEFINE a == Append(s, j)
<1>1. /\ a \in Seq(Jobs) /\ Len(a) = Len(s) + 1 /\ Len(s) \in Nat
      /\ \A i \in 1..Len(a) : a[i] \in Jobs
  BY AppendProperties, LenProperties, ElementOfSeq
<1> HIDE DEF a
<1>2. CASE Len(s) < MaxRecent
  BY <1>1, <1>2, RunnerAssumption DEF Trimmed, a
<1>3. CASE Len(s) = MaxRecent
  <2>1. Trimmed(a) = SubSeq(a, 2, Len(a))
    BY <1>1, <1>3, RunnerAssumption DEF Trimmed
  <2>2. /\ SubSeq(a, 2, Len(a)) \in Seq(Jobs)
        /\ Len(SubSeq(a, 2, Len(a))) = Len(a) - 1
        /\ \A i \in 1..Len(a) - 1 : SubSeq(a, 2, Len(a))[i] = a[i + 1]
    <3>1. 2 \in Int /\ Len(a) \in Int /\ 2 <= Len(a) /\ \A i \in 2..Len(a) : a[i] \in Jobs
      BY <1>1, <1>3, RunnerAssumption
    <3>2. /\ SubSeq(a, 2, Len(a)) \in Seq(Jobs)
          /\ Len(SubSeq(a, 2, Len(a))) = IF 2 <= Len(a) THEN Len(a) - 2 + 1 ELSE 0
          /\ \A i \in 1..Len(a) - 2 + 1 : SubSeq(a, 2, Len(a))[i] = a[2 + i - 1]
      BY <3>1, SubSeqProperties
    <3>3. Len(a) - 2 + 1 = Len(a) - 1 /\ \A i \in 1..Len(a) - 1 : 2 + i - 1 = i + 1
      BY <3>1
    <3> QED  BY <3>1, <3>2, <3>3
  <2>3. Len(a) - 1 = MaxRecent
    BY <1>1, <1>3
  <2> QED  BY <1>3, <2>1, <2>2, <2>3, RunnerAssumption DEF a
<1>4. Len(s) < MaxRecent \/ Len(s) = MaxRecent
  BY <1>1, RunnerAssumption
<1> QED  BY <1>2, <1>3, <1>4

LEMMA EndHistory ==
  ASSUME RunnerTypeOK, HistoryIsRecent, NEW j \in Jobs, End(j)
  PROVE  /\ recent' \in Seq(Jobs) /\ Len(recent') <= MaxRecent
         /\ ended' \in Seq(Jobs)
         /\ HistoryIsRecent'
         /\ \A i \in 1..Len(recent') :
              recent'[i] = j \/ \E k \in 1..Len(recent) : recent'[i] = recent[k]
<1> DEFINE k == Len(recent)
           n == Len(ended)
           a == Append(recent, j)
           o == Append(ended, j)
<1>1. /\ recent' = Trimmed(a) /\ ended' = o
      /\ recent \in Seq(Jobs) /\ ended \in Seq(Jobs) /\ k <= MaxRecent
      /\ k \in Nat /\ n \in Nat /\ k <= n
      /\ k < MaxRecent => k = n
      /\ \A i \in 1..k : recent[i] = ended[n - k + i]
  BY LenProperties DEF End, RunnerTypeOK, HistoryIsRecent
<1>2. /\ a \in Seq(Jobs) /\ Len(a) = k + 1
      /\ \A i \in 1..k : a[i] = recent[i]
      /\ a[k + 1] = j
      /\ o \in Seq(Jobs) /\ Len(o) = n + 1
      /\ \A i \in 1..n : o[i] = ended[i]
      /\ o[n + 1] = j
  BY <1>1, AppendProperties
<1>3. /\ Trimmed(a) \in Seq(Jobs)
      /\ k < MaxRecent => Trimmed(a) = a
      /\ k = MaxRecent => /\ Len(Trimmed(a)) = MaxRecent
                          /\ \A i \in 1..MaxRecent : Trimmed(a)[i] = a[i + 1]
  BY <1>1, Trimming
<1> HIDE DEF k, n, a, o
<1>4. \A i \in 1..k + 1 : a[i] = o[n - k + i]
  <2> SUFFICES ASSUME NEW i \in 1..k + 1 PROVE a[i] = o[n - k + i]
    OBVIOUS
  <2>1. CASE i \in 1..k
    <3>1. n - k + i \in 1..n
      BY <1>1, <2>1
    <3> QED  BY <1>1, <1>2, <2>1, <3>1
  <2>2. CASE i = k + 1
    <3>1. n - k + i = n + 1
      BY <1>1, <2>2
    <3> QED  BY <1>2, <2>2, <3>1
  <2> QED  BY <1>1, <2>1, <2>2
<1>5. \A i \in 1..k + 1 : a[i] = j \/ \E m \in 1..k : a[i] = recent[m]
  <2> SUFFICES ASSUME NEW i \in 1..k + 1 PROVE a[i] = j \/ \E m \in 1..k : a[i] = recent[m]
    OBVIOUS
  <2>1. i \in 1..k \/ i = k + 1
    BY <1>1
  <2> QED  BY <1>2, <2>1
<1>6. CASE k < MaxRecent
  <2>1. recent' = a /\ Len(recent') = k + 1 /\ Len(ended') = k + 1 /\ k + 1 <= MaxRecent
    BY <1>1, <1>2, <1>3, <1>6, RunnerAssumption
  <2>2. n - k = 0 /\ Len(ended') - Len(recent') = 0
    BY <1>1, <1>6, <2>1
  <2>3. \A i \in 1..Len(recent') : recent'[i] = ended'[Len(ended') - Len(recent') + i]
    BY <1>1, <1>4, <2>1, <2>2
  <2>4. HistoryIsRecent'
    BY <1>1, <2>1, <2>3 DEF HistoryIsRecent
  <2> QED  BY <1>1, <1>2, <1>3, <1>5, <1>6, <2>1, <2>4 DEF k
<1>7. CASE k = MaxRecent
  <2>1. /\ Len(recent') = MaxRecent
        /\ \A i \in 1..MaxRecent : recent'[i] = a[i + 1]
    BY <1>1, <1>3, <1>7
  <2>2. MaxRecent \in Nat
    BY RunnerAssumption
  <2>3. \A i \in 1..MaxRecent : i + 1 \in 1..k + 1
    BY <1>7, <2>2
  <2>4. \A i \in 1..MaxRecent : n - k + (i + 1) = (n + 1) - MaxRecent + i
    BY <1>1, <1>7, <2>2
  <2>5. Len(ended') = n + 1
    BY <1>1, <1>2
  <2>6. \A i \in 1..MaxRecent : recent'[i] = ended'[(n + 1) - MaxRecent + i]
    <3> SUFFICES ASSUME NEW i \in 1..MaxRecent
                 PROVE  recent'[i] = o[(n + 1) - MaxRecent + i]
      BY <1>1
    <3>1. recent'[i] = a[i + 1] /\ i + 1 \in 1..k + 1
      BY <2>1, <2>3
    <3>2. a[i + 1] = o[n - k + (i + 1)]
      BY <1>4, <3>1
    <3> QED  BY <2>4, <3>1, <3>2
  <2>7. MaxRecent <= n + 1
    BY <1>1, <1>7, <2>2
  <2>8. HistoryIsRecent'
    BY <2>1, <2>2, <2>5, <2>6, <2>7 DEF HistoryIsRecent
  <2>9. \A i \in 1..MaxRecent : recent'[i] = j \/ \E m \in 1..k : recent'[i] = recent[m]
    BY <1>5, <2>1, <2>3
  <2>10. recent' \in Seq(Jobs) /\ ended' \in Seq(Jobs) /\ Len(recent') <= MaxRecent
    BY <1>1, <1>2, <1>3, <2>1, <2>2
  <2> QED  BY <2>1, <2>8, <2>9, <2>10 DEF k
<1>8. k < MaxRecent \/ k = MaxRecent
  BY <1>1, RunnerAssumption
<1> QED  BY <1>6, <1>7, <1>8

LEMMA EndRunner ==
  ASSUME RunnerInv, NEW j \in Jobs, End(j)
  PROVE  RunnerInv'
<1> USE DEF RunnerInv
<1>1. /\ recent' \in Seq(Jobs) /\ Len(recent') <= MaxRecent
      /\ ended' \in Seq(Jobs)
      /\ HistoryIsRecent'
      /\ \A i \in 1..Len(recent') :
           recent'[i] = j \/ \E k \in 1..Len(recent) : recent'[i] = recent[k]
  BY EndHistory
<1>2. Outcome(j) \in Outcomes
  BY DEF Outcome, Outcomes
<1>3. RunnerTypeOK'
  BY <1>1, <1>2 DEF End, RunnerTypeOK
<1>4. OneAtATime'
  BY <1>2, RunnerAssumption DEF End, OneAtATime, RunnerTypeOK, Unrecorded, Outcomes
<1>5. CancelIsRecorded'
  BY DEF End, CancelIsRecorded, RunnerTypeOK, Outcome, Outcomes, Unrecorded
<1>6. RecentIsRecorded'
  <2> SUFFICES ASSUME NEW i \in 1..Len(recent') PROVE job'[recent'[i]] \in Outcomes
    BY DEF RecentIsRecorded
  <2>1. /\ job' = [job EXCEPT ![j] = Outcome(j)]
        /\ job \in [Jobs -> {"new"} \cup Unrecorded \cup Outcomes]
    BY DEF End, RunnerTypeOK
  <2> QED  BY <1>1, <1>2, <2>1, RecentType DEF RecentIsRecorded
<1> QED  BY <1>1, <1>3, <1>4, <1>5, <1>6

-----------------------------------------------------------------------------
(* The list *)

LEMMA ListType == RunnerInv => List \in Lists
<1> SUFFICES ASSUME RunnerInv PROVE List \in Lists
  OBVIOUS
<1> USE DEF RunnerInv
<1> DEFINE R == [id : Jobs, state : {"running"} \cup Outcomes]
           now == IF current = None THEN <<>> ELSE <<Shown(current)>>
           past == [i \in 1..Len(recent) |-> Shown(recent[Len(recent) + 1 - i])]
<1>1. current # None => Shown(current) \in R
  BY DEF RunnerTypeOK, OneAtATime, Shown
<1>2. now \in Seq(R)
  <2>1. <<>> \in Seq(R)
    BY EmptySeq
  <2>2. \A r \in R : <<r>> \in Seq(R)
    <3> HIDE DEF R
    <3> QED  OBVIOUS
  <2>3. now = <<>> \/ (current # None /\ now = <<Shown(current)>>)
    OBVIOUS
  <2> HIDE DEF R, now
  <2> QED  BY <1>1, <2>1, <2>2, <2>3
<1>3. Len(recent) \in Nat /\ \A i \in 1..Len(recent) : recent[i] \in Jobs
  BY LenProperties, ElementOfSeq DEF RunnerTypeOK
<1>4. \A i \in 1..Len(recent) : Shown(recent[i]) \in R
  BY <1>3 DEF RecentIsRecorded, Shown, Unrecorded, Outcomes
<1>5. \A i \in 1..Len(recent) : Shown(recent[Len(recent) + 1 - i]) \in R
  BY <1>3, <1>4
<1>6. past \in Seq(R)
  BY <1>3, <1>5
<1>7. now \o past \in Seq(R)
  BY <1>2, <1>6, ConcatProperties
<1> QED  BY <1>7 DEF List, Lists

(* Only a start or an end changes what List returns. *)
LEMMA OperateKeepsList ==
  ASSUME RunnerInv, NEW j \in Jobs, Return(j) \/ Cancel(j)
  PROVE  List' = List
<1>1. current' = current /\ recent' = recent
  BY DEF Return, Cancel
<1>2. \A k \in Jobs : Shown(k)' = Shown(k)
  BY DEF Return, Cancel, Shown, Unrecorded, RunnerInv, RunnerTypeOK
<1>3. current # None => Shown(current)' = Shown(current)
  BY <1>1, <1>2 DEF RunnerInv, RunnerTypeOK, Shown
<1>4. Len(recent) \in Nat /\ \A i \in 1..Len(recent) : recent[i] \in Jobs
  BY LenProperties, ElementOfSeq DEF RunnerInv, RunnerTypeOK
<1>5. [i \in 1..Len(recent) |-> Shown(recent[Len(recent) + 1 - i])]'
        = [i \in 1..Len(recent) |-> Shown(recent[Len(recent) + 1 - i])]
  <2>1. \A i \in 1..Len(recent) : Len(recent) + 1 - i \in 1..Len(recent)
    BY <1>4
  <2>2. \A i \in 1..Len(recent) :
          Shown(recent[Len(recent) + 1 - i])' = Shown(recent[Len(recent) + 1 - i])
    BY <1>1, <1>2, <1>4, <2>1 DEF Shown
  <2> QED  BY <1>1, <2>2
<1> QED  BY <1>1, <1>3, <1>5 DEF List

-----------------------------------------------------------------------------
(* The feed *)

LEMMA InitFeed == Init => IInv
<1> SUFFICES ASSUME Init PROVE IInv
  OBVIOUS
<1>1. RunnerInv
  BY InitRunner DEF Init
<1>2. <<>> \in Lists /\ <<>> \in Seq(Lists) /\ Len(<<>>) = 0
  BY EmptySeq DEF Lists
<1>3. TypeOK
  <2>1. NoNotice \in [at : {"idle", "spawned", "listed"}, list : Lists]
    BY <1>2 DEF NoNotice
  <2>2. \A b \in Browsers : Len(queue[b]) <= Buffer
    BY <1>2, BufferAssumption DEF Init
  <2> QED  BY <1>1, <1>2, <2>1, <2>2 DEF Init, TypeOK, RunnerInv
<1>4. List = <<>>
  <2>1. [i \in 1..Len(recent) |-> Shown(recent[Len(recent) + 1 - i])] = <<>>
    BY DEF Init, RunnerInit
  <2> QED  BY <2>1 DEF Init, RunnerInit, List
<1> QED  BY <1>1, <1>3, <1>4 DEF Init, IInv, AwayIsEmpty, Alone, Carried, NoNotice, HasList

(* A start or an end: somebody has yet to take the new list. *)
LEMMA SpawnStep ==
  ASSUME IInv, NEW j \in Jobs, NEW n \in Notices, StartJob(j, n) \/ EndJob(j, n)
  PROVE  IInv'
<1>1. RunnerInv'
  BY NoEndRunner, EndRunner DEF IInv, StartJob, EndJob
<1>2. Spawn(n)
  BY DEF StartJob, EndJob
<1>3. TypeOK'
  BY <1>1, <1>2 DEF IInv, TypeOK, RunnerInv, Spawn
<1>4. AwayIsEmpty'
  BY <1>2 DEF IInv, AwayIsEmpty, Spawn
<1>5. notice'[n].at = "spawned"
  BY <1>2 DEF Spawn, IInv, TypeOK
<1>6. Alone'
  BY <1>2 DEF IInv, TypeOK, Alone, Spawn
<1>7. Carried'
  BY <1>5 DEF Carried, NoneSpawned
<1> QED  BY <1>1, <1>3, <1>4, <1>6, <1>7 DEF IInv

LEMMA OperateStep ==
  ASSUME IInv, NEW j \in Jobs, Operate(j)
  PROVE  IInv'
<1>1. RunnerInv' /\ List' = List
  BY NoEndRunner, OperateKeepsList DEF IInv, Operate
<1>2. UNCHANGED feedVars
  BY DEF Operate
<1> QED
  BY <1>1, <1>2
  DEF IInv, TypeOK, RunnerInv, feedVars, AwayIsEmpty, Alone, Carried, NoneSpawned, NoneListed,
      HasList

(* Any other step leaves the runner alone. *)
LEMMA RunnerUnchanged ==
  ASSUME RunnerInv, UNCHANGED runnerVars
  PROVE  RunnerInv' /\ List' = List
BY DEF RunnerInv, runnerVars, RunnerTypeOK, OneAtATime, CancelIsRecorded, RecentIsRecorded,
       HistoryIsRecent, List, Shown

LEMMA TakeListStep ==
  ASSUME IInv, NEW n \in Notices, TakeList(n)
  PROVE  IInv'
<1>1. RunnerInv' /\ List' = List
  BY RunnerUnchanged DEF IInv, TakeList
<1>2. List \in Lists
  BY ListType DEF IInv
<1>3. /\ notice' = [notice EXCEPT ![n] = [at |-> "listed", list |-> List]]
      /\ notice[n].at = "spawned"
      /\ overlapped' = \E m \in Notices \ {n} : notice[m].at = "listed"
      /\ UNCHANGED <<browser, queue, view, missed>>
  BY DEF TakeList
<1>4. TypeOK'
  BY <1>1, <1>2, <1>3 DEF IInv, TypeOK, RunnerInv
<1>5. AwayIsEmpty'
  BY <1>3 DEF IInv, AwayIsEmpty
<1>6. /\ notice'[n] = [at |-> "listed", list |-> List]
      /\ \A m \in Notices \ {n} : notice'[m] = notice[m]
  BY <1>3 DEF IInv, TypeOK
<1>7. Alone'
  BY <1>3, <1>6 DEF Alone
<1>8. Carried'
  BY <1>1, <1>3, <1>6 DEF Carried, NoneListed
<1> QED  BY <1>1, <1>4, <1>5, <1>7, <1>8 DEF IInv

LEMMA PublishStep ==
  ASSUME IInv, NEW n \in Notices, Publish(n)
  PROVE  IInv'
<1>1. RunnerInv' /\ List' = List
  BY RunnerUnchanged DEF IInv, Publish
<1>2. /\ notice[n].at = "listed"
      /\ notice' = [notice EXCEPT ![n] = NoNotice]
      /\ queue' = [b \in Browsers |-> IF b \in Subscribers /\ ~Full(b)
                                        THEN Append(queue[b], notice[n].list) ELSE queue[b]]
      /\ missed' = {b \in Subscribers : Full(b)}
      /\ UNCHANGED <<browser, view, overlapped>>
  BY DEF Publish
<1>3. /\ notice'[n] = NoNotice
      /\ \A m \in Notices \ {n} : notice'[m] = notice[m]
      /\ notice[n].list \in Lists
  BY <1>2 DEF IInv, TypeOK
<1>4. ASSUME NEW b \in Browsers, b \in Subscribers, ~Full(b)
      PROVE  /\ queue'[b] \in Seq(Lists) /\ queue'[b] # <<>>
             /\ Len(queue'[b]) = Len(queue[b]) + 1 /\ Len(queue[b]) \in Nat
             /\ queue'[b][Len(queue'[b])] = notice[n].list
  <2>1. queue'[b] = Append(queue[b], notice[n].list) /\ queue[b] \in Seq(Lists)
    BY <1>2, <1>4 DEF IInv, TypeOK
  <2> QED  BY <1>3, <2>1, AppendProperties, LenProperties
<1>5. \A b \in Browsers : queue'[b] \in Seq(Lists) /\ Len(queue'[b]) <= Buffer
  <2> SUFFICES ASSUME NEW b \in Browsers
               PROVE  queue'[b] \in Seq(Lists) /\ Len(queue'[b]) <= Buffer
    OBVIOUS
  <2>1. CASE b \in Subscribers /\ ~Full(b)
    BY <1>4, <2>1, BufferAssumption DEF Full
  <2>2. CASE ~(b \in Subscribers /\ ~Full(b))
    BY <1>2, <2>2 DEF IInv, TypeOK
  <2> QED  BY <2>1, <2>2
<1>6. TypeOK'
  <2>1. NoNotice \in [at : {"idle", "spawned", "listed"}, list : Lists]
    BY EmptySeq DEF NoNotice, Lists
  <2>2. queue' \in [Browsers -> Seq(Lists)] /\ missed' \in SUBSET Browsers
    BY <1>2, <1>5 DEF Subscribers
  <2> QED  BY <1>1, <1>2, <1>5, <2>1, <2>2 DEF IInv, TypeOK, RunnerInv
<1>7. AwayIsEmpty'
  BY <1>2 DEF IInv, AwayIsEmpty, Subscribers
<1>8. Alone'
  BY <1>2, <1>3 DEF IInv, Alone, NoNotice
<1>9. Carried'
  <2> SUFFICES ASSUME NoneSpawned', ~overlapped' PROVE
                 /\ \A m \in Notices : notice'[m].at # "listed"
                 /\ \A b \in Browsers \ missed' : HasList(b)'
    BY DEF Carried, NoneListed
  <2>1. NoneSpawned /\ ~overlapped
    BY <1>2, <1>3 DEF NoneSpawned
  <2>2. \A m \in Notices : notice'[m].at # "listed"
    BY <1>2, <1>3, <2>1 DEF IInv, Alone, NoNotice
  <2>3. notice[n].list = List
    BY <1>2, <2>1 DEF IInv, Carried
  <2>4. ASSUME NEW b \in Browsers, b \notin missed' PROVE HasList(b)'
    <3>1. CASE b \in Subscribers
      BY <1>1, <1>2, <1>4, <2>3, <2>4, <3>1 DEF HasList
    <3>2. CASE b \notin Subscribers
      BY <1>2, <1>7, <3>2 DEF HasList, Subscribers, AwayIsEmpty
    <3> QED  BY <3>1, <3>2
  <2> QED  BY <2>2, <2>4
<1> QED  BY <1>1, <1>6, <1>7, <1>8, <1>9 DEF IInv

(* What is passed on was the last in the queue, or the last stays there. *)
LEMMA LastPassedOn ==
  ASSUME NEW S, NEW q \in Seq(S), q # <<>>
  PROVE  /\ Tail(q) = <<>> => Head(q) = q[Len(q)]
         /\ Tail(q) # <<>> => Tail(q)[Len(Tail(q))] = q[Len(q)]
<1>1. Len(q) \in Nat /\ Len(q) # 0
  BY EmptySeq
<1>2. Tail(q) \in Seq(S) /\ Len(Tail(q)) = Len(q) - 1
  BY HeadTailProperties
<1>3. /\ Len(q) \in Nat \ {0} /\ Tail(q) \in Seq(S)
      /\ Len(Tail(q)) = Len(q) - 1
      /\ \A i \in 1..Len(Tail(q)) : Tail(q)[i] = q[i + 1]
  BY <1>1, HeadTailProperties
<1>4. CASE Tail(q) = <<>>
  <2>1. Len(q) - 1 = 0
    <3>1. Len(<<>>) = 0
      BY EmptySeq
    <3> QED  BY <1>2, <1>4, <3>1
  <2>2. Len(q) = 1
    BY <1>1, <2>1
  <2>3. Head(q) = q[1]
    OBVIOUS
  <2> QED  BY <1>4, <2>2, <2>3
<1>5. CASE Tail(q) # <<>>
  <2>1. Len(Tail(q)) \in Nat \ {0}
    BY <1>3, <1>5, EmptySeq
  <2>2. Len(Tail(q)) \in 1..Len(Tail(q)) /\ Len(Tail(q)) + 1 = Len(q)
    BY <1>3, <2>1
  <2> QED  BY <1>3, <1>5, <2>2
<1> QED  BY <1>4, <1>5

(* A step of one browser cannot take the list of now from anybody. *)
LEMMA BrowserStepPreserves ==
  ASSUME IInv, NEW b \in Browsers, BrowserStep(b)
  PROVE  IInv'
<1>1. RunnerInv' /\ List' = List
  BY RunnerUnchanged DEF IInv, BrowserStep, Subscribe, SendFirst, PassOn, Leave
<1>2. UNCHANGED <<notice, overlapped>> /\ missed' \subseteq missed /\ missed \ missed' \subseteq {b}
  BY DEF BrowserStep, Subscribe, SendFirst, PassOn, Leave
<1>3. \A c \in Browsers \ {b} :
        queue'[c] = queue[c] /\ browser'[c] = browser[c] /\ view'[c] = view[c]
  BY DEF IInv, TypeOK, BrowserStep, Subscribe, SendFirst, PassOn, Leave
<1>4. Alone'
  BY <1>2 DEF IInv, Alone
<1>5. CASE Subscribe(b) \/ SendFirst(b)
  <2>1. /\ queue' = queue /\ missed' = missed /\ List \in Lists
        /\ Subscribe(b) => view' = view /\ browser' = [browser EXCEPT ![b] = "subscribed"]
        /\ SendFirst(b) => /\ view' = [view EXCEPT ![b] = List]
                           /\ browser' = [browser EXCEPT ![b] = "open"]
    BY <1>5, ListType DEF IInv, Subscribe, SendFirst
  <2>2. TypeOK'
    <3>1. browser' \in [Browsers -> {"away", "subscribed", "open"}]
      BY <1>5, <2>1 DEF IInv, TypeOK
    <3>2. view' \in [Browsers -> Lists]
      BY <1>5, <2>1 DEF IInv, TypeOK
    <3> QED  BY <1>1, <1>2, <2>1, <3>1, <3>2 DEF IInv, TypeOK, RunnerInv
  <2>3. AwayIsEmpty'
    BY <1>3, <1>5, <2>1 DEF IInv, TypeOK, AwayIsEmpty
  <2>4. \A c \in Browsers : HasList(c) => HasList(c)'
    <3>1. HasList(b) => HasList(b)'
      <4>1. CASE Subscribe(b)
        BY <1>1, <2>1, <4>1 DEF IInv, TypeOK, HasList
      <4>2. CASE SendFirst(b)
        BY <1>1, <2>1, <4>2 DEF IInv, TypeOK, HasList
      <4> QED  BY <1>5, <4>1, <4>2
    <3>2. \A c \in Browsers \ {b} : HasList(c) => HasList(c)'
      BY <1>1, <1>3 DEF HasList
    <3> QED  BY <3>1, <3>2
  <2>5. Carried'
    BY <1>1, <1>2, <2>1, <2>4 DEF IInv, Carried, NoneSpawned, NoneListed
  <2> QED  BY <1>1, <1>4, <2>2, <2>3, <2>5 DEF IInv
<1>6. CASE PassOn(b)
  <2>1. /\ browser' = browser /\ missed' = missed /\ queue[b] # <<>>
        /\ queue[b] \in Seq(Lists) /\ Len(queue[b]) \in Nat \ {0}
        /\ queue'[b] = Tail(queue[b]) /\ view'[b] = Head(queue[b])
        /\ queue' = [queue EXCEPT ![b] = Tail(queue[b])]
        /\ view' = [view EXCEPT ![b] = Head(queue[b])]
        /\ browser[b] = "open"
    BY <1>6, EmptySeq DEF IInv, TypeOK, PassOn
  <2>2. /\ Head(queue[b]) \in Lists /\ Tail(queue[b]) \in Seq(Lists)
        /\ Len(Tail(queue[b])) = Len(queue[b]) - 1
        /\ \A i \in 1..Len(Tail(queue[b])) : Tail(queue[b])[i] = queue[b][i + 1]
    BY <2>1, HeadTailProperties
  <2>3. TypeOK'
    <3>1. Len(queue'[b]) <= Buffer
      BY <2>1, <2>2, BufferAssumption DEF IInv, TypeOK
    <3> QED  BY <1>1, <1>2, <1>3, <2>1, <2>2, <3>1 DEF IInv, TypeOK, RunnerInv
  <2>4. AwayIsEmpty'
    BY <1>3, <2>1 DEF IInv, AwayIsEmpty
  <2>5. HasList(b) => HasList(b)'
    BY <1>1, <2>1, LastPassedOn DEF HasList
  <2>6. \A c \in Browsers : HasList(c) => HasList(c)'
    BY <1>1, <1>3, <2>5 DEF HasList
  <2>7. Carried'
    BY <1>1, <1>2, <2>1, <2>6 DEF IInv, Carried, NoneSpawned, NoneListed
  <2> QED  BY <1>1, <1>4, <2>3, <2>4, <2>7 DEF IInv
<1>7. CASE Leave(b)
  <2>1. /\ browser' = [browser EXCEPT ![b] = "away"]
        /\ queue' = [queue EXCEPT ![b] = <<>>]
        /\ view' = [view EXCEPT ![b] = <<>>]
    BY <1>7 DEF Leave
  <2>2. <<>> \in Lists /\ <<>> \in Seq(Lists) /\ Len(<<>>) = 0
    BY EmptySeq DEF Lists
  <2>3. TypeOK'
    BY <1>1, <1>2, <2>1, <2>2, BufferAssumption DEF IInv, TypeOK, RunnerInv
  <2>4. AwayIsEmpty'
    BY <2>1 DEF IInv, TypeOK, AwayIsEmpty
  <2>5. HasList(b)'
    BY <2>1 DEF IInv, TypeOK, HasList
  <2>6. \A c \in Browsers \ {b} : HasList(c) => HasList(c)'
    BY <1>1, <1>3 DEF HasList
  <2>7. Carried'
    BY <1>1, <1>2, <2>5, <2>6 DEF IInv, Carried, NoneSpawned, NoneListed
  <2> QED  BY <1>1, <1>4, <2>3, <2>4, <2>7 DEF IInv
<1> QED  BY <1>5, <1>6, <1>7 DEF BrowserStep

-----------------------------------------------------------------------------

(* The invariant holds of every behaviour of the runner and its feed. *)
THEOREM Invariance == Spec => []IInv
<1>1. Init => IInv
  BY InitFeed
<1>2. IInv /\ [Next]_vars => IInv'
  <2> SUFFICES ASSUME IInv, [Next]_vars PROVE IInv'
    OBVIOUS
  <2>1. CASE \E j \in Jobs : JobStep(j)
    BY <2>1, SpawnStep, OperateStep DEF JobStep
  <2>2. CASE \E n \in Notices : NoticeStep(n)
    BY <2>2, TakeListStep, PublishStep DEF NoticeStep
  <2>3. CASE \E b \in Browsers : BrowserStep(b)
    BY <2>3, BrowserStepPreserves
  <2>4. CASE UNCHANGED vars
    <3>1. RunnerInv' /\ List' = List
      BY <2>4, RunnerUnchanged DEF IInv, vars
    <3> QED
      BY <2>4, <3>1
      DEF IInv, TypeOK, RunnerInv, vars, feedVars, AwayIsEmpty, Alone, Carried, NoneSpawned,
          NoneListed, HasList
  <2> QED  BY <2>1, <2>2, <2>3, <2>4 DEF Next
<1> QED  BY <1>1, <1>2, PTL DEF Spec

(* Every variable keeps its type. *)
THEOREM TypeCorrect == Spec => []TypeOK
BY Invariance, PTL DEF IInv

(* One job at a time, whatever is canceled and whenever it returns, for    *)
(* any number of jobs (jobs.go:70-116).                                    *)
THEOREM OneJob == Spec => []OneAtATime
BY Invariance, PTL DEF IInv, RunnerInv

(* An accepted Cancel is what the record says (jobs.go:93-101, 205-213). *)
THEOREM CancelCorrect == Spec => []CancelIsRecorded
BY Invariance, PTL DEF IInv, RunnerInv

(* The history is the end of all that was recorded, in order, for every    *)
(* length of the history (jobs.go:103-106).                                *)
THEOREM HistoryCorrect == Spec => []HistoryIsRecent
BY Invariance, PTL DEF IInv, RunnerInv

(* A browser that missed nothing ends with the list of now, for any number *)
(* of goroutines and browsers and any queue (main.go:117, bus.go:45-54,    *)
(* api_system.go:95-119).                                                  *)
THEOREM ViewCorrect == Spec => []SettledViewIsRight
<1>1. IInv => SettledViewIsRight
  BY DEF IInv, SettledViewIsRight, Settled, Carried, NoneSpawned, NoneListed, HasList
<1> QED  BY <1>1, Invariance, PTL

=============================================================================
