----------------------------- MODULE JobRunner -----------------------------
(***************************************************************************)
(* The job runner (src/internal/jobs/jobs.go): long operations, one at a   *)
(* time, each in a goroutine of its own.  Between the moment an operation  *)
(* returns and the moment its goroutine takes r.mu the job still shows as  *)
(* running, and may still be canceled.                                     *)
(*                                                                         *)
(* A job id is used once; Jobs bounds how many jobs there can be.          *)
(***************************************************************************)
EXTENDS Naturals, Sequences

CONSTANTS
  Jobs,
  MaxRecent,  \* how many ended jobs are kept (maxRecent)
  None        \* no job

ASSUME RunnerAssumption == None \notin Jobs /\ MaxRecent \in Nat \ {0}

VARIABLES
  current,   \* r.current
  job,       \* each job: how far its operation is, and then how it was recorded
  canceled,  \* jobs whose context is canceled
  recent,    \* r.recent, the oldest first
  ended      \* history: every job that was recorded, the oldest first

runnerVars == <<current, job, canceled, recent, ended>>

\* The operation has been started and its end is not yet recorded.
Unrecorded == {"running", "succeeded", "erred"}
Outcomes == {"done", "failed", "canceled"}

RunnerTypeOK ==
  /\ current \in Jobs \cup {None}
  /\ job \in [Jobs -> {"new"} \cup Unrecorded \cup Outcomes]
  /\ canceled \in SUBSET Jobs
  /\ recent \in Seq(Jobs) /\ Len(recent) <= MaxRecent
  /\ ended \in Seq(Jobs)

RunnerInit ==
  /\ current = None
  /\ job = [j \in Jobs |-> "new"]
  /\ canceled = {}
  /\ recent = <<>> /\ ended = <<>>

(* What List and Get show of a job. *)
Shown(j) == [id |-> j, state |-> IF job[j] \in Unrecorded THEN "running" ELSE job[j]]

(* The running job, then the recent ones, newest first. *)
List ==
  (IF current = None THEN <<>> ELSE <<Shown(current)>>)
    \o [i \in 1..Len(recent) |-> Shown(recent[Len(recent) + 1 - i])]

-----------------------------------------------------------------------------

(* Another job is running: Start returns an error and changes nothing. *)
Start(j) ==
  /\ current = None /\ job[j] = "new"
  /\ current' = j
  /\ job' = [job EXCEPT ![j] = "running"]
  /\ UNCHANGED <<canceled, recent, ended>>

(* The operation returns, by itself or because its context is canceled. *)
Return(j) ==
  /\ job[j] = "running"
  /\ \E result \in {"succeeded", "erred"} : job' = [job EXCEPT ![j] = result]
  /\ UNCHANGED <<current, canceled, recent, ended>>

\* Mistake: an operation that returned nil is done, whatever its context says.
ResultFirst(j) ==
  IF job[j] = "succeeded" THEN "done" ELSE IF j \in canceled THEN "canceled" ELSE "failed"

Outcome(j) ==
  IF j \in canceled THEN "canceled" ELSE IF job[j] = "erred" THEN "failed" ELSE "done"

Trimmed(s) ==
  IF Len(s) > MaxRecent THEN SubSeq(s, Len(s) - MaxRecent + 1, Len(s)) ELSE s

(* The goroutine records the end under r.mu. *)
End(j) ==
  /\ job[j] \in {"succeeded", "erred"}
  /\ job' = [job EXCEPT ![j] = Outcome(j)]
  /\ current' = None
  /\ recent' = Trimmed(Append(recent, j))
  /\ ended' = Append(ended, j)
  /\ UNCHANGED canceled

Cancel(j) ==
  /\ current = j
  /\ canceled' = canceled \cup {j}
  /\ UNCHANGED <<current, job, recent, ended>>

-----------------------------------------------------------------------------
(* Properties *)

(* `Only one job may run at a time`, from Start to the record of its end,  *)
(* also when it is canceled; and the running job is the one Cancel finds.  *)
OneAtATime == \A j \in Jobs : job[j] \in Unrecorded <=> current = j

(* A Cancel that was accepted is in the record, even when it came after    *)
(* the operation had returned; and nothing else is recorded as canceled.   *)
CancelIsRecorded ==
  \A j \in Jobs : job[j] \in Outcomes => (job[j] = "canceled" <=> j \in canceled)

(* The history holds the jobs that ended last, in the order they ended. *)
HistoryIsRecent ==
  /\ Len(recent) <= Len(ended)
  /\ Len(recent) < MaxRecent => Len(recent) = Len(ended)
  /\ \A i \in 1..Len(recent) : recent[i] = ended[Len(ended) - Len(recent) + i]

=============================================================================
