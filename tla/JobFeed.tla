------------------------------ MODULE JobFeed ------------------------------
(***************************************************************************)
(* How browsers learn of jobs: each start and end of a job spawns a        *)
(* goroutine that lists the jobs and publishes the list (main.go:117,      *)
(* jobs.go:107-113); the bus puts it into a bounded queue per subscriber   *)
(* and drops it when the queue is full (src/internal/events/bus.go); the   *)
(* SSE handler subscribes, sends the list of the moment and then passes on *)
(* what is in its queue (src/internal/httpd/api_system.go).                *)
(*                                                                         *)
(* Notices bounds the goroutines under way at once.  Events other than     *)
(* jobs share the queues; all they can do is fill them, which the model    *)
(* has by its small Buffer.  A connection that breaks is a Leave.          *)
(***************************************************************************)
EXTENDS JobRunner

CONSTANTS
  Notices,   \* Notify goroutines under way at once
  Browsers,
  Buffer     \* length of a subscriber's queue

ASSUME BufferAssumption == Buffer \in Nat \ {0}

VARIABLES
  notice,     \* each Notify goroutine: where it stands, the list it holds
  browser,    \* each browser: where its handler stands
  queue,      \* the subscriber's channel
  view,       \* the list the browser shows
  missed,     \* history: browsers whose queue was full at the latest publish
  overlapped  \* history: the latest list was taken while another was unpublished

feedVars == <<notice, browser, queue, view, missed, overlapped>>
vars == <<runnerVars, feedVars>>

Lists == Seq([id : Jobs, state : {"running"} \cup Outcomes])
NoNotice == [at |-> "idle", list |-> <<>>]

TypeOK ==
  /\ RunnerTypeOK
  /\ notice \in [Notices -> [at : {"idle", "spawned", "listed"}, list : Lists]]
  /\ browser \in [Browsers -> {"away", "subscribed", "open"}]
  /\ queue \in [Browsers -> Seq(Lists)]
  /\ \A b \in Browsers : Len(queue[b]) <= Buffer
  /\ view \in [Browsers -> Lists]
  /\ missed \in SUBSET Browsers
  /\ overlapped \in BOOLEAN

Init ==
  /\ RunnerInit
  /\ notice = [n \in Notices |-> NoNotice]
  /\ browser = [b \in Browsers |-> "away"]
  /\ queue = [b \in Browsers |-> <<>>]
  /\ view = [b \in Browsers |-> <<>>]
  /\ missed = {} /\ overlapped = FALSE

-----------------------------------------------------------------------------
(* The runner, and the goroutines it spawns *)

Spawn(n) ==
  /\ notice[n].at = "idle"
  /\ notice' = [notice EXCEPT ![n].at = "spawned"]
  /\ UNCHANGED <<browser, queue, view, missed, overlapped>>

StartJob(j, n) == Start(j) /\ Spawn(n)

\* Mistake: only a start is notified.
EndJobQuietly(j, n) == End(j) /\ UNCHANGED feedVars

EndJob(j, n) == End(j) /\ Spawn(n)

Operate(j) == (Return(j) \/ Cancel(j)) /\ UNCHANGED feedVars

(* runner.List(), under r.mu. *)
TakeList(n) ==
  /\ notice[n].at = "spawned"
  /\ notice' = [notice EXCEPT ![n] = [at |-> "listed", list |-> List]]
  /\ overlapped' = \E m \in Notices \ {n} : notice[m].at = "listed"
  /\ UNCHANGED <<runnerVars, browser, queue, view, missed>>

-----------------------------------------------------------------------------
(* The bus *)

Subscribers == {b \in Browsers : browser[b] # "away"}
Full(b) == Len(queue[b]) >= Buffer

Publish(n) ==
  /\ notice[n].at = "listed"
  /\ notice' = [notice EXCEPT ![n] = NoNotice]
  /\ queue' = [b \in Browsers |-> IF b \in Subscribers /\ ~Full(b)
                                    THEN Append(queue[b], notice[n].list) ELSE queue[b]]
  /\ missed' = {b \in Subscribers : Full(b)}
  /\ UNCHANGED <<runnerVars, browser, view, overlapped>>

-----------------------------------------------------------------------------
(* A browser and its SSE handler *)

Subscribe(b) ==
  /\ browser[b] = "away"
  /\ browser' = [browser EXCEPT ![b] = "subscribed"]
  /\ UNCHANGED <<runnerVars, notice, queue, view, missed, overlapped>>

(* The list of the moment.  It is sent before anything in the queue, so it *)
(* does not matter when it arrives.                                        *)
SendFirst(b) ==
  /\ browser[b] = "subscribed"
  /\ browser' = [browser EXCEPT ![b] = "open"]
  /\ view' = [view EXCEPT ![b] = List]
  /\ UNCHANGED <<runnerVars, notice, queue, missed, overlapped>>

PassOn(b) ==
  /\ browser[b] = "open" /\ queue[b] # <<>>
  /\ view' = [view EXCEPT ![b] = Head(queue[b])]
  /\ queue' = [queue EXCEPT ![b] = Tail(@)]
  /\ UNCHANGED <<runnerVars, notice, browser, missed, overlapped>>

(* The browser goes, or its connection breaks; it may come back. *)
Leave(b) ==
  /\ browser[b] # "away"
  /\ browser' = [browser EXCEPT ![b] = "away"]
  /\ queue' = [queue EXCEPT ![b] = <<>>]
  /\ view' = [view EXCEPT ![b] = <<>>]
  /\ missed' = missed \ {b}
  /\ UNCHANGED <<runnerVars, notice, overlapped>>

-----------------------------------------------------------------------------

JobStep(j) == Operate(j) \/ \E n \in Notices : StartJob(j, n) \/ EndJob(j, n)
NoticeStep(n) == TakeList(n) \/ Publish(n)
BrowserStep(b) == Subscribe(b) \/ SendFirst(b) \/ PassOn(b) \/ Leave(b)

Next ==
  \/ \E j \in Jobs : JobStep(j)
  \/ \E n \in Notices : NoticeStep(n)
  \/ \E b \in Browsers : BrowserStep(b)

Spec == Init /\ [][Next]_vars

-----------------------------------------------------------------------------
(* Properties *)

(* Nothing is on its way to b. *)
Settled(b) ==
  /\ browser[b] = "open" /\ queue[b] = <<>>
  /\ \A n \in Notices : notice[n].at = "idle"

(* Once nothing is on its way, a browser shows the jobs as they are, though *)
(* it joined in the middle of changes: unless the latest event found its   *)
(* queue full, or was listed while an older list was still unpublished.    *)
SettledViewIsRight ==
  \A b \in Browsers : Settled(b) /\ b \notin missed /\ ~overlapped => view[b] = List

(* `Each event is a full snapshot, so drops are harmless`: a browser that  *)
(* missed an event shows the jobs as they are once nothing is on its way.  *)
DropsAreHarmless ==
  \A b \in Browsers : Settled(b) /\ ~overlapped => view[b] = List

=============================================================================
