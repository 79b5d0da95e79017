----------------------------- MODULE Terminals -----------------------------
(***************************************************************************)
(* The web terminal: the session manager of src/internal/term/term.go, the *)
(* shells of pty_linux.go and mock.go it runs, and the stream, input and   *)
(* close handlers of src/internal/httpd/api_terminal.go.                   *)
(*                                                                         *)
(* Output is numbered: chunk n of a session is what its n-th read returned *)
(* and the replay buffer the last Replay of them.  A viewer is one stream  *)
(* request; its channel is open as long as it is in the subscribers' map,  *)
(* because both are always ended together.                                 *)
(* MaxOut bounds the chunks of a session; a session is one request to open *)
(* one.  WebProofs extends this module beside Access, so the names every   *)
(* specification has begin with Terminals here.                            *)
(***************************************************************************)
EXTENDS Naturals, Sequences, FiniteSets

CONSTANTS
  Ids,          \* requests to open a session
  Viewers,      \* stream requests
  MaxSessions,  \* terminal.max_sessions
  Replay,       \* chunks the replay buffer holds
  SubBuffer,    \* chunks a subscriber's channel holds
  MaxOut,
  None          \* no session

ASSUME TerminalsAssumption ==
  /\ IsFiniteSet(Ids) /\ None \notin Ids
  /\ MaxSessions \in Nat \ {0}
  /\ Replay \in Nat /\ SubBuffer \in Nat \ {0} /\ MaxOut \in Nat

VARIABLES
  at,      \* where each session is in its life
  idle,    \* no input for longer than idleTimeout
  out,     \* chunks read from each shell
  view,    \* the stream requests
  reaper,  \* the goroutine of reap
  all,     \* the call of CloseAll; Manager.stopped is set when it begins
  late,    \* history: sessions that were being opened when CloseAll took the lock
  crowd    \* history: sessions begun while another was being opened

terminalsVars == <<at, idle, out, view, reaper, all, late, crowd>>

Exit == 0

(* The shell is started before the session is in the map; exited is set    *)
(* when it begins to close, and it leaves the map last.                    *)
Phases == {"none", "launch", "live", "closing", "gone"}
Opening == {s \in Ids : at[s] = "launch"}
Listed == {s \in Ids : at[s] \in {"live", "closing"}}
Exited(s) == at[s] \in {"closing", "gone"}

(* A stream request: the session it is of, what it has sent to its client, *)
(* what waits in its channel.  One whose channel was full is slow; it has  *)
(* "ended" when it has sent the client the event exit.                     *)
Away == [at |-> "away", of |-> None, seen |-> <<>>, buf |-> <<>>, open |-> FALSE, slow |-> FALSE]
Closer == [at : {"wait", "close", "gone"}, list : SUBSET Ids, on : Ids \cup {None}]
stopped == all.at # "wait"
Waiting == [at |-> "wait", list |-> {}, on |-> None]

TerminalsTypeOK ==
  /\ at \in [Ids -> Phases]
  /\ idle \in SUBSET Ids /\ late \in SUBSET Ids /\ crowd \in SUBSET Ids
  /\ out \in [Ids -> 0..MaxOut]
  /\ view \in [Viewers -> [at : {"away", "watching", "ended"}, of : Ids \cup {None},
                           seen : Seq(1..MaxOut), buf : Seq(0..MaxOut),
                           open : BOOLEAN, slow : BOOLEAN]]
  /\ reaper \in Closer /\ all \in Closer

TerminalsInit ==
  /\ at = [s \in Ids |-> "none"]
  /\ idle = {} /\ late = {} /\ crowd = {}
  /\ out = [s \in Ids |-> 0]
  /\ view = [v \in Viewers |-> Away]
  /\ reaper = Waiting /\ all = Waiting

-----------------------------------------------------------------------------
(* Opening *)

(* The next request: it does not matter which one that is. *)
Unused(s) == at[s] = "none" /\ s = CHOOSE i \in Ids : at[i] = "none"

(* Mistake: the limit is looked at with the wrong comparison. *)
CreateOneMore(s) ==
  /\ Unused(s) /\ ~stopped /\ Cardinality(Listed) <= MaxSessions
  /\ at' = [at EXCEPT ![s] = "launch"] /\ crowd' = IF Opening = {} THEN crowd ELSE crowd \cup {s}
  /\ UNCHANGED <<idle, out, view, reaper, all, late>>

(* Mistake: a panel that shuts down still opens sessions. *)
CreateAlways(s) ==
  /\ Unused(s) /\ Cardinality(Listed) < MaxSessions
  /\ at' = [at EXCEPT ![s] = "launch"] /\ crowd' = IF Opening = {} THEN crowd ELSE crowd \cup {s}
  /\ UNCHANGED <<idle, out, view, reaper, all, late>>

(* The limit is checked, then the lock is let go to start the shell. *)
Create(s) ==
  /\ Unused(s) /\ ~stopped /\ Cardinality(Listed) < MaxSessions
  /\ at' = [at EXCEPT ![s] = "launch"] /\ crowd' = IF Opening = {} THEN crowd ELSE crowd \cup {s}
  /\ UNCHANGED <<idle, out, view, reaper, all, late>>

(* The launcher fails, or starts the shell and the session enters the map, *)
(* whatever has happened to the manager meanwhile.                         *)
LaunchFails(s) ==
  /\ at[s] = "launch"
  /\ at' = [at EXCEPT ![s] = "gone"]
  /\ UNCHANGED <<idle, out, view, reaper, all, late, crowd>>

Insert(s) ==
  /\ at[s] = "launch"
  /\ at' = [at EXCEPT ![s] = "live"]
  /\ UNCHANGED <<idle, out, view, reaper, all, late, crowd>>

-----------------------------------------------------------------------------
(* Output and viewers *)

(* Mistake: a slow subscriber loses the chunk and stays. *)
BroadcastSkipping(w, s, chunk) ==
  [v \in Viewers |->
     IF w[v].open /\ w[v].of = s /\ Len(w[v].buf) < SubBuffer
     THEN [w[v] EXCEPT !.buf = Append(@, chunk)] ELSE w[v]]

(* broadcastLocked: a subscriber whose channel is full loses it. *)
Broadcast(w, s, chunk) ==
  [v \in Viewers |->
     IF ~(w[v].open /\ w[v].of = s) THEN w[v]
     ELSE IF Len(w[v].buf) < SubBuffer THEN [w[v] EXCEPT !.buf = Append(@, chunk)]
     ELSE [w[v] EXCEPT !.open = FALSE, !.slow = TRUE]]

CloseChannels(w, s) ==
  [v \in Viewers |-> IF w[v].of = s THEN [w[v] EXCEPT !.open = FALSE] ELSE w[v]]

(* pump reads a chunk of a shell that has not been hung up. *)
Output(s) ==
  /\ at[s] \in {"live", "closing"} /\ out[s] < MaxOut
  /\ out' = [out EXCEPT ![s] = @ + 1]
  /\ view' = Broadcast(view, s, out'[s])
  /\ UNCHANGED <<at, idle, reaper, all, late, crowd>>

Kept(s) ==
  LET first == IF out[s] > Replay THEN out[s] - Replay ELSE 0
  IN  [i \in 1..(out[s] - first) |-> first + i]

(* Mistake: a session that has exited is subscribed to like another. *)
SubscribeBlindly(v, s) ==
  /\ view[v].at = "away" /\ s \in Listed
  /\ view' = [view EXCEPT ![v] = [at |-> "watching", of |-> s, seen |-> Kept(s),
                buf |-> <<>>, open |-> TRUE, slow |-> FALSE]]
  /\ UNCHANGED <<at, idle, out, reaper, all, late, crowd>>

(* The stream handler looks a session up and subscribes: in one step under *)
(* s.mu it gets the replay and its place in the live stream.  (A session   *)
(* that ends between the two is subscribed to like one that is closing.)   *)
Subscribe(v, s) ==
  /\ view[v].at = "away" /\ s \in Listed
  /\ view' = [view EXCEPT ![v] = [at |-> "watching", of |-> s, seen |-> Kept(s),
                buf |-> IF Exited(s) THEN <<Exit>> ELSE <<>>, open |-> ~Exited(s),
                slow |-> FALSE]]
  /\ UNCHANGED <<at, idle, out, reaper, all, late, crowd>>

(* The handler sends what it receives.  At the end of the session, and at  *)
(* a closed channel whatever closed it, it sends exit and is done; cancel  *)
(* then closes the channel if it is open.                                  *)
Receive(v) ==
  /\ view[v].at = "watching"
  /\ \/ /\ view[v].buf # <<>> /\ Head(view[v].buf) # Exit
        /\ view' = [view EXCEPT ![v].seen = Append(@, Head(view[v].buf)), ![v].buf = Tail(@)]
     \/ /\ IF view[v].buf # <<>> THEN Head(view[v].buf) = Exit ELSE ~view[v].open
        /\ view' = [view EXCEPT ![v].at = "ended", ![v].buf = <<>>, ![v].open = FALSE]
  /\ UNCHANGED <<at, idle, out, reaper, all, late, crowd>>

(* The client goes, or cannot be sent to: cancel takes the channel out of  *)
(* the map and closes it.  One that was told exit may ask again.           *)
Leave(v) ==
  /\ view[v].at # "away"
  /\ view' = [view EXCEPT ![v] = Away]
  /\ UNCHANGED <<at, idle, out, reaper, all, late, crowd>>

(* Input or Resize of a listed session; the program may end it then. *)
Type(s) ==
  /\ s \in Listed /\ s \in idle
  /\ idle' = idle \ {s}
  /\ UNCHANGED <<at, out, view, reaper, all, late, crowd>>

TimePasses(s) ==
  /\ at[s] = "live" /\ s \notin idle
  /\ idle' = idle \cup {s}
  /\ UNCHANGED <<at, out, view, reaper, all, late, crowd>>

-----------------------------------------------------------------------------
(* Closing *)

(* Session.close up to its unlock: only the first caller gets through. *)
EndSession(s) ==
  /\ at' = [at EXCEPT ![s] = "closing"]
  /\ view' = CloseChannels(Broadcast(view, s, Exit), s)

(* DELETE /api/terminal/{id}, or pump: the shell has exited, of itself or  *)
(* of an "exit" that was typed, and its output has ended.                  *)
Close(s) ==
  /\ at[s] = "live"
  /\ EndSession(s)
  /\ UNCHANGED <<idle, out, reaper, all, late, crowd>>

(* The shell is hung up, killed if need be, and awaited; then the session  *)
(* leaves the map.                                                         *)
HangUp(s) ==
  /\ at[s] = "closing"
  /\ at' = [at EXCEPT ![s] = "gone"]
  /\ idle' = idle \ {s}
  /\ UNCHANGED <<out, view, reaper, all, late, crowd>>

(* Mistake: the reaper ends when there is nothing to reap. *)
ReapOnce ==
  /\ reaper.at = "wait"
  /\ reaper' = IF stopped \/ Listed \cap idle = {} THEN [reaper EXCEPT !.at = "gone"]
               ELSE [reaper EXCEPT !.at = "close", !.list = Listed \cap idle]
  /\ UNCHANGED <<at, idle, out, view, all, late, crowd>>

(* reap, each minute: the idle sessions are collected under the locks. *)
Reap ==
  /\ reaper.at = "wait"
  /\ reaper' = IF stopped THEN [reaper EXCEPT !.at = "gone"]
               ELSE [reaper EXCEPT !.at = "close", !.list = Listed \cap idle]
  /\ UNCHANGED <<at, idle, out, view, all, late, crowd>>

(* CloseAll, when the panel shuts down: it refuses new sessions from here. *)
CloseAll ==
  /\ all.at = "wait"
  /\ all' = [all EXCEPT !.at = "close", !.list = Listed]
  /\ late' = Opening
  /\ UNCHANGED <<at, idle, out, view, reaper, crowd>>

Free(c) == c.on # None => at[c.on] = "gone"

(* Both then close one session after the other; of one that is already     *)
(* exited nothing is awaited.                                              *)
NextToClose(c, c2, s) ==
  /\ c.at = "close" /\ Free(c) /\ s \in c.list
  /\ IF at[s] = "live"
     THEN EndSession(s) /\ c2 = [c EXCEPT !.list = @ \ {s}, !.on = s]
     ELSE UNCHANGED <<at, view>> /\ c2 = [c EXCEPT !.list = @ \ {s}, !.on = None]

AllClosed(c) == c.at = "close" /\ c.list = {} /\ Free(c)

ReapNext(s) == NextToClose(reaper, reaper', s) /\ UNCHANGED <<idle, out, all, late, crowd>>

ReapEnds ==
  /\ AllClosed(reaper)
  /\ reaper' = Waiting
  /\ UNCHANGED <<at, idle, out, view, all, late, crowd>>

CloseNext(s) == NextToClose(all, all', s) /\ UNCHANGED <<idle, out, reaper, late, crowd>>

CloseAllEnds ==
  /\ AllClosed(all)
  /\ all' = [all EXCEPT !.at = "gone", !.on = None]
  /\ UNCHANGED <<at, idle, out, view, reaper, late, crowd>>

-----------------------------------------------------------------------------
SessionStep(s) ==
  \/ Create(s) \/ LaunchFails(s) \/ Insert(s)
  \/ Output(s) \/ Type(s) \/ TimePasses(s)
  \/ Close(s) \/ HangUp(s)
  \/ ReapNext(s) \/ CloseNext(s)

ViewerStep(v) == (\E s \in Ids : Subscribe(v, s)) \/ Receive(v) \/ Leave(v)

TerminalsNext ==
  \/ \E s \in Ids : SessionStep(s)
  \/ \E v \in Viewers : ViewerStep(v)
  \/ Reap \/ ReapEnds \/ CloseAll \/ CloseAllEnds

TerminalsSpec == TerminalsInit /\ [][TerminalsNext]_terminalsVars

(* Goroutines run, a hung-up shell goes, and the handler of a connected    *)
(* client drains its channel.  Nobody has to open, type or leave.          *)
TerminalsFairness ==
  /\ \A s \in Ids : WF_terminalsVars(HangUp(s)) /\ WF_terminalsVars(ReapNext(s))
  /\ \A v \in Viewers : WF_terminalsVars(Receive(v))
  /\ WF_terminalsVars(Reap) /\ WF_terminalsVars(ReapEnds)

TerminalsFairSpec == TerminalsSpec /\ TerminalsFairness

-----------------------------------------------------------------------------
(* Properties *)

(* The session limit is exceeded by nothing but the sessions that were     *)
(* begun while another was being opened.                                   *)
LimitHolds == Cardinality((Listed \cup Opening) \ crowd) <= MaxSessions

(* What a viewer has been sent and what waits in its channel is one piece  *)
(* of the output, without gap or repetition, with the end of the session   *)
(* once and after everything else; as long as its channel is open it       *)
(* reaches the newest chunk: replay and live stream join.                  *)
Stream(v) == view[v].seen \o view[v].buf
StreamIsWhole ==
  \A v \in Viewers :
    /\ \A i \in 1..(Len(Stream(v)) - 1) :
         /\ Stream(v)[i] # Exit
         /\ \/ Stream(v)[i + 1] = Stream(v)[i] + 1
            \/ Stream(v)[i + 1] = Exit /\ i + 1 = Len(Stream(v))
    /\ (view[v].open /\ out[view[v].of] > 0 /\ Replay > 0)
         => Stream(v) # <<>> /\ Stream(v)[Len(Stream(v))] = out[view[v].of]

(* After CloseAll the only sessions with nobody to close them are those    *)
(* that were being opened when it began.                                   *)
OnlyLateSurvive ==
  all.at = "gone" => \A s \in Ids : at[s] \in {"launch", "live"} => s \in late

(* The end of a session waits in no channel before it has come, and once   *)
(* it has come nobody is left listening: every channel that is still open  *)
(* belongs to a session that lives.  The event exit, though, is sent also  *)
(* to a client that was only dropped because it was slow; to others it is  *)
(* sent for an ended session alone.                                        *)
EndIsTold ==
  \A v \in Viewers :
    /\ view[v].open => view[v].of \in Ids /\ at[view[v].of] = "live"
    /\ \A i \in 1..Len(view[v].buf) : view[v].buf[i] = Exit => Exited(view[v].of)
    /\ view[v].at = "ended" => Exited(view[v].of) \/ view[v].slow

(* A viewer that keeps reading learns that its session has ended, even one *)
(* whose channel was full when it did.                                     *)
ViewerLearns ==
  \A v \in Viewers : \A s \in Ids :
    (view[v].at = "watching" /\ view[v].of = s /\ Exited(s)) ~> (view[v].at # "watching")

(* A session nobody types into is closed, unless the panel shuts down: the *)
(* reaper is then gone.                                                    *)
IdleIsClosed ==
  \A s \in Ids : (at[s] = "live" /\ s \in idle) ~> (at[s] # "live" \/ s \notin idle \/ stopped)
=============================================================================
