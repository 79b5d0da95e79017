----------------------------- MODULE Downloads -----------------------------
(***************************************************************************)
(* The downloads page: the qBittorrent client of src/internal/qbit, the    *)
(* index of downloads that src/internal/apps builds from the queues of     *)
(* Radarr and Sonarr, and the handlers of src/internal/httpd/api_qbit.go   *)
(* that join the two.                                                      *)
(*                                                                         *)
(* qBittorrent has one torrent, which is under way; rev counts the actions *)
(* it has carried out. Each call has the steps of its request: the panel   *)
(* sends it, qBittorrent serves it or not, the panel gets the answer or    *)
(* gives up, which does not call back an action that was sent (late). The  *)
(* client holds its mutex from the first step of a call to the last.       *)
(* Status hands out a copy of the cached struct, whose list of torrents is *)
(* the cached one: slice says which list a status refers to, and what      *)
(* handlers write into it is seen by every other holder.                   *)
(*                                                                         *)
(* Time passes in ticks: no more than CallTime of them in one call and     *)
(* RefreshTime while a handler waits for the apps, none while it joins the *)
(* two and answers.  MaxRev bounds the actions.                            *)
(***************************************************************************)
EXTENDS Naturals, FiniteSets

CONSTANTS
  Handlers,               \* requests of browsers under way
  Ops,                    \* the actions a browser may ask for
  StatusTTL, ErrTTL,      \* how long a status and a failure are cached
  LoginBackoff, AppsTTL,
  CallTime, RefreshTime, MaxRev

ASSUME DownloadsAssumption ==
  /\ IsFiniteSet(Handlers) /\ Handlers # {} /\ "nobody" \notin Handlers
  /\ {StatusTTL, ErrTTL, LoginBackoff, AppsTTL, CallTime, RefreshTime, MaxRev} \subseteq Nat \ {0}

VARIABLES
  user,                           \* a username is configured; else qBittorrent asks for none
  up, cookie, right, modern, rev, \* qBittorrent: it answers, admits the panel, accepts its password; has the new names
  late,                           \* requests given up that it may still carry out
  listed,                         \* the torrent is in an app's queue
  mu, loggedIn, hold, version, cached, \* qbit's client; hold: ticks until authUntil
  call, again, reply, took,       \* the call its holder makes, after a 403 for the second time
  index,                          \* apps' client: cached, downloads, at
  pc, task, got, mine,            \* handlers: the status and the index each one has
  lists,                          \* the lists of torrents in use: their torrent's media and watch, how old they are
  applied,                        \* history: times the action under way was carried out
  done, floor,                    \* history: rev when the last action returned, and when a handler began
  quiet, hasty                    \* history: ticks since a login was rejected; one followed too soon

outside == <<user, up, cookie, right, modern, rev, late, listed>>
transport == <<call, again, reply, took>>
client == <<mu, loggedIn, hold, version, cached, transport>>
handler == <<pc, task, got, mine, index, lists>>
history == <<applied, done, floor, quiet, hasty>>
downloadsVars == <<outside, client, handler, history>>

Nobody == "nobody"
Slices == 0..Cardinality(Handlers)
NoStatus == [is |-> "none", rev |-> 0, age |-> 0, since |-> 0, slice |-> 0]
NoReply == [code |-> "none", rev |-> 0, age |-> 0]
NoIndex == [is |-> "none", listed |-> FALSE, age |-> 0, since |-> 0]
Blank == [media |-> FALSE, runtime |-> FALSE, age |-> 0]

DownloadsInit ==
  /\ user \in BOOLEAN /\ up \in BOOLEAN /\ cookie = ~user /\ right \in BOOLEAN /\ modern \in BOOLEAN
  /\ rev = 0 /\ late = 0 /\ listed \in BOOLEAN
  /\ mu = Nobody /\ loggedIn = FALSE /\ hold = 0 /\ version = FALSE /\ cached = NoStatus
  /\ call = "none" /\ again = FALSE /\ reply = NoReply /\ took = 0
  /\ index = NoIndex
  /\ pc = [h \in Handlers |-> "idle"] /\ task = [h \in Handlers |-> "none"]
  /\ got = [h \in Handlers |-> NoStatus] /\ mine = [h \in Handlers |-> NoIndex]
  /\ lists = <<>>
  /\ applied = 0 /\ done = 0 /\ floor = [h \in Handlers |-> 0]
  /\ quiet = LoginBackoff /\ hasty = FALSE

-----------------------------------------------------------------------------
(* Requests of the browsers *)

Global == {"altspeed", "dllimit", "uplimit"}

Requests == [op : Ops, chosen : {"none", "one", "many", "all"}, confirmed : BOOLEAN]

(* Which torrents an action may name, and what has to be confirmed. *)
Admissible(r) ==
  \/ r.op \in Global
  \/ /\ r.chosen # "none"
     /\ r.chosen = "all" => r.op \in {"pause", "resume"} /\ r.confirmed
     /\ r.op = "delete" => r.chosen = "one" /\ r.confirmed

Begin(h, t) ==
  /\ pc[h] = "idle"
  /\ pc' = [pc EXCEPT ![h] = "lock"]
  /\ task' = [task EXCEPT ![h] = t]
  /\ floor' = [floor EXCEPT ![h] = IF t = "status" THEN done ELSE 0]
  /\ UNCHANGED <<outside, client, got, mine, index, lists, applied, done, quiet, hasty>>

handleQbit(h) == Begin(h, "status")
handleQbitFiles(h) == Begin(h, "files")
handleQbitAction(h) == \E r \in Requests : Admissible(r) /\ Begin(h, r.op)

-----------------------------------------------------------------------------
(* qbit.client: Status, Files and Do, each under c.mu *)

TTL(c) == IF c.is = "error" THEN ErrTTL ELSE StatusTTL

(* What the cache holds; an entry whose time is over counts as none. *)
Fresh(c) == c.is # "none"

(* Mistake: a hit makes the entry young again. *)
KeptUp(c) == [c EXCEPT !.since = 0]

AfterHit(c) == c

FirstCall(t) ==
  CASE t = "status" -> IF version THEN "maindata" ELSE "version"
    [] t = "files" -> "files"
    [] OTHER -> "new"

(* A status goes on to be joined with the apps' downloads if it has any. *)
Returned(h, s) ==
  /\ UNCHANGED task
  /\ got' = [got EXCEPT ![h] = [s EXCEPT !.since = 0]]
  /\ pc' = [pc EXCEPT ![h] = IF s.is = "list" THEN "index" ELSE "answer"]

Hit(h) ==
  /\ pc[h] = "lock" /\ mu = Nobody /\ task[h] = "status" /\ Fresh(cached)
  /\ Returned(h, cached)
  /\ cached' = AfterHit(cached)
  /\ UNCHANGED <<outside, mu, loggedIn, hold, version, transport, mine, index, lists, history>>

Enter(h) ==
  /\ pc[h] = "lock" /\ mu = Nobody
  /\ ~(task[h] = "status" /\ Fresh(cached))
  /\ mu' = h
  /\ pc' = [pc EXCEPT ![h] = "call"]
  /\ call' = FirstCall(task[h])
  /\ UNCHANGED <<outside, loggedIn, hold, version, cached, again, reply, took,
                 task, got, mine, index, lists, history>>

(* The lists that the cache and the handlers refer to; the others are      *)
(* garbage.  Those of new are made now.                                    *)
Lists(c, g, new) ==
  LET held == {x \in {c} \cup {g[h] : h \in Handlers} : x.is = "list"}
  IN  [s \in {x.slice : x \in held} |-> IF s \in new THEN Blank ELSE lists[s]]

(* What fetch builds; its list of torrents is a new one. *)
Listing ==
  [is |-> "list", rev |-> reply.rev, age |-> reply.age, since |-> 0,
   slice |-> CHOOSE s \in Slices \ DOMAIN lists : TRUE]

Failure == [NoStatus EXCEPT !.is = "error"]

(* Mistake: only an action that succeeded voids the cached status. *)
ForgetIfDone(ok) == IF ok THEN NoStatus ELSE cached

Forget(ok) == NoStatus

Release ==
  /\ mu' = Nobody
  /\ call' = "none" /\ again' = FALSE /\ reply' = NoReply /\ took' = 0

(* The call ends: with st for Status, and for Do the cache is void. *)
Finish(h, ok, st) ==
  /\ Release
  /\ IF task[h] = "status"
     THEN /\ cached' = st /\ Returned(h, st)
          /\ UNCHANGED done
     ELSE /\ cached' = IF task[h] = "files" THEN cached ELSE Forget(ok)
          /\ done' = IF task[h] = "files" THEN done ELSE rev
          /\ pc' = [pc EXCEPT ![h] = "idle"] /\ task' = [task EXCEPT ![h] = "none"]
          /\ UNCHANGED got
  /\ lists' = Lists(cached', got', IF st.is = "list" THEN {st.slice} ELSE {})
  /\ applied' = 0
  /\ UNCHANGED <<user, up, cookie, right, modern, rev, listed, mine, index, floor>>

Fail(h) == Finish(h, FALSE, Failure)

(* Mistake: only a wrong password is held off, a banned address is not. *)
HoldOffWrong(code) == IF code = "fails" THEN LoginBackoff ELSE 0

HoldOff(code) == LoginBackoff

(* login: the password is right, wrong, or the address is already banned;  *)
(* it is not even sent while an earlier rejection is held off.             *)
LoginOk(h) ==
  /\ pc[h] = "call" /\ ~loggedIn /\ user /\ hold = 0 /\ up /\ right
  /\ loggedIn' = TRUE /\ cookie' = TRUE
  /\ UNCHANGED <<user, up, right, modern, rev, late, listed, mu, hold, version, cached,
                 transport, handler, history>>

LoginUnasked(h) ==
  /\ pc[h] = "call" /\ ~loggedIn /\ ~user
  /\ loggedIn' = TRUE
  /\ UNCHANGED <<outside, mu, hold, version, cached, transport, handler, history>>

LoginRejected(h) ==
  /\ pc[h] = "call" /\ ~loggedIn /\ user /\ hold = 0 /\ up /\ ~right
  /\ \E code \in {"fails", "forbidden"} : hold' = HoldOff(code)
  /\ hasty' = (hasty \/ quiet < LoginBackoff)
  /\ quiet' = 0
  /\ Fail(h)
  /\ UNCHANGED <<late, loggedIn, version>>

LoginFails(h) ==
  /\ pc[h] = "call" /\ ~loggedIn /\ user
  /\ Fail(h)
  /\ UNCHANGED <<late, loggedIn, hold, version, quiet, hasty>>

Send(h) ==
  /\ pc[h] = "call" /\ loggedIn
  /\ pc' = [pc EXCEPT ![h] = "sent"]
  /\ UNCHANGED <<outside, client, task, got, mine, index, lists, history>>

(* The request under way is an action; an old qBittorrent does not know    *)
(* the new names.                                                          *)
Acts == call \in {"new", "old"}
Known(h) == task[h] \notin {"pause", "resume"} \/ modern = (call = "new")

(* qBittorrent answers. *)
Serve(h) ==
  /\ pc[h] = "sent" /\ reply.code = "none" /\ up
  /\ LET code == IF ~cookie THEN {"forbidden"}
                 ELSE IF Acts /\ ~Known(h) THEN {"missing"}
                 ELSE {"ok", "failed"}
     IN  \E c \in code :
           /\ rev' = IF Acts /\ c = "ok" THEN rev + 1 ELSE rev
           /\ rev' + late <= MaxRev
           /\ applied' = IF Acts /\ c = "ok" THEN applied + 1 ELSE applied
           /\ reply' = [code |-> c, rev |-> rev', age |-> 0]
  /\ UNCHANGED <<user, up, cookie, right, modern, late, listed, mu, loggedIn, hold, version, cached,
                 call, again, took, handler, done, floor, quiet, hasty>>

(* The next request of the holder. *)
Proceed(h, c, second) ==
  /\ pc' = [pc EXCEPT ![h] = "call"]
  /\ call' = c /\ again' = second /\ reply' = NoReply /\ took' = 0
  /\ UNCHANGED <<outside, mu, hold, cached, task, got, mine, index, lists, history>>

(* Mistake: a request without an answer is sent again, too. *)
TryAgainUnanswered(code) == code \in {"forbidden", "lost"}

(* A 403 is an expired session: log in and send once more. *)
TryAgain(code) == code = "forbidden"

Relogin(h) ==
  /\ pc[h] = "sent" /\ ~again
  /\ \E code \in {reply.code, "lost"} : TryAgain(code)
  /\ loggedIn' = FALSE
  /\ Proceed(h, call, TRUE)
  /\ UNCHANGED version

(* Only a missing endpoint justifies the legacy name. *)
TryLegacy(code) == code = "missing"

Legacy(h) ==
  /\ pc[h] = "sent" /\ call = "new" /\ task[h] \in {"pause", "resume"}
  /\ \E code \in {reply.code, "lost"} \ {"none", "ok"} : TryLegacy(code)
  /\ Proceed(h, "old", FALSE)
  /\ UNCHANGED <<loggedIn, version>>

(* fetch goes on with the next of its three calls. *)
Continue(h) ==
  /\ pc[h] = "sent" /\ reply.code = "ok" /\ call \in {"version", "maindata"}
  /\ version' = TRUE
  /\ Proceed(h, IF call = "version" THEN "maindata" ELSE "info", FALSE)
  /\ UNCHANGED loggedIn

Succeed(h) ==
  /\ pc[h] = "sent" /\ reply.code = "ok" /\ call \notin {"version", "maindata"}
  /\ Finish(h, TRUE, Listing)
  /\ UNCHANGED <<late, loggedIn, hold, version, quiet, hasty>>

(* Not served in time, the answer lost, a status other than 200, or the    *)
(* browser that asked went away, which cancels its request's context.  An  *)
(* action that is not answered may have reached qBittorrent all the same.  *)
GiveUp(h) ==
  /\ pc[h] = "sent"
  /\ Fail(h)
  /\ late' \in IF Acts /\ Known(h) /\ reply.code = "none" /\ rev + late < MaxRev
              THEN {late, late + 1} ELSE {late}
  /\ UNCHANGED <<loggedIn, hold, version, quiet, hasty>>

-----------------------------------------------------------------------------
(* apps.client.refresh, whose fetches hold no lock, and qbitStatus *)

IndexHit(h) ==
  /\ pc[h] = "index" /\ index.is = "index"
  /\ mine' = [mine EXCEPT ![h] = [index EXCEPT !.since = 0]]
  /\ pc' = [pc EXCEPT ![h] = "enrich"]
  /\ UNCHANGED <<outside, client, task, got, index, lists, history>>

(* An app's answer; one that does not answer has no queue. *)
Queued == {listed, FALSE}

(* fetchArr reads the queue. *)
IndexMiss(h) ==
  /\ pc[h] = "index" /\ index.is = "none"
  /\ \E l \in Queued :
       mine' = [mine EXCEPT ![h] = [is |-> "index", listed |-> l, age |-> 0, since |-> 0]]
  /\ pc' = [pc EXCEPT ![h] = "merge"]
  /\ UNCHANGED <<outside, client, task, got, index, lists, history>>

(* The round that ends last is the one that is cached. *)
StoreIndex(h) ==
  /\ pc[h] = "merge"
  /\ index' = mine[h]
  /\ pc' = [pc EXCEPT ![h] = "enrich"]
  /\ UNCHANGED <<outside, client, task, got, mine, lists, history>>

(* Watchability of a torrent that is under way. *)
Verdict(t) == IF t.runtime THEN "timed" ELSE "unknown"

(* A match is written over the torrent's, no match leaves what is there; *)
(* the verdict is always made anew.                                      *)
Enrich(h) ==
  /\ pc[h] = "enrich"
  /\ lists' = [lists EXCEPT ![got[h].slice] =
                 [media |-> @.media \/ mine[h].listed, runtime |-> mine[h].listed,
                  age |-> IF mine[h].listed THEN mine[h].age ELSE @.age]]
  /\ pc' = [pc EXCEPT ![h] = "answer"]
  /\ UNCHANGED <<outside, client, task, got, mine, index, history>>

Answer(h) ==
  /\ pc[h] = "answer"
  /\ pc' = [pc EXCEPT ![h] = "idle"]
  /\ got' = [got EXCEPT ![h] = NoStatus] /\ mine' = [mine EXCEPT ![h] = NoIndex]
  /\ task' = [task EXCEPT ![h] = "none"]
  /\ lists' = Lists(cached, got', {})
  /\ floor' = [floor EXCEPT ![h] = 0]
  /\ UNCHANGED <<outside, client, index, applied, done, quiet, hasty>>

-----------------------------------------------------------------------------
(* What happens outside, and time *)

Outside ==
  /\ \/ up' = ~up /\ cookie' = (cookie /\ ~user) /\ UNCHANGED <<right, listed>>
     \/ (cookie \/ ~user)
        /\ cookie' = ~cookie /\ UNCHANGED <<up, right, listed>>
     \/ right' = ~right /\ UNCHANGED <<up, cookie, listed>>
     \/ listed' = ~listed /\ UNCHANGED <<up, cookie, right>>
  /\ UNCHANGED <<user, modern, rev, late, client, handler, history>>

(* A request that was given up is carried out after all, or lost. *)
ServeLate ==
  /\ late > 0 /\ late' = late - 1
  /\ rev' = rev \/ (up /\ rev' = rev + 1)
  /\ UNCHANGED <<user, up, cookie, right, modern, listed, client, handler, history>>

Older(c, limit, none) ==
  IF c.is = "none" \/ c.since + 1 >= limit THEN none ELSE [c EXCEPT !.since = @ + 1, !.age = @ + 1]

AskingApps(h) == pc[h] \in {"index", "merge"}

(* A status a handler has while it waits, and lists, a tick later. *)
Waited(g) == [g EXCEPT !.age = @ + 1, !.since = @ + 1]
Aged(l) == [s \in DOMAIN l |-> IF l[s].media THEN [l[s] EXCEPT !.age = @ + 1] ELSE l[s]]

Tick ==
  /\ took < CallTime
  /\ \A h \in Handlers : /\ pc[h] \notin {"enrich", "answer"}
                         /\ AskingApps(h) => got[h].since < RefreshTime
  /\ hold' = IF hold = 0 THEN 0 ELSE hold - 1
  /\ quiet' = IF quiet = LoginBackoff THEN quiet ELSE quiet + 1
  /\ cached' = Older(cached, TTL(cached), NoStatus)
  /\ index' = Older(index, AppsTTL, NoIndex)
  /\ took' = IF \E h \in Handlers : pc[h] = "sent" THEN took + 1 ELSE 0
  /\ reply' = IF reply.code = "none" THEN reply ELSE [reply EXCEPT !.age = @ + 1]
  /\ got' = [h \in Handlers |-> IF AskingApps(h) THEN Waited(got[h]) ELSE got[h]]
  /\ mine' = [h \in Handlers |->
                IF pc[h] = "merge" THEN [mine[h] EXCEPT !.age = @ + 1] ELSE mine[h]]
  /\ lists' = Aged(Lists(cached', got', {}))
  /\ UNCHANGED <<outside, mu, loggedIn, version, call, again, pc, task,
                 applied, done, floor, hasty>>

Step(h) ==
  \/ handleQbit(h) \/ handleQbitFiles(h) \/ handleQbitAction(h)
  \/ Hit(h) \/ Enter(h) \/ LoginOk(h) \/ LoginUnasked(h) \/ LoginRejected(h) \/ LoginFails(h)
  \/ Send(h) \/ Serve(h) \/ Relogin(h) \/ Legacy(h) \/ Continue(h) \/ Succeed(h) \/ GiveUp(h)
  \/ IndexHit(h) \/ IndexMiss(h) \/ StoreIndex(h) \/ Enrich(h) \/ Answer(h)

DownloadsNext == Outside \/ ServeLate \/ Tick \/ \E h \in Handlers : Step(h)

DownloadsSpec == DownloadsInit /\ [][DownloadsNext]_downloadsVars

-----------------------------------------------------------------------------
(* Properties *)

(* qbit.go:24-27: "qBittorrent bans an address for a while after a handful *)
(* of failed logins, so a misconfigured password must not be retried on    *)
(* every poll": whoever polls, two logins that were answered with a        *)
(* rejection are loginBackoff apart.                                       *)
RejectionsAreSpaced == ~hasty

(* A status asked for after an action returned shows everything that had   *)
(* been carried out by then, also of actions whose answer was lost: the    *)
(* cache hides none of it, nor does a status that was being fetched.  What *)
(* qBittorrent carries out later, of a request given up, may be hidden as  *)
(* long as the status is cached.                                           *)
ActionIsSeen ==
  \A h \in Handlers :
    pc[h] = "answer" /\ got[h].is = "list" => got[h].rev >= floor[h]

(* An action is carried out once at most, although it is sent again after  *)
(* a 403 and under its old name after a 404: a toggle done twice is undone.*)
(* As long as its request is not answered it has not been carried out, so  *)
(* that one given up then can be carried out later, but not a second time. *)
AppliedAtMostOnce == applied <= 1 /\ (Acts /\ reply.code = "none" => applied = 0)

(* The torrents of a page are no older than the cache may hold them, plus  *)
(* the request that read them, plus the wait for the apps; the index that  *)
(* they are joined with no older than its cache may hold it plus a         *)
(* refresh, although refreshes overlap and the one that began first may    *)
(* end last.  The media of a torrent may be older: another handler may     *)
(* have written them into the cached list, and no match leaves them there. *)
AnswersAreRecent ==
  \A h \in Handlers :
    pc[h] = "answer" =>
      /\ got[h].is = "list" =>
           /\ got[h].age < StatusTTL + CallTime + RefreshTime
           /\ mine[h].age < AppsTTL + RefreshTime
           /\ LET t == lists[got[h].slice]
              IN  t.media => t.age + 1 < AppsTTL + StatusTTL + 2 * RefreshTime
      /\ got[h].is = "error" => got[h].age < ErrTTL

(* types.go:103-105: the verdict is unknown only when the torrent is not     *)
(* matched to an app's item.  Not so: see the README.                      *)
UnknownIsUnmatched ==
  \A h \in Handlers :
    pc[h] = "answer" /\ got[h].is = "list" =>
      LET t == lists[got[h].slice]
      IN  Verdict(t) = "unknown" => ~t.media

=============================================================================
