------------------------------ MODULE Access ------------------------------
(***************************************************************************)
(* Who may use the panel, and what is kept of what they did: the session   *)
(* store and the login limiter of src/internal/auth, the login and logout  *)
(* handlers of src/internal/httpd/api_auth.go behind requireAuth of        *)
(* server.go, and the audit log of src/internal/audit/audit.go.            *)
(*                                                                         *)
(* The clock is abstracted to what it changes: a session's time is over, a *)
(* failure leaves the limiter's window.  Entries of the log are numbered;  *)
(* a line that was cut off, by a crash or a full disk, has no end, so that *)
(* the next entry is written into it and both are unreadable.              *)
(* A token is drawn once; MaxEntries bounds the entries of a behaviour and *)
(* MaxLines stands for the four megabytes after which the log is rotated,  *)
(* MaxScan for the 5000 entries a listing is cut to.                       *)
(***************************************************************************)
EXTENDS Naturals, Sequences, FiniteSets

CONSTANTS
  Tokens,    \* what Sessions.Create may draw
  Requests,  \* concurrent calls of the login handler, all of one address
  MaxFail,   \* failures after which the limiter refuses
  Slots,     \* password checks that run at a time (loginSem)
  MaxLines, MaxScan, MaxEntries

ASSUME AccessAssumption ==
  /\ IsFiniteSet(Requests) /\ Requests # {}
  /\ MaxFail \in Nat \ {0} /\ Slots \in Nat \ {0}
  /\ MaxLines \in Nat \ {0} /\ MaxScan \in Nat \ {0} /\ MaxEntries \in Nat

VARIABLES
  up,        \* the panel's process runs
  byID,      \* Sessions.byID: sessions in memory
  disk,      \* sessions.json
  over,      \* sessions whose time is over
  failures,  \* recent failures of the address
  req,       \* where each login request is
  log,       \* audit.log: entries, Torn or Bad
  older,     \* audit.log.1
  entry,     \* the number of entries begun
  issued, revoked, \* history: tokens handed out, and logged out
  saved,     \* history: tokens that were written to sessions.json
  unsaved,   \* history: tokens logged out and not yet struck off sessions.json
  done, dropped, \* history: entries recorded, and those rotated away
  torn       \* history: lines cut off

authVars == <<byID, disk, over, issued, revoked, saved, unsaved>>
auditVars == <<log, older, entry, done, dropped, torn>>
vars == <<up, failures, req, authVars, auditVars>>

Torn == 0             \* a line without its end
Bad == MaxEntries + 1 \* a line that is not an entry
Entries == 1..MaxEntries
Lines == 0..Bad

TypeOK ==
  /\ up \in BOOLEAN
  /\ byID \subseteq Tokens /\ disk \subseteq Tokens /\ over \subseteq Tokens
  /\ issued \subseteq Tokens /\ revoked \subseteq issued
  /\ saved \subseteq issued /\ unsaved \subseteq revoked
  /\ failures \in Nat
  /\ req \in [Requests -> {"none", "queue", "verify", "record"}]
  /\ log \in Seq(Lines) /\ older \in Seq(Lines)
  /\ entry \in 0..MaxEntries /\ done \subseteq Entries /\ dropped \subseteq Entries
  /\ torn \in Nat

Init ==
  /\ up = FALSE
  /\ byID = {} /\ disk = {} /\ over = {}
  /\ issued = {} /\ revoked = {} /\ saved = {} /\ unsaved = {}
  /\ failures = 0
  /\ req = [r \in Requests |-> "none"]
  /\ log = <<>> /\ older = <<>> /\ entry = 0
  /\ done = {} /\ dropped = {} /\ torn = 0

-----------------------------------------------------------------------------
(* The audit log *)

Legible(lines) == {lines[i] : i \in 1..Len(lines)} \cap Entries

Newest(entries) ==
  {e \in entries : Cardinality({f \in entries : f > e}) < MaxScan}

(* What List lists: the newest of both generations; a page is cut out      *)
(* afterwards.                                                             *)
Listing == Newest(Legible(older) \cup Legible(log))

(* The log gets a new line, or the rest of the line that has no end. *)
WithLine(lines, e) ==
  IF lines # <<>> /\ lines[Len(lines)] = Torn
  THEN [lines EXCEPT ![Len(lines)] = IF e = Torn THEN Torn ELSE Bad]
  ELSE Append(lines, e)

(* Mistake: the full log is emptied instead of kept as a generation. *)
RecordEmptying(line) ==
  LET full == Len(log) >= MaxLines
  IN  /\ log' = WithLine(IF full THEN <<>> ELSE log, line)
      /\ UNCHANGED <<older, dropped>>

(* rotateLocked: a full log takes the place of the older generation, and   *)
(* `kept` is what is in audit.log then.  The rename may fail.              *)
Rotate(kept) ==
  \/ kept = log /\ UNCHANGED <<older, dropped>>
  \/ /\ Len(log) >= MaxLines /\ kept = <<>>
     /\ older' = log /\ dropped' = dropped \cup Legible(older)

(* Record: rotate, then append. *)
Record(line) ==
  \E kept \in {log, <<>>} : Rotate(kept) /\ log' = WithLine(kept, line)

(* ... or fail to open the file. *)
RecordNothing == \E kept \in {log, <<>>} : Rotate(kept) /\ log' = kept

(* The caller's entry.  The log may be unwritable, or take a part of the   *)
(* line only, which stops nobody.                                          *)
RecordDone ==
  /\ entry < MaxEntries /\ entry' = entry + 1
  /\ \/ Record(entry') /\ done' = done \cup {entry'} /\ UNCHANGED torn
     \/ Record(Torn) /\ torn' = torn + 1 /\ UNCHANGED done
     \/ RecordNothing /\ UNCHANGED <<done, torn>>

-----------------------------------------------------------------------------
(* Sessions *)

Valid(t) == t \in byID \ over

(* requireAuth lets a request pass that brings a live session. *)
Authed(t) == up /\ Valid(t)

(* saveLocked writes a file beside and renames it; a failure is ignored. *)
Save(m) ==
  \/ disk' = m /\ saved' = saved \cup m /\ unsaved' = unsaved \cap m
  \/ UNCHANGED <<disk, saved, unsaved>>

(* Mistake: the file gets the new session alone. *)
CreateSessionAlone(t) ==
  /\ t \notin issued
  /\ issued' = issued \cup {t}
  /\ byID' = (byID \ over) \cup {t}
  /\ Save({t})

(* Sessions.Create: the store is rid of what is over, and saved. *)
CreateSession(t) ==
  /\ t \notin issued
  /\ issued' = issued \cup {t}
  /\ byID' = (byID \ over) \cup {t}
  /\ Save(byID')

(* Mistake: a logout is not saved. *)
LogoutInMemory(t) ==
  /\ Authed(t)
  /\ byID' = byID \ {t} /\ revoked' = revoked \cup {t}
  /\ UNCHANGED <<up, disk, saved, unsaved, over, issued, failures, req, auditVars>>

(* Sessions.Revoke *)
Revoke(t) ==
  /\ byID' = byID \ {t} /\ revoked' = revoked \cup {t}
  /\ \/ disk' = byID' /\ saved' = saved \cup byID' /\ unsaved' = unsaved \cap byID'
     \/ unsaved' = unsaved \cup {t} /\ UNCHANGED <<disk, saved>>

(* POST /api/auth/logout, behind requireAuth. *)
Logout(t) ==
  /\ Authed(t) /\ Revoke(t)
  /\ UNCHANGED <<up, over, issued, failures, req, auditVars>>

Expire(t) ==
  /\ t \in issued \ over
  /\ over' = over \cup {t}
  /\ UNCHANGED <<up, byID, disk, issued, revoked, saved, unsaved, failures, req, auditVars>>

-----------------------------------------------------------------------------
(* Logging in *)

(* Mistake: off by one. *)
AllowOneMore == failures <= MaxFail

Allow == failures < MaxFail
Fail == failures' = failures + 1
Reset == failures' = 0

Goes(r, to) == req' = [req EXCEPT ![r] = to]

(* The limiter is asked before the password is read. *)
Arrive(r) ==
  /\ up /\ req[r] = "none" /\ Allow
  /\ Goes(r, "queue")
  /\ UNCHANGED <<up, failures, authVars, auditVars>>

Refuse(r) ==
  /\ up /\ req[r] = "none" /\ ~Allow
  /\ Goes(r, "record")
  /\ UNCHANGED <<up, failures, authVars, auditVars>>

(* A request waits for a slot, or its client goes away while it does. *)
TakeSlot(r) ==
  /\ req[r] = "queue"
  /\ \/ Cardinality({q \in Requests : req[q] = "verify"}) < Slots /\ Goes(r, "verify")
     \/ Goes(r, "none")
  /\ UNCHANGED <<up, failures, authVars, auditVars>>

Wrong(r) ==
  /\ req[r] = "verify"
  /\ Fail
  /\ Goes(r, "record")
  /\ UNCHANGED <<up, authVars, auditVars>>

Right(r, t) ==
  /\ req[r] = "verify"
  /\ Reset
  /\ CreateSession(t)
  /\ Goes(r, "record")
  /\ UNCHANGED <<up, over, revoked, auditVars>>

(* The handler ends with an entry of what became of it. *)
Answer(r) ==
  /\ req[r] = "record"
  /\ RecordDone
  /\ Goes(r, "none")
  /\ UNCHANGED <<up, failures, authVars>>

(* The oldest failure leaves the window. *)
Forget ==
  /\ failures > 0
  /\ failures' = failures - 1
  /\ UNCHANGED <<up, req, authVars, auditVars>>

-----------------------------------------------------------------------------
(* The process *)

Ends == up' = FALSE /\ byID' = {} /\ failures' = 0 /\ req' = [r \in Requests |-> "none"]

(* NewSessions reads the file and drops what is over. *)
Boot ==
  /\ ~up /\ up' = TRUE
  /\ byID' = disk \ over
  /\ UNCHANGED <<disk, over, issued, revoked, saved, unsaved, failures, req, auditVars>>

(* The process is gone at once: what is only in memory is lost. *)
Crash ==
  /\ up /\ Ends
  /\ UNCHANGED <<disk, over, issued, revoked, saved, unsaved, auditVars>>

(* ... while it wrote a line of the log. *)
CrashInRecord(r) ==
  /\ up /\ req[r] = "record" /\ entry < MaxEntries
  /\ Record(Torn) /\ entry' = entry + 1 /\ torn' = torn + 1
  /\ Ends
  /\ UNCHANGED <<disk, over, issued, revoked, saved, unsaved, done>>

Next ==
  \/ \E t \in Tokens : Logout(t) \/ Expire(t)
  \/ \E r \in Requests : \/ Arrive(r) \/ Refuse(r) \/ TakeSlot(r) \/ Wrong(r) \/ Answer(r)
                         \/ CrashInRecord(r)
                         \/ \E t \in Tokens : Right(r, t)
  \/ Forget \/ Boot \/ Crash

Spec == Init /\ [][Next]_vars

-----------------------------------------------------------------------------
(* Properties *)

(* The limiter lets through at most the failures it is set to, and one     *)
(* more for each further request that was already past it.                 *)
Admitted == {r \in Requests : req[r] \in {"queue", "verify"}}
FailuresBounded == failures + Cardinality(Admitted) < MaxFail + Cardinality(Requests)

(* A session that was logged out stays out over every restart, unless no   *)
(* save has succeeded since it was.                                        *)
RevokedStaysOut == \A t \in revoked \ unsaved : t \notin byID \cup disk

(* A login that reached the disk lasts until it is over or logged out,     *)
(* whatever restarts, crashes and failed saves come between.               *)
LoginLasts == up => \A t \in saved \ (revoked \cup over) : Valid(t)

(* Of the newest MaxScan recorded entries each can be listed until it is   *)
(* rotated away; a line that was cut off, by a crash or a full disk, costs *)
(* at most one entry of a later one.                                       *)
EntriesAreKept == Cardinality(Newest(done) \ (Listing \cup dropped)) <= torn
=============================================================================
