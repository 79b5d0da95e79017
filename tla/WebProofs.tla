----------------------------- MODULE WebProofs -----------------------------
(***************************************************************************)
(* What the web server keeps, in two parts: the logins and the audit log   *)
(* (Access), and the web terminal (Terminals, whose general names begin    *)
(* with Terminals).  The two share no variable.                            *)
(*                                                                         *)
(* First, what holds of logins and of the audit log for any tokens, any    *)
(* number of overlapping requests and any limits, over every restart and   *)
(* failed save.                                                            *)
(*                                                                         *)
(* LoginLasts is not inductive: while the panel is down it says nothing,   *)
(* so the invariant says what the file holds (FileHolds).  That a torn     *)
(* line costs one entry only needs to know whether the last one has been   *)
(* paid for (Damage); that the listing is cut costs none of the newest     *)
(* entries, because all that is readable was recorded.                     *)
(***************************************************************************)
EXTENDS Access, Terminals, FiniteSetTheorems, SequenceTheorems, TLAPS

FileHolds ==
  /\ saved \ (revoked \cup over) \subseteq disk
  /\ up => saved \ (revoked \cup over) \subseteq byID

LastIsTorn(lines) == lines # <<>> /\ lines[Len(lines)] = Torn
Readable == Legible(older) \cup Legible(log)
Lost == done \ (Readable \cup dropped)
Damage == Cardinality(Lost) + (IF LastIsTorn(log) THEN 1 ELSE 0) <= torn

(* A request is a goroutine of the process. *)
DownIsIdle == ~up => \A r \in Requests : req[r] = "none"

(* Only tokens that were drawn are in the store or its file. *)
KnownOnly == byID \cup disk \subseteq issued

SessionInv == RevokedStaysOut /\ FileHolds /\ KnownOnly /\ DownIsIdle
LogInv == done \subseteq 1..entry /\ Readable \subseteq done /\ Damage

IInv == TypeOK /\ FailuresBounded /\ SessionInv /\ LogInv

-----------------------------------------------------------------------------
(* The lines of the log *)

LEMMA LegibleAppend ==
  ASSUME NEW l \in Seq(Lines), NEW e \in Lines
  PROVE  Legible(Append(l, e)) = Legible(l) \cup ({e} \cap Entries)
BY DEF Legible

LEMMA LegibleSpoilt ==
  ASSUME NEW l \in Seq(Lines), LastIsTorn(l), NEW e \in {Torn, Bad}
  PROVE  Legible([l EXCEPT ![Len(l)] = e]) = Legible(l)
<1>1. Torn \notin Entries /\ Bad \notin Entries /\ e \notin Entries
  BY AccessAssumption DEF Torn, Bad, Entries
<1> QED BY <1>1 DEF Legible, LastIsTorn

LEMMA WithLineFacts ==
  ASSUME NEW l \in Seq(Lines), NEW e \in Lines, e # Bad
  PROVE  /\ WithLine(l, e) \in Seq(Lines)
         /\ LastIsTorn(WithLine(l, e)) <=> e = Torn
         /\ LastIsTorn(l) => Legible(WithLine(l, e)) = Legible(l)
         /\ ~LastIsTorn(l) => Legible(WithLine(l, e)) = Legible(l) \cup ({e} \cap Entries)
<1>1. Torn \in Lines /\ Bad \in Lines /\ Torn # Bad
  BY AccessAssumption DEF Torn, Bad, Lines
<1>2. CASE LastIsTorn(l)
  <2> DEFINE x == IF e = Torn THEN Torn ELSE Bad
  <2>1. WithLine(l, e) = [l EXCEPT ![Len(l)] = x]
    BY <1>2 DEF WithLine, LastIsTorn
  <2>2. x \in {Torn, Bad} /\ x \in Lines
    BY <1>1
  <2>3. Legible([l EXCEPT ![Len(l)] = x]) = Legible(l)
    BY <1>2, <2>2, LegibleSpoilt
  <2>4. /\ [l EXCEPT ![Len(l)] = x] \in Seq(Lines)
        /\ Len([l EXCEPT ![Len(l)] = x]) = Len(l)
        /\ Len(l) \in 1..Len(l)
    BY <1>2, <2>2 DEF LastIsTorn
  <2>5. [l EXCEPT ![Len(l)] = x][Len(l)] = x
    BY <2>4
  <2>6. LastIsTorn([l EXCEPT ![Len(l)] = x]) <=> x = Torn
    BY <2>4, <2>5 DEF LastIsTorn
  <2> QED BY <1>1, <1>2, <2>1, <2>3, <2>4, <2>6
<1>3. CASE ~LastIsTorn(l)
  <2>1. WithLine(l, e) = Append(l, e)
    BY <1>3 DEF WithLine, LastIsTorn
  <2>2. LastIsTorn(Append(l, e)) <=> e = Torn
    BY DEF LastIsTorn
  <2> QED BY <1>3, <2>1, <2>2, LegibleAppend
<1> QED BY <1>2, <1>3

(* What Rotate leaves in audit.log and beside it. *)
LEMMA RotateFacts ==
  ASSUME TypeOK, NEW kept \in {log, <<>>}, Rotate(kept)
  PROVE  /\ kept \in Seq(Lines) /\ older' \in Seq(Lines) /\ dropped' \subseteq Entries
         /\ Legible(kept) \cup Legible(older') \subseteq Readable
         /\ Readable \cup dropped \subseteq Legible(kept) \cup Legible(older') \cup dropped'
         /\ LastIsTorn(kept) => LastIsTorn(log)
<1>1. log \in Seq(Lines) /\ older \in Seq(Lines) /\ dropped \subseteq Entries
  BY DEF TypeOK
<1>2. \A l : Legible(l) \subseteq Entries
  BY DEF Legible
<1>3. CASE kept = log /\ UNCHANGED <<older, dropped>>
  BY <1>1, <1>3 DEF Readable
<1>4. CASE kept = <<>> /\ older' = log /\ dropped' = dropped \cup Legible(older)
  <2>1. Legible(kept) = {} /\ ~LastIsTorn(kept) /\ kept \in Seq(Lines)
    BY <1>4 DEF Legible, LastIsTorn
  <2> QED BY <1>1, <1>2, <1>4, <2>1 DEF Readable
<1> QED BY <1>3, <1>4 DEF Rotate

LEMMA RecordFacts ==
  ASSUME TypeOK, NEW e \in Lines, e # Bad, Record(e)
  PROVE  /\ log' \in Seq(Lines) /\ older' \in Seq(Lines) /\ dropped' \subseteq Entries
         /\ Readable \cup dropped \subseteq Readable' \cup dropped'
         /\ Readable' \subseteq Readable \cup ({e} \cap Entries)
         /\ LastIsTorn(log') <=> e = Torn
         /\ e \in Entries /\ ~LastIsTorn(log) => e \in Readable'
<1>1. PICK kept \in {log, <<>>} : Rotate(kept) /\ log' = WithLine(kept, e)
  BY DEF Record
<1>2. /\ kept \in Seq(Lines) /\ older' \in Seq(Lines) /\ dropped' \subseteq Entries
      /\ Legible(kept) \cup Legible(older') \subseteq Readable
      /\ Readable \cup dropped \subseteq Legible(kept) \cup Legible(older') \cup dropped'
      /\ LastIsTorn(kept) => LastIsTorn(log)
  BY <1>1, RotateFacts
<1>3. /\ log' \in Seq(Lines)
      /\ LastIsTorn(log') <=> e = Torn
      /\ LastIsTorn(kept) => Legible(log') = Legible(kept)
      /\ ~LastIsTorn(kept) => Legible(log') = Legible(kept) \cup ({e} \cap Entries)
  BY <1>1, <1>2, WithLineFacts
<1>4. Readable' = Legible(older') \cup Legible(log')
  BY DEF Readable
<1> QED BY <1>2, <1>3, <1>4

LEMMA LostIsFinite == ASSUME TypeOK PROVE IsFiniteSet(Lost) /\ Cardinality(Lost) \in Nat
<1>1. IsFiniteSet(Entries)
  BY AccessAssumption, FS_Interval DEF Entries
<1>2. Lost \subseteq Entries
  BY DEF TypeOK, Lost
<1> QED BY <1>1, <1>2, FS_Subset, FS_CardinalityType

(* A line is cut off, by a full disk or the end of the process: what is    *)
(* left of it is paid for.                                                 *)
LEMMA TornInv ==
  ASSUME TypeOK, LogInv, Record(Torn), entry < MaxEntries, entry' = entry + 1,
         torn' = torn + 1, done' = done
  PROVE  /\ LogInv'
         /\ log' \in Seq(Lines) /\ older' \in Seq(Lines) /\ dropped' \subseteq Entries
         /\ entry' \in 0..MaxEntries /\ done' \subseteq Entries /\ torn' \in Nat
<1>1. /\ Torn \in Lines /\ Torn # Bad /\ Torn \notin Entries /\ torn \in Nat /\ entry \in 0..MaxEntries
      /\ entry' \in 0..MaxEntries /\ 1..entry \subseteq 1..entry'
  BY AccessAssumption DEF TypeOK, Lines, Bad, Torn, Entries
<1>2. /\ log' \in Seq(Lines) /\ older' \in Seq(Lines) /\ dropped' \subseteq Entries
      /\ Readable \cup dropped \subseteq Readable' \cup dropped'
      /\ LastIsTorn(log') /\ Readable' \subseteq Readable
  BY <1>1, RecordFacts
<1>3. Lost' \subseteq Lost
  BY <1>2 DEF Lost
<1>4. IsFiniteSet(Lost) /\ Cardinality(Lost) \in Nat
  BY LostIsFinite
<1>5. Cardinality(Lost') <= Cardinality(Lost) /\ Cardinality(Lost') \in Nat
  BY <1>3, <1>4, FS_Subset, FS_CardinalityType
<1>6. Cardinality(Lost) <= torn
  BY <1>1, <1>4 DEF LogInv, Damage
<1>7. Damage'
  BY <1>1, <1>2, <1>4, <1>5, <1>6 DEF Damage
<1> QED BY <1>1, <1>2, <1>7 DEF LogInv, TypeOK

(* A handler records its entry, or cannot. *)
LEMMA RecordDoneInv ==
  ASSUME TypeOK, LogInv, RecordDone
  PROVE  /\ LogInv'
         /\ log' \in Seq(Lines) /\ older' \in Seq(Lines) /\ dropped' \subseteq Entries
         /\ entry' \in 0..MaxEntries /\ done' \subseteq Entries /\ torn' \in Nat
<1> DEFINE e == entry + 1
<1>1. /\ entry' = e /\ e \in Entries /\ e \in Lines /\ e # Bad /\ e # Torn
      /\ e \in 0..MaxEntries /\ e \notin done /\ done \subseteq 1..entry /\ 1..entry \subseteq 1..e
      /\ torn \in Nat /\ entry \in 0..MaxEntries
  BY AccessAssumption DEF RecordDone, TypeOK, LogInv, Entries, Lines, Bad, Torn
<1>2. IsFiniteSet(Lost) /\ Cardinality(Lost) \in Nat
  BY LostIsFinite
<1>3. Cardinality(Lost) + (IF LastIsTorn(log) THEN 1 ELSE 0) <= torn
  BY DEF LogInv, Damage
<1>4. CASE Record(entry') /\ done' = done \cup {entry'} /\ torn' = torn
  <2>1. Record(e) /\ done' = done \cup {e}
    BY <1>1, <1>4
  <2>2. /\ log' \in Seq(Lines) /\ older' \in Seq(Lines) /\ dropped' \subseteq Entries
        /\ Readable \cup dropped \subseteq Readable' \cup dropped'
        /\ ~LastIsTorn(log')
        /\ ~LastIsTorn(log) => e \in Readable'
        /\ Readable' \subseteq Readable \cup {e}
    BY <1>1, <2>1, RecordFacts
  <2>3. Lost = done \ (Readable \cup dropped) /\ Lost' = done' \ (Readable' \cup dropped')
    BY DEF Lost
  <2>4. Cardinality(Lost') <= torn
    <3>1. CASE LastIsTorn(log)
      <4>1. Lost' \subseteq Lost \cup {e}
        BY <2>1, <2>2, <2>3
      <4>2. IsFiniteSet(Lost \cup {e}) /\ Cardinality(Lost \cup {e}) <= Cardinality(Lost) + 1
        BY <1>2, FS_AddElement
      <4>3. Cardinality(Lost \cup {e}) \in Nat
        BY <4>2, FS_CardinalityType
      <4>4. Cardinality(Lost') <= Cardinality(Lost \cup {e}) /\ IsFiniteSet(Lost')
        BY <4>1, <4>2, FS_Subset
      <4>5. Cardinality(Lost') \in Nat
        BY <4>4, FS_CardinalityType
      <4> QED BY <1>1, <1>2, <1>3, <3>1, <4>2, <4>3, <4>4, <4>5
    <3>2. CASE ~LastIsTorn(log)
      <4>1. Lost' \subseteq Lost
        BY <2>1, <2>2, <2>3, <3>2
      <4>2. Cardinality(Lost') <= Cardinality(Lost) /\ IsFiniteSet(Lost')
        BY <1>2, <4>1, FS_Subset
      <4>3. Cardinality(Lost') \in Nat
        BY <4>2, FS_CardinalityType
      <4> QED BY <1>1, <1>2, <1>3, <3>2, <4>2, <4>3
    <3> QED BY <3>1, <3>2
  <2>5. Cardinality(Lost') + (IF LastIsTorn(log') THEN 1 ELSE 0) <= torn'
    <3>1. (IF LastIsTorn(log') THEN 1 ELSE 0) = 0
      BY <2>2
    <3>2. IsFiniteSet(Lost')
      <4>1. Lost' \subseteq Lost \cup {e}
        BY <2>1, <2>2, <2>3
      <4> QED BY <1>2, <4>1, FS_AddElement, FS_Subset
    <3>3. Cardinality(Lost') \in Nat
      BY <3>2, FS_CardinalityType
    <3> QED BY <1>1, <1>4, <2>4, <3>1, <3>3
  <2>6. done' \subseteq 1..entry' /\ done' \subseteq Entries
    BY <1>1, <2>1 DEF TypeOK, Entries
  <2>7. Readable' \subseteq done'
    BY <2>1, <2>2 DEF LogInv
  <2>8. torn' \in Nat
    BY <1>1, <1>4
  <2> QED BY <1>1, <2>2, <2>5, <2>6, <2>7, <2>8 DEF LogInv, Damage
<1>5. CASE Record(Torn) /\ torn' = torn + 1 /\ UNCHANGED done
  BY <1>1, <1>5, TornInv DEF RecordDone
<1>6. CASE RecordNothing /\ UNCHANGED <<done, torn>>
  <2>1. PICK kept \in {log, <<>>} : Rotate(kept) /\ log' = kept
    BY <1>6 DEF RecordNothing
  <2>2. /\ log' \in Seq(Lines) /\ older' \in Seq(Lines) /\ dropped' \subseteq Entries
        /\ Readable' \subseteq Readable
        /\ Readable \cup dropped \subseteq Readable' \cup dropped'
        /\ LastIsTorn(log') => LastIsTorn(log)
    BY <2>1, RotateFacts DEF Readable
  <2>3. Lost' \subseteq Lost
    BY <1>6, <2>2 DEF Lost
  <2>4. Cardinality(Lost') <= Cardinality(Lost) /\ Cardinality(Lost') \in Nat
    BY <1>2, <2>3, FS_Subset, FS_CardinalityType
  <2>5. Damage'
    BY <1>1, <1>2, <1>3, <1>6, <2>2, <2>4 DEF Damage
  <2> QED BY <1>1, <1>6, <2>2, <2>5 DEF LogInv, TypeOK
<1> QED BY <1>4, <1>5, <1>6 DEF RecordDone

LEMMA LogKept ==
  ASSUME LogInv, UNCHANGED auditVars
  PROVE  LogInv'
BY DEF LogInv, Damage, Lost, Readable, Legible, LastIsTorn, auditVars

-----------------------------------------------------------------------------
(* The sessions and their file *)

LEMMA SaveKeeps ==
  ASSUME TypeOK, SessionInv, up, up' = up, NEW t \in Tokens, CreateSession(t),
         UNCHANGED <<over, revoked>>
  PROVE  RevokedStaysOut' /\ FileHolds' /\ KnownOnly'
<1>1. revoked \subseteq issued /\ saved \subseteq issued /\ t \notin revoked
  BY DEF TypeOK, CreateSession
<1>2. byID' = (byID \ over) \cup {t} /\ Save(byID')
  BY DEF CreateSession
<1>3. KnownOnly'
  BY <1>2 DEF SessionInv, KnownOnly, CreateSession, Save
<1>4. CASE disk' = byID' /\ saved' = saved \cup byID' /\ unsaved' = unsaved \cap byID'
  BY <1>1, <1>2, <1>3, <1>4 DEF SessionInv, RevokedStaysOut, FileHolds
<1>5. CASE UNCHANGED <<disk, saved, unsaved>>
  BY <1>1, <1>2, <1>3, <1>5 DEF SessionInv, RevokedStaysOut, FileHolds
<1> QED BY <1>2, <1>4, <1>5 DEF Save

LEMMA RevokeKeeps ==
  ASSUME TypeOK, SessionInv, up, up' = up, NEW t \in Tokens, Revoke(t),
         UNCHANGED <<over, issued>>
  PROVE  RevokedStaysOut' /\ FileHolds' /\ KnownOnly'
<1>1. byID' = byID \ {t} /\ revoked' = revoked \cup {t}
  BY DEF Revoke
<1>2. KnownOnly'
  BY DEF Revoke, SessionInv, KnownOnly
<1>3. CASE disk' = byID' /\ saved' = saved \cup byID' /\ unsaved' = unsaved \cap byID'
  <2>1. RevokedStaysOut'
    BY <1>1, <1>3 DEF SessionInv, RevokedStaysOut
  <2>2. saved' \ (revoked' \cup over') \subseteq byID'
    BY <1>1, <1>3 DEF SessionInv, FileHolds
  <2>3. disk' = byID'
    BY <1>3
  <2> QED BY <1>2, <2>1, <2>2, <2>3 DEF FileHolds
<1>4. CASE unsaved' = unsaved \cup {t} /\ UNCHANGED <<disk, saved>>
  BY <1>1, <1>2, <1>4 DEF SessionInv, RevokedStaysOut, FileHolds
<1> QED BY <1>3, <1>4 DEF Revoke

LEMMA SessionsKept ==
  ASSUME SessionInv, UNCHANGED <<up, authVars>>
  PROVE  RevokedStaysOut' /\ FileHolds' /\ KnownOnly'
BY DEF SessionInv, RevokedStaysOut, FileHolds, KnownOnly, authVars

-----------------------------------------------------------------------------
(* The limiter *)

LEMMA AdmittedIsFinite ==
  /\ IsFiniteSet(Admitted) /\ Cardinality(Admitted) \in Nat
  /\ Cardinality(Admitted) <= Cardinality(Requests) /\ Cardinality(Requests) \in Nat
BY AccessAssumption, FS_Subset, FS_CardinalityType DEF Admitted

LEMMA FewerAdmitted ==
  ASSUME TypeOK, FailuresBounded, failures' \in Nat, failures' <= failures, Admitted' \subseteq Admitted
  PROVE  FailuresBounded'
<1>1. IsFiniteSet(Admitted) /\ Cardinality(Admitted) \in Nat /\ Cardinality(Requests) \in Nat
  BY AdmittedIsFinite
<1>2. Cardinality(Admitted') <= Cardinality(Admitted) /\ Cardinality(Admitted') \in Nat
  BY <1>1, FS_Subset, FS_CardinalityType
<1> QED BY <1>1, <1>2, AccessAssumption DEF FailuresBounded, TypeOK

LEMMA ArriveBounded ==
  ASSUME TypeOK, NEW r \in Requests, Arrive(r)
  PROVE  FailuresBounded'
<1>1. Admitted' \subseteq Requests
  BY DEF Admitted
<1>2. IsFiniteSet(Requests) /\ Cardinality(Requests) \in Nat
  BY AccessAssumption, FS_CardinalityType
<1>3. Cardinality(Admitted') <= Cardinality(Requests) /\ Cardinality(Admitted') \in Nat
  BY <1>1, <1>2, FS_Subset, FS_CardinalityType
<1> QED BY <1>2, <1>3, AccessAssumption DEF FailuresBounded, Arrive, Allow, TypeOK

LEMMA WrongBounded ==
  ASSUME TypeOK, FailuresBounded, NEW r \in Requests, Wrong(r)
  PROVE  FailuresBounded'
<1>1. r \in Admitted /\ Admitted' = Admitted \ {r}
  BY DEF Wrong, Goes, Admitted, TypeOK
<1>2. IsFiniteSet(Admitted) /\ Cardinality(Admitted) \in Nat /\ Cardinality(Requests) \in Nat
  BY AdmittedIsFinite
<1>3. Cardinality(Admitted') = Cardinality(Admitted) - 1
  BY <1>1, <1>2, FS_RemoveElement
<1> QED BY <1>2, <1>3, AccessAssumption DEF FailuresBounded, Wrong, Fail, TypeOK

-----------------------------------------------------------------------------
LEMMA InitInv == Init => IInv
<1> SUFFICES ASSUME Init PROVE IInv
  OBVIOUS
<1>1. TypeOK /\ SessionInv
  <2>1. log \in Seq(Lines) /\ older \in Seq(Lines) /\ entry \in 0..MaxEntries
    BY AccessAssumption DEF Init
  <2>2. TypeOK
    BY <2>1 DEF Init, TypeOK
  <2> QED BY <2>2 DEF Init, SessionInv, RevokedStaysOut, FileHolds, KnownOnly, DownIsIdle
<1>2. FailuresBounded
  <2>1. Admitted = {} /\ Cardinality(Admitted) = 0
    BY FS_EmptySet DEF Init, Admitted
  <2> QED BY <2>1, AdmittedIsFinite, AccessAssumption DEF Init, FailuresBounded
<1>3. LogInv
  <2>1. Lost = {} /\ Cardinality(Lost) = 0 /\ ~LastIsTorn(log)
    BY FS_EmptySet DEF Init, Lost, LastIsTorn
  <2>2. log = <<>> /\ older = <<>> /\ done = {} /\ torn = 0
    BY DEF Init
  <2>3. Readable = {}
    BY <2>2 DEF Readable, Legible
  <2> QED BY <2>1, <2>2, <2>3 DEF LogInv, Damage
<1> QED BY <1>1, <1>2, <1>3 DEF IInv

LEMMA NextInv == IInv /\ [Next]_vars => IInv'
<1> SUFFICES ASSUME IInv, [Next]_vars PROVE IInv'
  OBVIOUS
<1> USE DEF IInv
<1>1. ASSUME NEW t \in Tokens, Logout(t) PROVE IInv'
  <2>1. TypeOK'
    BY <1>1 DEF Logout, Revoke, Authed, Valid, SessionInv, KnownOnly, TypeOK, auditVars
  <2>2. RevokedStaysOut' /\ FileHolds' /\ KnownOnly'
    BY <1>1, RevokeKeeps DEF Logout, Authed
  <2>3. DownIsIdle' /\ Admitted' = Admitted
    BY <1>1 DEF Logout, DownIsIdle, SessionInv, Admitted
  <2>4. LogInv'
    BY <1>1, LogKept DEF Logout
  <2>5. FailuresBounded'
    BY <1>1, <2>3 DEF FailuresBounded, Logout
  <2> QED BY <2>1, <2>2, <2>3, <2>4, <2>5 DEF SessionInv
<1>2. ASSUME NEW t \in Tokens, Expire(t) PROVE IInv'
  <2>1. TypeOK'
    BY <1>2 DEF Expire, TypeOK, auditVars
  <2>2. SessionInv'
    BY <1>2 DEF Expire, SessionInv, RevokedStaysOut, FileHolds, KnownOnly, DownIsIdle
  <2>3. FailuresBounded'
    BY <1>2 DEF FailuresBounded, Admitted, Expire
  <2>4. LogInv'
    BY <1>2, LogKept DEF Expire
  <2> QED BY <2>1, <2>2, <2>3, <2>4
<1>3. ASSUME NEW r \in Requests, Arrive(r) PROVE IInv'
  <2>1. TypeOK'
    BY <1>3 DEF Arrive, Goes, TypeOK, authVars, auditVars
  <2>2. SessionInv'
    BY <1>3, SessionsKept DEF Arrive, SessionInv, DownIsIdle
  <2>3. FailuresBounded'
    BY <1>3, ArriveBounded
  <2>4. LogInv'
    BY <1>3, LogKept DEF Arrive
  <2> QED BY <2>1, <2>2, <2>3, <2>4
<1>4. ASSUME NEW r \in Requests, Refuse(r) PROVE IInv'
  <2>1. TypeOK'
    BY <1>4 DEF Refuse, Goes, TypeOK, authVars, auditVars
  <2>2. SessionInv'
    BY <1>4, SessionsKept DEF Refuse, SessionInv, DownIsIdle
  <2>3. FailuresBounded'
    <3>1. Admitted' \subseteq Admitted
      BY <1>4 DEF Refuse, Goes, Admitted, TypeOK
    <3> QED BY <1>4, <3>1, FewerAdmitted DEF Refuse, TypeOK
  <2>4. LogInv'
    BY <1>4, LogKept DEF Refuse
  <2> QED BY <2>1, <2>2, <2>3, <2>4
<1>5. ASSUME NEW r \in Requests, TakeSlot(r) PROVE IInv'
  <2>1. TypeOK'
    BY <1>5 DEF TakeSlot, Goes, TypeOK, authVars, auditVars
  <2>2. SessionInv'
    <3>1. up' = up /\ (~up => FALSE)
      BY <1>5 DEF TakeSlot, SessionInv, DownIsIdle
    <3> QED BY <1>5, <3>1, SessionsKept DEF TakeSlot, SessionInv, DownIsIdle
  <2>3. FailuresBounded'
    <3>1. Admitted' \subseteq Admitted
      BY <1>5 DEF TakeSlot, Goes, Admitted, TypeOK
    <3> QED BY <1>5, <3>1, FewerAdmitted DEF TakeSlot, TypeOK
  <2>4. LogInv'
    BY <1>5, LogKept DEF TakeSlot
  <2> QED BY <2>1, <2>2, <2>3, <2>4
<1>6. ASSUME NEW r \in Requests, Wrong(r) PROVE IInv'
  <2>1. TypeOK'
    BY <1>6 DEF Wrong, Fail, Goes, TypeOK, authVars, auditVars
  <2>2. SessionInv'
    BY <1>6, SessionsKept DEF Wrong, SessionInv, DownIsIdle
  <2>3. FailuresBounded'
    BY <1>6, WrongBounded
  <2>4. LogInv'
    BY <1>6, LogKept DEF Wrong
  <2> QED BY <2>1, <2>2, <2>3, <2>4
<1>7. ASSUME NEW r \in Requests, Answer(r) PROVE IInv'
  <2>1. /\ LogInv'
        /\ log' \in Seq(Lines) /\ older' \in Seq(Lines) /\ dropped' \subseteq Entries
        /\ entry' \in 0..MaxEntries /\ done' \subseteq Entries /\ torn' \in Nat
    BY <1>7, RecordDoneInv DEF Answer
  <2>2. TypeOK'
    BY <1>7, <2>1 DEF Answer, Goes, TypeOK, authVars
  <2>3. SessionInv'
    BY <1>7, SessionsKept DEF Answer, SessionInv, DownIsIdle
  <2>4. FailuresBounded'
    <3>1. Admitted' \subseteq Admitted
      BY <1>7 DEF Answer, Goes, Admitted, TypeOK
    <3> QED BY <1>7, <3>1, FewerAdmitted DEF Answer, TypeOK
  <2> QED BY <2>1, <2>2, <2>3, <2>4
<1>8. ASSUME NEW r \in Requests, CrashInRecord(r) PROVE IInv'
  <2>1. /\ LogInv'
        /\ log' \in Seq(Lines) /\ older' \in Seq(Lines) /\ dropped' \subseteq Entries
        /\ entry' \in 0..MaxEntries /\ done' \subseteq Entries /\ torn' \in Nat
    BY <1>8, TornInv DEF CrashInRecord
  <2>2. TypeOK'
    BY <1>8, <2>1 DEF CrashInRecord, Ends, TypeOK
  <2>3. SessionInv'
    BY <1>8 DEF CrashInRecord, Ends, SessionInv, RevokedStaysOut, FileHolds, KnownOnly, DownIsIdle
  <2>4. FailuresBounded'
    <3>1. Admitted' \subseteq Admitted
      BY <1>8 DEF CrashInRecord, Ends, Admitted
    <3> QED BY <1>8, <3>1, FewerAdmitted DEF CrashInRecord, Ends, TypeOK
  <2> QED BY <2>1, <2>2, <2>3, <2>4
<1>9. ASSUME NEW r \in Requests, NEW t \in Tokens, Right(r, t) PROVE IInv'
  <2>1. TypeOK'
    <3>1. byID' \subseteq Tokens /\ byID' \subseteq issued' /\ issued' \subseteq Tokens
      BY <1>9 DEF Right, CreateSession, SessionInv, KnownOnly, TypeOK
    <3>2. disk' \subseteq Tokens /\ saved' \subseteq issued' /\ unsaved' \subseteq revoked
      BY <1>9, <3>1 DEF Right, CreateSession, Save, TypeOK
    <3>3. req' \in [Requests -> {"none", "queue", "verify", "record"}]
      BY <1>9 DEF Right, Goes, TypeOK
    <3> QED BY <1>9, <3>1, <3>2, <3>3 DEF Right, Reset, CreateSession, TypeOK, auditVars
  <2>2. up
    BY <1>9 DEF Right, SessionInv, DownIsIdle
  <2>3. SessionInv'
    BY <1>9, <2>2, SaveKeeps DEF Right, SessionInv, DownIsIdle
  <2>4. FailuresBounded'
    <3>1. Admitted' \subseteq Admitted
      BY <1>9 DEF Right, Goes, Admitted, TypeOK
    <3> QED BY <1>9, <3>1, FewerAdmitted DEF Right, Reset, TypeOK
  <2>5. LogInv'
    BY <1>9, LogKept DEF Right
  <2> QED BY <2>1, <2>3, <2>4, <2>5
<1>10. CASE Forget
  <2>1. TypeOK'
    BY <1>10 DEF Forget, TypeOK, authVars, auditVars
  <2>2. SessionInv'
    BY <1>10, SessionsKept DEF Forget, SessionInv, DownIsIdle
  <2>3. FailuresBounded'
    <3>1. Admitted' \subseteq Admitted
      BY <1>10 DEF Forget, Admitted
    <3> QED BY <1>10, <3>1, FewerAdmitted DEF Forget, TypeOK
  <2>4. LogInv'
    BY <1>10, LogKept DEF Forget
  <2> QED BY <2>1, <2>2, <2>3, <2>4
<1>11. CASE Boot
  <2>1. TypeOK'
    BY <1>11 DEF Boot, TypeOK, auditVars
  <2>2. SessionInv'
    BY <1>11 DEF Boot, SessionInv, RevokedStaysOut, FileHolds, KnownOnly, DownIsIdle
  <2>3. FailuresBounded'
    BY <1>11 DEF FailuresBounded, Admitted, Boot
  <2>4. LogInv'
    BY <1>11, LogKept DEF Boot
  <2> QED BY <2>1, <2>2, <2>3, <2>4
<1>12. CASE Crash
  <2>1. TypeOK'
    BY <1>12 DEF Crash, Ends, TypeOK, auditVars
  <2>2. SessionInv'
    BY <1>12 DEF Crash, Ends, SessionInv, RevokedStaysOut, FileHolds, KnownOnly, DownIsIdle
  <2>3. FailuresBounded'
    <3>1. Admitted' \subseteq Admitted
      BY <1>12 DEF Crash, Ends, Admitted
    <3> QED BY <1>12, <3>1, FewerAdmitted DEF Crash, Ends, TypeOK
  <2>4. LogInv'
    BY <1>12, LogKept DEF Crash
  <2> QED BY <2>1, <2>2, <2>3, <2>4
<1>13. CASE UNCHANGED vars
  <2>1. TypeOK' /\ SessionInv' /\ FailuresBounded'
    BY <1>13 DEF vars, authVars, auditVars, TypeOK, SessionInv, RevokedStaysOut, FileHolds, KnownOnly,
                 DownIsIdle, FailuresBounded, Admitted
  <2> QED BY <1>13, <2>1, LogKept DEF vars
<1> QED BY <1>1, <1>2, <1>3, <1>4, <1>5, <1>6, <1>7, <1>8, <1>9, <1>10, <1>11, <1>12, <1>13 DEF Next

LEMMA Invariance == Spec => []IInv
BY InitInv, NextInv, PTL DEF Spec

-----------------------------------------------------------------------------
(* The variables of Access have their types, for any constants. *)
THEOREM TypeCorrect == Spec => []TypeOK
<1>1. IInv => TypeOK
  BY DEF IInv
<1> QED BY <1>1, Invariance, PTL

(* A logged-out session never comes back, through any number of restarts,  *)
(* once one save after the logout has succeeded (session.go, Revoke, Save  *)
(* and NewSessions).                                                       *)
THEOREM RevokedCorrect == Spec => []RevokedStaysOut
<1>1. IInv => RevokedStaysOut
  BY DEF IInv, SessionInv
<1> QED BY <1>1, Invariance, PTL

(* A login that was once saved is valid whenever the panel runs, until it  *)
(* is over or logged out, whichever later saves fail.                      *)
THEOREM LoginCorrect == Spec => []LoginLasts
<1>1. IInv => LoginLasts
  BY DEF IInv, SessionInv, FileHolds, LoginLasts, Valid, TypeOK
<1> QED BY <1>1, Invariance, PTL

(* However many requests overlap, the checks that the limiter lets through *)
(* in one window exceed its limit by at most those already past it.        *)
THEOREM LimiterCorrect == Spec => []FailuresBounded
<1>1. IInv => FailuresBounded
  BY DEF IInv
<1> QED BY <1>1, Invariance, PTL

(* Each of the newest MaxScan entries that Record wrote is listed until it *)
(* is rotated away, up to one entry for each line that was cut off.        *)
THEOREM LogCorrect == Spec => []EntriesAreKept
<1>1. IInv => EntriesAreKept
  <2> SUFFICES ASSUME IInv PROVE EntriesAreKept
    OBVIOUS
  <2> DEFINE missing == Newest(done) \ (Listing \cup dropped)
  <2>1. IsFiniteSet(Lost) /\ Cardinality(Lost) \in Nat
    BY LostIsFinite DEF IInv
  <2>2. IsFiniteSet(done) /\ Readable \subseteq done
    <3>1. IsFiniteSet(Entries)
      BY AccessAssumption, FS_Interval DEF Entries
    <3> QED BY <3>1, FS_Subset DEF IInv, TypeOK, LogInv
  <2>3. \A e \in Newest(done) : e \in Readable => e \in Listing
    <3> SUFFICES ASSUME NEW e \in Newest(done), e \in Readable PROVE e \in Listing
      OBVIOUS
    <3> DEFINE newer(S) == {f \in S : f > e}
    <3>1. newer(Readable) \subseteq newer(done) /\ newer(done) \subseteq done
      BY <2>2
    <3>2. IsFiniteSet(newer(done)) /\ Cardinality(newer(done)) < MaxScan
      BY <2>2, <3>1, FS_Subset DEF Newest
    <3>3. /\ Cardinality(newer(Readable)) <= Cardinality(newer(done))
          /\ IsFiniteSet(newer(Readable))
      BY <3>1, <3>2, FS_Subset
    <3>4. Cardinality(newer(Readable)) \in Nat /\ Cardinality(newer(done)) \in Nat
      BY <3>2, <3>3, FS_CardinalityType
    <3>5. Cardinality(newer(Readable)) < MaxScan
      BY <3>2, <3>3, <3>4, AccessAssumption
    <3> QED BY <3>5 DEF Listing, Newest, Readable
  <2>4. missing \subseteq Lost
    BY <2>3 DEF Lost, Newest
  <2>5. Cardinality(missing) <= Cardinality(Lost) /\ Cardinality(missing) \in Nat
    BY <2>1, <2>4, FS_Subset, FS_CardinalityType
  <2> QED BY <2>1, <2>5 DEF IInv, LogInv, Damage, EntriesAreKept, TypeOK
<1> QED BY <1>1, Invariance, PTL

-----------------------------------------------------------------------------
(***************************************************************************)
(* The web terminal, for any number of sessions and viewers, any limit and *)
(* any sizes of the replay buffer and the channels.                        *)
(*                                                                         *)
(* The argument: Create looks at the limit under the lock, so only what is *)
(* begun while another session is being opened escapes it; CloseAll keeps  *)
(* what it found in its list until each is closed; and an open stream is   *)
(* up to date with its session, so that the next chunk fits behind it.     *)
(***************************************************************************)

(* Sessions that are in the map or being opened, but for those begun while *)
(* another was being opened.                                               *)
Held == (Listed \cup Opening) \ crowd

(* A session nobody will close was being opened when CloseAll began.       *)
StoppedInv ==
  stopped => \A s \in Ids :
               /\ at[s] = "launch" => s \in late
               /\ at[s] = "live" /\ s \notin late => all.at = "close" /\ s \in all.list

(* What a stream request w has been sent and has waiting is one piece; the *)
(* last chunk of an open one is the newest of its session, by the counts o *)
(* of chunks.                                                              *)
Piece(s) == \A i \in 1..(Len(s) - 1) :
              s[i] # Exit /\ (s[i + 1] = s[i] + 1 \/ (s[i + 1] = Exit /\ i + 1 = Len(s)))
UpToDate(s, n) == /\ s = <<>> => n = 0 \/ Replay = 0
                  /\ s # <<>> => n > 0 /\ s[Len(s)] = n
Chunks == 0..MaxOut
Follows(e, n) == e \in Chunks /\ (e = n + 1 \/ e = Exit)
EndsWith(s, e) == Piece(s) /\ s # <<>> /\ s[Len(s)] = e
Heard(w, e) == [w EXCEPT !.buf = Append(@, e)]
Dropped(w) == [w EXCEPT !.open = FALSE, !.slow = TRUE]
ViewType == [at : {"away", "watching", "ended"}, of : Ids \cup {None},
             seen : Seq(1..MaxOut), buf : Seq(Chunks), open : BOOLEAN, slow : BOOLEAN]
Joined(w, o) ==
  /\ w \in ViewType
  /\ Piece(w.seen \o w.buf)
  /\ w.open => w.of \in Ids /\ UpToDate(w.seen \o w.buf, o[w.of])

Plain == /\ at \in [Ids -> Phases]
         /\ idle \in SUBSET Ids /\ late \in SUBSET Ids /\ crowd \in SUBSET Ids
         /\ out \in [Ids -> 0..MaxOut]
         /\ reaper \in Closer /\ all \in Closer
Views == view = [v \in Viewers |-> view[v]] /\ \A v \in Viewers : Joined(view[v], out)

LimitInv == Cardinality(Held) <= MaxSessions

TInv == Plain /\ Views /\ StoppedInv /\ LimitInv

-----------------------------------------------------------------------------
(* One stream request *)

(* What is joined is a sequence of chunks. *)
LEMMA StreamSeq ==
  ASSUME NEW w \in ViewType
  PROVE  w.seen \in Seq(Chunks) /\ w.buf \in Seq(Chunks)
<1>1. w.seen \in Seq(1..MaxOut) /\ w.buf \in Seq(Chunks)
  BY DEF ViewType
<1>2. 1..MaxOut \subseteq Chunks
  BY TerminalsAssumption DEF Chunks
<1>3. w.seen \in Seq(Chunks)
  BY <1>1, <1>2, SeqMonotonic
<1>. QED BY <1>1, <1>3

(* Appending to the second part appends to the whole. *)
LEMMA ConcatAppend ==
  ASSUME NEW S, NEW s \in Seq(S), NEW b \in Seq(S), NEW e \in S
  PROVE  s \o Append(b, e) = Append(s \o b, e)
<1>1. Append(b, e) \in Seq(S) /\ s \o b \in Seq(S) /\ Len(s \o b) = Len(s) + Len(b)
  BY ConcatProperties
<1>2. s \o Append(b, e) \in Seq(S) /\ Append(s \o b, e) \in Seq(S)
  BY <1>1, ConcatProperties
<1>3. Len(s \o Append(b, e)) = Len(Append(s \o b, e))
  BY <1>1, ConcatProperties
<1>4. \A i \in 1..Len(s \o Append(b, e)) : (s \o Append(b, e))[i] = Append(s \o b, e)[i]
  <2>. SUFFICES ASSUME NEW i \in 1..(Len(s) + Len(b) + 1)
                PROVE  (s \o Append(b, e))[i] = Append(s \o b, e)[i]
    BY <1>1, ConcatProperties
  <2>1. Len(Append(b, e)) = Len(b) + 1 /\ Len(s) \in Nat /\ Len(b) \in Nat
    OBVIOUS
  <2>2. (s \o Append(b, e))[i] = IF i <= Len(s) THEN s[i] ELSE Append(b, e)[i - Len(s)]
    <3>1. i \in 1..(Len(s) + Len(Append(b, e)))
      BY <2>1
    <3>. QED BY <1>1, <3>1, ConcatProperties
  <2>3. CASE i = Len(s) + Len(b) + 1
    <3>1. i - Len(s) = Len(b) + 1 /\ i = Len(s \o b) + 1 /\ ~(i <= Len(s))
      BY <1>1, <2>1, <2>3
    <3>2. Append(b, e)[Len(b) + 1] = e /\ Append(s \o b, e)[Len(s \o b) + 1] = e
      BY <1>1
    <3>. QED BY <2>2, <3>1, <3>2
  <2>4. CASE i # Len(s) + Len(b) + 1
    <3>1. i \in 1..(Len(s) + Len(b))
      BY <2>1, <2>4
    <3>2. Append(s \o b, e)[i] = IF i <= Len(s) THEN s[i] ELSE b[i - Len(s)]
      BY <1>1, <3>1, ConcatProperties
    <3>3. i > Len(s) => Append(b, e)[i - Len(s)] = b[i - Len(s)]
      BY <2>1, <3>1
    <3>. QED BY <2>1, <2>2, <3>1, <3>2, <3>3
  <2>. QED BY <2>3, <2>4
<1>. QED BY <1>2, <1>3, <1>4, SeqEqual

(* What the handler passes on does not change the piece. *)
LEMMA ConcatPass ==
  ASSUME NEW S, NEW s \in Seq(S), NEW b \in Seq(S), b # <<>>
  PROVE  Append(s, Head(b)) \o Tail(b) = s \o b
<1>1. /\ Head(b) \in S /\ Tail(b) \in Seq(S) /\ Len(Tail(b)) = Len(b) - 1
      /\ \A i \in 1..Len(Tail(b)) : Tail(b)[i] = b[i + 1]
      /\ Head(b) = b[1] /\ Len(b) \in Nat \ {0} /\ Len(s) \in Nat
  BY HeadTailProperties, EmptySeq
<1>2. /\ Append(s, Head(b)) \in Seq(S) /\ Len(Append(s, Head(b))) = Len(s) + 1
      /\ \A i \in 1..(Len(s) + 1) : Append(s, Head(b))[i] = IF i <= Len(s) THEN s[i] ELSE b[1]
  BY <1>1
<1>3. /\ Append(s, Head(b)) \o Tail(b) \in Seq(S) /\ s \o b \in Seq(S)
      /\ Len(Append(s, Head(b)) \o Tail(b)) = Len(s) + Len(b) /\ Len(s \o b) = Len(s) + Len(b)
  <2>1. /\ Append(s, Head(b)) \o Tail(b) \in Seq(S)
        /\ Len(Append(s, Head(b)) \o Tail(b)) = Len(Append(s, Head(b))) + Len(Tail(b))
    BY <1>1, <1>2, ConcatProperties
  <2>. QED BY <1>1, <1>2, <2>1, ConcatProperties
<1>4. ASSUME NEW i \in 1..(Len(s) + Len(b))
      PROVE  (Append(s, Head(b)) \o Tail(b))[i] = (s \o b)[i]
  <2>1. (s \o b)[i] = IF i <= Len(s) THEN s[i] ELSE b[i - Len(s)]
    BY ConcatProperties
  <2>2. i \in 1..(Len(Append(s, Head(b))) + Len(Tail(b)))
    BY <1>1, <1>2
  <2>3. (Append(s, Head(b)) \o Tail(b))[i]
          = IF i <= Len(s) + 1 THEN Append(s, Head(b))[i] ELSE Tail(b)[i - (Len(s) + 1)]
    BY <1>1, <1>2, <2>2, ConcatProperties
  <2>4. CASE i <= Len(s) + 1
    BY <1>1, <1>2, <2>1, <2>3, <2>4
  <2>5. CASE ~(i <= Len(s) + 1)
    <3>1. /\ i - (Len(s) + 1) \in 1..Len(Tail(b))
          /\ (i - (Len(s) + 1)) + 1 = i - Len(s)
      BY <1>1, <2>5
    <3>2. Tail(b)[i - (Len(s) + 1)] = b[i - Len(s)]
      BY <1>1, <3>1
    <3>. QED BY <1>1, <2>1, <2>3, <2>5, <3>2
  <2>. QED BY <2>4, <2>5
<1>. QED BY <1>3, <1>4, SeqEqual

(* A part of a piece from its beginning is one. *)
LEMMA PieceStarts ==
  ASSUME NEW a \in Seq(Chunks), NEW b \in Seq(Chunks), Piece(a \o b)
  PROVE  Piece(a \o <<>>)
<1>1. /\ a \o b \in Seq(Chunks) /\ Len(a \o b) = Len(a) + Len(b)
      /\ Len(a) \in Nat /\ Len(b) \in Nat /\ a \o <<>> = a
  BY ConcatProperties, ConcatEmptySeq
<1>2. ASSUME NEW i \in 1..Len(a) PROVE (a \o b)[i] = a[i]
  <2>1. i \in 1..(Len(a) + Len(b)) /\ i <= Len(a)
    BY <1>1
  <2>. QED BY <2>1, ConcatProperties
<1>3. ASSUME NEW i \in 1..(Len(a) - 1)
      PROVE  a[i] # Exit /\ (a[i + 1] = a[i] + 1 \/ (a[i + 1] = Exit /\ i + 1 = Len(a)))
  <2>1. /\ i \in 1..Len(a) /\ i + 1 \in 1..Len(a) /\ i + 1 <= Len(a)
        /\ i \in 1..(Len(a \o b) - 1)
    BY <1>1
  <2>2. /\ a[i] # Exit
        /\ a[i + 1] = a[i] + 1 \/ (a[i + 1] = Exit /\ i + 1 = Len(a) + Len(b))
    BY <1>1, <1>2, <2>1 DEF Piece
  <2>. QED BY <1>1, <2>1, <2>2
<1>. QED BY <1>1, <1>3 DEF Piece

(* The next chunk, or the end, goes behind an up-to-date piece. *)
LEMMA PieceGrows ==
  ASSUME NEW s \in Seq(Nat), NEW n \in Nat, Piece(s), UpToDate(s, n),
         NEW e, Follows(e, n), e \in Nat
  PROVE  Piece(Append(s, e)) /\ Append(s, e) # <<>> /\ Append(s, e)[Len(Append(s, e))] = e
<1>1. /\ e \in Nat /\ Len(s) \in Nat /\ Len(Append(s, e)) = Len(s) + 1
      /\ Append(s, e)[Len(s) + 1] = e
      /\ \A i \in 1..Len(s) : Append(s, e)[i] = s[i]
  OBVIOUS
<1>2. Piece(Append(s, e))
  <2>. SUFFICES ASSUME NEW i \in 1..Len(s)
                PROVE  /\ Append(s, e)[i] # Exit
                       /\ \/ Append(s, e)[i + 1] = Append(s, e)[i] + 1
                          \/ Append(s, e)[i + 1] = Exit /\ i + 1 = Len(s) + 1
    BY <1>1 DEF Piece
  <2>1. CASE i = Len(s)
    <3>1. s # <<>>
      BY <1>1
    <3>2. s[i] = n /\ n > 0
      BY <2>1, <3>1 DEF UpToDate
    <3>. QED BY <1>1, <2>1, <3>2 DEF Exit, Follows
  <2>2. CASE i # Len(s)
    <3>1. i \in 1..(Len(s) - 1) /\ i + 1 \in 1..Len(s)
      BY <1>1, <2>2
    <3>2. s[i] # Exit /\ (s[i + 1] = s[i] + 1 \/ (s[i + 1] = Exit /\ i + 1 = Len(s)))
      BY <3>1 DEF Piece
    <3>3. CASE s[i + 1] = s[i] + 1
      BY <1>1, <3>1, <3>2, <3>3
    <3>4. CASE s[i + 1] = Exit /\ i + 1 = Len(s)
      <4>1. s # <<>>
        BY <1>1
      <4>. QED BY <3>4, <4>1 DEF UpToDate, Exit
    <3>. QED BY <3>2, <3>3, <3>4
  <2>. QED BY <2>1, <2>2
<1>. QED BY <1>1, <1>2

(* What Kept returns: an up-to-date piece. *)
LEMMA KeptFacts ==
  ASSUME NEW s \in Ids, out[s] \in 0..MaxOut
  PROVE  Kept(s) \in Seq(1..MaxOut) /\ Piece(Kept(s)) /\ UpToDate(Kept(s), out[s])
<1>. DEFINE first == IF out[s] > Replay THEN out[s] - Replay ELSE 0
            n == out[s] - first
<1>1. /\ MaxOut \in Nat /\ Replay \in Nat /\ out[s] \in Nat /\ out[s] <= MaxOut
      /\ first \in Nat /\ n \in Nat /\ first + n = out[s]
  BY TerminalsAssumption
<1>2. Kept(s) = [i \in 1..n |-> first + i]
  BY DEF Kept
<1>3. n = 0 => out[s] = 0 \/ Replay = 0
  BY <1>1
<1>. HIDE DEF first, n
<1>4. [i \in 1..n |-> first + i] \in Seq(1..MaxOut)
  <2>1. \A i \in 1..n : first + i \in 1..MaxOut
    BY <1>1
  <2>. QED BY <1>1, <2>1
<1>5. Len(Kept(s)) = n /\ \A i \in 1..n : Kept(s)[i] = first + i
  BY <1>1, <1>2
<1>6. Piece(Kept(s))
  BY <1>1, <1>5 DEF Piece, Exit
<1>7. Kept(s) = <<>> => n = 0
  BY <1>5
<1>8. Kept(s) # <<>> => n > 0
  BY <1>1, <1>2, <1>4, <1>5, EmptySeq
<1>9. n > 0 => Kept(s)[n] = out[s] /\ out[s] > 0
  BY <1>1, <1>5
<1>. QED BY <1>2, <1>3, <1>4, <1>5, <1>6, <1>7, <1>8, <1>9 DEF UpToDate

LEMMA AwayJoined == ASSUME NEW o PROVE Joined(Away, o)
<1>1. Away \in ViewType
  BY DEF Away, ViewType
<1>2. <<>> \o <<>> = <<>> /\ Len(<<>>) = 0
  BY ConcatEmptySeq, EmptySeq
<1>. QED BY <1>1, <1>2 DEF Joined, Away, Piece

(* A viewer that is not open, or of another session, only keeps. *)
LEMMA JoinedStays ==
  ASSUME NEW w, NEW o, NEW p, Joined(w, o), w.open => p[w.of] = o[w.of]
  PROVE  Joined(w, p)
BY DEF Joined

LEMMA JoinedShut ==
  ASSUME NEW w, NEW o, NEW p, Joined(w, o)
  PROVE  Joined([w EXCEPT !.open = FALSE], p)
<1>. DEFINE x == [w EXCEPT !.open = FALSE]
<1>1. x \in ViewType /\ x.seen = w.seen /\ x.buf = w.buf /\ x.open = FALSE
  BY DEF Joined, ViewType
<1>. HIDE DEF x
<1>2. Joined(x, p)
  BY <1>1 DEF Joined
<1>. QED BY <1>2 DEF x

LEMMA JoinedDropped ==
  ASSUME NEW w, NEW o, NEW p, Joined(w, o)
  PROVE  Joined(Dropped(w), p)
<1>1. /\ Dropped(w) \in ViewType /\ Dropped(w).seen = w.seen /\ Dropped(w).buf = w.buf
      /\ Dropped(w).open = FALSE
  BY DEF Joined, ViewType, Dropped
<1>. QED BY <1>1 DEF Joined

(* The handler has sent exit. *)
LEMMA JoinedEnds ==
  ASSUME NEW w, NEW o, NEW p, Joined(w, o)
  PROVE  Joined([w EXCEPT !.at = "ended", !.buf = <<>>, !.open = FALSE], p)
<1>. DEFINE x == [w EXCEPT !.at = "ended", !.buf = <<>>, !.open = FALSE]
<1>1. w \in ViewType /\ <<>> \in Seq(Chunks)
  BY DEF Joined
<1>2. x \in ViewType /\ x.seen = w.seen /\ x.buf = <<>> /\ x.open = FALSE
  BY <1>1 DEF ViewType
<1>3. w.seen \in Seq(Chunks) /\ w.buf \in Seq(Chunks)
  BY <1>1, StreamSeq
<1>. HIDE DEF x
<1>4. Piece(w.seen \o <<>>)
  BY <1>3, PieceStarts DEF Joined
<1>5. Joined(x, p)
  BY <1>2, <1>4 DEF Joined
<1>. QED BY <1>5 DEF x

(* A chunk, or the end, reaches an open viewer. *)
LEMMA StreamGrows ==
  ASSUME NEW a \in Seq(Chunks), NEW b \in Seq(Chunks), NEW n \in Nat,
         Piece(a \o b), UpToDate(a \o b, n),
         NEW e, Follows(e, n)
  PROVE  EndsWith(a \o Append(b, e), e)
<1>1. e \in Chunks /\ a \o Append(b, e) = Append(a \o b, e)
  BY ConcatAppend DEF Follows
<1>2. a \o b \in Seq(Chunks)
  BY ConcatProperties
<1>3. Chunks \subseteq Nat
  BY TerminalsAssumption DEF Chunks
<1>4. a \o b \in Seq(Nat)
  BY <1>2, <1>3, SeqMonotonic
<1>5. Piece(Append(a \o b, e)) /\ Append(a \o b, e) # <<>>
      /\ Append(a \o b, e)[Len(Append(a \o b, e))] = e
  BY <1>1, <1>3, <1>4, PieceGrows
<1>. QED BY <1>1, <1>5, Zenon DEF EndsWith

LEMMA JoinedHears ==
  ASSUME NEW w \in ViewType, NEW n \in Nat,
         Piece(w.seen \o w.buf), UpToDate(w.seen \o w.buf, n), NEW e, Follows(e, n)
  PROVE  /\ Heard(w, e) \in ViewType /\ Heard(w, e).of = w.of /\ Heard(w, e).open = w.open
         /\ EndsWith(Heard(w, e).seen \o Heard(w, e).buf, e)
<1>1. w.seen \in Seq(Chunks) /\ w.buf \in Seq(Chunks)
  BY StreamSeq
<1>2. Append(w.buf, e) \in Seq(Chunks)
  BY <1>1 DEF Follows
<1>3. /\ Heard(w, e) \in ViewType /\ Heard(w, e).of = w.of /\ Heard(w, e).open = w.open
      /\ Heard(w, e).seen = w.seen /\ Heard(w, e).buf = Append(w.buf, e)
  BY <1>2 DEF ViewType, Heard
<1>4. EndsWith(w.seen \o Append(w.buf, e), e)
  BY <1>1, StreamGrows
<1>. QED BY <1>3, <1>4, Zenon

-----------------------------------------------------------------------------
(* All stream requests *)

(* The viewers after a step, one by one. *)
LEMMA ViewsFrom ==
  ASSUME NEW f, view' = [v \in Viewers |-> f[v]],
         \A v \in Viewers : Joined(f[v], out')
  PROVE  Views'
<1>1. \A v \in Viewers : view'[v] = f[v]
  OBVIOUS
<1>. QED BY <1>1 DEF Views

(* A step that neither reads output nor touches a viewer. *)
LEMMA ViewsStay == ASSUME Views, UNCHANGED <<out, view>> PROVE Views'
BY DEF Views, Joined

(* One viewer changes. *)
LEMMA ViewChanges ==
  ASSUME Views, NEW v \in Viewers, NEW w, Joined(w, out),
         view' = [view EXCEPT ![v] = w], UNCHANGED out
  PROVE  Views'
<1>. DEFINE f == [x \in Viewers |-> IF x = v THEN w ELSE view[x]]
<1>1. view' = [x \in Viewers |-> f[x]]
  BY DEF Views
<1>2. \A x \in Viewers : Joined(f[x], out')
  BY DEF Views
<1>. HIDE DEF f
<1>. QED BY <1>1, <1>2, ViewsFrom

LEMMA OutputViews ==
  ASSUME Plain, Views, NEW s \in Ids, Output(s)
  PROVE  Views'
<1>. DEFINE c == out[s] + 1
            f == Broadcast(view, s, c)
<1>1. /\ out[s] \in Nat /\ c \in 0..MaxOut /\ c # 0 /\ out[s] < MaxOut
      /\ out' = [out EXCEPT ![s] = c] /\ out'[s] = c
      /\ \A r \in Ids : r # s => out'[r] = out[r]
  BY TerminalsAssumption DEF Plain, Output
<1>2. view' = f
  BY <1>1 DEF Output
<1>3. f = [v \in Viewers |-> f[v]]
  BY DEF Broadcast
<1>4. ASSUME NEW v \in Viewers PROVE Joined(f[v], out')
  <2>. DEFINE w == view[v]
  <2>1. Joined(w, out)
    BY DEF Views
  <2>2. f[v] = IF ~(w.open /\ w.of = s) THEN w
               ELSE IF Len(w.buf) < SubBuffer THEN [w EXCEPT !.buf = Append(@, c)]
               ELSE Dropped(w)
    BY DEF Broadcast, Dropped
  <2>. HIDE DEF f, w
  <2>3. CASE ~(w.open /\ w.of = s)
    <3>1. w.open => out'[w.of] = out[w.of]
      BY <1>1, <2>1, <2>3 DEF Joined
    <3>. QED BY <2>1, <2>2, <2>3, <3>1, JoinedStays
  <2>4. CASE w.open /\ w.of = s /\ Len(w.buf) < SubBuffer
    <3>1. w \in ViewType /\ Piece(w.seen \o w.buf) /\ UpToDate(w.seen \o w.buf, out[s])
      BY <2>1, <2>4 DEF Joined
    <3>2. Follows(c, out[s])
      BY <1>1 DEF Follows, Chunks
    <3>. DEFINE x == Heard(w, c)
    <3>3. f[v] = x
      BY <2>2, <2>4 DEF Heard
    <3>. HIDE DEF c
    <3>4. /\ x \in ViewType /\ x.of = w.of /\ x.open = w.open
          /\ EndsWith(x.seen \o x.buf, c)
      BY <1>1, <3>1, <3>2, JoinedHears
    <3>. HIDE DEF x
    <3>5. c > 0
      BY <1>1
    <3>6. UpToDate(x.seen \o x.buf, out'[x.of])
      BY <1>1, <2>4, <3>4, <3>5 DEF UpToDate, EndsWith
    <3>7. Joined(x, out')
      BY <2>4, <3>4, <3>6 DEF Joined, EndsWith
    <3>. QED BY <3>3, <3>7
  <2>5. CASE w.open /\ w.of = s /\ ~(Len(w.buf) < SubBuffer)
    BY <2>1, <2>2, <2>5, JoinedDropped
  <2>. QED BY <2>3, <2>4, <2>5
<1>. HIDE DEF f
<1>5. view' = [v \in Viewers |-> f[v]]
  BY <1>2, <1>3
<1>. QED BY <1>4, <1>5, ViewsFrom

(* The end of a session reaches its viewers, as far as there is room, and  *)
(* none of them is open any more.                                          *)
LEMMA EndViews ==
  ASSUME Plain, Views, NEW s \in Ids,
         view' = CloseChannels(Broadcast(view, s, Exit), s), UNCHANGED out
  PROVE  Views'
<1>. DEFINE f == view'
<1>1. f = [v \in Viewers |-> f[v]]
  BY DEF CloseChannels
<1>2. ASSUME NEW v \in Viewers PROVE Joined(f[v], out')
  <2>. DEFINE w == view[v]
              b == Broadcast(view, s, Exit)[v]
  <2>1. Joined(w, out)
    BY DEF Views
  <2>2. b = IF ~(w.open /\ w.of = s) THEN w
            ELSE IF Len(w.buf) < SubBuffer THEN [w EXCEPT !.buf = Append(@, Exit)]
            ELSE Dropped(w)
    BY DEF Broadcast, Dropped
  <2>3. f[v] = IF b.of = s THEN [b EXCEPT !.open = FALSE] ELSE b
    BY DEF CloseChannels
  <2>4. Joined(Dropped(w), out)
    BY <2>1, JoinedDropped
  <2>. HIDE DEF f, w, b
  <2>5. CASE ~(w.open /\ w.of = s) \/ ~(Len(w.buf) < SubBuffer)
    <3>1. Joined(b, out)
      BY <2>1, <2>2, <2>4, <2>5
    <3>2. Joined([b EXCEPT !.open = FALSE], out)
      BY <3>1, JoinedShut
    <3>3. Joined(f[v], out)
      BY <2>3, <3>1, <3>2
    <3>. QED BY <3>3
  <2>6. CASE w.open /\ w.of = s /\ Len(w.buf) < SubBuffer
    <3>1. out[s] \in Nat /\ Follows(Exit, out[s])
      BY TerminalsAssumption DEF Plain, Exit, Follows, Chunks
    <3>2. b = Heard(w, Exit)
      BY <2>2, <2>6 DEF Heard
    <3>3. b \in ViewType /\ Piece(b.seen \o b.buf) /\ b.of = s
      <4>1. w \in ViewType /\ Piece(w.seen \o w.buf) /\ UpToDate(w.seen \o w.buf, out[s])
        BY <2>1, <2>6 DEF Joined
      <4>2. Heard(w, Exit) \in ViewType /\ Heard(w, Exit).of = w.of
            /\ EndsWith(Heard(w, Exit).seen \o Heard(w, Exit).buf, Exit)
        BY <3>1, <4>1, JoinedHears
      <4>. QED BY <2>6, <3>2, <4>2 DEF EndsWith
    <3>. DEFINE x == [b EXCEPT !.open = FALSE]
    <3>4. x \in ViewType /\ x.seen = b.seen /\ x.buf = b.buf /\ x.open = FALSE
      BY <3>3 DEF ViewType
    <3>5. f[v] = x
      BY <2>3, <3>3
    <3>. HIDE DEF x
    <3>6. Joined(x, out')
      BY <3>3, <3>4 DEF Joined
    <3>. QED BY <3>5, <3>6
  <2>. QED BY <2>5, <2>6
<1>. HIDE DEF f
<1>3. view' = [v \in Viewers |-> f[v]]
  BY <1>1 DEF f
<1>. QED BY <1>2, <1>3, ViewsFrom

LEMMA SubscribeViews ==
  ASSUME Plain, Views, NEW v \in Viewers, NEW s \in Ids, Subscribe(v, s)
  PROVE  Views'
<1>. DEFINE k == Kept(s)
            w == [at |-> "watching", of |-> s, seen |-> k,
                  buf |-> IF Exited(s) THEN <<Exit>> ELSE <<>>, open |-> ~Exited(s),
                  slow |-> FALSE]
<1>1. view' = [view EXCEPT ![v] = w] /\ out' = out
  BY DEF Subscribe
<1>2. out[s] \in 0..MaxOut /\ out[s] \in Nat
  BY TerminalsAssumption DEF Plain
<1>3. k \in Seq(1..MaxOut) /\ Piece(k) /\ UpToDate(k, out[s])
  BY <1>2, KeptFacts
<1>. HIDE DEF k
<1>4. w \in ViewType
  <2>1. Exit \in Chunks
    BY TerminalsAssumption DEF Exit, Chunks
  <2>2. <<Exit>> \in Seq(Chunks) /\ <<>> \in Seq(Chunks)
    BY <2>1
  <2>3. (IF Exited(s) THEN <<Exit>> ELSE <<>>) \in Seq(Chunks)
    BY <2>2
  <2>4. (~Exited(s)) \in BOOLEAN
    OBVIOUS
  <2>. QED BY <1>3, <2>3, <2>4, Zenon DEF ViewType
<1>5. k \o <<>> = k /\ k \o <<Exit>> = Append(k, Exit)
  BY <1>3, ConcatEmptySeq
<1>6. Joined(w, out)
  <2>1. CASE Exited(s)
    <3>1. 1..MaxOut \subseteq Nat
      BY TerminalsAssumption
    <3>2. k \in Seq(Nat)
      BY <1>3, <3>1, SeqMonotonic
    <3>3. Follows(Exit, out[s]) /\ Exit \in Nat
      BY TerminalsAssumption DEF Exit, Follows, Chunks
    <3>4. Piece(Append(k, Exit))
      BY <1>2, <1>3, <3>2, <3>3, PieceGrows
    <3>. QED BY <1>4, <1>5, <2>1, <3>4 DEF Joined
  <2>2. CASE ~Exited(s)
    BY <1>3, <1>4, <1>5, <2>2 DEF Joined
  <2>. QED BY <2>1, <2>2
<1>. HIDE DEF w
<1>. QED BY <1>1, <1>6, ViewChanges

LEMMA ReceiveViews ==
  ASSUME Plain, Views, NEW v \in Viewers, Receive(v)
  PROVE  Views'
<1>1. out' = out /\ Joined(view[v], out)
  BY DEF Receive, Views
<1>2. CASE view' = [view EXCEPT ![v].at = "ended", ![v].buf = <<>>, ![v].open = FALSE]
  <2>. DEFINE x == [view[v] EXCEPT !.at = "ended", !.buf = <<>>, !.open = FALSE]
  <2>1. view' = [view EXCEPT ![v] = x]
    BY <1>2 DEF Views
  <2>2. Joined(x, out)
    BY <1>1, JoinedEnds
  <2>. HIDE DEF x
  <2>. QED BY <1>1, <2>1, <2>2, ViewChanges
<1>3. CASE /\ view[v].buf # <<>> /\ Head(view[v].buf) # Exit
           /\ view' = [view EXCEPT ![v].seen = Append(@, Head(view[v].buf)), ![v].buf = Tail(@)]
  <2>. DEFINE w == view[v]
              x == [w EXCEPT !.seen = Append(@, Head(w.buf)), !.buf = Tail(@)]
  <2>1. view' = [view EXCEPT ![v] = x]
    BY <1>3 DEF Views
  <2>2. w \in ViewType
    BY <1>1 DEF Joined
  <2>3. w.seen \in Seq(Chunks) /\ w.buf \in Seq(Chunks) /\ w.seen \in Seq(1..MaxOut)
    BY <2>2, StreamSeq DEF ViewType
  <2>4. Head(w.buf) \in Chunks /\ Head(w.buf) # Exit /\ Tail(w.buf) \in Seq(Chunks)
    BY <1>3, <2>3, HeadTailProperties
  <2>5. Head(w.buf) \in 1..MaxOut
    BY <2>4, TerminalsAssumption DEF Exit, Chunks
  <2>6. Append(w.seen, Head(w.buf)) \in Seq(1..MaxOut)
    BY <2>3, <2>5
  <2>7. /\ x \in ViewType /\ x.seen = Append(w.seen, Head(w.buf)) /\ x.buf = Tail(w.buf)
        /\ x.of = w.of /\ x.open = w.open
    BY <2>2, <2>4, <2>6 DEF ViewType
  <2>8. Append(w.seen, Head(w.buf)) \o Tail(w.buf) = w.seen \o w.buf
    BY <1>3, <2>3, ConcatPass
  <2>. HIDE DEF w, x
  <2>9. Joined(x, out)
    BY <1>1, <2>7, <2>8 DEF Joined, w
  <2>. QED BY <1>1, <2>1, <2>9, ViewChanges
<1>. QED BY <1>2, <1>3 DEF Receive

-----------------------------------------------------------------------------
(* Sessions *)

LEMMA HeldIsFinite ==
         /\ IsFiniteSet(Held) /\ Cardinality(Held) \in Nat
         /\ IsFiniteSet(Listed) /\ Cardinality(Listed) \in Nat
<1>1. Held \subseteq Ids /\ Listed \subseteq Ids
  BY DEF Held, Listed, Opening
<1>2. IsFiniteSet(Ids)
  BY TerminalsAssumption
<1>. QED BY <1>1, <1>2, FS_Subset, FS_CardinalityType

(* No step but Create lets more sessions in. *)
LEMMA LimitStays ==
  ASSUME LimitInv, crowd' = crowd,
         \A s \in Ids : at'[s] \in {"launch", "live", "closing"}
                          => at[s] \in {"launch", "live", "closing"}
  PROVE  LimitInv'
<1>1. Held' \subseteq Held
  BY DEF Held, Listed, Opening
<1>2. IsFiniteSet(Held) /\ Cardinality(Held) \in Nat
  BY HeldIsFinite
<1>3. Cardinality(Held') <= Cardinality(Held) /\ Cardinality(Held') \in Nat
  BY <1>1, <1>2, FS_Subset, FS_CardinalityType
<1>. QED BY <1>2, <1>3, TerminalsAssumption DEF LimitInv

(* What Create saw under the lock. *)
LEMMA CreateSaw ==
  ASSUME NEW s, Create(s)
  PROVE  Cardinality(Listed) < MaxSessions
BY DEF Create

LEMMA CreateInv ==
  ASSUME TInv, NEW s \in Ids, Create(s)
  PROVE  TInv'
<1>1. /\ at[s] = "none" /\ ~stopped /\ at' = [at EXCEPT ![s] = "launch"]
      /\ crowd' = IF Opening = {} THEN crowd ELSE crowd \cup {s}
      /\ UNCHANGED <<idle, out, view, reaper, all, late>>
  BY DEF Create, Unused
<1>2. at \in [Ids -> Phases] /\ at' \in [Ids -> Phases]
  BY <1>1 DEF TInv, Plain, Phases
<1>3. Plain'
  BY <1>1, <1>2 DEF TInv, Plain
<1>4. Views'
  BY <1>1, ViewsStay DEF TInv
<1>5. StoppedInv'
  BY <1>1 DEF StoppedInv, stopped
<1>6. LimitInv'
  <2>1. Listed' = Listed /\ Opening' = Opening \cup {s}
    BY <1>1, <1>2 DEF Listed, Opening
  <2>2. /\ IsFiniteSet(Held) /\ IsFiniteSet(Listed) /\ Cardinality(Listed) \in Nat
        /\ MaxSessions \in Nat
    BY HeldIsFinite, TerminalsAssumption
  <2>3. CASE Opening = {}
    <3>1. Held' \subseteq Listed \cup {s}
      BY <1>1, <2>1, <2>3 DEF Held
    <3>2. /\ IsFiniteSet(Listed \cup {s})
          /\ Cardinality(Listed \cup {s}) \in Nat
          /\ Cardinality(Listed \cup {s}) <= Cardinality(Listed) + 1
      <4>1. /\ IsFiniteSet(Listed \cup {s})
            /\ Cardinality(Listed \cup {s})
                 = IF s \in Listed THEN Cardinality(Listed) ELSE Cardinality(Listed) + 1
        BY <2>2, FS_AddElement
      <4>. QED BY <2>2, <4>1
    <3>3. Cardinality(Held') <= Cardinality(Listed \cup {s}) /\ Cardinality(Held') \in Nat
      BY <3>1, <3>2, FS_Subset, FS_CardinalityType
    <3>4. Cardinality(Listed) < MaxSessions
      BY CreateSaw
    <3>. QED BY <2>2, <3>2, <3>3, <3>4 DEF LimitInv
  <2>4. CASE Opening # {}
    <3>1. Held' \subseteq Held
      BY <1>1, <2>1, <2>4 DEF Held
    <3>2. Cardinality(Held') <= Cardinality(Held) /\ Cardinality(Held') \in Nat
          /\ Cardinality(Held) \in Nat
      BY <2>2, <3>1, FS_Subset, FS_CardinalityType
    <3>. QED BY <2>2, <3>2 DEF TInv, LimitInv
  <2>. QED BY <2>3, <2>4
<1>. QED BY <1>3, <1>4, <1>5, <1>6 DEF TInv

LEMMA EndSessionViews ==
  ASSUME TInv, NEW s \in Ids, EndSession(s), UNCHANGED out
  PROVE  Views' /\ at' = [at EXCEPT ![s] = "closing"]
BY EndViews DEF TInv, EndSession

(* A session that begins to close, or none: what both closers do. *)
LEMMA NextToCloseFacts ==
  ASSUME TInv, NEW c \in Closer, NEW c2, NEW s \in Ids,
         NextToClose(c, c2, s), UNCHANGED out
  PROVE  /\ Views' /\ c2 \in Closer /\ c2.at = c.at /\ c2.list = c.list \ {s}
         /\ at'= IF at[s] = "live" THEN [at EXCEPT ![s] = "closing"] ELSE at
<1>1. CASE at[s] = "live"
  <2>1. EndSession(s) /\ c2 = [c EXCEPT !.list = @ \ {s}, !.on = s]
    BY <1>1 DEF NextToClose
  <2>. QED BY <1>1, <2>1, EndSessionViews DEF Closer
<1>2. CASE at[s] # "live"
  <2>1. UNCHANGED <<at, view>> /\ c2 = [c EXCEPT !.list = @ \ {s}, !.on = None]
    BY <1>2 DEF NextToClose
  <2>. QED BY <1>2, <2>1, ViewsStay DEF Closer, TInv
<1>. QED BY <1>1, <1>2

LEMMA SessionStepInv ==
  ASSUME TInv, NEW s \in Ids, SessionStep(s)
  PROVE  TInv'
<1>0. /\ at \in [Ids -> Phases] /\ reaper \in Closer /\ all \in Closer
      /\ Plain /\ Views /\ StoppedInv /\ LimitInv
  BY DEF TInv, Plain
<1>. USE DEF Phases
<1>1. CASE Create(s)
  BY <1>1, CreateInv
<1>2. CASE LaunchFails(s)
  <2>1. /\ at[s] = "launch" /\ at' = [at EXCEPT ![s] = "gone"]
        /\ UNCHANGED <<idle, out, view, reaper, all, late, crowd>>
    BY <1>2 DEF LaunchFails
  <2>2. Plain' /\ StoppedInv'
    BY <1>0, <2>1 DEF Plain, StoppedInv, stopped
  <2>3. Views' /\ LimitInv'
    BY <1>0, <2>1, ViewsStay, LimitStays
  <2>. QED BY <2>2, <2>3 DEF TInv
<1>3. CASE Insert(s)
  <2>1. /\ at[s] = "launch" /\ at' = [at EXCEPT ![s] = "live"]
        /\ UNCHANGED <<idle, out, view, reaper, all, late, crowd>>
    BY <1>3 DEF Insert
  <2>2. Plain' /\ StoppedInv'
    BY <1>0, <2>1 DEF Plain, StoppedInv, stopped
  <2>3. Views' /\ LimitInv'
    BY <1>0, <2>1, ViewsStay, LimitStays
  <2>. QED BY <2>2, <2>3 DEF TInv
<1>4. CASE Output(s)
  <2>1. /\ out[s] < MaxOut /\ out' = [out EXCEPT ![s] = @ + 1]
        /\ UNCHANGED <<at, idle, reaper, all, late, crowd>>
    BY <1>4 DEF Output
  <2>2. out' \in [Ids -> 0..MaxOut]
    BY <1>0, <2>1, TerminalsAssumption DEF Plain
  <2>3. Plain' /\ StoppedInv'
    BY <1>0, <2>1, <2>2 DEF Plain, StoppedInv, stopped
  <2>4. Views' /\ LimitInv'
    BY <1>0, <1>4, <2>1, OutputViews, LimitStays
  <2>. QED BY <2>3, <2>4 DEF TInv
<1>5. CASE Type(s) \/ TimePasses(s)
  <2>1. idle' \in SUBSET Ids /\ UNCHANGED <<at, out, view, reaper, all, late, crowd>>
    BY <1>0, <1>5 DEF Type, TimePasses, Plain
  <2>2. Plain' /\ StoppedInv'
    BY <1>0, <2>1 DEF Plain, StoppedInv, stopped
  <2>3. Views' /\ LimitInv'
    BY <1>0, <2>1, ViewsStay, LimitStays
  <2>. QED BY <2>2, <2>3 DEF TInv
<1>6. CASE Close(s)
  <2>1. at[s] = "live" /\ EndSession(s) /\ UNCHANGED <<idle, out, reaper, all, late, crowd>>
    BY <1>6 DEF Close
  <2>2. Views' /\ at' = [at EXCEPT ![s] = "closing"]
    BY <2>1, EndSessionViews
  <2>3. Plain' /\ StoppedInv'
    BY <1>0, <2>1, <2>2 DEF Plain, StoppedInv, stopped
  <2>4. LimitInv'
    BY <1>0, <2>1, <2>2, LimitStays
  <2>. QED BY <2>2, <2>3, <2>4 DEF TInv
<1>7. CASE HangUp(s)
  <2>1. /\ at[s] = "closing" /\ at' = [at EXCEPT ![s] = "gone"] /\ idle' \subseteq idle
        /\ UNCHANGED <<out, view, reaper, all, late, crowd>>
    BY <1>7 DEF HangUp
  <2>2. Plain' /\ StoppedInv'
    BY <1>0, <2>1 DEF Plain, StoppedInv, stopped
  <2>3. Views' /\ LimitInv'
    BY <1>0, <2>1, ViewsStay, LimitStays
  <2>. QED BY <2>2, <2>3 DEF TInv
<1>8. CASE ReapNext(s)
  <2>1. NextToClose(reaper, reaper', s) /\ UNCHANGED <<idle, out, all, late, crowd>>
    BY <1>8 DEF ReapNext
  <2>2. /\ Views' /\ reaper' \in Closer
        /\ at'= IF at[s] = "live" THEN [at EXCEPT ![s] = "closing"] ELSE at
    BY <1>0, <2>1, NextToCloseFacts
  <2>3. Plain' /\ StoppedInv'
    BY <1>0, <2>1, <2>2 DEF Plain, StoppedInv, stopped
  <2>4. LimitInv'
    BY <1>0, <2>1, <2>2, LimitStays
  <2>. QED BY <2>2, <2>3, <2>4 DEF TInv
<1>9. CASE CloseNext(s)
  <2>1. NextToClose(all, all', s) /\ UNCHANGED <<idle, out, reaper, late, crowd>>
    BY <1>9 DEF CloseNext
  <2>2. /\ Views' /\ all' \in Closer /\ all'.at = all.at /\ all'.list = all.list \ {s}
        /\ at'= IF at[s] = "live" THEN [at EXCEPT ![s] = "closing"] ELSE at
    BY <1>0, <2>1, NextToCloseFacts
  <2>3. Plain'
    BY <1>0, <2>1, <2>2 DEF Plain
  <2>4. StoppedInv'
    BY <1>0, <2>1, <2>2 DEF StoppedInv, stopped
  <2>5. LimitInv'
    BY <1>0, <2>1, <2>2, LimitStays
  <2>. QED BY <2>2, <2>3, <2>4, <2>5 DEF TInv
<1>. QED
  BY <1>1, <1>2, <1>3, <1>4, <1>5, <1>6, <1>7, <1>8, <1>9 DEF SessionStep

LEMMA ViewerStepInv ==
  ASSUME TInv, NEW v \in Viewers, ViewerStep(v)
  PROVE  TInv'
<1>1. Plain /\ Views /\ StoppedInv /\ LimitInv
  BY DEF TInv
<1>2. UNCHANGED <<at, idle, out, reaper, all, late, crowd>>
  BY DEF ViewerStep, Subscribe, Receive, Leave
<1>3. Plain' /\ StoppedInv' /\ LimitInv'
  BY <1>1, <1>2, LimitStays DEF Plain, StoppedInv, stopped
<1>4. Views'
  <2>1. ASSUME NEW s \in Ids, Subscribe(v, s) PROVE Views'
    BY <1>1, <2>1, SubscribeViews
  <2>2. CASE Receive(v)
    BY <1>1, <2>2, ReceiveViews
  <2>3. CASE Leave(v)
    <3>1. view' = [view EXCEPT ![v] = Away] /\ Joined(Away, out)
      BY <2>3, AwayJoined DEF Leave
    <3>. QED BY <1>1, <1>2, <3>1, ViewChanges
  <2>. QED BY <2>1, <2>2, <2>3 DEF ViewerStep
<1>. QED BY <1>3, <1>4 DEF TInv

(* The steps of both closers that touch no session. *)
LEMMA CloserInv ==
  ASSUME TInv, Reap \/ ReapEnds \/ CloseAll \/ CloseAllEnds
  PROVE  TInv'
<1>0. /\ at \in [Ids -> Phases] /\ reaper \in Closer /\ all \in Closer
      /\ Plain /\ Views /\ StoppedInv /\ LimitInv
  BY DEF TInv, Plain
<1>1. UNCHANGED <<at, idle, out, view, crowd>>
  BY DEF Reap, ReapEnds, CloseAll, CloseAllEnds
<1>2. Views' /\ LimitInv'
  BY <1>0, <1>1, ViewsStay, LimitStays
<1>3. Listed \subseteq Ids /\ Opening \subseteq Ids /\ Waiting \in Closer
  BY DEF Listed, Opening, Waiting, Closer
<1>4. CASE Reap \/ ReapEnds
  <2>1. reaper' \in Closer /\ UNCHANGED <<all, late>>
    <3>1. CASE Reap
      <4>1. Listed \cap idle \in SUBSET Ids
        BY <1>3
      <4>. DEFINE l == Listed \cap idle
      <4>2. /\ reaper' = [reaper EXCEPT !.at = "gone"]
               \/ reaper' = [reaper EXCEPT !.at = "close", !.list = l]
            /\ UNCHANGED <<all, late>>
        BY <3>1 DEF Reap
      <4>. HIDE DEF l
      <4>. QED BY <1>0, <4>1, <4>2 DEF Closer, l
    <3>2. CASE ReapEnds
      BY <1>3, <3>2 DEF ReapEnds
    <3>. QED BY <1>4, <3>1, <3>2
  <2>. QED BY <1>0, <1>1, <1>2, <2>1 DEF TInv, Plain, StoppedInv, stopped
<1>5. CASE CloseAll
  <2>1. /\ all' \in Closer /\ all'.at = "close" /\ all'.list = Listed
        /\ late' = Opening /\ reaper' = reaper
    BY <1>0, <1>3, <1>5 DEF CloseAll, Closer
  <2>2. Plain'
    BY <1>0, <1>1, <1>3, <2>1 DEF Plain
  <2>3. StoppedInv'
    BY <1>1, <2>1 DEF StoppedInv, Listed, Opening
  <2>. QED BY <1>2, <2>2, <2>3 DEF TInv
<1>6. CASE CloseAllEnds
  <2>1. /\ all' \in Closer /\ all.at = "close" /\ all.list = {}
        /\ UNCHANGED <<late, reaper>>
    BY <1>0, <1>6 DEF CloseAllEnds, AllClosed, Closer
  <2>2. Plain'
    BY <1>0, <1>1, <2>1 DEF Plain
  <2>3. StoppedInv'
    BY <1>0, <1>1, <2>1 DEF StoppedInv, stopped
  <2>. QED BY <1>2, <2>2, <2>3 DEF TInv
<1>. QED BY <1>4, <1>5, <1>6

LEMMA TInit == TerminalsInit => TInv
<1>. SUFFICES ASSUME TerminalsInit PROVE TInv
  OBVIOUS
<1>1. Waiting \in Closer /\ MaxOut \in Nat /\ MaxSessions \in Nat
  BY TerminalsAssumption DEF Waiting, Closer
<1>2. Plain
  BY <1>1 DEF TerminalsInit, Plain, Phases
<1>3. view = [v \in Viewers |-> view[v]] /\ \A v \in Viewers : view[v] = Away
  BY DEF TerminalsInit
<1>4. Views
  BY <1>3, AwayJoined DEF Views
<1>5. StoppedInv
  BY DEF TerminalsInit, StoppedInv, stopped, Waiting
<1>6. Held = {}
  BY DEF TerminalsInit, Held, Listed, Opening
<1>7. LimitInv
  BY <1>1, <1>6, FS_EmptySet DEF LimitInv
<1>. QED BY <1>2, <1>4, <1>5, <1>7 DEF TInv

LEMMA TNext == TInv /\ [TerminalsNext]_terminalsVars => TInv'
<1>. SUFFICES ASSUME TInv, [TerminalsNext]_terminalsVars PROVE TInv'
  OBVIOUS
<1>1. ASSUME NEW s \in Ids, SessionStep(s) PROVE TInv'
  BY <1>1, SessionStepInv
<1>2. ASSUME NEW v \in Viewers, ViewerStep(v) PROVE TInv'
  BY <1>2, ViewerStepInv
<1>3. CASE Reap \/ ReapEnds \/ CloseAll \/ CloseAllEnds
  BY <1>3, CloserInv
<1>4. CASE UNCHANGED terminalsVars
  <2>1. UNCHANGED <<at, idle, out, view, reaper, all, late, crowd>>
    BY <1>4 DEF terminalsVars
  <2>2. Views' /\ LimitInv'
    BY <2>1, ViewsStay, LimitStays DEF TInv
  <2>. QED BY <2>1, <2>2 DEF TInv, Plain, StoppedInv, stopped
<1>. QED BY <1>1, <1>2, <1>3, <1>4 DEF TerminalsNext

LEMMA TerminalsInvariant == TerminalsSpec => []TInv
  BY TInit, TNext, PTL DEF TerminalsSpec

(* The panel never has more sessions than terminal.max_sessions but for    *)
(* those that were begun while another was being opened, however requests, *)
(* exits, the reaper and CloseAll interleave.                              *)
THEOREM TerminalLimit == TerminalsSpec => []LimitHolds
<1>1. TInv => LimitHolds
  BY DEF TInv, LimitInv, LimitHolds, Held
<1>. QED BY <1>1, TerminalsInvariant, PTL

(* Once CloseAll is through, a session that nobody closes was being opened *)
(* when it began.                                                          *)
THEOREM TerminalsShut == TerminalsSpec => []OnlyLateSurvive
<1>1. TInv => OnlyLateSurvive
  BY DEF TInv, StoppedInv, OnlyLateSurvive, stopped
<1>. QED BY <1>1, TerminalsInvariant, PTL

(* Replay and live stream join without gap or repetition for every viewer, *)
(* whatever the sizes of the replay buffer and of its channel.             *)
THEOREM TerminalStream == TerminalsSpec => []StreamIsWhole
<1>1. TInv => StreamIsWhole
  <2>. SUFFICES ASSUME TInv, NEW v \in Viewers, NEW s, s = Stream(v)
                PROVE  /\ \A i \in 1..(Len(s) - 1) :
                            /\ s[i] # Exit
                            /\ s[i + 1] = s[i] + 1 \/ (s[i + 1] = Exit /\ i + 1 = Len(s))
                       /\ (view[v].open /\ out[view[v].of] > 0 /\ Replay > 0)
                            => s # <<>> /\ s[Len(s)] = out[view[v].of]
    BY DEF StreamIsWhole
  <2>1. Joined(view[v], out)
    BY DEF TInv, Views
  <2>2. Piece(s)
    BY <2>1 DEF Joined, Stream
  <2>3. view[v].open => view[v].of \in Ids /\ UpToDate(s, out[view[v].of])
    BY <2>1 DEF Joined, Stream
  <2>4. \A n \in Nat : UpToDate(s, n) /\ n > 0 /\ Replay > 0 => s # <<>> /\ s[Len(s)] = n
    BY TerminalsAssumption DEF UpToDate
  <2>5. view[v].open => out[view[v].of] \in Nat
    BY <2>3, TerminalsAssumption DEF TInv, Plain
  <2>. QED BY <2>2, <2>3, <2>4, <2>5 DEF Piece
<1>. QED BY <1>1, TerminalsInvariant, PTL

(* Every variable keeps the values its Go field or goroutine can have. *)
THEOREM TerminalTypes == TerminalsSpec => []TerminalsTypeOK
<1>1. TInv => TerminalsTypeOK
  <2>. SUFFICES ASSUME TInv PROVE TerminalsTypeOK
    OBVIOUS
  <2>1. view \in [Viewers -> ViewType]
    BY DEF TInv, Views, Joined
  <2>. QED BY <2>1 DEF TInv, Plain, TerminalsTypeOK, ViewType, Chunks
<1>. QED BY <1>1, TerminalsInvariant, PTL

-----------------------------------------------------------------------------
(* The end of a session *)

Over == {"closing", "gone"}

(* A stream request w, by the lives a of the sessions. *)
Told(w, a) ==
  /\ w.open => w.of \in Ids /\ a[w.of] = "live"
  /\ w.at = "ended" \/ (w.at = "watching" /\ ~w.open)
       => w.of \in Ids /\ (a[w.of] \in Over \/ w.slow)
  /\ \A i \in 1..Len(w.buf) : w.buf[i] = Exit => w.of \in Ids /\ a[w.of] \in Over
ToldInv == \A v \in Viewers : Told(view[v], at)

(* Sessions that are not live come and go without their viewers. *)
LEMMA ToldStays ==
  ASSUME ToldInv, UNCHANGED view,
         \A s \in Ids : /\ at[s] = "live" => at'[s] = "live"
                        /\ at[s] \in Over => at'[s] \in Over
  PROVE  ToldInv'
BY DEF ToldInv, Told

LEMMA OutputTold ==
  ASSUME TInv, ToldInv, NEW s \in Ids, Output(s)
  PROVE  ToldInv'
<1>. DEFINE c == out[s] + 1
<1>1. /\ c # Exit /\ c \in Chunks /\ at' = at /\ view' = Broadcast(view, s, c)
  <2>1. out[s] \in Nat /\ out[s] < MaxOut /\ out' = [out EXCEPT ![s] = c] /\ out'[s] = c
    BY TerminalsAssumption DEF TInv, Plain, Output
  <2>. QED BY <2>1, TerminalsAssumption DEF Output, Exit, Chunks
<1>. HIDE DEF c
<1>2. ASSUME NEW v \in Viewers PROVE Told(view'[v], at)
  <2>. DEFINE w == view[v]
  <2>1. Told(w, at) /\ w \in ViewType
    BY DEF ToldInv, TInv, Views, Joined
  <2>2. view'[v] = IF ~(w.open /\ w.of = s) THEN w
                   ELSE IF Len(w.buf) < SubBuffer THEN Heard(w, c)
                   ELSE Dropped(w)
    BY <1>1 DEF Broadcast, Heard, Dropped
  <2>. HIDE DEF w
  <2>3. Told(Heard(w, c), at)
    <3>1. /\ Heard(w, c).open = w.open /\ Heard(w, c).of = w.of /\ Heard(w, c).at = w.at
          /\ Heard(w, c).slow = w.slow /\ Heard(w, c).buf = Append(w.buf, c)
      BY <2>1 DEF Heard, ViewType
    <3>2. w.buf \in Seq(Chunks)
      BY <2>1 DEF ViewType
    <3>3. \A i \in 1..Len(Append(w.buf, c)) : Append(w.buf, c)[i] = Exit => i \in 1..Len(w.buf) /\ w.buf[i] = Exit
      BY <1>1, <3>2
    <3>. QED BY <2>1, <3>1, <3>3 DEF Told
  <2>4. ASSUME w.open PROVE Told(Dropped(w), at)
    BY <2>1, <2>4 DEF Told, ViewType, Dropped
  <2>. QED BY <2>1, <2>2, <2>3, <2>4
<1>. QED BY <1>1, <1>2 DEF ToldInv

(* Whoever listened to the session finds its channel closed. *)
LEMMA EndTold ==
  ASSUME TInv, ToldInv, NEW s \in Ids, EndSession(s)
  PROVE  ToldInv'
<1>1. /\ at' = [at EXCEPT ![s] = "closing"] /\ at \in [Ids -> Phases]
      /\ view' = CloseChannels(Broadcast(view, s, Exit), s)
  BY DEF EndSession, TInv, Plain
<1>2. ASSUME NEW v \in Viewers PROVE Told(view'[v], at')
  <2>. DEFINE w == view[v]
              b == Broadcast(view, s, Exit)[v]
  <2>1. Told(w, at) /\ w \in ViewType
    BY DEF ToldInv, TInv, Views, Joined
  <2>2. b = IF ~(w.open /\ w.of = s) THEN w
            ELSE IF Len(w.buf) < SubBuffer THEN Heard(w, Exit)
            ELSE Dropped(w)
    BY DEF Broadcast, Heard, Dropped
  <2>3. view'[v] = IF b.of = s THEN [b EXCEPT !.open = FALSE] ELSE b
    BY <1>1 DEF CloseChannels
  <2>. HIDE DEF w, b
  <2>4. b.of = w.of /\ (w.of # s => b = w) /\ (b.of = s => [b EXCEPT !.open = FALSE].open = FALSE)
    <3>1. Dropped(w) \in ViewType /\ Dropped(w).of = w.of
      BY <2>1 DEF ViewType, Dropped
    <3>2. DOMAIN Heard(w, Exit) = DOMAIN w /\ Heard(w, Exit).of = w.of
      BY <2>1 DEF ViewType, Heard
    <3>3. "open" \in DOMAIN w /\ "open" \in DOMAIN Dropped(w)
      BY <2>1, <3>1 DEF ViewType
    <3>4. "open" \in DOMAIN b
      BY <2>2, <3>2, <3>3
    <3>. QED BY <2>2, <3>1, <3>2, <3>4
  <2>5. CASE w.of = s
    <3>1. view'[v].open = FALSE /\ view'[v].of = s
      BY <2>3, <2>4, <2>5
    <3>2. at'[s] \in Over
      BY <1>1 DEF Over
    <3>. QED BY <3>1, <3>2 DEF Told
  <2>6. CASE w.of # s
    <3>1. view'[v] = w /\ (w.of \in Ids => at'[w.of] = at[w.of])
      BY <1>1, <2>3, <2>4, <2>6
    <3>. QED BY <2>1, <3>1 DEF Told
  <2>. QED BY <2>5, <2>6
<1>. QED BY <1>2 DEF ToldInv

LEMMA NextToCloseTold ==
  ASSUME TInv, ToldInv, NEW c, NEW c2, NEW s \in Ids, NextToClose(c, c2, s)
  PROVE  ToldInv'
BY EndTold, ToldStays DEF NextToClose

(* One viewer changes. *)
LEMMA ToldChanges ==
  ASSUME TInv, ToldInv, NEW v \in Viewers, NEW w, Told(w, at),
         view' = [view EXCEPT ![v] = w], UNCHANGED at
  PROVE  ToldInv'
<1>1. \A x \in Viewers : view'[x] = IF x = v THEN w ELSE view[x]
  BY DEF TInv, Views
<1>. QED BY <1>1 DEF ToldInv

LEMMA ViewerTold ==
  ASSUME TInv, ToldInv, NEW v \in Viewers, ViewerStep(v)
  PROVE  ToldInv'
<1>0. Told(Away, at) /\ UNCHANGED at
  BY DEF Told, Away, ViewerStep, Subscribe, Receive, Leave
<1>1. ASSUME NEW s \in Ids, Subscribe(v, s) PROVE ToldInv'
  <2>. DEFINE w == [at |-> "watching", of |-> s, seen |-> Kept(s),
                    buf |-> IF Exited(s) THEN <<Exit>> ELSE <<>>, open |-> ~Exited(s),
                    slow |-> FALSE]
  <2>1. view' = [view EXCEPT ![v] = w] /\ at[s] \in {"live", "closing"}
    BY <1>1 DEF Subscribe, Listed
  <2>2. /\ w.at = "watching" /\ w.of = s /\ (w.open => at[s] = "live")
        /\ w.buf # <<>> \/ ~w.open => at[s] \in Over
    BY <2>1 DEF Exited, Over
  <2>3. Len(w.buf) > 0 => w.buf # <<>>
    OBVIOUS
  <2>. HIDE DEF w
  <2>4. \A i \in 1..Len(w.buf) : w.buf # <<>>
    BY <2>3
  <2>5. Told(w, at)
    BY <2>2, <2>4 DEF Told
  <2>. QED BY <1>0, <2>1, <2>5, ToldChanges
<1>2. CASE Receive(v)
  <2>1. CASE /\ IF view[v].buf # <<>> THEN Head(view[v].buf) = Exit ELSE ~view[v].open
             /\ view' = [view EXCEPT ![v].at = "ended", ![v].buf = <<>>, ![v].open = FALSE]
    <3>. DEFINE w == view[v]
                x == [w EXCEPT !.at = "ended", !.buf = <<>>, !.open = FALSE]
    <3>1. view' = [view EXCEPT ![v] = x] /\ w.at = "watching"
      BY <1>2, <2>1 DEF TInv, Views, Receive
    <3>2. Told(w, at) /\ w \in ViewType
      BY DEF ToldInv, TInv, Views, Joined
    <3>3. x.of = w.of /\ x.open = FALSE /\ x.buf = <<>> /\ x.slow = w.slow
      BY <3>2 DEF ViewType
    <3>4. w.of \in Ids /\ (at[w.of] \in Over \/ w.slow)
      <4>1. CASE w.buf # <<>>
        <5>1. w.buf \in Seq(Chunks)
          BY <3>2 DEF ViewType
        <5>2. 1 \in 1..Len(w.buf) /\ w.buf[1] = Exit
          BY <2>1, <4>1, <5>1
        <5>. QED BY <3>2, <5>2 DEF Told
      <4>2. CASE w.buf = <<>>
        BY <2>1, <3>1, <3>2, <4>2 DEF Told
      <4>. QED BY <4>1, <4>2
    <3>. HIDE DEF x, w
    <3>5. Told(x, at)
      BY <3>3, <3>4 DEF Told
    <3>. QED BY <1>0, <3>1, <3>5, ToldChanges
  <2>2. CASE /\ view[v].buf # <<>>
             /\ view' = [view EXCEPT ![v].seen = Append(@, Head(view[v].buf)), ![v].buf = Tail(@)]
    <3>. DEFINE w == view[v]
                x == [w EXCEPT !.seen = Append(@, Head(w.buf)), !.buf = Tail(@)]
    <3>1. view' = [view EXCEPT ![v] = x]
      BY <2>2 DEF TInv, Views
    <3>2. Told(w, at) /\ w \in ViewType
      BY DEF ToldInv, TInv, Views, Joined
    <3>3. /\ x.of = w.of /\ x.open = w.open /\ x.at = w.at /\ x.slow = w.slow
          /\ x.buf = Tail(w.buf) /\ w.buf \in Seq(Chunks)
      BY <3>2 DEF ViewType
    <3>. HIDE DEF x
    <3>4. \A i \in 1..Len(Tail(w.buf)) : i + 1 \in 1..Len(w.buf) /\ Tail(w.buf)[i] = w.buf[i + 1]
      BY <2>2, <3>3
    <3>5. Told(x, at)
      BY <3>2, <3>3, <3>4 DEF Told
    <3>. QED BY <1>0, <3>1, <3>5, ToldChanges
  <2>. QED BY <1>2, <2>1, <2>2 DEF Receive
<1>3. CASE Leave(v)
  BY <1>0, <1>3, ToldChanges DEF Leave
<1>. QED BY <1>1, <1>2, <1>3 DEF ViewerStep

LEMMA ToldNext == ASSUME TInv, ToldInv, [TerminalsNext]_terminalsVars PROVE ToldInv'
<1>1. ASSUME NEW s \in Ids, SessionStep(s) PROVE ToldInv'
  <2>0. at \in [Ids -> Phases]
    BY DEF TInv, Plain
  <2>1. CASE Create(s) \/ LaunchFails(s) \/ Insert(s) \/ HangUp(s)
    <3>1. /\ UNCHANGED view /\ at[s] \in {"none", "launch", "closing"}
          /\ at[s] = "closing" => at' = [at EXCEPT ![s] = "gone"]
          /\ \A r \in Ids \ {s} : at'[r] = at[r]
      BY <2>0, <2>1 DEF Create, LaunchFails, Insert, HangUp, Unused
    <3>. QED BY <2>0, <3>1, ToldStays DEF Over
  <2>2. CASE Type(s) \/ TimePasses(s)
    BY <2>2, ToldStays DEF Type, TimePasses
  <2>3. CASE Close(s)
    BY <2>3, EndTold DEF Close
  <2>. QED BY <1>1, <2>1, <2>2, <2>3, OutputTold, NextToCloseTold DEF SessionStep, ReapNext, CloseNext
<1>2. CASE Reap \/ ReapEnds \/ CloseAll \/ CloseAllEnds \/ UNCHANGED terminalsVars
  BY <1>2, ToldStays DEF Reap, ReapEnds, CloseAll, CloseAllEnds, terminalsVars
<1>. QED BY <1>1, <1>2, ViewerTold DEF TerminalsNext

(* When a session has ended no channel of it is open any more, and the     *)
(* event exit is sent only for a session that has ended or to a client     *)
(* dropped because it was slow, for any number of viewers and any size of  *)
(* their channels (close and broadcastLocked, and the stream handler).     *)
THEOREM TerminalEnds == TerminalsSpec => []EndIsTold
<1>1. TerminalsInit => ToldInv
  BY DEF TerminalsInit, ToldInv, Told, Away
<1>2. TInv /\ ToldInv /\ [TerminalsNext]_terminalsVars => ToldInv'
  BY ToldNext
<1>3. ToldInv => EndIsTold
  BY DEF ToldInv, Told, EndIsTold, Exited, Over
<1>. QED BY <1>1, <1>2, <1>3, TerminalsInvariant, PTL DEF TerminalsSpec

=============================================================================
