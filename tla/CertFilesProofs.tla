-------------------------- MODULE CertFilesProofs --------------------------
(***************************************************************************)
(* Proofs about the rows of CertLifecycle and the files they name.         *)
(*                                                                         *)
(* What a step may do to fingerprints, paths and directories is described  *)
(* once (FilesStep), for every action; the two invariants follow from that *)
(* description.                                                            *)
(***************************************************************************)
EXTENDS CertLifecycleProofs

\* No row and no session knows a fingerprint that has not been given out.
GivenOut ==
  /\ \A c \in Certs: row[c].fp <= nfp /\ row[c].path <= nfp
  /\ \A s \in Sessions, c \in Certs:
       session[s].view[c].fp <= nfp /\ session[s].view[c].path <= nfp

\* A deleted row names no files, and who removes files has read a row that names some.
GoneInv == \A c \in Certs: row[c].status = "gone" => row[c].path = 0
CleanInv ==
  \A s \in Sessions: session[s].pc = "revoke_clean" => session[s].view[session[s].cert].path # 0

FInv == TInv /\ GivenOut /\ GoneInv /\ CleanInv

----------------------------------------------------------------------------
(* What a step does to rows, views and directories *)

\* The row keeps its material, loses it, gets what was ingested in this step, or gets
\* the path an earlier half-failed ingestion has left in a session.
RowStep(c) ==
  \/ row'[c].fp = row[c].fp /\ row'[c].path = row[c].path
  \/ row'[c].fp \in {row[c].fp, 0} /\ row'[c].path = 0
  \/ /\ row'[c].fp = nfp + 1 /\ row'[c].path = nfp + 1
     /\ nfp' = nfp + 1 /\ nfp + 1 \in files'
  \/ /\ row'[c].fp = row[c].fp
     /\ \E s \in Sessions: /\ session[s].pc = "renew_leak" /\ session[s].cert = c
                           /\ row'[c].path = session[s].view[c].path

\* The session ends with an ingestion half done: its path is new and in no row.
Leaks(s, c) ==
  /\ "partial" \in Inputs
  /\ session'[s].pc = "renew_leak" /\ session'[s].cert = c
  /\ session'[s].view[c].path = nfp + 1 /\ nfp' = nfp + 1 /\ nfp + 1 \in files'
  /\ row' = row

\* The session keeps what it has read, forgets it, or reads the row.
ViewStep(s, c) ==
  LET seen == session[s].view[c]
      new == session'[s].view[c]
  IN
  \/ new.fp = seen.fp /\ new.path = seen.path
  \/ new.fp = 0 /\ new.path = 0
  \/ new.fp = row[c].fp /\ new.path = row[c].path
  \/ new.fp = seen.fp /\ Leaks(s, c)

\* How a session comes to the phases in which files and rows may differ
PhaseStep(s) ==
  /\ session'[s].pc = "renew_leak" =>
       session'[s] = session[s] \/ \E c \in Certs: Leaks(s, c)
  /\ session'[s].pc = "revoke_clean" =>
       session'[s] = session[s] \/ session'[s].view[session'[s].cert].path # 0

\* Session s has removed files of c and not yet said so in the row.
Removing(s, c) == session[s].cert = c /\ session[s].pc \in {"revoke_clean", "delete_commit"}

\* It says so, unless the process dies.
RemovalStep(s, c) ==
  Removing(s, c) => Removing(s, c)' \/ row'[c].path = 0 \/ "crash" \in Inputs

\* A directory is removed by a session that takes its name from the row it has read.
DirectoryStep ==
  \A g \in files: g \notin files' =>
    \E w \in Workers, c \in Certs: Removing(w, c)' /\ session[w].view[c].fp = g

\* At most one row is written, and none is deleted and keeps a path.
RowsStep ==
  /\ \A c \in Certs: RowStep(c) /\ (row'[c].status = "gone" => row'[c].path = 0)
  /\ \A c, d \in Certs: c # d => row'[c].fp = row[c].fp \/ row'[d].fp = row[d].fp

ViewsStep == \A s \in Sessions: PhaseStep(s) /\ \A c \in Certs: ViewStep(s, c) /\ RemovalStep(s, c)

FilesStep == nfp <= nfp' /\ RowsStep /\ ViewsStep /\ DirectoryStep

----------------------------------------------------------------------------
(* Lemmas on sessions and commits *)

\* Only one session moves.
LEMMA OneMoves ==
  ASSUME NEW s \in Sessions,
         \A q \in Sessions: q # s => session'[q] = session[q],
         PhaseStep(s),
         \A c \in Certs: ViewStep(s, c) /\ RemovalStep(s, c)
  PROVE  ViewsStep
<1>1. ASSUME NEW q \in Sessions, session'[q] = session[q], NEW c \in Certs
      PROVE  PhaseStep(q) /\ ViewStep(q, c) /\ RemovalStep(q, c)
  BY <1>1 DEF PhaseStep, ViewStep, RemovalStep, Removing
<1>2. ASSUME NEW q \in Sessions, session'[q] = session[q]
      PROVE  PhaseStep(q)
  BY <1>2 DEF PhaseStep
<1> QED BY <1>1, <1>2 DEF ViewsStep

\* No session moves.
LEMMA NoneMoves ==
  ASSUME session' = session
  PROVE  ViewsStep
<1>1. ASSUME NEW q \in Sessions PROVE PhaseStep(q)
  BY DEF PhaseStep
<1>2. ASSUME NEW q \in Sessions, NEW c \in Certs PROVE ViewStep(q, c) /\ RemovalStep(q, c)
  BY DEF ViewStep, RemovalStep, Removing
<1> QED BY <1>1, <1>2 DEF ViewsStep

\* A session that ends forgets what it has read, or goes on with the rest of its sweep.
LEMMA EndMoves ==
  ASSUME FInv, NEW s \in Sessions,
         session' = Done(s) \/ session' = [session EXCEPT ![s] = IdleSession],
         \A c \in Certs: Removing(s, c) => row'[c].path = 0 \/ "crash" \in Inputs
  PROVE  ViewsStep
<1>1. session \in [Sessions -> Session] /\ session[s] \in Session
  BY DEF FInv, TInv, TypeOK
<1>2. \A q \in Sessions: q # s => session'[q] = session[q]
  BY <1>1 DEF Done
<1>3. /\ session'[s].pc \in {"idle", "sweep"}
      /\ \A c \in Certs: session'[s].view[c] \in {session[s].view[c], NilRow}
  <2>1. CASE session'[s] = IdleSession
    BY <2>1 DEF IdleSession
  <2>2. CASE session'[s] = [session[s] EXCEPT !.pc = "sweep", !.cert = NoCert, !.exec = 0,
                                   !.view[session[s].cert] = NilRow]
    BY <1>1, <2>2 DEF Session
  <2> QED BY <1>1, <2>1, <2>2 DEF Done
<1>4. PhaseStep(s)
  BY <1>3 DEF PhaseStep
<1>5. \A c \in Certs: ViewStep(s, c) /\ RemovalStep(s, c)
  BY <1>3 DEF ViewStep, RemovalStep, NilRow
<1> QED BY <1>2, <1>4, <1>5, OneMoves

\* A session that begins an operation has read the row.
LEMMA BeginMoves ==
  ASSUME FInv, NEW s \in Sessions, session[s].pc = "idle", NEW c \in Certs, NEW e, NEW t,
         NEW pc \in {"issue_call", "renew_begin", "revoke_call", "delete_unlink", "reset"},
         session' = Begin(s, pc, c, e, t)
  PROVE  ViewsStep
<1>1. session \in [Sessions -> Session]
  BY DEF FInv, TInv, TypeOK
<1>2. /\ session'[s].pc = pc
      /\ \A d \in Certs: session'[s].view[d] = IF d = c THEN row[c] ELSE NilRow
      /\ \A q \in Sessions: q # s => session'[q] = session[q]
  BY <1>1 DEF Begin, IdleSession
<1>3. PhaseStep(s)
  BY <1>2 DEF PhaseStep
<1>4. \A d \in Certs: ViewStep(s, d) /\ RemovalStep(s, d)
  BY <1>2 DEF ViewStep, RemovalStep, Removing, NilRow
<1> QED BY <1>2, <1>3, <1>4, OneMoves

\* What a commit by column leaves of the material
LEMMA FlushFiles ==
  ASSUME NEW r, NEW seen, NEW new
  PROVE  /\ new.fp = seen.fp /\ new.path = seen.path =>
              Flush(r, seen, new).fp = r.fp /\ Flush(r, seen, new).path = r.path
         /\ new.fp = seen.fp /\ new.path = 0 /\ seen.path # 0 =>
              Flush(r, seen, new).fp = r.fp /\ Flush(r, seen, new).path = 0
         /\ new.fp # seen.fp => Flush(r, seen, new).fp = new.fp
         /\ new.path # seen.path => Flush(r, seen, new).path = new.path
  BY DEF Flush

\* Rows that are not written
LEMMA RowsStay ==
  ASSUME FInv, row' = row
  PROVE  RowsStep
  BY DEF FInv, GoneInv, RowsStep, RowStep

\* One row is written, and not as deleted with a path.
LEMMA OneRow ==
  ASSUME FInv, NEW c \in Certs, NEW new, row' = [row EXCEPT ![c] = new],
         \/ new.fp = row[c].fp /\ new.path = row[c].path
         \/ new.fp \in {row[c].fp, 0} /\ new.path = 0
         \/ /\ new.fp = nfp + 1 /\ new.path = nfp + 1
            /\ nfp' = nfp + 1 /\ nfp + 1 \in files',
         new.status = "gone" => new.path = 0
  PROVE  RowsStep
<1>1. row \in [Certs -> Row]
  BY DEF FInv, TInv, TypeOK
<1>2. row'[c] = new /\ \A d \in Certs: d # c => row'[d] = row[d]
  BY <1>1
<1>3. RowStep(c)
  BY <1>2 DEF RowStep
<1>4. \A d \in Certs: d # c => RowStep(d)
  BY <1>2 DEF RowStep
<1>5. \A d \in Certs: row'[d].status = "gone" => row'[d].path = 0
  BY <1>2 DEF FInv, GoneInv
<1> QED BY <1>2, <1>3, <1>4, <1>5 DEF RowsStep

\* The numbers that steps count with
LEMMA Given ==
  ASSUME FInv
  PROVE  /\ nfp \in Nat
         /\ \A c \in Certs: row[c].fp \in Nat /\ row[c].path \in Nat
         /\ \A s \in Sessions, c \in Certs:
              session[s].view[c].fp \in Nat /\ session[s].view[c].path \in Nat
<1>1. \A r \in Row: r.fp \in Nat /\ r.path \in Nat
  BY ConstantsAssumption DEF Row
<1>2. \A s \in Sessions, c \in Certs: session[s].view[c] \in Row
  BY DEF FInv, TInv, TypeOK, Session
<1>3. nfp \in Nat
  BY ConstantsAssumption DEF FInv, TInv, TypeOK
<1> QED BY <1>1, <1>2, <1>3 DEF FInv, TInv, TypeOK

\* Ingestion adds one directory, and numbers it.
LEMMA IngestAdds ==
  ASSUME FInv, IngestFiles \/ IngestAborted
  PROVE  nfp <= nfp' /\ files \subseteq files'
  BY Given DEF IngestFiles, IngestAborted

LEMMA Grows ==
  ASSUME files \subseteq files' PROVE DirectoryStep
  BY DEF DirectoryStep

\* A session commits over a row that is there: the material stays, the path is cleared,
\* or both columns get what was ingested.  The session cannot have read a number that is
\* only given out now, so both are written.
LEMMA FlushRow ==
  ASSUME FInv, NEW s \in Sessions, NEW c \in Certs, NEW new, row[c].status # "gone",
         row' = [row EXCEPT ![c] = Flush(row[c], session[s].view[c], new)],
         new.status # "gone",
         \/ new.fp = session[s].view[c].fp /\ new.path = session[s].view[c].path
         \/ /\ new.fp = session[s].view[c].fp /\ new.path = 0
            /\ session[s].view[c].path # 0
         \/ /\ new.fp = nfp + 1 /\ new.path = nfp + 1
            /\ nfp' = nfp + 1 /\ nfp + 1 \in files'
  PROVE  RowsStep
<1> DEFINE seen == session[s].view[c]
           put == Flush(row[c], seen, new)
<1>1. seen.fp # nfp + 1 /\ seen.path # nfp + 1
  BY Given DEF FInv, GivenOut
<1>2. \/ put.fp = row[c].fp /\ put.path = row[c].path
      \/ put.fp = row[c].fp /\ put.path = 0
      \/ /\ put.fp = nfp + 1 /\ put.path = nfp + 1
         /\ nfp' = nfp + 1 /\ nfp + 1 \in files'
  <2> HIDE DEF seen
  <2> QED BY <1>1, FlushFiles DEF seen
<1>3. put.status # "gone"
  <2> HIDE DEF seen
  <2> QED BY FlushStatus
<1>4. row' = [row EXCEPT ![c] = put]
  OBVIOUS
<1> HIDE DEF put
<1> QED BY <1>2, <1>3, <1>4, OneRow

\* The commit that ends an issuance or a renewal
LEMMA CommitFiles ==
  ASSUME FInv, NEW s \in Sessions, NEW c \in Certs, c = session[s].cert, NEW new, NEW outcome,
         CommitOutcome(s, new, outcome),
         session[s].pc \in {"issue_call", "renew_call"},
         new.status # "gone",
         \/ new.fp = session[s].view[c].fp /\ new.path = session[s].view[c].path
         \/ /\ new.fp = nfp + 1 /\ new.path = nfp + 1
            /\ nfp' = nfp + 1 /\ nfp + 1 \in files'
  PROVE  RowsStep /\ ViewsStep
<1>1. ViewsStep
  <2>1. session' = Done(s) \/ session' = [session EXCEPT ![s] = IdleSession]
    BY DEF CommitOutcome, StaleData
  <2>2. \A d \in Certs: ~Removing(s, d)
    BY DEF Removing
  <2> QED BY <2>1, <2>2, EndMoves
<1>2. CASE StaleData(s)
  <2>1. row' = row
    BY <1>2 DEF StaleData
  <2> QED BY <1>1, <2>1, RowsStay
<1>3. CASE ~StaleData(s)
  <2>1. row[c].status # "gone" /\ row' = [row EXCEPT ![c] = Flush(row[c], session[s].view[c], new)]
    BY <1>3 DEF CommitOutcome
  <2>2. \/ new.fp = session[s].view[c].fp /\ new.path = session[s].view[c].path
        \/ /\ new.fp = session[s].view[c].fp /\ new.path = 0
           /\ session[s].view[c].path # 0
        \/ /\ new.fp = nfp + 1 /\ new.path = nfp + 1
           /\ nfp' = nfp + 1 /\ nfp + 1 \in files'
    OBVIOUS
  <2>3. RowsStep
    BY ONLY FInv, s \in Sessions, c \in Certs, new.status # "gone", <2>1, <2>2, FlushRow
  <2> QED BY <1>1, <2>3
<1> QED BY <1>2, <1>3

----------------------------------------------------------------------------
(* Every step is one that FilesStep describes *)

\* The provider's answers, and ingestion
LEMMA ProviderFiles ==
  ASSUME FInv, NEW w \in Workers, Provider(w)
  PROVE  FilesStep
<1> USE DEF Sessions
<1>0. /\ row \in [Certs -> Row] /\ session \in [Sessions -> Session] /\ nfp \in Nat
      /\ session[w] \in Session
  BY Given DEF FInv, TInv, TypeOK
<1>1. PICK c \in Certs: c = session[w].cert
  BY DEF FInv, TInv, PhaseInv, Provider, IssueSucceed, IssueFail, IssueAbort, RenewSucceed,
     RenewSkip, RenewFail, RenewAbort, RenewIngestFails, RevokeFail, RevokeAccepted
<1> DEFINE seen == session[w].view[c]
<1>2. seen \in Row
  BY <1>0, <1>1 DEF Session
<1>3. ASSUME IngestFiles
      PROVE  /\ nfp <= nfp' /\ DirectoryStep /\ nfp' = nfp + 1 /\ nfp + 1 \in files'
             /\ Ingested(seen).fp = nfp + 1 /\ Ingested(seen).path = nfp + 1
  <2>1. nfp <= nfp' /\ DirectoryStep
    BY <1>3, IngestAdds, Grows
  <2> QED BY <1>2, <1>3, <2>1 DEF IngestFiles, Ingested, Row
<1>4. CASE IssueSucceed(w)
  <2> DEFINE new == [Ingested(seen) EXCEPT !.status = "active", !.renewal = "none"]
  <2>1. IngestFiles /\ CommitOutcome(w, new, "success") /\ session[w].pc = "issue_call"
    BY <1>1, <1>4 DEF IssueSucceed
  <2>2. new.status # "gone" /\ new.fp = nfp + 1 /\ new.path = nfp + 1
    BY <1>2 DEF Ingested, Row
  <2> HIDE DEF new, seen
  <2>3. RowsStep /\ ViewsStep
    BY <1>1, <1>3, <2>1, <2>2, CommitFiles
  <2> QED BY <1>3, <2>1, <2>3 DEF FilesStep
<1>5. CASE RenewSucceed(w)
  <2> DEFINE new == [Ingested(seen) EXCEPT !.status = "active", !.renewal = "success"]
  <2>1. IngestFiles /\ CommitOutcome(w, new, "success") /\ session[w].pc = "renew_call"
    BY <1>1, <1>5 DEF RenewSucceed
  <2>2. new.status # "gone" /\ new.fp = nfp + 1 /\ new.path = nfp + 1
    BY <1>2 DEF Ingested, Row
  <2> HIDE DEF new, seen
  <2>3. RowsStep /\ ViewsStep
    BY <1>1, <1>3, <2>1, <2>2, CommitFiles
  <2> QED BY <1>3, <2>1, <2>3 DEF FilesStep
<1>6. CASE IssueFail(w) \/ RenewSkip(w) \/ RenewFail(w)
  <2>1. session[w].pc \in {"issue_call", "renew_call"} /\ UNCHANGED <<files, nfp>>
    BY <1>6 DEF IssueFail, RenewSkip, RenewFail
  <2>2. ASSUME NEW status, NEW renewal, NEW outcome, status # "gone",
               CommitOutcome(w, [seen EXCEPT !.status = status, !.renewal = renewal], outcome)
        PROVE  FilesStep
    <3> DEFINE new == [seen EXCEPT !.status = status, !.renewal = renewal]
    <3>1. new.status # "gone" /\ new.fp = seen.fp /\ new.path = seen.path
      BY <1>2, <2>2 DEF Row
    <3>2. CommitOutcome(w, new, outcome)
      BY <2>2
    <3> HIDE DEF new
    <3>3. RowsStep /\ ViewsStep
      BY <1>1, <2>1, <3>1, <3>2, CommitFiles
    <3> QED BY <1>0, <2>1, <3>3, Grows DEF FilesStep
  <2>3. CASE IssueFail(w)
    BY <1>1, <2>2, <2>3 DEF IssueFail
  <2>4. CASE RenewSkip(w)
    BY <1>1, <2>2, <2>4 DEF RenewSkip
  <2>5. CASE RenewFail(w)
    <3>1. StatusAfterFailure(seen.fp) # "gone"
      BY DEF StatusAfterFailure
    <3>2. CommitOutcome(w, [seen EXCEPT !.status = StatusAfterFailure(seen.fp),
                                        !.renewal = "failed"], "failed")
      BY <1>1, <2>5 DEF RenewFail
    <3> QED BY <2>2, <3>1, <3>2
  <2> QED BY <1>6, <2>3, <2>4, <2>5
<1>7. CASE IssueAbort(w) \/ RenewAbort(w) \/ RevokeFail(w)
  <2>1. /\ row' = row
        /\ IngestFiles \/ IngestAborted \/ UNCHANGED <<files, nfp>>
        /\ session' = Done(w) \/ session' = [session EXCEPT ![w] = IdleSession]
        /\ session[w].pc \in {"issue_call", "renew_call", "revoke_call"}
    BY <1>7 DEF IssueAbort, RenewAbort, RevokeFail
  <2>2. nfp <= nfp' /\ DirectoryStep
    BY <1>0, <2>1, IngestAdds, Grows
  <2>3. \A d \in Certs: ~Removing(w, d)
    BY <2>1 DEF Removing
  <2>4. ViewsStep
    BY <2>1, <2>3, EndMoves
  <2> QED BY <2>1, <2>2, <2>4, RowsStay DEF FilesStep
<1>8. CASE RenewIngestFails(w)
  <2>1. /\ IngestFiles /\ row' = row /\ "partial" \in Inputs /\ session[w].pc = "renew_call"
        /\ session' = [session EXCEPT ![w].pc = "renew_leak", ![w].exec = 0,
                                      ![w].view[c].path = nfp + 1]
    BY <1>1, <1>8 DEF RenewIngestFails
  <2>2. /\ session'[w].pc = "renew_leak" /\ session'[w].cert = c
        /\ session'[w].view = [session[w].view EXCEPT ![c].path = nfp + 1]
        /\ \A q \in Sessions: q # w => session'[q] = session[q]
    BY <1>0, <1>1, <2>1 DEF Session
  <2>3. /\ session'[w].view[c].path = nfp + 1 /\ session'[w].view[c].fp = session[w].view[c].fp
        /\ \A d \in Certs: d # c => session'[w].view[d] = session[w].view[d]
    BY <1>0, <1>2, <2>2 DEF Session, Row
  <2>4. Leaks(w, c)
    BY <1>3, <2>1, <2>2, <2>3 DEF Leaks
  <2>5. PhaseStep(w)
    BY <2>2, <2>4 DEF PhaseStep
  <2>6. \A d \in Certs: ViewStep(w, d) /\ RemovalStep(w, d)
    BY <2>1, <2>3, <2>4 DEF ViewStep, RemovalStep, Removing
  <2>7. ViewsStep
    BY <2>2, <2>5, <2>6, OneMoves
  <2> QED BY <1>3, <2>1, <2>7, RowsStay DEF FilesStep
<1>9. ASSUME NEW b \in BOOLEAN, RevokeAccepted(w, b) PROVE FilesStep
  <2>1. /\ row' = row /\ nfp' = nfp /\ seen.path # 0 /\ session[w].pc = "revoke_call"
        /\ session' = Become(w, IF b THEN "revoke_clean" ELSE "revoke_keep")
        /\ files' = IF b THEN files \ {seen.fp} ELSE files
    BY <1>1, <1>9 DEF RevokeAccepted
  <2>2. /\ session'[w].pc = (IF b THEN "revoke_clean" ELSE "revoke_keep")
        /\ session'[w].cert = c /\ session'[w].view = session[w].view
        /\ \A q \in Sessions: q # w => session'[q] = session[q]
    BY <1>0, <1>1, <2>1 DEF Become, Session
  <2>3. PhaseStep(w)
    BY <2>1, <2>2 DEF PhaseStep
  <2>4. \A d \in Certs: ViewStep(w, d) /\ RemovalStep(w, d)
    BY <2>1, <2>2 DEF ViewStep, RemovalStep, Removing
  <2>5. ViewsStep
    BY <2>2, <2>3, <2>4, OneMoves
  <2>6. DirectoryStep
    <3>1. CASE b
      BY <2>1, <2>2, <3>1 DEF DirectoryStep, Removing
    <3>2. CASE ~b
      BY <2>1, <3>2, Grows
    <3> QED BY <3>1, <3>2
  <2> QED BY <1>0, <2>1, <2>5, <2>6, RowsStay DEF FilesStep
<1> QED BY <1>4, <1>5, <1>6, <1>7, <1>8, <1>9 DEF Provider

\* A session that is not between the removal of files and its commit ends.
LEMMA QuietEnd ==
  ASSUME FInv, NEW s \in Sessions, session[s].pc \notin {"revoke_clean", "delete_commit"},
         session' = Done(s) \/ session' = [session EXCEPT ![s] = IdleSession]
  PROVE  ViewsStep
<1>1. \A d \in Certs: ~Removing(s, d)
  BY DEF Removing
<1> QED BY <1>1, EndMoves

\* The claim of a certificate for its renewal
LEMMA RenewBeginFiles ==
  ASSUME FInv, NEW w \in Workers, RenewBegin(w)
  PROVE  FilesStep
<1> USE DEF Sessions
<1>0. /\ row \in [Certs -> Row] /\ session \in [Sessions -> Session] /\ nfp \in Nat
      /\ session[w] \in Session /\ session[w].pc = "renew_begin" /\ UNCHANGED <<files, nfp>>
  BY Given DEF FInv, TInv, TypeOK, RenewBegin
<1>1. PICK c \in Certs: c = session[w].cert
  BY <1>0 DEF FInv, TInv, PhaseInv
<1> DEFINE seen == session[w].view[c]
           claimed == [seen EXCEPT !.renewal = "in_progress", !.status = "renewing"]
<1>2. seen \in Row
  BY <1>0, <1>1 DEF Session
<1>3. claimed.fp = seen.fp /\ claimed.path = seen.path /\ claimed.status # "gone"
  BY <1>2 DEF Row
<1>4. nfp <= nfp' /\ DirectoryStep
  BY <1>0, Grows
<1>5. CASE StaleData(w)
  <2>1. row' = row /\ session' = [session EXCEPT ![w] = IdleSession]
    BY <1>5 DEF StaleData
  <2> QED BY <1>0, <1>4, <2>1, QuietEnd, RowsStay DEF FilesStep
<1>6. CASE ~StaleData(w)
  <2>1. /\ row[c].status # "gone"
        /\ row' = [row EXCEPT ![c] = Flush(row[c], seen, claimed)]
        /\ session' = [session EXCEPT ![w].pc = "renew_call", ![w].exec = nexec + 1,
                                      ![w].view[c] = claimed]
    BY <1>1, <1>6 DEF RenewBegin
  <2>2. RowsStep
    <3> HIDE DEF claimed
    <3> QED BY <1>3, <2>1, FlushRow
  <2>3. /\ session'[w].pc = "renew_call"
        /\ session'[w].view = [session[w].view EXCEPT ![c] = claimed]
        /\ \A q \in Sessions: q # w => session'[q] = session[q]
    BY <1>0, <1>1, <2>1 DEF Session
  <2>4. \A d \in Certs: /\ session'[w].view[d].fp = session[w].view[d].fp
                        /\ session'[w].view[d].path = session[w].view[d].path
    BY <1>0, <1>3, <2>3 DEF Session
  <2>5. PhaseStep(w)
    BY <2>3 DEF PhaseStep
  <2>6. \A d \in Certs: ViewStep(w, d) /\ RemovalStep(w, d)
    BY <1>0, <2>4 DEF ViewStep, RemovalStep, Removing
  <2>7. ViewsStep
    BY <2>3, <2>5, <2>6, OneMoves
  <2> QED BY <1>4, <2>2, <2>7 DEF FilesStep
<1> QED BY <1>5, <1>6

\* The commits that end a revocation, a deletion and a half-failed ingestion
LEMMA CommitsFiles ==
  ASSUME FInv, NEW w \in Workers, LeakCommit(w) \/ RevokeCommit(w) \/ DeleteCommit(w)
  PROVE  FilesStep
<1> USE DEF Sessions
<1>0. /\ row \in [Certs -> Row] /\ session \in [Sessions -> Session] /\ nfp \in Nat
      /\ session[w] \in Session /\ UNCHANGED <<files, nfp>>
  BY Given DEF FInv, TInv, TypeOK, LeakCommit, RevokeCommit, DeleteCommit
<1>1. PICK c \in Certs: c = session[w].cert
  BY DEF FInv, TInv, PhaseInv, LeakCommit, RevokeCommit, DeleteCommit
<1>2. nfp <= nfp' /\ DirectoryStep
  BY <1>0, Grows
<1>3. session' = Done(w) \/ session' = [session EXCEPT ![w] = IdleSession]
  BY DEF LeakCommit, RevokeCommit, DeleteCommit, StaleData
<1> DEFINE seen == session[w].view[c]
<1>4. seen \in Row
  BY <1>0, <1>1 DEF Session
<1>5. CASE StaleData(w)
  <2>1. row' = row /\ row[c].status = "gone"
    BY <1>1, <1>5 DEF StaleData
  <2>2. row[c].path = 0
    BY <2>1 DEF FInv, GoneInv
  <2>3. \A d \in Certs: Removing(w, d) => row'[d].path = 0
    BY <1>1, <2>1, <2>2 DEF Removing
  <2> QED BY <1>2, <1>3, <2>1, <2>3, EndMoves, RowsStay DEF FilesStep
<1>6. CASE ~StaleData(w) /\ LeakCommit(w)
  <2>1. /\ row[c].status # "gone" /\ session[w].pc = "renew_leak"
        /\ row' = [row EXCEPT ![c].path = session[w].view[c].path]
    BY <1>1, <1>6 DEF LeakCommit
  <2>2. /\ row'[c].path = session[w].view[c].path /\ row'[c].fp = row[c].fp
        /\ row'[c].status = row[c].status
        /\ \A d \in Certs: d # c => row'[d] = row[d]
    BY <1>0, <2>1 DEF Row
  <2>3. RowStep(c)
    BY <1>1, <2>1, <2>2 DEF RowStep
  <2>4. \A d \in Certs: d # c => RowStep(d)
    BY <2>2 DEF RowStep
  <2>5. \A d \in Certs: row'[d].status = "gone" => row'[d].path = 0
    BY <2>1, <2>2 DEF FInv, GoneInv
  <2>6. RowsStep
    BY <2>2, <2>3, <2>4, <2>5 DEF RowsStep
  <2>7. ViewsStep
    BY <1>3, <2>1, QuietEnd
  <2> QED BY <1>2, <2>6, <2>7 DEF FilesStep
<1>7. CASE ~StaleData(w) /\ RevokeCommit(w)
  <2> DEFINE revoked == [seen EXCEPT !.status = "revoked", !.auto = FALSE,
                           !.renewal = "disabled",
                           !.path = IF session[w].pc = "revoke_clean" THEN 0 ELSE @]
  <2>1. /\ row[c].status # "gone" /\ row' = [row EXCEPT ![c] = Flush(row[c], seen, revoked)]
        /\ session[w].pc \in {"revoke_clean", "revoke_keep"}
    BY <1>1, <1>7 DEF RevokeCommit
  <2>2. /\ revoked.status # "gone" /\ revoked.fp = seen.fp
        /\ revoked.path = IF session[w].pc = "revoke_clean" THEN 0 ELSE seen.path
    BY <1>4 DEF Row
  <2>3. session[w].pc = "revoke_clean" => seen.path # 0
    BY <1>1 DEF FInv, CleanInv
  <2>4. RowsStep
    <3> HIDE DEF revoked
    <3> QED BY <2>1, <2>2, <2>3, FlushRow
  <2>5. session[w].pc = "revoke_clean" => row'[c].path = 0
    <3>1. session[w].pc = "revoke_clean" => Flush(row[c], seen, revoked).path = 0
      <4> HIDE DEF revoked, seen
      <4> QED BY <2>2, <2>3, FlushFiles
    <3> HIDE DEF revoked, seen
    <3> QED BY <1>0, <2>1, <3>1
  <2>6. \A d \in Certs: Removing(w, d) => row'[d].path = 0
    BY <1>1, <2>1, <2>5 DEF Removing
  <2>7. ViewsStep
    BY <1>3, <2>6, EndMoves
  <2> QED BY <1>2, <2>4, <2>7 DEF FilesStep
<1>8. CASE DeleteCommit(w)
  <2>1. row' = [row EXCEPT ![c] = GoneRow]
    BY <1>1, <1>8 DEF DeleteCommit
  <2>2. RowsStep
    <3>1. GoneRow.fp = 0 /\ GoneRow.path = 0
      BY DEF GoneRow, NilRow
    <3> QED BY <2>1, <3>1, OneRow
  <2>3. \A d \in Certs: Removing(w, d) => row'[d].path = 0
    BY <1>0, <1>1, <2>1 DEF Removing, GoneRow, NilRow
  <2>4. ViewsStep
    BY <1>3, <2>3, EndMoves
  <2> QED BY <1>2, <2>2, <2>4 DEF FilesStep
<1> QED BY <1>5, <1>6, <1>7, <1>8

\* Files are removed, and the sweep goes on.
LEMMA UnlinkAndSweepFiles ==
  ASSUME FInv, NEW w \in Workers,
         DeleteUnlink(w) \/ SweepStart(w) \/ \E c \in Certs: SweepNext(w, c)
  PROVE  FilesStep
<1> USE DEF Sessions
<1>0. /\ row \in [Certs -> Row] /\ session \in [Sessions -> Session] /\ nfp \in Nat
      /\ session[w] \in Session /\ row' = row /\ nfp' = nfp
  BY Given DEF FInv, TInv, TypeOK, DeleteUnlink, SweepStart, SweepNext
<1>1. RowsStep /\ nfp <= nfp'
  BY <1>0, RowsStay
<1>2. CASE DeleteUnlink(w)
  <2>1. PICK c \in Certs: c = session[w].cert
    BY <1>2 DEF FInv, TInv, PhaseInv, DeleteUnlink
  <2>2. /\ session[w].pc = "delete_unlink" /\ session' = Become(w, "delete_commit")
        /\ files' = IF session[w].view[c].path # 0 THEN files \ {session[w].view[c].fp} ELSE files
    BY <1>2, <2>1 DEF DeleteUnlink
  <2>3. /\ session'[w].pc = "delete_commit"
        /\ session'[w].cert = c /\ session'[w].view = session[w].view
        /\ \A q \in Sessions: q # w => session'[q] = session[q]
    BY <1>0, <2>1, <2>2 DEF Become, Session
  <2>4. PhaseStep(w)
    BY <2>3 DEF PhaseStep
  <2>5. \A d \in Certs: ViewStep(w, d) /\ RemovalStep(w, d)
    BY <2>2, <2>3 DEF ViewStep, RemovalStep, Removing
  <2>6. ViewsStep
    BY <2>3, <2>4, <2>5, OneMoves
  <2>7. DirectoryStep
    BY <2>2, <2>3 DEF DirectoryStep, Removing
  <2> QED BY <1>1, <2>6, <2>7 DEF FilesStep
<1>3. ASSUME files' = files, session'[w].pc \notin {"renew_leak", "revoke_clean"},
             session[w].pc \in {"idle", "sweep"},
             \A q \in Sessions: q # w => session'[q] = session[q],
             \A d \in Certs: session'[w].view[d] \in {session[w].view[d], row[d], NilRow}
      PROVE  FilesStep
  <2>1. PhaseStep(w)
    BY <1>3 DEF PhaseStep
  <2>2. \A d \in Certs: ViewStep(w, d) /\ RemovalStep(w, d)
    BY <1>3 DEF ViewStep, RemovalStep, Removing, NilRow
  <2>3. ViewsStep
    BY <1>3, <2>1, <2>2, OneMoves
  <2> QED BY <1>1, <1>3, <2>3, Grows DEF FilesStep
<1>4. CASE SweepStart(w)
  <2>1. /\ session[w].pc = "idle" /\ session'[w].pc = "sweep" /\ files' = files
        /\ \A q \in Sessions: q # w => session'[q] = session[q]
        /\ session'[w].view = [c \in Certs |-> IF Due(c) THEN row[c] ELSE NilRow]
    BY <1>0, <1>4 DEF SweepStart, IdleSession
  <2> QED BY <1>3, <2>1
<1>5. ASSUME NEW c \in Certs, SweepNext(w, c) PROVE FilesStep
  <2>1. session[w].pc = "sweep" /\ files' = files
    BY <1>5 DEF SweepNext
  <2>2. /\ session'[w].pc \in {"idle", "sweep", "renew_begin"}
        /\ \A q \in Sessions: q # w => session'[q] = session[q]
        /\ \A d \in Certs: session'[w].view[d] \in {session[w].view[d], NilRow}
    <3>1. CASE Exists(c) /\ Renewable(c, session[w].view[c])
      <4>1. session' = [session EXCEPT ![w].pc = "renew_begin", ![w].cert = c,
                                       ![w].todo = @ \ {c}]
        BY <1>5, <3>1 DEF SweepNext
      <4> QED BY <1>0, <4>1 DEF Session
    <3>2. CASE ~(Exists(c) /\ Renewable(c, session[w].view[c]))
      <4>1. session' = [session EXCEPT ![w] =
              IF session[w].todo = {c} THEN IdleSession
              ELSE [@ EXCEPT !.todo = session[w].todo \ {c}, !.view[c] = NilRow]]
        BY <1>5, <3>2 DEF SweepNext
      <4> QED BY <1>0, <2>1, <4>1 DEF Session, IdleSession
    <3> QED BY <3>1, <3>2
  <2> QED BY <1>3, <2>1, <2>2
<1> QED BY <1>2, <1>4, <1>5

\* Operations begin: the session reads the row, or creates it.
LEMMA BeginFiles ==
  ASSUME FInv, NEW w \in Workers,
         \/ \E t \in Task: Deliver(w, t)
         \/ \E c \in Certs: ApiRenew(w, c) \/ ApiRevoke(w, c) \/ ApiDelete(w, c)
         \/ \E c, src \in Certs: CloneCertificate(w, src, c)
         \/ \E e \in ExecIds: RetryRenew(w, e)
  PROVE  FilesStep
<1> USE DEF Sessions
<1>0. /\ row \in [Certs -> Row] /\ session \in [Sessions -> Session] /\ nfp \in Nat
  BY Given DEF FInv, TInv, TypeOK
<1>1. ASSUME NEW c \in Certs, NEW t,
             \/ IssueBegin(w, c, t) \/ RenewRead(w, c, t)
             \/ RevokeRead(w, c, t) \/ DeleteRead(w, c, t)
      PROVE  FilesStep
  <2>1. /\ session[w].pc = "idle" /\ UNCHANGED <<row, files, nfp>>
        /\ \E pc \in {"issue_call", "renew_begin", "revoke_call", "delete_unlink"}:
             session' = Begin(w, pc, c, 0, t) \/ session' = Begin(w, pc, c, nexec + 1, t)
    BY <1>1 DEF IssueBegin, RenewRead, RevokeRead, DeleteRead
  <2>2. ViewsStep
    BY <2>1, BeginMoves
  <2> QED BY <1>0, <2>1, <2>2, RowsStay, Grows DEF FilesStep
<1>2. ASSUME NEW t \in Task, Deliver(w, t) PROVE FilesStep
  BY <1>1, <1>2 DEF Deliver, Task
<1>3. ASSUME NEW e \in ExecIds, RetryRenew(w, e) PROVE FilesStep
  <2>1. exec[e].cert \in Certs
    BY <1>3 DEF RetryRenew, FInv, TInv, ExecCertInv
  <2> QED BY <1>1, <1>3, <2>1 DEF RetryRenew
<1>4. ASSUME NEW c \in Certs, NEW src \in Certs, CloneCertificate(w, src, c) PROVE FilesStep
  <2> DEFINE new == NewRow(row[src].auto)
             begun == [IdleSession EXCEPT !.pc = "issue_call", !.cert = c, !.exec = nexec + 1,
                                          !.view[c] = new]
  <2>1. /\ session[w].pc = "idle" /\ UNCHANGED <<files, nfp>>
        /\ row' = [row EXCEPT ![c] = new]
        /\ session' = [session EXCEPT ![w] = begun]
    BY <1>4 DEF CloneCertificate
  <2>2. new.fp = 0 /\ new.path = 0 /\ new.status = "issuing"
    BY DEF NewRow, NilRow
  <2>3. RowsStep
    <3> HIDE DEF new
    <3> QED BY <2>1, <2>2, OneRow
  <2>4. /\ begun.pc = "issue_call"
        /\ \A d \in Certs: begun.view[d] = IF d = c THEN new ELSE NilRow
    BY DEF IdleSession
  <2>5. session'[w] = begun /\ \A q \in Sessions: q # w => session'[q] = session[q]
    BY <1>0, <2>1
  <2>6. PhaseStep(w)
    <3> HIDE DEF begun
    <3> QED BY <2>4, <2>5 DEF PhaseStep
  <2>7. \A d \in Certs: ViewStep(w, d) /\ RemovalStep(w, d)
    <3> HIDE DEF begun, new
    <3> QED BY <2>1, <2>2, <2>4, <2>5 DEF ViewStep, RemovalStep, Removing, NilRow
  <2>8. ViewsStep
    BY <2>5, <2>6, <2>7, OneMoves
  <2> QED BY <1>0, <2>1, <2>3, <2>8, Grows DEF FilesStep
<1> QED BY <1>1, <1>2, <1>3, <1>4 DEF ApiRenew, ApiRevoke, ApiDelete

\* The resets of a stuck renewal
LEMMA ReaderFiles ==
  ASSUME FInv, NEW r \in Readers, Reader(r)
  PROVE  FilesStep
<1> USE DEF Sessions
<1>0. /\ row \in [Certs -> Row] /\ session \in [Sessions -> Session] /\ nfp \in Nat
      /\ session[r] \in Session
  BY Given DEF FInv, TInv, TypeOK
<1>1. ASSUME NEW c \in Certs, CancelRenewal(r, c) \/ MarkStaleRenewal(r, c) PROVE FilesStep
  <2>1. /\ session[r].pc = "idle" /\ UNCHANGED <<row, files, nfp>>
        /\ session' = Begin(r, "reset", c, LatestRunning(c), NoTask)
    BY <1>1 DEF CancelRenewal, MarkStaleRenewal, ResetRead
  <2>2. ViewsStep
    BY <2>1, BeginMoves
  <2> QED BY <1>0, <2>1, <2>2, RowsStay, Grows DEF FilesStep
<1>2. CASE ResetWrite(r)
  <2>1. PICK c \in Certs: c = session[r].cert
    BY <1>2 DEF ResetWrite, FInv, TInv, PhaseInv
  <2> DEFINE seen == session[r].view[c]
             reset == [seen EXCEPT !.renewal = "failed", !.status = StatusAfterFailure(seen.fp)]
  <2>2. reset.fp = seen.fp /\ reset.path = seen.path /\ reset.status # "gone"
    BY <1>0, <2>1 DEF Session, Row, StatusAfterFailure
  <2>3. /\ session[r].pc = "reset" /\ UNCHANGED <<files, nfp>>
        /\ session' = Done(r) \/ session' = [session EXCEPT ![r] = IdleSession]
    BY <1>2 DEF ResetWrite, StaleData
  <2>4. ViewsStep
    BY <2>3, QuietEnd
  <2>5. RowsStep
    <3>1. CASE StaleData(r)
      BY <3>1, RowsStay DEF StaleData
    <3>2. CASE ~StaleData(r)
      <4>1. row[c].status # "gone" /\ row' = [row EXCEPT ![c] = Flush(row[c], seen, reset)]
        BY <1>2, <2>1, <3>2 DEF ResetWrite
      <4> HIDE DEF reset
      <4> QED BY <2>2, <4>1, FlushRow
    <3> QED BY <3>1, <3>2
  <2> QED BY <1>0, <2>3, <2>4, <2>5, Grows DEF FilesStep
<1> QED BY <1>1, <1>2 DEF Reader

\* Requests that work on the table alone
LEMMA RequestFiles ==
  ASSUME FInv, NEW c \in Certs, NEW auto \in BOOLEAN,
         IssueCertificate(c, auto) \/ ImportCertificate(c, auto) \/ UpdateCertificate(c)
  PROVE  FilesStep
<1>0. row \in [Certs -> Row] /\ nfp \in Nat
  BY Given DEF FInv, TInv, TypeOK
<1>1. ViewsStep
  BY NoneMoves DEF IssueCertificate, ImportCertificate, UpdateCertificate
<1>2. CASE IssueCertificate(c, auto)
  <2>1. row' = [row EXCEPT ![c] = NewRow(auto)] /\ UNCHANGED <<files, nfp>>
    BY <1>2 DEF IssueCertificate
  <2>2. NewRow(auto).fp = 0 /\ NewRow(auto).path = 0
    BY DEF NewRow, NilRow
  <2>3. RowsStep
    BY <2>1, <2>2, OneRow
  <2> QED BY <1>0, <1>1, <2>1, <2>3, Grows DEF FilesStep
<1>3. CASE ImportCertificate(c, auto)
  <2> DEFINE new == [Ingested(NilRow) EXCEPT !.status = "active", !.auto = auto]
  <2>1. row' = [row EXCEPT ![c] = new] /\ IngestFiles
    BY <1>3 DEF ImportCertificate
  <2>2. new.fp = nfp + 1 /\ new.path = nfp + 1 /\ new.status = "active"
    BY DEF Ingested, NilRow
  <2>3. RowsStep
    <3> HIDE DEF new
    <3> QED BY <2>1, <2>2, OneRow DEF IngestFiles
  <2> QED BY <1>1, <2>1, <2>3, IngestAdds, Grows DEF FilesStep
<1>4. CASE UpdateCertificate(c)
  <2>1. row' = [row EXCEPT ![c].auto = ~@] /\ UNCHANGED <<files, nfp>>
    BY <1>4 DEF UpdateCertificate
  <2>2. \A d \in Certs: /\ row'[d].fp = row[d].fp /\ row'[d].path = row[d].path
                        /\ row'[d].status = row[d].status
    BY <1>0, <2>1 DEF Row
  <2>3. RowsStep
    BY <2>2 DEF RowsStep, RowStep, FInv, GoneInv
  <2> QED BY <1>0, <1>1, <2>1, <2>3, Grows DEF FilesStep
<1> QED BY <1>2, <1>3, <1>4

\* Every step of the system is one of those.
LEMMA FilesStepHolds == FInv /\ [Next]_vars => FilesStep
<1> SUFFICES ASSUME FInv, [Next]_vars PROVE FilesStep
  OBVIOUS
<1>0. nfp \in Nat
  BY Given
<1>1. ASSUME NEW w \in Workers, Crash(w) PROVE FilesStep
  <2>1. /\ UNCHANGED <<row, files, nfp>> /\ "crash" \in Inputs
        /\ session' = [session EXCEPT ![w] = IdleSession]
    BY <1>1 DEF Crash
  <2>2. ViewsStep
    BY <2>1, EndMoves DEF Sessions
  <2> QED BY <1>0, <2>1, <2>2, RowsStay, Grows DEF FilesStep
<1>2. ASSUME ImportRejected PROVE FilesStep
  <2>1. IngestFiles /\ UNCHANGED <<row, session>>
    BY <1>2 DEF ImportRejected
  <2> QED BY <2>1, IngestAdds, Grows, RowsStay, NoneMoves DEF FilesStep
<1>3. ASSUME \/ \E w \in Workers, t \in Task: TaskRaises(w, t)
             \/ \E t \in Task: BulkAction(t)
             \/ \E e \in ExecIds: RetryIssue(e) \/ HourPasses(e)
             \/ \E g \in FpIds: CertificateAges(g)
             \/ SetMaintenance
             \/ UNCHANGED vars
      PROVE  FilesStep
  <2>1. UNCHANGED <<row, files, nfp, session>>
    BY <1>3 DEF TaskRaises, BulkAction, RetryIssue, HourPasses, CertificateAges,
       SetMaintenance, vars
  <2> QED BY <1>0, <2>1, Grows, RowsStay, NoneMoves DEF FilesStep
<1>4. ASSUME NEW w \in Workers, Internal(w) PROVE FilesStep
  BY <1>4, RenewBeginFiles, CommitsFiles, UnlinkAndSweepFiles DEF Internal
<1>5. ASSUME NEW w \in Workers, Worker(w) PROVE FilesStep
  BY <1>1, <1>3, <1>4, <1>5, ProviderFiles, UnlinkAndSweepFiles, BeginFiles DEF Worker
<1>6. ASSUME \E c \in Certs: UpdateCertificate(c) PROVE FilesStep
  BY <1>6, RequestFiles
<1> QED
  BY <1>2, <1>3, <1>5, <1>6, ReaderFiles, RequestFiles DEF Next

\* What FInv says is kept.
LEMMA FilesInvStep == FInv /\ [Next]_vars => FInv' /\ FilesStep
<1> SUFFICES ASSUME FInv, [Next]_vars PROVE FInv' /\ FilesStep
  OBVIOUS
<1>1. FilesStep /\ TInv'
  BY FilesStepHolds, TypeStep DEF FInv
<1>2. /\ nfp \in Nat /\ nfp' \in Nat /\ nfp <= nfp'
      /\ \A c \in Certs: row[c].fp \in Nat /\ row[c].path \in Nat
      /\ \A s \in Sessions, c \in Certs:
           session[s].view[c].fp \in Nat /\ session[s].view[c].path \in Nat
  BY <1>1, Given, ConstantsAssumption DEF FilesStep, TInv, TypeOK
<1>3. \A c \in Certs: row'[c].fp <= nfp' /\ row'[c].path <= nfp'
  <2> SUFFICES ASSUME NEW c \in Certs PROVE row'[c].fp <= nfp' /\ row'[c].path <= nfp'
    OBVIOUS
  <2>1. RowStep(c)
    BY <1>1 DEF FilesStep, RowsStep
  <2> QED BY <1>2, <2>1 DEF RowStep, FInv, GivenOut
<1>4. ASSUME NEW s \in Sessions, NEW c \in Certs
      PROVE  session'[s].view[c].fp <= nfp' /\ session'[s].view[c].path <= nfp'
  <2>1. ViewStep(s, c)
    BY <1>1 DEF FilesStep, ViewsStep
  <2> QED BY <1>2, <2>1 DEF ViewStep, Leaks, FInv, GivenOut
<1>5. GoneInv'
  BY <1>1 DEF FilesStep, RowsStep, GoneInv
<1>6. CleanInv'
  <2> SUFFICES ASSUME NEW s \in Sessions, session'[s].pc = "revoke_clean"
               PROVE  session'[s].view[session'[s].cert].path # 0
    BY DEF CleanInv
  <2>1. PhaseStep(s)
    BY <1>1 DEF FilesStep, ViewsStep
  <2> QED BY <2>1 DEF PhaseStep, FInv, CleanInv
<1> QED BY <1>1, <1>3, <1>4, <1>5, <1>6 DEF FInv, GivenOut

LEMMA FilesInit == Init => FInv
<1> SUFFICES ASSUME Init PROVE FInv
  OBVIOUS
<1>1. \A s \in Sessions: session[s].pc = "idle" /\ \A c \in Certs: session[s].view[c] = NilRow
  BY DEF Init, IdleSession
<1>2. NilRow.fp = 0 /\ NilRow.path = 0
  BY DEF NilRow
<1>3. /\ \A c \in Certs: row[c] = NilRow
      /\ nfp = 0
  BY DEF Init
<1>4. GivenOut
  BY <1>1, <1>2, <1>3 DEF GivenOut
<1>5. GoneInv /\ CleanInv
  BY <1>1, <1>2, <1>3 DEF GoneInv, CleanInv
<1> QED BY <1>4, <1>5, InitTyped DEF FInv

----------------------------------------------------------------------------
(* cert_path and the fingerprint *)

\* What sessions have read agrees too, and none holds half an ingestion.
PathInv ==
  /\ PathMatchesFingerprint
  /\ \A s \in Sessions: session[s].pc # "renew_leak"
  /\ \A s \in Sessions, c \in Certs: session[s].view[c].path \in {0, session[s].view[c].fp}

LEMMA PathStep ==
  ASSUME "partial" \notin Inputs
  PROVE  FInv /\ PathInv /\ [Next]_vars => PathInv'
<1> SUFFICES ASSUME FInv, PathInv, [Next]_vars PROVE PathInv'
  OBVIOUS
<1>1. FilesStep
  BY FilesInvStep
<1>2. PathMatchesFingerprint'
  <2> SUFFICES ASSUME NEW c \in Certs PROVE row'[c].path \in {0, row'[c].fp}
    BY DEF PathMatchesFingerprint
  <2>1. RowStep(c)
    BY <1>1 DEF FilesStep, RowsStep
  <2> QED BY <2>1 DEF RowStep, PathInv, PathMatchesFingerprint
<1>3. ASSUME NEW s \in Sessions PROVE session'[s].pc # "renew_leak"
  <2>1. PhaseStep(s)
    BY <1>1 DEF FilesStep, ViewsStep
  <2> QED BY <2>1 DEF PhaseStep, Leaks, PathInv
<1>4. ASSUME NEW s \in Sessions, NEW c \in Certs
      PROVE  session'[s].view[c].path \in {0, session'[s].view[c].fp}
  <2>1. ViewStep(s, c)
    BY <1>1 DEF FilesStep, ViewsStep
  <2> QED BY <2>1 DEF ViewStep, Leaks, PathInv, PathMatchesFingerprint
<1> QED BY <1>2, <1>3, <1>4 DEF PathInv

\* Unless an ingestion fails half way, cert_path points into the directory that
\* fingerprint_sha256 names, in every behaviour: a commit writes both columns or
\* neither, although it writes only what differs from what its session has read
\* (_ingest_material, _apply_metadata, revoke_certificate, delete_certificate).
THEOREM PathMatches ==
  ASSUME "partial" \notin Inputs
  PROVE  Spec => []PathMatchesFingerprint
<1>1. Init => FInv /\ PathInv
  <2> SUFFICES ASSUME Init PROVE PathInv
    BY FilesInit
  <2>1. \A s \in Sessions: session[s].pc = "idle" /\ \A c \in Certs: session[s].view[c] = NilRow
    BY DEF Init, IdleSession
  <2>2. NilRow.path = 0 /\ \A c \in Certs: row[c] = NilRow
    BY DEF Init, NilRow
  <2> QED BY <2>1, <2>2 DEF PathInv, PathMatchesFingerprint
<1>2. PathInv => PathMatchesFingerprint
  BY DEF PathInv
<1> QED BY <1>1, <1>2, FilesInvStep, PathStep, PTL DEF Spec

----------------------------------------------------------------------------
(* The files a row names are there *)

\* No other row and no session's copy of another row names the directory.
OwnInv ==
  \A c, d \in Certs: c # d /\ row[d].path # 0 =>
    /\ row[c].fp # row[d].path
    /\ \A s \in Sessions: session[s].view[c].fp # row[d].path

\* The directory of a half-failed ingestion is there and no fingerprint names it.
LeakInv ==
  \A s \in Sessions, c \in Certs: session[s].pc = "renew_leak" /\ session[s].cert = c =>
    /\ session[s].view[c].path \in files
    /\ \A d \in Certs: /\ row[d].fp # session[s].view[c].path
                       /\ \A q \in Sessions: session[q].view[d].fp # session[s].view[c].path

MInv == OwnInv /\ LeakInv /\ MaterialPresent

\* What a step can make of a fingerprint
LEMMA FingerprintStep ==
  ASSUME FInv, FilesStep
  PROVE  /\ \A c \in Certs: \/ row'[c].fp \in {row[c].fp, 0}
                            \/ row'[c].fp = nfp + 1 /\ row'[c].path = nfp + 1
         /\ \A s \in Sessions, c \in Certs:
              session'[s].view[c].fp \in {session[s].view[c].fp, row[c].fp, 0}
<1>1. ASSUME NEW c \in Certs
      PROVE  row'[c].fp \in {row[c].fp, 0} \/ (row'[c].fp = nfp + 1 /\ row'[c].path = nfp + 1)
  <2>1. RowStep(c)
    BY DEF FilesStep, RowsStep
  <2> QED BY <2>1 DEF RowStep
<1>2. ASSUME NEW s \in Sessions, NEW c \in Certs
      PROVE  session'[s].view[c].fp \in {session[s].view[c].fp, row[c].fp, 0}
  <2>1. ViewStep(s, c)
    BY DEF FilesStep, ViewsStep
  <2> QED BY <2>1 DEF ViewStep
<1> QED BY <1>1, <1>2

\* A directory that no fingerprint names is not removed.
LEMMA UnnamedStays ==
  ASSUME FilesStep, NEW p \in files,
         \A c \in Certs, s \in Sessions: session[s].view[c].fp # p
  PROVE  p \in files'
  BY DEF FilesStep, DirectoryStep, Sessions

LEMMA OwnStep ==
  ASSUME FInv, MInv, FilesStep
  PROVE  OwnInv'
<1> SUFFICES ASSUME NEW c \in Certs, NEW d \in Certs, c # d, row'[d].path # 0
             PROVE  /\ row'[c].fp # row'[d].path
                    /\ \A s \in Sessions: session'[s].view[c].fp # row'[d].path
  BY DEF OwnInv
<1>0. /\ nfp \in Nat /\ row[c].fp <= nfp /\ row[d].fp <= nfp /\ row[d].path <= nfp
      /\ row[c].fp \in Nat /\ row[d].fp \in Nat /\ row[d].path \in Nat
      /\ \A s \in Sessions: session[s].view[c].fp <= nfp /\ session[s].view[c].fp \in Nat
      /\ \A s \in Sessions: session[s].view[d].path <= nfp /\ session[s].view[d].path \in Nat
  BY Given DEF FInv, GivenOut
<1>1. /\ row'[c].fp \in {row[c].fp, 0, nfp + 1}
      /\ \A s \in Sessions: session'[s].view[c].fp \in {session[s].view[c].fp, row[c].fp, 0}
  BY FingerprintStep
<1>2. CASE row'[d].fp = row[d].fp /\ row'[d].path = row[d].path
  <2>1. row[c].fp # row[d].path /\ \A s \in Sessions: session[s].view[c].fp # row[d].path
    BY <1>2 DEF MInv, OwnInv
  <2> QED BY <1>0, <1>1, <1>2, <2>1
<1>3. CASE row'[d].fp = nfp + 1 /\ row'[d].path = nfp + 1
  <2>1. row'[c].fp = row[c].fp
    BY <1>0, <1>3 DEF FilesStep, RowsStep
  <2> QED BY <1>0, <1>1, <1>3, <2>1
<1>4. ASSUME NEW s \in Sessions, session[s].pc = "renew_leak", session[s].cert = d,
             row'[d].path = session[s].view[d].path
      PROVE  /\ row'[c].fp # row'[d].path
             /\ \A q \in Sessions: session'[q].view[c].fp # row'[d].path
  <2>1. row[c].fp # row'[d].path /\ \A q \in Sessions: session[q].view[c].fp # row'[d].path
    BY <1>4 DEF MInv, LeakInv
  <2> QED BY <1>0, <1>1, <1>4, <2>1
<1>5. RowStep(d)
  BY DEF FilesStep, RowsStep
<1> QED BY <1>2, <1>3, <1>4, <1>5 DEF RowStep

LEMMA LeakStep ==
  ASSUME FInv, MInv, FilesStep
  PROVE  LeakInv'
<1> SUFFICES ASSUME NEW s \in Sessions, NEW c \in Certs,
                    session'[s].pc = "renew_leak", session'[s].cert = c,
                    NEW p, p = session'[s].view[c].path
             PROVE  /\ p \in files'
                    /\ \A d \in Certs: /\ row'[d].fp # p
                                       /\ \A q \in Sessions: session'[q].view[d].fp # p
  BY DEF LeakInv
<1>0. /\ nfp \in Nat /\ \A d \in Certs: row[d].fp <= nfp /\ row[d].fp \in Nat
      /\ \A q \in Sessions, d \in Certs: session[q].view[d].fp <= nfp /\ session[q].view[d].fp \in Nat
      /\ \A q \in Sessions, d \in Certs: session[q].view[d].path <= nfp /\ session[q].view[d].path \in Nat
      /\ \A g \in files: g \in Nat /\ g # 0
  BY Given DEF FInv, GivenOut, TInv, TypeOK, FpIds
<1>1. CASE session'[s] = session[s]
  <2>1. /\ p \in files /\ p # 0 /\ p <= nfp /\ p \in Nat
        /\ \A d \in Certs: row[d].fp # p /\ \A q \in Sessions: session[q].view[d].fp # p
    BY <1>0, <1>1 DEF MInv, LeakInv
  <2>2. p \in files'
    BY <2>1, UnnamedStays
  <2> QED BY <1>0, <2>1, <2>2, FingerprintStep
<1>2. ASSUME NEW d \in Certs, Leaks(s, d)
      PROVE  /\ p \in files'
             /\ \A e \in Certs: row'[e].fp # p /\ \A q \in Sessions: session'[q].view[e].fp # p
  <2>1. p = nfp + 1 /\ p \in files' /\ row' = row
    BY <1>2 DEF Leaks
  <2> QED BY <1>0, <2>1, FingerprintStep
<1>3. PhaseStep(s)
  BY DEF FilesStep, ViewsStep
<1> QED BY <1>1, <1>2, <1>3 DEF PhaseStep

LEMMA PresentStep ==
  ASSUME FInv, MInv, FilesStep, "crash" \notin Inputs
  PROVE  MaterialPresent'
<1> SUFFICES ASSUME NEW c \in Certs, row'[c].path \notin files' \cup {0}
             PROVE  \E w \in Workers: Removing(w, c)'
  BY DEF MaterialPresent, Removing
<1>1. ASSUME row'[c].path = row[c].path PROVE \E w \in Workers: Removing(w, c)'
  <2>1. CASE row[c].path \in files
    <3>1. PICK w \in Workers, d \in Certs: Removing(w, d)' /\ session[w].view[d].fp = row[c].path
      BY <1>1, <2>1 DEF FilesStep, DirectoryStep
    <3>2. d = c
      BY <1>1, <3>1 DEF MInv, OwnInv, Sessions
    <3> QED BY <3>1, <3>2
  <2>2. CASE row[c].path \notin files
    <3>1. PICK w \in Workers: Removing(w, c)
      BY <1>1, <2>2 DEF MInv, MaterialPresent, Removing
    <3>2. RemovalStep(w, c)
      BY DEF FilesStep, ViewsStep, Sessions
    <3> QED BY <3>1, <3>2 DEF RemovalStep
  <2> QED BY <2>1, <2>2
<1>2. ASSUME NEW s \in Sessions, session[s].pc = "renew_leak", session[s].cert = c,
             row'[c].path = session[s].view[c].path
      PROVE  FALSE
  BY <1>2, UnnamedStays DEF MInv, LeakInv
<1>3. RowStep(c)
  BY DEF FilesStep, RowsStep
<1> QED BY <1>1, <1>2, <1>3 DEF RowStep

\* Unless a process dies between the removal of the files and its commit, a row that
\* names files has them in every behaviour, or a revocation or a deletion is about to
\* clear it: who removes a directory took its name from its own copy of the row, and no
\* other row ever gets that name (revoke_certificate, delete_certificate).
THEOREM MaterialIsThere ==
  ASSUME "crash" \notin Inputs
  PROVE  Spec => []MaterialPresent
<1>1. Init => FInv /\ MInv
  <2> SUFFICES ASSUME Init PROVE MInv
    BY FilesInit
  <2>1. \A s \in Sessions: session[s].pc = "idle"
    BY DEF Init, IdleSession
  <2> QED BY <2>1 DEF Init, MInv, OwnInv, LeakInv, MaterialPresent, NilRow
<1>2. FInv /\ MInv /\ [Next]_vars => MInv'
  BY FilesInvStep, OwnStep, LeakStep, PresentStep DEF MInv
<1>3. MInv => MaterialPresent
  BY DEF MInv
<1> QED BY <1>1, <1>2, <1>3, FilesInvStep, PTL DEF Spec
=============================================================================
