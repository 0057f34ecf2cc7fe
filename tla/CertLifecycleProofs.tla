------------------------ MODULE CertLifecycleProofs ------------------------
(***************************************************************************)
(* Proofs about CertLifecycle, for any sets of certificates, workers and   *)
(* readers and any bounds.                                                 *)
(*                                                                         *)
(* InProgressHasExecution is not inductive on its own: a session commits   *)
(* by column against the row it once read, so the proof must know that a   *)
(* session about to close an execution read (or wrote) in_progress, and    *)
(* that the execution it closes belongs to its own certificate.  That is   *)
(* SessionInv.                                                             *)
(***************************************************************************)
EXTENDS CertLifecycle, WellFoundedInduction, TLAPS

\* What a session holds: an execution of the kind and the certificate it works
\* on, and, when it is about to end a renewal, a row it knows to be in progress
SessionOK(s) ==
  LET c == session[s].cert
      e == session[s].exec
      pc == session[s].pc
  IN
  /\ e <= nexec
  /\ pc = "issue_call" => e # 0 /\ exec[e].type # "renew"
  /\ pc = "renew_call" =>
       /\ e # 0
       /\ exec[e].type = "renew" => exec[e].cert = c
       /\ session[s].view[c].renewal = "in_progress"
  /\ pc = "reset" =>
       /\ e # 0 /\ exec[e].type = "renew" => exec[e].cert = c
       /\ session[s].view[c].renewal = "in_progress"

SessionInv == \A s \in Sessions: SessionOK(s)

\* Ids above nexec have not been given out.
ExecInv == \A e \in ExecIds: e > nexec => exec[e] = NoExec

\* A session in the middle of an operation has a certificate.
PhaseInv ==
  \A s \in Sessions: session[s].pc \notin {"idle", "sweep"} => session[s].cert \in Certs

\* An execution that was recorded names a certificate.
ExecCertInv == \A e \in ExecIds: exec[e].type # "none" => exec[e].cert \in Certs

TInv == TypeOK /\ PhaseInv /\ ExecCertInv

IInv == TInv /\ SessionInv /\ ExecInv /\ InProgressHasExecution

----------------------------------------------------------------------------

\* The record of an idle session is a session.
LEMMA IdleSessionType == IdleSession \in Session /\ NilRow \in Row /\ GoneRow \in Row
<1>1. 0 \in 0..MaxFp /\ 0 \in 0..MaxExec
  BY ConstantsAssumption
<1>2. NilRow \in Row
  BY <1>1 DEF NilRow, Row, CertificateStatus, RenewalStatus
<1>3. GoneRow \in Row
  BY <1>2 DEF GoneRow, Row, CertificateStatus
<1>4. IdleSession \in Session
  BY <1>1, <1>2 DEF IdleSession, Session, Pcs
<1> QED
  BY <1>2, <1>3, <1>4

\* Closing or requeueing an execution keeps the executions typed.
LEMMA ExecStatusStep ==
  ASSUME TInv, NEW e, NEW st \in JobStatus,
         exec' = [exec EXCEPT ![e].status = st]
  PROVE  exec' \in [ExecIds -> Execution] /\ ExecCertInv'
<1>0. exec \in [ExecIds -> Execution] /\ ExecCertInv
  BY DEF TInv, TypeOK
<1>1. CASE e \in ExecIds
  <2>1. exec[e] \in Execution
    BY <1>0, <1>1
  <2>2. [exec[e] EXCEPT !.status = st] \in Execution
    BY <2>1 DEF Execution
  <2>3. exec' \in [ExecIds -> Execution]
    BY <1>0, <2>2
  <2>4. \A f \in ExecIds: exec'[f].type = exec[f].type /\ exec'[f].cert = exec[f].cert
    BY <1>0, <1>1, <2>1 DEF Execution
  <2>5. ExecCertInv'
    BY <1>0, <2>4 DEF ExecCertInv
  <2> QED BY <2>3, <2>5
<1>2. CASE e \notin ExecIds
  <2>1. exec' = exec
    BY <1>0, <1>2
  <2> QED BY <1>0, <2>1 DEF ExecCertInv
<1> QED BY <1>1, <1>2

\* Recording the next execution keeps the executions typed.
LEMMA ExecNewStep ==
  ASSUME TInv, nexec < MaxExec, NEW type \in {"issue", "renew"}, NEW c \in Certs,
         exec' = [exec EXCEPT ![nexec + 1] = NewExec(type, c)]
  PROVE  exec' \in [ExecIds -> Execution] /\ ExecCertInv' /\ nexec + 1 \in 0..MaxExec
<1>1. NewExec(type, c) \in Execution /\ NewExec(type, c).cert = c
  BY DEF NewExec, Execution, JobStatus
<1>2. nexec + 1 \in 0..MaxExec
  BY ConstantsAssumption DEF TInv, TypeOK
<1>3. exec' \in [ExecIds -> Execution]
  BY <1>1 DEF TInv, TypeOK
<1>4. ExecCertInv'
  BY <1>1 DEF TInv, TypeOK, ExecCertInv
<1> QED BY <1>2, <1>3, <1>4

\* The execution a reset closes is one of the table, or none.
LEMMA LatestType ==
  ASSUME NEW c
  PROVE  LatestRunning(c) \in RunningRenewals(c) \cup {0}
<1>1. CASE RunningRenewals(c) = {}
  BY <1>1 DEF LatestRunning
<1>2. CASE RunningRenewals(c) # {}
  <2> DEFINE T == {MaxExec - e: e \in RunningRenewals(c)}
  <2>1. RunningRenewals(c) \subseteq 1..MaxExec
    BY DEF RunningRenewals, ExecIds
  <2>2. T \subseteq Nat /\ T # {}
    BY <1>2, <2>1, ConstantsAssumption
  <2>3. PICK m \in T: \A n \in T: <<n, m>> \notin OpToRel(<, Nat)
    <3> HIDE DEF T
    <3> QED BY <2>2, NatLessThanWellFounded, WFMin
  <2>4. \A n \in T: ~(n < m)
    <3> HIDE DEF T
    <3> QED BY <2>2, <2>3 DEF OpToRel
  <2>5. PICK e \in RunningRenewals(c): m = MaxExec - e
    BY <2>3
  <2>6. \A f \in RunningRenewals(c): f <= e
    <3> SUFFICES ASSUME NEW f \in RunningRenewals(c) PROVE f <= e
      OBVIOUS
    <3>1. ~(MaxExec - f < m)
      BY <2>4
    <3> QED BY <2>1, <2>5, <3>1, ConstantsAssumption
  <2> QED BY <1>2, <2>6 DEF LatestRunning
<1> QED BY <1>1, <1>2

\* A commit by column turns rows into a row.
LEMMA FlushType ==
  ASSUME NEW r \in Row, NEW seen \in Row, NEW new \in Row
  PROVE  Flush(r, seen, new) \in Row
  BY DEF Flush, Row

\* Ending or continuing a session keeps the sessions well typed.
LEMMA DoneType ==
  ASSUME TypeOK, NEW s \in Sessions
  PROVE  Done(s) \in [Sessions -> Session]
<1>1. session[s] \in Session
  BY DEF TypeOK
<1>2. [session[s] EXCEPT !.pc = "sweep", !.cert = NoCert, !.exec = 0,
                         !.view[session[s].cert] = NilRow] \in Session
  <2>1. [session[s].view EXCEPT ![session[s].cert] = NilRow] \in [Certs -> Row]
    BY <1>1, IdleSessionType DEF Session
  <2>2. 0 \in 0..MaxExec /\ "sweep" \in Pcs
    BY ConstantsAssumption DEF Pcs
  <2> QED
    BY <1>1, <2>1, <2>2 DEF Session
<1> QED
  BY <1>2, IdleSessionType DEF Done, TypeOK

\* A session that begins an operation is well typed.
LEMMA BeginType ==
  ASSUME TypeOK, NEW s \in Sessions, NEW pc \in Pcs, NEW c \in Certs,
         NEW e \in 0..MaxExec, NEW t \in Task \cup {NoTask}
  PROVE  Begin(s, pc, c, e, t) \in [Sessions -> Session]
<1>1. row[c] \in Row
  BY DEF TypeOK
<1>2. [IdleSession EXCEPT !.pc = pc, !.cert = c, !.exec = e,
                          !.task = t, !.view[c] = row[c]] \in Session
  BY <1>1, IdleSessionType DEF Session
<1> QED
  BY <1>2 DEF Begin, TypeOK

\* The commit that ends an operation keeps rows, executions and sessions typed.
LEMMA CommitType ==
  ASSUME TypeOK, NEW s \in Sessions, NEW new \in Row, NEW outcome \in JobStatus,
         CommitOutcome(s, new, outcome)
  PROVE  /\ row' \in [Certs -> Row]
         /\ exec' \in [ExecIds -> Execution]
         /\ session' \in [Sessions -> Session]
<1>1. CASE StaleData(s)
  BY <1>1, IdleSessionType DEF StaleData, TypeOK
<1>2. CASE ~StaleData(s)
  <2> DEFINE c == session[s].cert
  <2>1. c \in Certs => Flush(row[c], session[s].view[c], new) \in Row
    BY FlushType DEF TypeOK, Session
  <2>2. row' \in [Certs -> Row]
    BY <1>2, <2>1 DEF CommitOutcome, TypeOK
  <2>3. session' \in [Sessions -> Session]
    BY <1>2, DoneType DEF CommitOutcome
  <2>4. exec' \in [ExecIds -> Execution]
    BY <1>2 DEF CommitOutcome, TypeOK, Execution
  <2> QED BY <2>2, <2>3, <2>4
<1> QED BY <1>1, <1>2

\* Setting the phase of a session keeps it typed.
LEMMA BecomeType ==
  ASSUME TypeOK, NEW s \in Sessions, NEW pc \in Pcs
  PROVE  Become(s, pc) \in [Sessions -> Session]
<1>1. [session[s] EXCEPT !.pc = pc] \in Session
  BY DEF TypeOK, Session
<1> QED BY <1>1 DEF Become, TypeOK

\* Ingestion gives the row the next fingerprint.
LEMMA IngestType ==
  ASSUME TypeOK, IngestFiles, NEW r \in Row
  PROVE  Ingested(r) \in Row /\ nfp' \in 0..MaxFp /\ files' \subseteq FpIds
<1>1. nfp + 1 \in 0..MaxFp /\ nfp + 1 \in FpIds
  BY ConstantsAssumption DEF TypeOK, IngestFiles, FpIds
<1> QED BY <1>1 DEF Ingested, IngestFiles, Row, TypeOK

\* The row a session looks at is a row.
LEMMA ViewType ==
  ASSUME TypeOK, NEW s \in Sessions, session[s].cert \in Certs
  PROVE  session[s].view[session[s].cert] \in Row
  BY DEF TypeOK, Session

\* An operation that gives up leaves an idle session behind.
LEMMA IdleStep ==
  ASSUME TInv, NEW s \in Sessions, session' = [session EXCEPT ![s] = IdleSession]
  PROVE  session' \in [Sessions -> Session] /\ PhaseInv'
<1>1. session' \in [Sessions -> Session]
  BY IdleSessionType DEF TInv, TypeOK
<1>2. PhaseInv'
  BY IdleSessionType DEF TInv, TypeOK, PhaseInv, IdleSession
<1> QED BY <1>1, <1>2

\* An operation that ends leaves an idle session, or a sweep with more to do.
LEMMA DoneStep ==
  ASSUME TInv, NEW s \in Sessions, session' = Done(s)
  PROVE  session' \in [Sessions -> Session] /\ PhaseInv'
<1>1. session' \in [Sessions -> Session]
  BY DoneType DEF TInv
<1>2. PhaseInv'
  BY DEF TInv, TypeOK, Session, PhaseInv, Done, IdleSession
<1> QED BY <1>1, <1>2

\* An operation that begins has its certificate.
LEMMA BeginStep ==
  ASSUME TInv, NEW s \in Sessions, NEW pc \in Pcs, NEW c \in Certs,
         NEW e \in 0..MaxExec, NEW t \in Task \cup {NoTask},
         session' = Begin(s, pc, c, e, t)
  PROVE  session' \in [Sessions -> Session] /\ PhaseInv'
<1>1. session' \in [Sessions -> Session]
  BY BeginType DEF TInv
<1>2. PhaseInv'
  BY DEF TInv, TypeOK, PhaseInv, Begin, IdleSession
<1> QED BY <1>1, <1>2

\* The next phase of the same operation keeps its certificate.
LEMMA BecomeStep ==
  ASSUME TInv, NEW s \in Sessions, NEW pc \in Pcs,
         session[s].pc \notin {"idle", "sweep"}, session' = Become(s, pc)
  PROVE  session' \in [Sessions -> Session] /\ PhaseInv'
<1>1. session' \in [Sessions -> Session]
  BY BecomeType DEF TInv
<1>2. PhaseInv'
  BY DEF TInv, TypeOK, Session, PhaseInv, Become
<1> QED BY <1>1, <1>2

\* The commit that ends an operation, with its phase
LEMMA CommitStep ==
  ASSUME TInv, NEW s \in Sessions, NEW new \in Row, NEW outcome \in JobStatus,
         CommitOutcome(s, new, outcome)
  PROVE  /\ row' \in [Certs -> Row]
         /\ exec' \in [ExecIds -> Execution]
         /\ session' \in [Sessions -> Session]
         /\ PhaseInv'
         /\ ExecCertInv'
<1>1. PhaseInv'
  BY IdleStep, DoneStep DEF CommitOutcome, StaleData
<1>2. ExecCertInv'
  BY ExecStatusStep DEF CommitOutcome, StaleData, TInv, ExecCertInv
<1> QED BY <1>1, <1>2, CommitType DEF TInv

----------------------------------------------------------------------------
\* Every step keeps the types, and the certificate of a session at work.
LEMMA TypeStep == TInv /\ [Next]_vars => TInv'
<1> SUFFICES ASSUME TInv, [Next]_vars PROVE TInv'
  OBVIOUS
<1> USE DEF Sessions
<1>0. TypeOK /\ PhaseInv /\ ExecCertInv
  BY DEF TInv, ExecCertInv
<1>1. ASSUME NEW w \in Workers, IssueSucceed(w) PROVE TInv'
  <2>1. session[w].cert \in Certs
    BY <1>1, <1>0 DEF IssueSucceed, PhaseInv
  <2>2. session[w].view[session[w].cert] \in Row
    BY <2>1, <1>0, ViewType
  <2>3. Ingested(session[w].view[session[w].cert]) \in Row /\ nfp' \in 0..MaxFp /\ files' \subseteq FpIds
    BY <1>1, <1>0, <2>2, IngestType DEF IssueSucceed
  <2>4. [Ingested(session[w].view[session[w].cert]) EXCEPT !.status = "active", !.renewal = "none"] \in Row
    BY <2>2, <2>3 DEF Row, CertificateStatus, RenewalStatus, StatusAfterFailure
  <2>5. CommitOutcome(w, [Ingested(session[w].view[session[w].cert]) EXCEPT !.status = "active", !.renewal = "none"], "success")
    BY <1>1 DEF IssueSucceed
  <2>6. /\ row' \in [Certs -> Row]
        /\ exec' \in [ExecIds -> Execution]
        /\ session' \in [Sessions -> Session]
        /\ PhaseInv'
        /\ ExecCertInv'
    BY <2>4, <2>5, CommitStep DEF JobStatus
  <2> QED BY <1>1, <1>0, <2>3, <2>6 DEF IssueSucceed, TInv, TypeOK
<1>2. ASSUME NEW w \in Workers, IssueFail(w) PROVE TInv'
  <2>1. session[w].cert \in Certs
    BY <1>2, <1>0 DEF IssueFail, PhaseInv
  <2>2. session[w].view[session[w].cert] \in Row
    BY <2>1, <1>0, ViewType
  <2>3. nfp' \in 0..MaxFp /\ files' \subseteq FpIds
    BY <1>2, <1>0 DEF IssueFail, TypeOK
  <2>4. [session[w].view[session[w].cert] EXCEPT !.status = "failed", !.renewal = "failed"] \in Row
    BY <2>2, <2>3 DEF Row, CertificateStatus, RenewalStatus, StatusAfterFailure
  <2>5. CommitOutcome(w, [session[w].view[session[w].cert] EXCEPT !.status = "failed", !.renewal = "failed"], "failed")
    BY <1>2 DEF IssueFail
  <2>6. /\ row' \in [Certs -> Row]
        /\ exec' \in [ExecIds -> Execution]
        /\ session' \in [Sessions -> Session]
        /\ PhaseInv'
        /\ ExecCertInv'
    BY <2>4, <2>5, CommitStep DEF JobStatus
  <2> QED BY <1>2, <1>0, <2>3, <2>6 DEF IssueFail, TInv, TypeOK
<1>3. ASSUME NEW w \in Workers, RenewSucceed(w) PROVE TInv'
  <2>1. session[w].cert \in Certs
    BY <1>3, <1>0 DEF RenewSucceed, PhaseInv
  <2>2. session[w].view[session[w].cert] \in Row
    BY <2>1, <1>0, ViewType
  <2>3. Ingested(session[w].view[session[w].cert]) \in Row /\ nfp' \in 0..MaxFp /\ files' \subseteq FpIds
    BY <1>3, <1>0, <2>2, IngestType DEF RenewSucceed
  <2>4. [Ingested(session[w].view[session[w].cert]) EXCEPT !.status = "active", !.renewal = "success"] \in Row
    BY <2>2, <2>3 DEF Row, CertificateStatus, RenewalStatus, StatusAfterFailure
  <2>5. CommitOutcome(w, [Ingested(session[w].view[session[w].cert]) EXCEPT !.status = "active", !.renewal = "success"], "success")
    BY <1>3 DEF RenewSucceed
  <2>6. /\ row' \in [Certs -> Row]
        /\ exec' \in [ExecIds -> Execution]
        /\ session' \in [Sessions -> Session]
        /\ PhaseInv'
        /\ ExecCertInv'
    BY <2>4, <2>5, CommitStep DEF JobStatus
  <2> QED BY <1>3, <1>0, <2>3, <2>6 DEF RenewSucceed, TInv, TypeOK
<1>4. ASSUME NEW w \in Workers, RenewSkip(w) PROVE TInv'
  <2>1. session[w].cert \in Certs
    BY <1>4, <1>0 DEF RenewSkip, PhaseInv
  <2>2. session[w].view[session[w].cert] \in Row
    BY <2>1, <1>0, ViewType
  <2>3. nfp' \in 0..MaxFp /\ files' \subseteq FpIds
    BY <1>4, <1>0 DEF RenewSkip, TypeOK
  <2>4. [session[w].view[session[w].cert] EXCEPT !.status = "active", !.renewal = "skipped"] \in Row
    BY <2>2, <2>3 DEF Row, CertificateStatus, RenewalStatus, StatusAfterFailure
  <2>5. CommitOutcome(w, [session[w].view[session[w].cert] EXCEPT !.status = "active", !.renewal = "skipped"], "success")
    BY <1>4 DEF RenewSkip
  <2>6. /\ row' \in [Certs -> Row]
        /\ exec' \in [ExecIds -> Execution]
        /\ session' \in [Sessions -> Session]
        /\ PhaseInv'
        /\ ExecCertInv'
    BY <2>4, <2>5, CommitStep DEF JobStatus
  <2> QED BY <1>4, <1>0, <2>3, <2>6 DEF RenewSkip, TInv, TypeOK
<1>5. ASSUME NEW w \in Workers, RenewFail(w) PROVE TInv'
  <2>1. session[w].cert \in Certs
    BY <1>5, <1>0 DEF RenewFail, PhaseInv
  <2>2. session[w].view[session[w].cert] \in Row
    BY <2>1, <1>0, ViewType
  <2>3. nfp' \in 0..MaxFp /\ files' \subseteq FpIds
    BY <1>5, <1>0 DEF RenewFail, TypeOK
  <2>4. [session[w].view[session[w].cert] EXCEPT !.status = StatusAfterFailure(session[w].view[session[w].cert].fp), !.renewal = "failed"] \in Row
    BY <2>2, <2>3 DEF Row, CertificateStatus, RenewalStatus, StatusAfterFailure
  <2>5. CommitOutcome(w, [session[w].view[session[w].cert] EXCEPT !.status = StatusAfterFailure(session[w].view[session[w].cert].fp), !.renewal = "failed"], "failed")
    BY <1>5 DEF RenewFail
  <2>6. /\ row' \in [Certs -> Row]
        /\ exec' \in [ExecIds -> Execution]
        /\ session' \in [Sessions -> Session]
        /\ PhaseInv'
        /\ ExecCertInv'
    BY <2>4, <2>5, CommitStep DEF JobStatus
  <2> QED BY <1>5, <1>0, <2>3, <2>6 DEF RenewFail, TInv, TypeOK
<1>6. ASSUME NEW w \in Workers, RenewAbort(w) PROVE TInv'
  <2>1. nfp' \in 0..MaxFp /\ files' \subseteq FpIds
    BY <1>6, <1>0, IngestType, IdleSessionType DEF RenewAbort, IngestAborted, TypeOK
  <2> QED BY <1>6, <1>0, <2>1, DoneStep DEF RenewAbort, TInv, ExecCertInv, TypeOK
<1>7. ASSUME NEW w \in Workers, RevokeFail(w) PROVE TInv'
  BY <1>7, <1>0, DoneStep DEF RevokeFail, TInv, ExecCertInv, TypeOK
<1>8. ASSUME NEW w \in Workers, IssueAbort(w) PROVE TInv'
  <2>1. nfp' \in 0..MaxFp /\ files' \subseteq FpIds
    BY <1>8, <1>0, IngestType, IdleSessionType DEF IssueAbort, IngestAborted, TypeOK
  <2> QED BY <1>8, <1>0, <2>1, IdleStep DEF IssueAbort, TInv, ExecCertInv, TypeOK
<1>9. ASSUME NEW w \in Workers, NEW b \in BOOLEAN, RevokeAccepted(w, b) PROVE TInv'
  BY <1>9, <1>0, BecomeStep DEF RevokeAccepted, TInv, ExecCertInv, TypeOK, Pcs
<1>10. ASSUME NEW w \in Workers, RenewBegin(w) PROVE TInv'
  <2> DEFINE c == session[w].cert
             seen == session[w].view[c]
             claimed == [seen EXCEPT !.renewal = "in_progress", !.status = "renewing"]
  <2>1. c \in Certs /\ session[w] \in Session
    BY <1>10, <1>0 DEF RenewBegin, PhaseInv, TypeOK
  <2>2. seen \in Row /\ claimed \in Row /\ row[c] \in Row
    BY <1>0, <2>1, ViewType DEF Row, CertificateStatus, RenewalStatus, TypeOK
  <2>3. CASE StaleData(w) /\ UNCHANGED nexec
    BY <1>10, <1>0, <2>3, IdleStep DEF RenewBegin, StaleData, TInv, ExecCertInv, TypeOK
  <2>4. CASE ~(StaleData(w) /\ UNCHANGED nexec)
    <3>1. row' \in [Certs -> Row]
      BY <1>10, <1>0, <2>2, <2>4, FlushType DEF RenewBegin, TypeOK
    <3>2. nexec' \in 0..MaxExec /\ nexec' = nexec + 1 /\ nexec + 1 \in ExecIds
      BY <1>10, <1>0, <2>4, ConstantsAssumption DEF RenewBegin, TypeOK, ExecIds
    <3>3. exec' \in [ExecIds -> Execution] /\ ExecCertInv'
      BY <1>10, <2>1, <2>4, ExecNewStep DEF RenewBegin
    <3>4. [session[w] EXCEPT !.pc = "renew_call", !.exec = nexec + 1,
                             !.view[c] = claimed] \in Session
      BY <2>1, <2>2, <3>2 DEF Session, Pcs
    <3>5. session' = [session EXCEPT ![w] = [session[w] EXCEPT !.pc = "renew_call",
                         !.exec = nexec + 1, !.view[c] = claimed]]
      BY <1>10, <1>0, <2>4 DEF RenewBegin, TypeOK
    <3>6. session' \in [Sessions -> Session] /\ PhaseInv'
      BY <1>0, <2>1, <3>4, <3>5 DEF TypeOK, PhaseInv, Session
    <3> QED BY <1>10, <1>0, <3>1, <3>2, <3>3, <3>6 DEF RenewBegin, TInv, ExecCertInv, TypeOK
  <2> QED BY <2>3, <2>4
<1>11. ASSUME NEW w \in Workers, RevokeCommit(w) PROVE TInv'
  <2> DEFINE c == session[w].cert
             seen == session[w].view[c]
             revoked == [seen EXCEPT !.status = "revoked", !.auto = FALSE,
                           !.renewal = "disabled",
                           !.path = IF session[w].pc = "revoke_clean" THEN 0 ELSE @]
  <2>1. c \in Certs
    BY <1>11, <1>0 DEF RevokeCommit, PhaseInv
  <2>2. seen \in Row /\ row[c] \in Row /\ 0 \in 0..MaxFp
    BY <1>0, <2>1, ViewType, ConstantsAssumption DEF TypeOK
  <2>3. revoked \in Row
    BY <2>2 DEF Row, CertificateStatus, RenewalStatus
  <2>4. Flush(row[c], seen, revoked) \in Row
    BY <2>2, <2>3, FlushType
  <2>5. CASE StaleData(w)
    BY <1>11, <1>0, <2>5, IdleStep DEF RevokeCommit, StaleData, TInv, ExecCertInv, TypeOK
  <2>6. CASE ~StaleData(w)
    <3>1. row' = [row EXCEPT ![c] = Flush(row[c], seen, revoked)] /\ session' = Done(w)
          /\ UNCHANGED exec
      BY <1>11, <2>6 DEF RevokeCommit
    <3> QED BY <1>11, <1>0, <2>4, <3>1, DoneStep DEF RevokeCommit, TInv, ExecCertInv, TypeOK
  <2> QED BY <2>5, <2>6
<1>12. ASSUME NEW w \in Workers, DeleteUnlink(w) PROVE TInv'
  BY <1>12, <1>0, BecomeStep DEF DeleteUnlink, TInv, ExecCertInv, TypeOK, Pcs
<1>13. ASSUME NEW w \in Workers, DeleteCommit(w) PROVE TInv'
  <2>1. NoExec \in Execution /\ NoExec.type = "none"
    BY DEF NoExec, Execution, JobStatus
  <2>2. exec' \in [ExecIds -> Execution] /\ ExecCertInv'
    BY <1>13, <1>0, <2>1 DEF DeleteCommit, ExecCertInv, TypeOK
  <2> QED
    BY <1>13, <1>0, <2>2, DoneStep, IdleSessionType DEF DeleteCommit, TInv, TypeOK
<1>14. ASSUME NEW w \in Workers, NEW c \in Certs, SweepNext(w, c) PROVE TInv'
  <2>0. session[w] \in Session
    BY <1>0 DEF TypeOK
  <2>1. CASE Exists(c) /\ Renewable(c, session[w].view[c])
    <3>1. [session[w] EXCEPT !.pc = "renew_begin", !.cert = c, !.todo = @ \ {c}] \in Session
      BY <2>0 DEF Session, Pcs
    <3>2. session' = [session EXCEPT ![w] = [session[w] EXCEPT !.pc = "renew_begin",
                                               !.cert = c, !.todo = @ \ {c}]]
      BY <1>14, <1>0, <2>1 DEF SweepNext, TypeOK
    <3>3. session' \in [Sessions -> Session] /\ PhaseInv'
      BY <1>0, <2>0, <3>1, <3>2 DEF TypeOK, PhaseInv, Session
    <3> QED BY <1>14, <1>0, <3>3 DEF SweepNext, TInv, ExecCertInv, TypeOK
  <2>2. CASE ~(Exists(c) /\ Renewable(c, session[w].view[c])) /\ session[w].todo = {c}
    BY <1>14, <1>0, <2>2, IdleStep DEF SweepNext, TInv, ExecCertInv, TypeOK
  <2>3. CASE ~(Exists(c) /\ Renewable(c, session[w].view[c])) /\ session[w].todo # {c}
    <3>1. [session[w] EXCEPT !.todo = @ \ {c}, !.view[c] = NilRow] \in Session
      BY <2>0, IdleSessionType DEF Session
    <3>2. session' = [session EXCEPT ![w] =
                        [session[w] EXCEPT !.todo = @ \ {c}, !.view[c] = NilRow]]
      BY <1>14, <2>3 DEF SweepNext
    <3>3. session' \in [Sessions -> Session] /\ PhaseInv'
      BY <1>14, <1>0, <2>0, <3>1, <3>2 DEF TypeOK, PhaseInv, Session, SweepNext
    <3> QED BY <1>14, <1>0, <3>3 DEF SweepNext, TInv, ExecCertInv, TypeOK
  <2> QED BY <2>1, <2>2, <2>3
<1>15. ASSUME NEW w \in Workers, Crash(w) PROVE TInv'
  <2>1. queue' \subseteq Task
    BY <1>15, <1>0 DEF Crash, TypeOK, Session
  <2> QED BY <1>15, <1>0, <2>1, IdleStep DEF Crash, TInv, ExecCertInv, TypeOK
<1>16. ASSUME NEW w \in Workers, SweepStart(w) PROVE TInv'
  <2> DEFINE new == [IdleSession EXCEPT !.pc = "sweep", !.task = SweepTask,
                       !.todo = {c \in Certs: Due(c)},
                       !.view = [c \in Certs |-> IF Due(c) THEN row[c] ELSE NilRow]]
  <2>1. [c \in Certs |-> IF Due(c) THEN row[c] ELSE NilRow] \in [Certs -> Row]
    BY <1>0, IdleSessionType DEF TypeOK
  <2>2. new \in Session /\ new.pc = "sweep"
    BY <2>1, IdleSessionType DEF Session, Pcs, IdleSession
  <2>3. session' = [session EXCEPT ![w] = new]
    BY <1>16 DEF SweepStart
  <2> HIDE DEF new
  <2>4. session' \in [Sessions -> Session] /\ PhaseInv'
    BY <1>0, <2>2, <2>3 DEF TypeOK, PhaseInv
  <2> QED BY <1>16, <1>0, <2>4 DEF SweepStart, TInv, ExecCertInv, TypeOK
<1>17. ASSUME NEW w \in Workers, NEW c \in Certs, ApiRenew(w, c) PROVE TInv'
  BY <1>17, <1>0, BeginStep, ConstantsAssumption DEF ApiRenew, RenewRead, TInv, ExecCertInv, TypeOK, Pcs
<1>18. ASSUME NEW w \in Workers, NEW c \in Certs, ApiRevoke(w, c) PROVE TInv'
  BY <1>18, <1>0, BeginStep, ConstantsAssumption DEF ApiRevoke, RevokeRead, TInv, ExecCertInv, TypeOK, Pcs
<1>19. ASSUME NEW w \in Workers, NEW c \in Certs, ApiDelete(w, c) PROVE TInv'
  BY <1>19, <1>0, BeginStep, ConstantsAssumption DEF ApiDelete, DeleteRead, TInv, ExecCertInv, TypeOK, Pcs
<1>20. ASSUME NEW w \in Workers, NEW e \in ExecIds, RetryRenew(w, e) PROVE TInv'
  <2>1. exec[e].cert \in Certs
    BY <1>20, <1>0 DEF RetryRenew, ExecCertInv
  <2> QED
    BY <1>20, <1>0, <2>1, BeginStep, ConstantsAssumption DEF RetryRenew, RenewRead, TInv, ExecCertInv, TypeOK, Pcs
<1>21. ASSUME NEW w \in Workers, NEW t \in Task, Deliver(w, t) PROVE TInv'
  <2>1. t.cert \in Certs /\ queue' \subseteq Task /\ 0 \in 0..MaxExec
    BY <1>21, <1>0, ConstantsAssumption DEF Deliver, TypeOK, Task
  <2>2. CASE IssueBegin(w, t.cert, t)
    <3>1. nexec + 1 \in 0..MaxExec
      BY <2>2, <1>0, ConstantsAssumption DEF IssueBegin, TypeOK
    <3>2. session' \in [Sessions -> Session] /\ PhaseInv'
      BY <2>1, <2>2, <3>1, BeginStep DEF IssueBegin, Pcs
    <3>3. exec' \in [ExecIds -> Execution] /\ ExecCertInv'
      BY <2>1, <2>2, ExecNewStep DEF IssueBegin
    <3> QED BY <1>0, <2>1, <2>2, <3>1, <3>2, <3>3 DEF IssueBegin, TInv, ExecCertInv, TypeOK
  <2>3. CASE RenewRead(w, t.cert, t)
    BY <1>0, <2>1, <2>3, BeginStep DEF RenewRead, TInv, ExecCertInv, TypeOK, Pcs
  <2>4. CASE RevokeRead(w, t.cert, t)
    BY <1>0, <2>1, <2>4, BeginStep DEF RevokeRead, TInv, ExecCertInv, TypeOK, Pcs
  <2>5. CASE DeleteRead(w, t.cert, t)
    BY <1>0, <2>1, <2>5, BeginStep DEF DeleteRead, TInv, ExecCertInv, TypeOK, Pcs
  <2> QED BY <1>21, <2>2, <2>3, <2>4, <2>5 DEF Deliver
<1>22. ASSUME NEW w \in Workers, NEW t \in Task, TaskRaises(w, t) PROVE TInv'
  BY <1>22, <1>0 DEF TaskRaises, TInv, ExecCertInv, TypeOK, PhaseInv
<1>23. ASSUME NEW w \in Workers, NEW src \in Certs, NEW c \in Certs,
              CloneCertificate(w, src, c)
      PROVE TInv'
  <2>1. NewRow(row[src].auto) \in Row
    BY <1>0, IdleSessionType DEF NewRow, Row, CertificateStatus, TypeOK
  <2>2. nexec + 1 \in 0..MaxExec
    BY <1>23, <1>0, ConstantsAssumption DEF CloneCertificate, TypeOK
  <2> DEFINE new == [IdleSession EXCEPT !.pc = "issue_call", !.cert = c,
                       !.exec = nexec + 1, !.view[c] = NewRow(row[src].auto)]
  <2>3. new \in Session /\ new.cert = c
    BY <2>1, <2>2, IdleSessionType DEF Session, Pcs, IdleSession
  <2>4. session' = [session EXCEPT ![w] = new]
    BY <1>23 DEF CloneCertificate
  <2> HIDE DEF new
  <2>5. session' \in [Sessions -> Session] /\ PhaseInv'
    BY <1>0, <2>3, <2>4 DEF TypeOK, PhaseInv
  <2>6. exec' \in [ExecIds -> Execution] /\ ExecCertInv'
    BY <1>23, ExecNewStep DEF CloneCertificate
  <2> QED BY <1>23, <1>0, <2>1, <2>2, <2>5, <2>6 DEF CloneCertificate, TInv, ExecCertInv, TypeOK
<1>24. ASSUME NEW r \in Readers, ResetWrite(r) PROVE TInv'
  <2> DEFINE c == session[r].cert
             seen == session[r].view[c]
             reset == [seen EXCEPT !.renewal = "failed", !.status = StatusAfterFailure(seen.fp)]
  <2>1. c \in Certs
    BY <1>24, <1>0 DEF ResetWrite, PhaseInv
  <2>2. seen \in Row /\ row[c] \in Row
    BY <1>0, <2>1, ViewType DEF TypeOK
  <2>3. reset \in Row
    BY <2>2 DEF Row, CertificateStatus, RenewalStatus, StatusAfterFailure
  <2>4. Flush(row[c], seen, reset) \in Row
    BY <2>2, <2>3, FlushType
  <2>5. CASE StaleData(r)
    BY <1>24, <1>0, <2>5, IdleStep DEF ResetWrite, StaleData, TInv, ExecCertInv, TypeOK
  <2>6. CASE ~StaleData(r)
    <3>1. /\ row' = [row EXCEPT ![c] = Flush(row[c], seen, reset)]
          /\ exec' = IF session[r].exec = 0 THEN exec
                     ELSE [exec EXCEPT ![session[r].exec].status = "failed"]
          /\ session' = Done(r)
      BY <1>24, <2>6 DEF ResetWrite
    <3>2. row' \in [Certs -> Row]
      BY <1>0, <2>4, <3>1 DEF TypeOK
    <3>3. exec' \in [ExecIds -> Execution] /\ ExecCertInv'
      BY <1>0, <3>1, ExecStatusStep DEF TypeOK, JobStatus, ExecCertInv
    <3> QED BY <1>24, <1>0, <3>1, <3>2, <3>3, DoneStep DEF ResetWrite, TInv, ExecCertInv, TypeOK
  <2> QED BY <2>5, <2>6
<1>25. ASSUME NEW r \in Readers, NEW c \in Certs, CancelRenewal(r, c) PROVE TInv'
  <2>1. LatestRunning(c) \in 0..MaxExec
    BY LatestType, ConstantsAssumption DEF RunningRenewals, ExecIds
  <2> QED
    BY <1>25, <1>0, <2>1, BeginStep DEF CancelRenewal, ResetRead, TInv, ExecCertInv, TypeOK, Pcs
<1>26. ASSUME NEW r \in Readers, NEW c \in Certs, MarkStaleRenewal(r, c) PROVE TInv'
  <2>1. LatestRunning(c) \in 0..MaxExec
    BY LatestType, ConstantsAssumption DEF RunningRenewals, ExecIds
  <2> QED
    BY <1>26, <1>0, <2>1, BeginStep DEF MarkStaleRenewal, ResetRead, TInv, ExecCertInv, TypeOK, Pcs
<1>27. ASSUME NEW c \in Certs, NEW auto \in BOOLEAN, IssueCertificate(c, auto) PROVE TInv'
  <2>1. NewRow(auto) \in Row
    BY IdleSessionType DEF NewRow, Row, CertificateStatus
  <2> QED BY <1>27, <1>0, <2>1 DEF IssueCertificate, TInv, ExecCertInv, TypeOK, PhaseInv, Task, Ops
<1>28. ASSUME NEW c \in Certs, NEW auto \in BOOLEAN, ImportCertificate(c, auto) PROVE TInv'
  <2>1. Ingested(NilRow) \in Row /\ nfp' \in 0..MaxFp /\ files' \subseteq FpIds
    BY <1>28, <1>0, IngestType, IdleSessionType DEF ImportCertificate
  <2>2. [Ingested(NilRow) EXCEPT !.status = "active", !.auto = auto] \in Row
    BY <2>1 DEF Row, CertificateStatus
  <2> QED BY <1>28, <1>0, <2>1, <2>2 DEF ImportCertificate, TInv, ExecCertInv, TypeOK, PhaseInv
<1>29. ASSUME NEW c \in Certs, UpdateCertificate(c) PROVE TInv'
  BY <1>29, <1>0 DEF UpdateCertificate, TInv, ExecCertInv, TypeOK, PhaseInv, Row
<1>30. ASSUME NEW t \in Task, BulkAction(t) PROVE TInv'
  BY <1>30, <1>0 DEF BulkAction, TInv, ExecCertInv, TypeOK, PhaseInv
<1>31. ASSUME NEW e \in ExecIds, RetryIssue(e) PROVE TInv'
  <2>1. exec[e].cert \in Certs
    BY <1>31, <1>0 DEF RetryIssue, ExecCertInv
  <2>2. exec' \in [ExecIds -> Execution] /\ ExecCertInv'
    BY <1>31, ExecStatusStep DEF RetryIssue, JobStatus
  <2>3. queue' \subseteq Task
    BY <1>31, <1>0, <2>1 DEF RetryIssue, TypeOK, Task, Ops
  <2> QED BY <1>31, <1>0, <2>2, <2>3 DEF RetryIssue, TInv, TypeOK, PhaseInv
<1>32. ASSUME NEW e \in ExecIds, HourPasses(e) PROVE TInv'
  BY <1>32, <1>0 DEF HourPasses, TInv, ExecCertInv, TypeOK, PhaseInv, Execution
<1>33. ASSUME NEW g \in FpIds, CertificateAges(g) PROVE TInv'
  BY <1>33, <1>0 DEF CertificateAges, TInv, ExecCertInv, TypeOK, PhaseInv
<1>34. CASE SetMaintenance
  BY <1>34, <1>0 DEF SetMaintenance, TInv, ExecCertInv, TypeOK, PhaseInv
<1>36. ASSUME NEW w \in Workers, RenewIngestFails(w) PROVE TInv'
  <2> DEFINE c == session[w].cert
             dirty == [session[w].view[c] EXCEPT !.path = nfp + 1]
             new == [session[w] EXCEPT !.pc = "renew_leak", !.exec = 0, !.view[c] = dirty]
  <2>1. c \in Certs /\ session[w] \in Session
    BY <1>36, <1>0 DEF RenewIngestFails, PhaseInv, TypeOK
  <2>2. nfp' \in 0..MaxFp /\ files' \subseteq FpIds /\ nfp + 1 \in 0..MaxFp
    BY <1>36, <1>0, ConstantsAssumption DEF RenewIngestFails, IngestFiles, TypeOK, FpIds
  <2>3. session[w].view[c] \in Row
    BY <1>0, <2>1, ViewType
  <2>4. dirty \in Row
    BY <2>2, <2>3 DEF Row
  <2> HIDE DEF dirty
  <2>5. new \in Session /\ new.cert = c
    <3>1. 0 \in 0..MaxExec /\ "renew_leak" \in Pcs
      BY ConstantsAssumption DEF Pcs
    <3>2. [session[w].view EXCEPT ![c] = dirty] \in [Certs -> Row]
      BY <2>1, <2>4 DEF Session
    <3> QED BY <2>1, <3>1, <3>2 DEF Session
  <2>6. session' = [session EXCEPT ![w] = new]
    BY <1>36, <1>0 DEF RenewIngestFails, TypeOK, dirty
  <2> HIDE DEF new
  <2>7. session' \in [Sessions -> Session] /\ PhaseInv'
    BY <1>0, <2>1, <2>5, <2>6 DEF TypeOK, PhaseInv
  <2> QED BY <1>36, <1>0, <2>2, <2>7 DEF RenewIngestFails, TInv, ExecCertInv, TypeOK
<1>37. ASSUME NEW w \in Workers, LeakCommit(w) PROVE TInv'
  <2> DEFINE c == session[w].cert
  <2>1. c \in Certs
    BY <1>37, <1>0 DEF LeakCommit, PhaseInv
  <2>2. session[w].view[c] \in Row /\ row[c] \in Row
    BY <1>0, <2>1, ViewType DEF TypeOK
  <2>3. [row[c] EXCEPT !.path = session[w].view[c].path] \in Row
    BY <2>2 DEF Row
  <2>4. CASE StaleData(w)
    BY <1>37, <1>0, <2>4, IdleStep DEF LeakCommit, StaleData, TInv, ExecCertInv, TypeOK
  <2>5. CASE ~StaleData(w)
    <3>1. /\ row' = [row EXCEPT ![c] = [row[c] EXCEPT !.path = session[w].view[c].path]]
          /\ session' = Done(w) /\ UNCHANGED exec
      BY <1>37, <1>0, <2>5 DEF LeakCommit, TypeOK
    <3> QED BY <1>37, <1>0, <2>3, <3>1, DoneStep DEF LeakCommit, TInv, ExecCertInv, TypeOK
  <2> QED BY <2>4, <2>5
<1>38. CASE ImportRejected
  <2>1. nfp' \in 0..MaxFp /\ files' \subseteq FpIds
    BY <1>38, <1>0, IngestType, IdleSessionType DEF ImportRejected
  <2> QED BY <1>38, <1>0, <2>1 DEF ImportRejected, TInv, ExecCertInv, TypeOK, PhaseInv
<1>35. CASE UNCHANGED vars
  BY <1>35, <1>0 DEF vars, TInv, ExecCertInv, TypeOK, PhaseInv
<1> QED
  BY <1>1, <1>2, <1>3, <1>4, <1>5, <1>6, <1>7, <1>8, <1>9, <1>10, <1>11, <1>12, <1>13, <1>14, <1>15, <1>16, <1>17, <1>18, <1>19, <1>20, <1>21, <1>22, <1>23, <1>24, <1>25, <1>26, <1>27, <1>28, <1>29, <1>30, <1>31, <1>32, <1>33, <1>34, <1>35, <1>36, <1>37, <1>38
     DEF Next, Worker, Provider, Internal, Reader

\* The initial state is typed.
LEMMA InitTyped == Init => TInv
<1> SUFFICES ASSUME Init PROVE TInv
  OBVIOUS
<1>1. NoExec \in Execution /\ NoExec.type = "none"
  BY DEF NoExec, Execution, JobStatus
<1>2. 0 \in 0..MaxFp /\ 0 \in 0..MaxExec
  BY ConstantsAssumption
<1>3. TypeOK
  BY <1>1, <1>2, IdleSessionType DEF Init, TypeOK
<1>4. PhaseInv
  BY DEF Init, PhaseInv, IdleSession
<1>5. ExecCertInv
  BY <1>1 DEF Init, ExecCertInv
<1> QED BY <1>3, <1>4, <1>5 DEF TInv

\* Every variable keeps its type in every behaviour of the lifecycle.
THEOREM TypeCorrect == Spec => []TypeOK
<1>1. TInv => TypeOK
  BY DEF TInv
<1> QED
  BY <1>1, InitTyped, TypeStep, PTL DEF Spec

----------------------------------------------------------------------------
\* The other sessions are not disturbed: the executions they hold keep their
\* type and certificate, or vanish with a deleted certificate.
LEMMA SessionFrame ==
  ASSUME TInv, TInv', SessionInv, nexec <= nexec',
         \A e \in ExecIds: e <= nexec =>
            \/ exec'[e].type = "none"
            \/ exec'[e].type = exec[e].type /\ exec'[e].cert = exec[e].cert,
         NEW s \in Sessions, session'[s] = session[s]
  PROVE  SessionOK(s)'
<1>1. session[s] \in Session /\ SessionOK(s)
  BY DEF TInv, TypeOK, SessionInv
<1>2. nexec \in 0..MaxExec /\ nexec' \in 0..MaxExec
  BY DEF TInv, TypeOK
<1> DEFINE e == session[s].exec
<1>3. e \in 0..MaxExec /\ e <= nexec
  BY <1>1 DEF Session, SessionOK
<1>4. e # 0 => e \in ExecIds
  BY <1>3, ConstantsAssumption DEF ExecIds
<1>5. e # 0 => \/ exec'[e].type = "none"
               \/ exec'[e].type = exec[e].type /\ exec'[e].cert = exec[e].cert
  BY <1>3, <1>4
<1>6. e <= nexec'
  BY <1>2, <1>3
<1> QED
  BY <1>1, <1>5, <1>6 DEF SessionOK

\* A step that leaves the executions alone and starts no renewal
LEMMA QuietStep ==
  ASSUME IInv, TInv', UNCHANGED <<exec, nexec>>,
         \A q \in Sessions: session'[q] = session[q] \/ SessionOK(q)',
         \A c \in Certs: row'[c].renewal = "in_progress" => row[c].renewal = "in_progress"
  PROVE  IInv'
<1>1. ASSUME NEW q \in Sessions PROVE SessionOK(q)'
  <2>1. CASE SessionOK(q)'
    BY <2>1
  <2>2. CASE session'[q] = session[q]
    BY <2>2, SessionFrame DEF IInv, TInv, TypeOK
  <2> QED BY <2>1, <2>2
<1>2. SessionInv'
  BY <1>1 DEF SessionInv, Sessions
<1>3. ExecInv'
  BY DEF IInv, ExecInv
<1>4. InProgressHasExecution'
  BY DEF IInv, InProgressHasExecution, RunningRenewals
<1> QED
  BY <1>2, <1>3, <1>4 DEF IInv

\* A step that closes (or requeues) one execution: no certificate still in
\* progress may lose its execution to it.
LEMMA CloseStep ==
  ASSUME IInv, TInv', NEW e \in ExecIds, NEW st \in JobStatus, e <= nexec,
         exec' = [exec EXCEPT ![e].status = st], nexec' = nexec,
         \A q \in Sessions: session'[q] = session[q] \/ SessionOK(q)',
         \A c \in Certs: row'[c].renewal = "in_progress" =>
            row[c].renewal = "in_progress" /\ (exec[e].type # "renew" \/ exec[e].cert # c)
  PROVE  IInv'
<1>0. exec \in [ExecIds -> Execution] /\ nexec \in 0..MaxExec
  BY DEF IInv, TInv, TypeOK
<1>1. \A f \in ExecIds: /\ exec'[f].type = exec[f].type
                        /\ exec'[f].cert = exec[f].cert
                        /\ f # e => exec'[f] = exec[f]
  BY <1>0 DEF Execution
<1>2. ASSUME NEW q \in Sessions PROVE SessionOK(q)'
  <2>1. CASE SessionOK(q)'
    BY <2>1
  <2>2. CASE session'[q] = session[q]
    BY <1>0, <1>1, <2>2, SessionFrame DEF IInv
  <2> QED BY <2>1, <2>2
<1>3. SessionInv'
  BY <1>2 DEF SessionInv, Sessions
<1>4. ExecInv'
  <2> SUFFICES ASSUME NEW f \in ExecIds, f > nexec PROVE exec'[f] = NoExec
    BY DEF ExecInv, ExecIds
  <2>1. f # e
    BY <1>0, ConstantsAssumption DEF ExecIds
  <2> QED BY <1>1, <2>1 DEF IInv, ExecInv
<1>5. InProgressHasExecution'
  <2> SUFFICES ASSUME NEW c \in Certs, row'[c].renewal = "in_progress"
               PROVE  RunningRenewals(c)' # {}
    BY DEF InProgressHasExecution
  <2>1. PICK f \in ExecIds: exec[f].type = "renew" /\ exec[f].cert = c /\ exec[f].status = "running"
    BY DEF IInv, InProgressHasExecution, RunningRenewals
  <2>2. f # e
    BY <2>1
  <2> QED BY <1>1, <2>1, <2>2 DEF RunningRenewals, ExecIds
<1> QED
  BY <1>3, <1>4, <1>5 DEF IInv

\* A step that records the next execution: a certificate may enter in_progress
\* only together with its own renew execution.
LEMMA OpenStep ==
  ASSUME IInv, TInv', NEW type \in {"issue", "renew"}, NEW d \in Certs, nexec < MaxExec,
         exec' = [exec EXCEPT ![nexec + 1] = NewExec(type, d)], nexec' = nexec + 1,
         \A q \in Sessions: session'[q] = session[q] \/ SessionOK(q)',
         \A c \in Certs: row'[c].renewal = "in_progress" =>
            row[c].renewal = "in_progress" \/ (type = "renew" /\ c = d)
  PROVE  IInv'
<1>0. exec \in [ExecIds -> Execution] /\ nexec \in 0..MaxExec /\ nexec + 1 \in ExecIds
  BY ConstantsAssumption DEF IInv, TInv, TypeOK, ExecIds
<1>1. /\ exec'[nexec + 1] = NewExec(type, d)
      /\ \A f \in ExecIds: f # nexec + 1 => exec'[f] = exec[f]
  BY <1>0
<1>2. exec[nexec + 1] = NoExec
  BY <1>0 DEF IInv, ExecInv
<1>3. ASSUME NEW q \in Sessions PROVE SessionOK(q)'
  <2>1. CASE SessionOK(q)'
    BY <2>1
  <2>2. CASE session'[q] = session[q]
    <3>1. \A e \in ExecIds: e <= nexec => exec'[e] = exec[e]
      BY <1>0, <1>1
    <3>2. nexec <= nexec'
      BY <1>0
    <3> QED BY <2>2, <3>1, <3>2, SessionFrame DEF IInv
  <2> QED BY <2>1, <2>2
<1>4. SessionInv'
  BY <1>3 DEF SessionInv, Sessions
<1>5. ExecInv'
  <2> SUFFICES ASSUME NEW f \in ExecIds, f > nexec + 1 PROVE exec'[f] = NoExec
    BY DEF ExecInv, ExecIds
  <2>1. f # nexec + 1 /\ f > nexec
    BY <1>0, ConstantsAssumption DEF ExecIds
  <2> QED BY <1>1, <2>1 DEF IInv, ExecInv
<1>6. InProgressHasExecution'
  <2> SUFFICES ASSUME NEW c \in Certs, row'[c].renewal = "in_progress"
               PROVE  \E f \in ExecIds: exec'[f].type = "renew" /\ exec'[f].cert = c
                                        /\ exec'[f].status = "running"
    BY DEF InProgressHasExecution, RunningRenewals, ExecIds
  <2>1. CASE row[c].renewal = "in_progress"
    <3>1. PICK f \in ExecIds: exec[f].type = "renew" /\ exec[f].cert = c /\ exec[f].status = "running"
      BY <2>1 DEF IInv, InProgressHasExecution, RunningRenewals
    <3>2. f # nexec + 1
      BY <1>2, <3>1 DEF NoExec
    <3> QED BY <1>1, <3>1, <3>2
  <2>2. CASE type = "renew" /\ c = d
    BY <1>0, <1>1, <2>2 DEF NewExec
  <2> QED BY <2>1, <2>2
<1> QED
  BY <1>4, <1>5, <1>6 DEF IInv

\* A session that ends, or that goes back to its sweep, holds no execution.
LEMMA DoneSession ==
  ASSUME TInv, TInv', NEW s \in Sessions,
         session' = Done(s) \/ session' = [session EXCEPT ![s] = IdleSession]
  PROVE  \A q \in Sessions: session'[q] = session[q] \/ SessionOK(q)'
<1>1. session \in [Sessions -> Session] /\ session[s] \in Session
  BY DEF TInv, TypeOK
<1>2. nexec' >= 0
  BY ConstantsAssumption DEF TInv, TypeOK
<1>3. session'[s].exec = 0 /\ session'[s].pc \in {"idle", "sweep"}
  <2>1. CASE session'[s] = IdleSession
    BY <2>1 DEF IdleSession
  <2>2. CASE session'[s] = [session[s] EXCEPT !.pc = "sweep", !.cert = NoCert, !.exec = 0,
                                   !.view[session[s].cert] = NilRow]
    BY <1>1, <2>2 DEF Session
  <2> QED BY <1>1, <2>1, <2>2 DEF Done
<1>4. SessionOK(s)'
  BY <1>2, <1>3 DEF SessionOK
<1> QED
  BY <1>1, <1>4 DEF Done

\* A session that begins an operation without an execution
LEMMA BeginSession ==
  ASSUME TInv, TInv', NEW s \in Sessions, NEW c \in Certs, NEW t,
         NEW pc \in {"renew_begin", "revoke_call", "delete_unlink"},
         session' = Begin(s, pc, c, 0, t)
  PROVE  \A q \in Sessions: session'[q] = session[q] \/ SessionOK(q)'
<1>1. session \in [Sessions -> Session]
  BY DEF TInv, TypeOK
<1>2. nexec' >= 0
  BY ConstantsAssumption DEF TInv, TypeOK
<1>3. session'[s].exec = 0 /\ session'[s].pc = pc
  BY <1>1 DEF Begin, IdleSession
<1>4. SessionOK(s)'
  BY <1>2, <1>3 DEF SessionOK
<1> QED
  BY <1>1, <1>4 DEF Begin

\* A commit by column that does not write in_progress does not start a renewal,
\* and one by a session that read in_progress ends it.
LEMMA FlushRenewal ==
  ASSUME NEW r, NEW seen, NEW new, new.renewal # "in_progress"
  PROVE  /\ Flush(r, seen, new).renewal = "in_progress" => r.renewal = "in_progress"
         /\ seen.renewal = "in_progress" => Flush(r, seen, new).renewal # "in_progress"
  BY DEF Flush

\* The commit at the end of an issuance or a renewal closes its own execution,
\* and a renewal's commit also ends the in_progress of its certificate.
LEMMA CommitCloses ==
  ASSUME IInv, TInv', NEW s \in Sessions, NEW new \in Row, NEW outcome \in JobStatus,
         CommitOutcome(s, new, outcome), nexec' = nexec,
         session[s].pc \in {"issue_call", "renew_call"}, new.renewal # "in_progress"
  PROVE  IInv'
<1> DEFINE c == session[s].cert
           e == session[s].exec
           seen == session[s].view[c]
<1>0. TInv /\ SessionOK(s) /\ session[s] \in Session /\ c \in Certs
  BY DEF IInv, TInv, TypeOK, SessionInv, PhaseInv
<1>1. e \in ExecIds /\ e <= nexec
  BY <1>0, ConstantsAssumption DEF SessionOK, Session, ExecIds
<1>2. CASE StaleData(s)
  <2>1. UNCHANGED <<row, exec, nexec>> /\ session' = [session EXCEPT ![s] = IdleSession]
    BY <1>2 DEF StaleData
  <2> QED BY <1>0, <2>1, DoneSession, QuietStep
<1>3. CASE ~StaleData(s)
  <2>1. /\ row' = [row EXCEPT ![c] = Flush(row[c], seen, new)]
        /\ exec' = [exec EXCEPT ![e].status = outcome]
        /\ session' = Done(s)
    BY <1>3 DEF CommitOutcome
  <2>2. \A q \in Sessions: session'[q] = session[q] \/ SessionOK(q)'
    BY <1>0, <2>1, DoneSession
  <2>3. ASSUME NEW d \in Certs, row'[d].renewal = "in_progress"
        PROVE  row[d].renewal = "in_progress" /\ (exec[e].type # "renew" \/ exec[e].cert # d)
    <3>1. row \in [Certs -> Row]
      BY DEF IInv, TInv, TypeOK
    <3>2. CASE d # c
      BY <1>0, <2>1, <2>3, <3>1, <3>2 DEF SessionOK
    <3>3. CASE d = c
      <4>1. row'[c] = Flush(row[c], seen, new)
        BY <1>0, <2>1, <3>1
      <4>2. row[c].renewal = "in_progress" /\ seen.renewal # "in_progress"
        BY <2>3, <3>3, <4>1, FlushRenewal
      <4>3. exec[e].type # "renew"
        BY <1>0, <4>2 DEF SessionOK
      <4> QED BY <3>3, <4>2, <4>3
    <3> QED BY <3>2, <3>3
  <2> QED BY <1>1, <2>1, <2>2, <2>3, CloseStep
<1> QED BY <1>2, <1>3

----------------------------------------------------------------------------
\* The inductive step: one case per action.
LEMMA InProgressStep == IInv /\ [Next]_vars => IInv'
<1> SUFFICES ASSUME IInv, [Next]_vars PROVE IInv'
  OBVIOUS
<1> USE DEF Sessions
<1>0. TInv /\ TInv' /\ SessionInv /\ ExecInv /\ InProgressHasExecution
  BY TypeStep DEF IInv
<1>1. row \in [Certs -> Row] /\ session \in [Sessions -> Session]
  BY <1>0 DEF TInv, TypeOK
<1>2. ASSUME NEW w \in Workers,
             IssueSucceed(w) \/ IssueFail(w) \/ RenewSucceed(w) \/ RenewSkip(w) \/ RenewFail(w)
      PROVE  IInv'
  <2> DEFINE seen == session[w].view[session[w].cert]
  <2>1. session[w].pc \in {"issue_call", "renew_call"} /\ nexec' = nexec
    BY <1>2 DEF IssueSucceed, IssueFail, RenewSucceed, RenewSkip, RenewFail
  <2>2. session[w].cert \in Certs
    BY <1>0, <2>1 DEF TInv, PhaseInv
  <2>3. seen \in Row
    BY <1>0, <2>2, ViewType DEF TInv
  <2>4. \E new \in Row, outcome \in JobStatus:
           CommitOutcome(w, new, outcome) /\ new.renewal # "in_progress"
    <3>1. CASE IssueSucceed(w) \/ RenewSucceed(w)
      <4>1. Ingested(seen) \in Row
        BY <1>0, <2>3, <3>1, IngestType DEF TInv, IssueSucceed, RenewSucceed
      <4>2. CASE IssueSucceed(w)
        <5> DEFINE new == [Ingested(seen) EXCEPT !.status = "active", !.renewal = "none"]
        <5>1. new \in Row /\ new.renewal # "in_progress"
          BY <4>1 DEF Row, CertificateStatus, RenewalStatus
        <5>2. CommitOutcome(w, new, "success")
          BY <4>2 DEF IssueSucceed
        <5> QED BY <5>1, <5>2 DEF JobStatus
      <4>3. CASE RenewSucceed(w)
        <5> DEFINE new == [Ingested(seen) EXCEPT !.status = "active", !.renewal = "success"]
        <5>1. new \in Row /\ new.renewal # "in_progress"
          BY <4>1 DEF Row, CertificateStatus, RenewalStatus
        <5>2. CommitOutcome(w, new, "success")
          BY <4>3 DEF RenewSucceed
        <5> QED BY <5>1, <5>2 DEF JobStatus
      <4> QED BY <3>1, <4>2, <4>3
    <3>2. CASE IssueFail(w)
      <4> DEFINE new == [seen EXCEPT !.status = "failed", !.renewal = "failed"]
      <4>1. new \in Row /\ new.renewal # "in_progress"
        BY <2>3 DEF Row, CertificateStatus, RenewalStatus
      <4>2. CommitOutcome(w, new, "failed")
        BY <3>2 DEF IssueFail
      <4> QED BY <4>1, <4>2 DEF JobStatus
    <3>3. CASE RenewSkip(w)
      <4> DEFINE new == [seen EXCEPT !.status = "active", !.renewal = "skipped"]
      <4>1. new \in Row /\ new.renewal # "in_progress"
        BY <2>3 DEF Row, CertificateStatus, RenewalStatus
      <4>2. CommitOutcome(w, new, "success")
        BY <3>3 DEF RenewSkip
      <4> QED BY <4>1, <4>2 DEF JobStatus
    <3>4. CASE RenewFail(w)
      <4> DEFINE new == [seen EXCEPT !.status = StatusAfterFailure(seen.fp), !.renewal = "failed"]
      <4>1. new \in Row /\ new.renewal # "in_progress"
        BY <2>3 DEF Row, CertificateStatus, RenewalStatus, StatusAfterFailure
      <4>2. CommitOutcome(w, new, "failed")
        BY <3>4 DEF RenewFail
      <4> QED BY <4>1, <4>2 DEF JobStatus
    <3> QED BY <1>2, <3>1, <3>2, <3>3, <3>4
  <2> QED BY <1>0, <2>1, <2>4, CommitCloses
<1>3. ASSUME NEW w \in Workers, RenewAbort(w) \/ RevokeFail(w) \/ IssueAbort(w) \/ Crash(w)
      PROVE  IInv'
  <2>1. /\ UNCHANGED <<row, exec, nexec>>
        /\ session' = Done(w) \/ session' = [session EXCEPT ![w] = IdleSession]
    BY <1>3 DEF RenewAbort, RevokeFail, IssueAbort, Crash
  <2>2. \A q \in Sessions: session'[q] = session[q] \/ SessionOK(q)'
    BY <1>0, <2>1, DoneSession
  <2> QED BY <1>0, <2>1, <2>2, QuietStep
<1>4. ASSUME NEW w \in Workers, (\E b \in BOOLEAN: RevokeAccepted(w, b)) \/ DeleteUnlink(w)
      PROVE  IInv'
  <2>1. PICK pc \in {"revoke_clean", "revoke_keep", "delete_commit"}:
           session' = Become(w, pc) /\ UNCHANGED <<row, exec, nexec>>
    BY <1>4 DEF RevokeAccepted, DeleteUnlink
  <2>2. session'[w].exec = session[w].exec /\ session'[w].pc = pc
    BY <1>1, <2>1 DEF Become, Session
  <2>3. SessionOK(w)'
    BY <1>0, <2>1, <2>2 DEF SessionInv, SessionOK
  <2>4. \A q \in Sessions: session'[q] = session[q] \/ SessionOK(q)'
    BY <1>1, <2>1, <2>3 DEF Become
  <2> QED BY <1>0, <2>1, <2>4, QuietStep
<1>22. ASSUME NEW w \in Workers, RenewIngestFails(w) PROVE IInv'
  <2>1. UNCHANGED <<row, exec, nexec>>
    BY <1>22 DEF RenewIngestFails
  <2>2. /\ session'[w].exec = 0 /\ session'[w].pc = "renew_leak"
        /\ \A q \in Sessions \ {w}: session'[q] = session[q]
    BY <1>1, <1>22 DEF RenewIngestFails, Session
  <2>3. SessionOK(w)'
    BY <1>0, <2>1, <2>2, ConstantsAssumption DEF SessionOK, TInv, TypeOK
  <2> QED BY <1>0, <2>1, <2>2, <2>3, QuietStep
<1>23. ASSUME NEW w \in Workers, LeakCommit(w) PROVE IInv'
  <2>1. session[w].cert \in Certs /\ UNCHANGED <<exec, nexec>>
    BY <1>0, <1>23 DEF LeakCommit, StaleData, TInv, PhaseInv
  <2>2. session' = Done(w) \/ session' = [session EXCEPT ![w] = IdleSession]
    BY <1>23 DEF LeakCommit, StaleData
  <2>3. \A q \in Sessions: session'[q] = session[q] \/ SessionOK(q)'
    BY <1>0, <2>2, DoneSession
  <2>4. \A d \in Certs: row'[d].renewal = "in_progress" => row[d].renewal = "in_progress"
    BY <1>1, <1>23 DEF LeakCommit, StaleData, Row
  <2> QED BY <1>0, <2>1, <2>3, <2>4, QuietStep
<1>5. ASSUME NEW w \in Workers, RenewBegin(w) PROVE IInv'
  <2> DEFINE c == session[w].cert
             seen == session[w].view[c]
             claimed == [seen EXCEPT !.renewal = "in_progress", !.status = "renewing"]
  <2>1. c \in Certs /\ session[w] \in Session
    BY <1>0, <1>1, <1>5 DEF RenewBegin, TInv, PhaseInv
  <2>2. CASE StaleData(w) /\ UNCHANGED nexec
    <3>1. UNCHANGED <<row, exec, nexec>> /\ session' = [session EXCEPT ![w] = IdleSession]
      BY <2>2 DEF StaleData
    <3>2. \A q \in Sessions: session'[q] = session[q] \/ SessionOK(q)'
      BY <1>0, <3>1, DoneSession
    <3> QED BY <1>0, <3>1, <3>2, QuietStep
  <2>3. CASE ~(StaleData(w) /\ UNCHANGED nexec)
    <3>1. /\ nexec < MaxExec
          /\ row' = [row EXCEPT ![c] = Flush(row[c], seen, claimed)]
          /\ exec' = [exec EXCEPT ![nexec + 1] = NewExec("renew", c)]
          /\ nexec' = nexec + 1
          /\ session' = [session EXCEPT ![w].pc = "renew_call", ![w].exec = nexec + 1,
                                        ![w].view[c] = claimed]
      BY <1>5, <2>3 DEF RenewBegin
    <3>2. nexec + 1 \in ExecIds /\ nexec + 1 # 0
      BY <1>0, <3>1, ConstantsAssumption DEF TInv, TypeOK, ExecIds
    <3>3. exec'[nexec + 1] = NewExec("renew", c)
      BY <1>0, <3>1, <3>2 DEF TInv, TypeOK
    <3>4. /\ session'[w].exec = nexec + 1
          /\ session'[w].pc = "renew_call"
          /\ session'[w].cert = c
          /\ session'[w].view = [d \in Certs |->
                IF d = c THEN claimed ELSE session[w].view[d]]
      BY <1>1, <2>1, <3>1 DEF Session
    <3>5. claimed.renewal = "in_progress"
      BY <1>0, <2>1, ViewType DEF TInv, Row
    <3>6. SessionOK(w)'
      <4>1. nexec' <= nexec'
        BY <1>0 DEF TInv, TypeOK
      <4>2. session'[w].view[c].renewal = "in_progress"
        BY <2>1, <3>4, <3>5
      <4> QED BY <3>1, <3>2, <3>3, <3>4, <4>1, <4>2 DEF SessionOK, NewExec
    <3>7. \A q \in Sessions: session'[q] = session[q] \/ SessionOK(q)'
      BY <1>1, <3>1, <3>6
    <3>8. \A d \in Certs: row'[d].renewal = "in_progress" =>
             row[d].renewal = "in_progress" \/ ("renew" = "renew" /\ d = c)
      BY <1>1, <3>1
    <3> QED BY <1>0, <2>1, <3>1, <3>7, <3>8, OpenStep
  <2> QED BY <2>2, <2>3
<1>6. ASSUME NEW w \in Workers, RevokeCommit(w) PROVE IInv'
  <2> DEFINE c == session[w].cert
             seen == session[w].view[c]
             revoked == [seen EXCEPT !.status = "revoked", !.auto = FALSE,
                           !.renewal = "disabled",
                           !.path = IF session[w].pc = "revoke_clean" THEN 0 ELSE @]
  <2>1. UNCHANGED <<exec, nexec>>
        /\ (session' = Done(w) \/ session' = [session EXCEPT ![w] = IdleSession])
    BY <1>6 DEF RevokeCommit, StaleData
  <2>2. \A q \in Sessions: session'[q] = session[q] \/ SessionOK(q)'
    BY <1>0, <2>1, DoneSession
  <2>3. c \in Certs
    BY <1>0, <1>6 DEF RevokeCommit, TInv, PhaseInv
  <2>4. revoked.renewal # "in_progress"
    BY <1>0, <2>3, ViewType DEF TInv, Row
  <2>5. row' = row \/ row' = [row EXCEPT ![c] = Flush(row[c], seen, revoked)]
    BY <1>6 DEF RevokeCommit, StaleData
  <2>6. Flush(row[c], seen, revoked).renewal = "in_progress" => row[c].renewal = "in_progress"
    <3> HIDE DEF seen, revoked
    <3> QED BY <2>4, FlushRenewal
  <2>7. \A d \in Certs: row'[d].renewal = "in_progress" => row[d].renewal = "in_progress"
    BY <1>1, <2>3, <2>5, <2>6
  <2> QED BY <1>0, <2>1, <2>2, <2>7, QuietStep
<1>7. ASSUME NEW w \in Workers, DeleteCommit(w) PROVE IInv'
  <2> DEFINE c == session[w].cert
  <2>1. /\ row' = [row EXCEPT ![c] = GoneRow]
        /\ exec' = [e \in ExecIds |-> IF exec[e].cert = c THEN NoExec ELSE exec[e]]
        /\ nexec' = nexec
        /\ session' = Done(w)
    BY <1>7 DEF DeleteCommit
  <2>2. \A q \in Sessions: session'[q] = session[q] \/ SessionOK(q)'
    BY <1>0, <2>1, DoneSession
  <2>3. \A e \in ExecIds: exec'[e] = NoExec \/ exec'[e] = exec[e]
    BY <2>1
  <2>4. nexec <= nexec'
    BY <1>0, <2>1 DEF TInv, TypeOK
  <2>5. SessionInv'
    BY <1>0, <2>2, <2>3, <2>4, SessionFrame DEF SessionInv, NoExec
  <2>6. ExecInv'
    BY <1>0, <2>1, <2>3 DEF ExecInv
  <2>7. InProgressHasExecution'
    <3> SUFFICES ASSUME NEW d \in Certs, row'[d].renewal = "in_progress"
                 PROVE  \E f \in ExecIds: exec'[f].type = "renew" /\ exec'[f].cert = d
                                          /\ exec'[f].status = "running"
      BY DEF InProgressHasExecution, RunningRenewals, ExecIds
    <3>1. d # c /\ row[d].renewal = "in_progress"
      BY <1>1, <2>1 DEF GoneRow, NilRow
    <3>2. PICK f \in ExecIds: exec[f].type = "renew" /\ exec[f].cert = d /\ exec[f].status = "running"
      BY <1>0, <3>1 DEF InProgressHasExecution, RunningRenewals
    <3> QED BY <2>1, <3>1, <3>2
  <2> QED BY <1>0, <2>5, <2>6, <2>7 DEF IInv
<1>8. ASSUME NEW w \in Workers, NEW c \in Certs, SweepNext(w, c) PROVE IInv'
  <2>1. UNCHANGED <<row, exec, nexec>>
    BY <1>8 DEF SweepNext
  <2>2. CASE session' = [session EXCEPT ![w] = IdleSession]
    BY <1>0, <2>1, <2>2, DoneSession, QuietStep
  <2>3. CASE session' # [session EXCEPT ![w] = IdleSession]
    <3>1. /\ session'[w].exec = session[w].exec
          /\ session'[w].pc \in {"renew_begin", "sweep"}
          /\ \A q \in Sessions \ {w}: session'[q] = session[q]
      <4>0. session[w] \in Session /\ session[w].pc = "sweep"
        BY <1>1, <1>8 DEF SweepNext
      <4>1. CASE session' = [session EXCEPT ![w].pc = "renew_begin", ![w].cert = c,
                                            ![w].todo = @ \ {c}]
        BY <1>1, <4>0, <4>1 DEF Session
      <4>2. CASE session' = [session EXCEPT ![w] =
                    IF session[w].todo = {c} THEN IdleSession
                    ELSE [@ EXCEPT !.todo = session[w].todo \ {c}, !.view[c] = NilRow]]
        BY <1>1, <2>3, <4>0, <4>2 DEF Session
      <4> QED BY <1>8, <4>1, <4>2 DEF SweepNext
    <3>2. SessionOK(w)'
      BY <1>0, <2>1, <3>1 DEF SessionInv, SessionOK
    <3> QED BY <1>0, <2>1, <3>1, <3>2, QuietStep
  <2> QED BY <2>2, <2>3
<1>9. ASSUME NEW w \in Workers, SweepStart(w) PROVE IInv'
  <2>1. UNCHANGED <<row, exec, nexec>>
    BY <1>9 DEF SweepStart
  <2>2. /\ session'[w].exec = 0 /\ session'[w].pc = "sweep"
        /\ \A q \in Sessions \ {w}: session'[q] = session[q]
    BY <1>1, <1>9 DEF SweepStart, IdleSession
  <2>3. SessionOK(w)'
    BY <1>0, <2>1, <2>2, ConstantsAssumption DEF SessionOK, TInv, TypeOK
  <2> QED BY <1>0, <2>1, <2>2, <2>3, QuietStep
<1>10. ASSUME NEW w \in Workers, NEW c \in Certs, NEW t,
              RenewRead(w, c, t) \/ RevokeRead(w, c, t) \/ DeleteRead(w, c, t)
       PROVE  IInv'
  <2>1. PICK pc \in {"renew_begin", "revoke_call", "delete_unlink"}:
           session' = Begin(w, pc, c, 0, t) /\ UNCHANGED <<row, exec, nexec>>
    BY <1>10 DEF RenewRead, RevokeRead, DeleteRead
  <2>2. \A q \in Sessions: session'[q] = session[q] \/ SessionOK(q)'
    BY <1>0, <2>1, BeginSession
  <2> QED BY <1>0, <2>1, <2>2, QuietStep
<1>11. ASSUME NEW w \in Workers, NEW e \in ExecIds, RetryRenew(w, e) PROVE IInv'
  <2>1. exec[e].cert \in Certs
    BY <1>0, <1>11 DEF RetryRenew, TInv, ExecCertInv
  <2> QED BY <1>10, <1>11, <2>1 DEF RetryRenew
<1>12. ASSUME NEW w \in Workers, NEW c \in Certs, nexec < MaxExec, nexec' = nexec + 1,
              exec' = [exec EXCEPT ![nexec + 1] = NewExec("issue", c)],
              NEW new, session' = [session EXCEPT ![w] = new],
              new.pc = "issue_call", new.exec = nexec + 1,
              \A d \in Certs: row'[d].renewal = "in_progress" => row[d].renewal = "in_progress"
       PROVE  IInv'
  <2>1. nexec + 1 \in ExecIds /\ nexec + 1 # 0 /\ nexec + 1 <= nexec'
    BY <1>0, <1>12, ConstantsAssumption DEF TInv, TypeOK, ExecIds
  <2>2. exec'[nexec + 1].type = "issue"
    BY <1>0, <1>12, <2>1 DEF TInv, TypeOK, NewExec
  <2>3. session'[w] = new
    BY <1>1, <1>12
  <2>4. SessionOK(w)'
    BY <1>12, <2>1, <2>2, <2>3 DEF SessionOK
  <2>5. \A q \in Sessions: session'[q] = session[q] \/ SessionOK(q)'
    BY <1>1, <1>12, <2>4
  <2> QED BY <1>0, <1>12, <2>5, OpenStep
<1>13. ASSUME NEW w \in Workers, NEW t \in Task, Deliver(w, t) PROVE IInv'
  <2>1. t.cert \in Certs
    BY DEF Task
  <2>2. CASE IssueBegin(w, t.cert, t)
    <3> DEFINE new == [IdleSession EXCEPT !.pc = "issue_call", !.cert = t.cert,
                         !.exec = nexec + 1, !.task = t, !.view[t.cert] = row[t.cert]]
    <3>1. new.pc = "issue_call" /\ new.exec = nexec + 1
      BY DEF IdleSession
    <3>2. session' = [session EXCEPT ![w] = new]
      BY <2>2 DEF IssueBegin, Begin
    <3> HIDE DEF new
    <3> QED BY <1>12, <2>1, <2>2, <3>1, <3>2 DEF IssueBegin
  <2> QED BY <1>10, <1>13, <2>1, <2>2 DEF Deliver
<1>14. ASSUME NEW w \in Workers, NEW src \in Certs, NEW c \in Certs,
              CloneCertificate(w, src, c)
       PROVE IInv'
  <2> DEFINE new == [IdleSession EXCEPT !.pc = "issue_call", !.cert = c,
                       !.exec = nexec + 1, !.view[c] = NewRow(row[src].auto)]
  <2>1. new.pc = "issue_call" /\ new.exec = nexec + 1
    BY DEF IdleSession
  <2>2. session' = [session EXCEPT ![w] = new]
    BY <1>14 DEF CloneCertificate
  <2>3. \A d \in Certs: row'[d].renewal = "in_progress" => row[d].renewal = "in_progress"
    BY <1>1, <1>14 DEF CloneCertificate, NewRow, NilRow
  <2> HIDE DEF new
  <2> QED BY <1>12, <1>14, <2>1, <2>2, <2>3 DEF CloneCertificate
<1>15. ASSUME NEW r \in Readers, ResetWrite(r) PROVE IInv'
  <2> DEFINE c == session[r].cert
             e == session[r].exec
             seen == session[r].view[c]
             reset == [seen EXCEPT !.renewal = "failed", !.status = StatusAfterFailure(seen.fp)]
  <2>1. c \in Certs /\ session[r] \in Session /\ SessionOK(r)
    BY <1>0, <1>1, <1>15 DEF ResetWrite, TInv, PhaseInv, SessionInv
  <2>2. session' = Done(r) \/ session' = [session EXCEPT ![r] = IdleSession]
    BY <1>15 DEF ResetWrite, StaleData
  <2>3. \A q \in Sessions: session'[q] = session[q] \/ SessionOK(q)'
    BY <1>0, <2>2, DoneSession
  <2>4. CASE StaleData(r)
    <3>1. UNCHANGED <<row, exec, nexec>>
      BY <1>15, <2>4 DEF ResetWrite, StaleData
    <3> QED BY <1>0, <2>3, <3>1, QuietStep
  <2>5. CASE ~StaleData(r)
    <3>1. /\ row' = [row EXCEPT ![c] = Flush(row[c], seen, reset)]
          /\ exec' = IF e = 0 THEN exec ELSE [exec EXCEPT ![e].status = "failed"]
          /\ nexec' = nexec
      BY <1>15, <2>5 DEF ResetWrite
    <3>2. seen.renewal = "in_progress" /\ (e # 0 /\ exec[e].type = "renew" => exec[e].cert = c)
      BY <1>15, <2>1 DEF ResetWrite, SessionOK
    <3>3. reset.renewal # "in_progress"
      BY <1>0, <2>1, ViewType DEF TInv, Row
    <3>4. row'[c].renewal # "in_progress"
      <4>1. Flush(row[c], seen, reset).renewal # "in_progress"
        <5> HIDE DEF seen, reset
        <5> QED BY <3>2, <3>3, FlushRenewal
      <4>2. row'[c] = Flush(row[c], seen, reset)
        BY <1>1, <2>1, <3>1
      <4> QED BY <4>1, <4>2
    <3>5. \A d \in Certs: row'[d].renewal = "in_progress" => d # c /\ row[d].renewal = "in_progress"
      BY <1>1, <3>1, <3>4
    <3>6. CASE e = 0
      BY <1>0, <2>3, <3>1, <3>5, <3>6, QuietStep
    <3>7. CASE e # 0
      <4>1. e \in ExecIds /\ e <= nexec
        BY <2>1, <3>7, ConstantsAssumption DEF SessionOK, Session, ExecIds
      <4> QED BY <1>0, <2>3, <3>1, <3>2, <3>5, <3>7, <4>1, CloseStep DEF JobStatus
    <3> QED BY <3>6, <3>7
  <2> QED BY <2>4, <2>5
<1>16. ASSUME NEW r \in Readers, NEW c \in Certs, CancelRenewal(r, c) \/ MarkStaleRenewal(r, c)
       PROVE IInv'
  <2> DEFINE e == LatestRunning(c)
  <2>1. /\ row[c].renewal = "in_progress"
        /\ session' = Begin(r, "reset", c, e, NoTask)
        /\ UNCHANGED <<row, exec, nexec>>
    BY <1>16 DEF CancelRenewal, MarkStaleRenewal, ResetRead
  <2>2. e \in RunningRenewals(c) \cup {0}
    BY LatestType
  <2>3. e # 0 => e \in ExecIds /\ exec[e].cert = c /\ e <= nexec
    <3> SUFFICES ASSUME e # 0 PROVE e \in ExecIds /\ exec[e].cert = c /\ e <= nexec
      OBVIOUS
    <3>1. e \in ExecIds /\ exec[e].cert = c /\ exec[e].type = "renew"
      BY <2>2 DEF RunningRenewals
    <3>2. ~(e > nexec)
      BY <1>0, <3>1 DEF ExecInv, NoExec
    <3> QED BY <1>0, <3>1, <3>2, ConstantsAssumption DEF TInv, TypeOK, ExecIds
  <2>4. e <= nexec
    BY <1>0, <2>3, ConstantsAssumption DEF TInv, TypeOK
  <2> HIDE DEF e
  <2>5. /\ session'[r].exec = e /\ session'[r].pc = "reset" /\ session'[r].cert = c
        /\ session'[r].view[c] = row[c]
        /\ \A q \in Sessions \ {r}: session'[q] = session[q]
    BY <1>1, <2>1 DEF Begin, IdleSession
  <2>6. SessionOK(r)'
    BY <2>1, <2>3, <2>4, <2>5 DEF SessionOK
  <2> QED BY <1>0, <2>1, <2>5, <2>6, QuietStep
<1>17. ASSUME NEW c \in Certs, NEW auto \in BOOLEAN,
              IssueCertificate(c, auto) \/ ImportCertificate(c, auto) \/ UpdateCertificate(c)
       PROVE  IInv'
  <2>1. UNCHANGED <<exec, nexec, session>>
    BY <1>17 DEF IssueCertificate, ImportCertificate, UpdateCertificate
  <2>2. \A d \in Certs: row'[d].renewal = "in_progress" => row[d].renewal = "in_progress"
    <3>1. CASE IssueCertificate(c, auto)
      BY <1>1, <3>1 DEF IssueCertificate, NewRow, NilRow
    <3>2. CASE ImportCertificate(c, auto)
      BY <1>1, <3>2 DEF ImportCertificate, Ingested, NilRow
    <3>3. CASE UpdateCertificate(c)
      BY <1>1, <3>3 DEF UpdateCertificate, Row
    <3> QED BY <1>17, <3>1, <3>2, <3>3
  <2> QED BY <1>0, <2>1, <2>2, QuietStep
<1>18. ASSUME NEW e \in ExecIds, RetryIssue(e) PROVE IInv'
  <2>1. e <= nexec
    <3>1. ~(e > nexec)
      BY <1>0, <1>18 DEF RetryIssue, ExecInv, NoExec
    <3> QED BY <1>0, <3>1, ConstantsAssumption DEF TInv, TypeOK, ExecIds
  <2> QED BY <1>0, <1>18, <2>1, CloseStep DEF RetryIssue, JobStatus
<1>19. ASSUME NEW e \in ExecIds, HourPasses(e) PROVE IInv'
  <2>1. /\ exec' = [exec EXCEPT ![e].old = TRUE]
        /\ UNCHANGED <<row, nexec, session>>
        /\ exec[e].type = "renew"
    BY <1>19 DEF HourPasses
  <2>2. \A f \in ExecIds: /\ exec'[f].type = exec[f].type
                          /\ exec'[f].cert = exec[f].cert
                          /\ exec'[f].status = exec[f].status
                          /\ f # e => exec'[f] = exec[f]
    BY <1>0, <2>1 DEF TInv, TypeOK, Execution
  <2>3. nexec <= nexec'
    BY <1>0, <2>1 DEF TInv, TypeOK
  <2>4. SessionInv'
    BY <1>0, <2>1, <2>2, <2>3, SessionFrame DEF SessionInv
  <2>5. ExecInv'
    <3>1. ~(e > nexec)
      BY <1>0, <2>1 DEF ExecInv, NoExec
    <3> QED BY <1>0, <2>1, <2>2, <3>1 DEF ExecInv
  <2>6. InProgressHasExecution'
    BY <1>0, <2>1, <2>2 DEF InProgressHasExecution, RunningRenewals
  <2> QED BY <1>0, <2>4, <2>5, <2>6 DEF IInv
<1>20. ASSUME UNCHANGED <<row, exec, nexec, session>> PROVE IInv'
  BY <1>0, <1>20, QuietStep
<1>21. ASSUME \/ \E w \in Workers, t \in Task: TaskRaises(w, t)
              \/ \E t \in Task: BulkAction(t)
              \/ \E g \in FpIds: CertificateAges(g)
              \/ ImportRejected
              \/ SetMaintenance
              \/ UNCHANGED vars
       PROVE  IInv'
  BY <1>20, <1>21 DEF TaskRaises, BulkAction, CertificateAges, ImportRejected, SetMaintenance,
     vars
<1> QED
  BY <1>2, <1>3, <1>4, <1>5, <1>6, <1>7, <1>8, <1>9, <1>10, <1>11, <1>13, <1>14, <1>15,
     <1>16, <1>17, <1>18, <1>19, <1>21, <1>22, <1>23
     DEF Next, Worker, Provider, Internal, Reader, ApiRenew, ApiRevoke, ApiDelete

\* The invariant holds before anything has happened.
LEMMA InitInv == Init => IInv
<1> SUFFICES ASSUME Init PROVE IInv
  OBVIOUS
<1>1. TInv
  BY InitTyped
<1>2. SessionInv
  BY DEF Init, SessionInv, SessionOK, IdleSession
<1>3. ExecInv
  BY DEF Init, ExecInv
<1>4. InProgressHasExecution
  BY DEF Init, InProgressHasExecution, NilRow
<1> QED BY <1>1, <1>2, <1>3, <1>4 DEF IInv

\* In every behaviour, a certificate whose renewal_status is in_progress has a
\* RUNNING renew execution: the 60 minute check always has a start to measure from.
THEOREM InProgressAlwaysHasExecution == Spec => []InProgressHasExecution
<1>1. IInv => InProgressHasExecution
  BY DEF IInv
<1> QED
  BY <1>1, InitInv, InProgressStep, PTL DEF Spec

----------------------------------------------------------------------------
\* Every write to the table is to a row that is not deleted, or is the delete.
LEMMA DeletedStep ==
  ASSUME TInv, [Next]_vars, NEW c \in Certs, row[c].status = "gone"
  PROVE  row'[c].status = "gone"
<1>0. row \in [Certs -> Row]
  BY DEF TInv, TypeOK
<1>1. ASSUME NEW d, NEW new, row[d].status # "gone" \/ new.status = "gone",
             row' = [row EXCEPT ![d] = new]
      PROVE  row'[c].status = "gone"
  BY <1>0, <1>1
<1>2. ASSUME NEW s \in Sessions, NEW new, NEW outcome, CommitOutcome(s, new, outcome)
      PROVE  row'[c].status = "gone"
  BY <1>1, <1>2 DEF CommitOutcome, StaleData
<1>3. ASSUME NEW w \in Workers, Provider(w)
      PROVE  row'[c].status = "gone"
  BY <1>2, <1>3 DEF Provider, IssueSucceed, IssueFail, IssueAbort, RenewSucceed, RenewSkip,
     RenewFail, RenewAbort, RenewIngestFails, RevokeFail, RevokeAccepted, Sessions
<1>4. ASSUME NEW w \in Workers, Internal(w)
      PROVE  row'[c].status = "gone"
  <2>1. CASE RenewBegin(w)
    BY <1>1, <2>1 DEF RenewBegin, StaleData
  <2>2. CASE RevokeCommit(w)
    BY <1>1, <2>2 DEF RevokeCommit, StaleData
  <2>3. CASE DeleteCommit(w)
    BY <1>1, <2>3 DEF DeleteCommit, GoneRow, NilRow
  <2>4. CASE DeleteUnlink(w) \/ \E d \in Certs: SweepNext(w, d)
    BY <2>4 DEF DeleteUnlink, SweepNext
  <2>5. CASE LeakCommit(w)
    <3>1. row' = row \/ (row[session[w].cert].status # "gone" /\
             row' = [row EXCEPT ![session[w].cert].path = session[w].view[session[w].cert].path])
      BY <2>5 DEF LeakCommit, StaleData
    <3> QED BY <1>0, <3>1
  <2> QED BY <1>4, <2>1, <2>2, <2>3, <2>4, <2>5 DEF Internal
<1>5. ASSUME NEW r \in Readers, Reader(r)
      PROVE  row'[c].status = "gone"
  BY <1>1, <1>5 DEF Reader, ResetWrite, StaleData, CancelRenewal, MarkStaleRenewal
<1>6. ASSUME NEW w \in Workers, NEW d \in Certs, NEW src \in Certs, CloneCertificate(w, src, d)
      PROVE  row'[c].status = "gone"
  BY <1>1, <1>6 DEF CloneCertificate
<1>7. ASSUME NEW d \in Certs, NEW auto \in BOOLEAN,
             IssueCertificate(d, auto) \/ ImportCertificate(d, auto)
      PROVE  row'[c].status = "gone"
  BY <1>1, <1>7 DEF IssueCertificate, ImportCertificate
<1>8. ASSUME NEW d \in Certs, UpdateCertificate(d)
      PROVE  row'[c].status = "gone"
  <2>1. d # c
    BY <1>8 DEF UpdateCertificate, Exists
  <2> QED BY <1>0, <1>8, <2>1 DEF UpdateCertificate
<1>9. ASSUME NEW w \in Workers,
             \/ Crash(w) \/ SweepStart(w)
             \/ \E t \in Task: Deliver(w, t) \/ TaskRaises(w, t)
             \/ \E d \in Certs: ApiRenew(w, d) \/ ApiRevoke(w, d) \/ ApiDelete(w, d)
             \/ \E e \in ExecIds: RetryRenew(w, e)
      PROVE  row'[c].status = "gone"
  BY <1>9 DEF Crash, SweepStart, Deliver, TaskRaises, ApiRenew, ApiRevoke, ApiDelete,
     RetryRenew, IssueBegin, RenewRead, RevokeRead, DeleteRead
<1>10. ASSUME \/ \E t \in Task: BulkAction(t)
              \/ \E e \in ExecIds: RetryIssue(e) \/ HourPasses(e)
              \/ \E g \in FpIds: CertificateAges(g)
              \/ ImportRejected
              \/ SetMaintenance
              \/ UNCHANGED vars
       PROVE  row'[c].status = "gone"
  BY <1>10 DEF BulkAction, RetryIssue, HourPasses, CertificateAges, ImportRejected,
     SetMaintenance, vars
<1> QED
  BY <1>3, <1>4, <1>5, <1>6, <1>7, <1>8, <1>9, <1>10 DEF Next, Worker

\* No commit that was in flight at the delete brings the certificate back.
THEOREM DeletedIsFinal == Spec => DeletedStaysDeleted
<1>1. TInv /\ [Next]_vars => [\A c \in Certs: row[c].status = "gone" => row'[c].status = "gone"]_vars
  BY DeletedStep
<1> QED
  BY <1>1, InitTyped, TypeStep, PTL DEF Spec, DeletedStaysDeleted

----------------------------------------------------------------------------
(* Executions and the status of their certificate                           *)

\* What a session knows that is about to end a renewal: the renewal's own session
\* has seen the status renewing, so its commit writes another one.  A reset may have
\* read another status and leave the column alone; then a renewal that began after
\* the one it closes keeps the status true.
RenewOK(s) ==
  LET c == session[s].cert
      seen == session[s].view[c]
  IN
  /\ session[s].pc = "renew_call" => seen.status = "renewing"
  /\ session[s].pc = "reset" /\ seen.status # "renewing" /\ row[c].status = "renewing" =>
       \E f \in RunningRenewals(c): f > session[s].exec

RenewInv == \A s \in Sessions: RenewOK(s)

\* A session at work has a certificate that was created, deleted since or not.
KnownInv ==
  \A s \in Sessions: session[s].pc \notin {"idle", "sweep"} => row[session[s].cert].status # "nil"

EInv == RenewInv /\ RenewingHasExecution /\ KnownInv /\ NoOrphanExecutions

\* The step leaves a renewing certificate with executions at least as late as before.
Supported(c) ==
  row'[c].status = "renewing" =>
    \/ \E f \in RunningRenewals(c)': f > nexec
    \/ /\ row[c].status = "renewing"
       /\ \A f \in RunningRenewals(c): \E g \in RunningRenewals(c)': g >= f

\* What a step must show to keep EInv
LEMMA ExecutionFrame ==
  ASSUME IInv, EInv, TInv',
         \A q \in Sessions: \/ session'[q] = session[q]
                            \/ session'[q].pc \in {"idle", "sweep"}
                            \/ RenewOK(q)' /\ row'[session'[q].cert].status # "nil",
         \A c \in Certs: row[c].status # "nil" => row'[c].status # "nil",
         \A c \in Certs: Supported(c),
         NoOrphanExecutions'
  PROVE  EInv'
<1>0. TInv /\ SessionInv
  BY DEF IInv
<1>1. \A c \in Certs: RunningRenewals(c) \subseteq Nat /\ RunningRenewals(c)' \subseteq Nat
  BY ConstantsAssumption DEF RunningRenewals, ExecIds
<1>2. RenewingHasExecution'
  <2> SUFFICES ASSUME NEW c \in Certs, row'[c].status = "renewing"
               PROVE  RunningRenewals(c)' # {}
    BY DEF RenewingHasExecution
  <2>1. row[c].status = "renewing" => RunningRenewals(c) # {}
    BY DEF EInv, RenewingHasExecution
  <2> QED BY <2>1 DEF Supported
<1>3. ASSUME NEW q \in Sessions, session'[q] = session[q]
      PROVE  RenewOK(q)'
  <2>1. RenewOK(q) /\ SessionOK(q) /\ session[q] \in Session
    BY <1>0 DEF EInv, RenewInv, SessionInv, TInv, TypeOK
  <2>2. session[q].exec \in Nat /\ nexec \in Nat /\ session[q].exec <= nexec
    BY <1>0, <2>1, ConstantsAssumption DEF Session, SessionOK, TInv, TypeOK
  <2>3. ASSUME NEW c, c = session[q].cert, session[q].pc = "reset",
               session[q].view[c].status # "renewing", row'[c].status = "renewing"
        PROVE  \E f \in RunningRenewals(c)': f > session[q].exec
    <3>1. c \in Certs
      BY <1>0, <2>3 DEF TInv, PhaseInv
    <3>2. Supported(c)
      BY <3>1
    <3>3. CASE \E f \in RunningRenewals(c)': f > nexec
      <4>1. PICK f \in RunningRenewals(c)': f > nexec
        BY <3>3
      <4>2. f \in Nat
        BY <1>1, <3>1, <4>1
      <4>3. f > session[q].exec
        BY <2>2, <4>1, <4>2
      <4> QED BY <4>1, <4>3
    <3>4. CASE /\ row[c].status = "renewing"
               /\ \A f \in RunningRenewals(c): \E g \in RunningRenewals(c)': g >= f
      <4>1. PICK f \in RunningRenewals(c): f > session[q].exec
        BY <2>1, <2>3, <3>4 DEF RenewOK
      <4>2. PICK g \in RunningRenewals(c)': g >= f
        BY <3>4, <4>1
      <4>3. f \in Nat /\ g \in Nat
        BY <1>1, <3>1, <4>1, <4>2
      <4>4. g > session[q].exec
        BY <2>2, <4>1, <4>2, <4>3
      <4> QED BY <4>2, <4>4
    <3> QED BY <2>3, <3>2, <3>3, <3>4 DEF Supported
  <2> QED BY <1>3, <2>1, <2>3 DEF RenewOK
<1>4. ASSUME NEW q \in Sessions PROVE RenewOK(q)'
  <2>1. CASE session'[q].pc \in {"idle", "sweep"}
    BY <2>1 DEF RenewOK
  <2> QED BY <1>3, <2>1
<1>5. RenewInv'
  BY <1>4 DEF RenewInv, Sessions
<1>6. KnownInv'
  <2> SUFFICES ASSUME NEW q \in Sessions, session'[q].pc \notin {"idle", "sweep"}
               PROVE  row'[session'[q].cert].status # "nil"
    BY DEF KnownInv, Sessions
  <2>1. CASE session'[q] = session[q]
    <3>1. session[q].cert \in Certs /\ row[session[q].cert].status # "nil"
      BY <1>0, <2>1 DEF TInv, PhaseInv, EInv, KnownInv
    <3> QED BY <2>1, <3>1
  <2> QED BY <2>1
<1> QED BY <1>2, <1>5, <1>6 DEF EInv

\* A step that opens no execution and deletes no certificate leaves no orphan.
LEMMA OrphanFrame ==
  ASSUME TInv, NoOrphanExecutions,
         \A e \in ExecIds: exec'[e].type # "none" =>
            exec[e].type # "none" /\ exec'[e].cert = exec[e].cert,
         \A c \in Certs: Exists(c) => Exists(c)'
  PROVE  NoOrphanExecutions'
<1> SUFFICES ASSUME NEW e \in ExecIds, exec'[e].type # "none"
             PROVE  row'[exec'[e].cert].status \notin {"nil", "gone"}
  BY DEF NoOrphanExecutions, Exists, ExecIds
<1>1. exec[e].cert \in Certs /\ Exists(exec[e].cert) /\ exec'[e].cert = exec[e].cert
  BY DEF TInv, ExecCertInv, NoOrphanExecutions
<1> QED BY <1>1 DEF Exists

\* A step that leaves executions alone, and statuses too, or away from renewing
LEMMA QuietExecutions ==
  ASSUME IInv, EInv, TInv', UNCHANGED exec,
         \A q \in Sessions: \/ session'[q] = session[q]
                            \/ session'[q].pc \in {"idle", "sweep"}
                            \/ RenewOK(q)' /\ row'[session'[q].cert].status # "nil",
         \A c \in Certs: \/ row'[c].status = row[c].status
                         \/ row'[c].status \notin {"nil", "gone", "renewing"}
  PROVE  EInv'
<1>0. TInv
  BY DEF IInv
<1>1. \A c \in Certs: Exists(c) => Exists(c)'
  BY DEF Exists
<1>2. NoOrphanExecutions'
  BY <1>0, <1>1, OrphanFrame DEF EInv
<1>3. \A c \in Certs: Supported(c)
  <2> SUFFICES ASSUME NEW c \in Certs, row'[c].status = "renewing"
               PROVE  row[c].status = "renewing" /\ RunningRenewals(c)' = RunningRenewals(c)
    BY ConstantsAssumption DEF Supported, RunningRenewals, ExecIds
  <2> QED BY DEF RunningRenewals, ExecIds
<1> QED BY <1>2, <1>3, ExecutionFrame

\* A step that closes (or requeues) one execution: a certificate that stays renewing
\* has a later one.
LEMMA CloseExecution ==
  ASSUME IInv, EInv, TInv', NEW e \in ExecIds, NEW st \in JobStatus,
         exec' = [exec EXCEPT ![e].status = st],
         \A q \in Sessions: \/ session'[q] = session[q]
                            \/ session'[q].pc \in {"idle", "sweep"},
         \A c \in Certs: \/ row'[c].status = row[c].status
                         \/ row'[c].status \notin {"nil", "gone", "renewing"},
         \A c \in Certs: row'[c].status = "renewing" =>
            \/ exec[e].type # "renew"
            \/ exec[e].cert # c
            \/ \E f \in RunningRenewals(c): f > e
  PROVE  EInv'
<1>0. TInv /\ exec \in [ExecIds -> Execution]
  BY DEF IInv, TInv, TypeOK
<1>1. \A f \in ExecIds: /\ exec'[f].type = exec[f].type
                        /\ exec'[f].cert = exec[f].cert
                        /\ f # e => exec'[f] = exec[f]
  BY <1>0 DEF Execution
<1>2. NoOrphanExecutions'
  <2>1. \A c \in Certs: Exists(c) => Exists(c)'
    BY DEF Exists
  <2> QED BY <1>0, <1>1, <2>1, OrphanFrame DEF EInv
<1>3. \A c \in Certs: Supported(c)
  <2> SUFFICES ASSUME NEW c \in Certs, row'[c].status = "renewing",
                      NEW f \in RunningRenewals(c)
               PROVE  row[c].status = "renewing" /\ \E g \in RunningRenewals(c)': g >= f
    BY DEF Supported, RenewingHasExecution, EInv
  <2>1. f \in ExecIds /\ f \in Nat /\ e \in Nat
    BY ConstantsAssumption DEF RunningRenewals, ExecIds
  <2>2. \A g \in RunningRenewals(c): g # e => g \in RunningRenewals(c)'
    BY <1>1 DEF RunningRenewals, ExecIds
  <2>3. CASE f # e
    BY <2>1, <2>2, <2>3
  <2>4. CASE f = e
    <3>1. exec[e].type = "renew" /\ exec[e].cert = c
      BY <2>4 DEF RunningRenewals
    <3>2. PICK g \in RunningRenewals(c): g > e
      BY <3>1
    <3>3. g \in Nat /\ g # e
      BY <2>1, <3>2, ConstantsAssumption DEF RunningRenewals, ExecIds
    <3>4. g >= f
      BY <2>1, <2>4, <3>2, <3>3
    <3> QED BY <2>2, <3>2, <3>3, <3>4
  <2> QED BY <2>3, <2>4
<1> QED BY <1>2, <1>3, ExecutionFrame

\* A step that records the next execution, for a certificate that exists
LEMMA OpenExecution ==
  ASSUME IInv, EInv, TInv', NEW type \in {"issue", "renew"}, NEW d \in Certs, nexec < MaxExec,
         exec' = [exec EXCEPT ![nexec + 1] = NewExec(type, d)],
         \A q \in Sessions: \/ session'[q] = session[q]
                            \/ RenewOK(q)' /\ row'[session'[q].cert].status # "nil",
         \A c \in Certs: \/ row'[c].status = row[c].status
                         \/ row'[c].status \notin {"nil", "gone", "renewing"}
                         \/ type = "renew" /\ c = d /\ row'[c].status = "renewing",
         Exists(d)'
  PROVE  EInv'
<1>0. /\ TInv /\ exec \in [ExecIds -> Execution]
      /\ nexec \in Nat /\ nexec + 1 \in ExecIds
  BY ConstantsAssumption DEF IInv, TInv, TypeOK, ExecIds
<1>1. /\ exec'[nexec + 1] = NewExec(type, d)
      /\ \A f \in ExecIds: f # nexec + 1 => exec'[f] = exec[f]
  BY <1>0
<1>2. exec[nexec + 1] = NoExec
  BY <1>0 DEF IInv, ExecInv
<1>3. NoOrphanExecutions'
  <2> SUFFICES ASSUME NEW e \in ExecIds, exec'[e].type # "none"
               PROVE  row'[exec'[e].cert].status \notin {"nil", "gone"}
    BY DEF NoOrphanExecutions, Exists, ExecIds
  <2>1. CASE e = nexec + 1
    BY <1>1, <2>1 DEF NewExec, Exists
  <2>2. CASE e # nexec + 1
    <3>1. exec[e].type # "none" /\ exec'[e].cert = exec[e].cert
      BY <1>1, <2>2
    <3>2. exec[e].cert \in Certs /\ Exists(exec[e].cert)
      BY <1>0, <3>1 DEF EInv, NoOrphanExecutions, TInv, ExecCertInv
    <3> QED BY <3>1, <3>2 DEF Exists
  <2> QED BY <2>1, <2>2
<1>4. \A c \in Certs: Supported(c)
  <2> SUFFICES ASSUME NEW c \in Certs, row'[c].status = "renewing" PROVE Supported(c)
    BY DEF Supported
  <2>1. CASE type = "renew" /\ c = d
    <3>1. nexec + 1 \in RunningRenewals(c)'
      BY <1>0, <1>1, <2>1 DEF RunningRenewals, NewExec, ExecIds
    <3>2. nexec + 1 > nexec
      BY <1>0
    <3> QED BY <3>1, <3>2 DEF Supported
  <2>2. CASE ~(type = "renew" /\ c = d)
    <3>1. row[c].status = "renewing"
      BY <2>2
    <3>2. \A f \in RunningRenewals(c): f \in RunningRenewals(c)' /\ f >= f
      BY <1>1, <1>2, ConstantsAssumption DEF RunningRenewals, NoExec, ExecIds
    <3> QED BY <3>1, <3>2 DEF Supported
  <2> QED BY <2>1, <2>2
<1>5. \A c \in Certs: row[c].status # "nil" => row'[c].status # "nil"
  OBVIOUS
<1> QED BY <1>3, <1>4, <1>5, ExecutionFrame

\* The status a commit by column leaves is the one written or the one there.
LEMMA FlushStatus ==
  ASSUME NEW r, NEW seen, NEW new
  PROVE  /\ Flush(r, seen, new).status \in {r.status, new.status}
         /\ new.status # seen.status => Flush(r, seen, new).status = new.status
  BY DEF Flush

\* A session that ended, or went back to its sweep, holds nothing.
LEMMA DoneIdle ==
  ASSUME TInv, NEW s \in Sessions,
         session' = Done(s) \/ session' = [session EXCEPT ![s] = IdleSession]
  PROVE  \A q \in Sessions: \/ session'[q] = session[q]
                            \/ session'[q].pc \in {"idle", "sweep"}
<1>1. session \in [Sessions -> Session] /\ session[s] \in Session
  BY DEF TInv, TypeOK
<1>2. session'[s].pc \in {"idle", "sweep"}
  <2>1. CASE session'[s] = IdleSession
    BY <2>1 DEF IdleSession
  <2>2. CASE session'[s] = [session[s] EXCEPT !.pc = "sweep", !.cert = NoCert, !.exec = 0,
                                   !.view[session[s].cert] = NilRow]
    BY <1>1, <2>2 DEF Session
  <2> QED BY <1>1, <2>1, <2>2 DEF Done
<1> QED BY <1>1, <1>2 DEF Done

\* The commit at the end of an issuance or a renewal: the renewal's own session has
\* read renewing, and writes another status in the commit that closes its execution.
LEMMA CommitEnds ==
  ASSUME IInv, EInv, TInv', NEW s \in Sessions, NEW new \in Row, NEW outcome \in JobStatus,
         CommitOutcome(s, new, outcome),
         session[s].pc \in {"issue_call", "renew_call"},
         new.status \notin {"nil", "gone", "renewing"}
  PROVE  EInv'
<1> DEFINE c == session[s].cert
           e == session[s].exec
           seen == session[s].view[c]
<1>0. /\ TInv /\ SessionOK(s) /\ RenewOK(s) /\ session[s] \in Session /\ c \in Certs
      /\ row \in [Certs -> Row]
  BY DEF IInv, TInv, TypeOK, SessionInv, PhaseInv, EInv, RenewInv
<1>1. e \in ExecIds
  BY <1>0, ConstantsAssumption DEF SessionOK, Session, ExecIds
<1>2. CASE StaleData(s)
  <2>1. UNCHANGED <<row, exec>> /\ session' = [session EXCEPT ![s] = IdleSession]
    BY <1>2 DEF StaleData
  <2>2. \A q \in Sessions: session'[q] = session[q] \/ session'[q].pc \in {"idle", "sweep"}
    BY <1>0, <2>1, DoneIdle
  <2> QED BY <2>1, <2>2, QuietExecutions
<1>3. CASE ~StaleData(s)
  <2>1. /\ row' = [row EXCEPT ![c] = Flush(row[c], seen, new)]
        /\ exec' = [exec EXCEPT ![e].status = outcome]
        /\ session' = Done(s)
    BY <1>3 DEF CommitOutcome
  <2>2. \A q \in Sessions: session'[q] = session[q] \/ session'[q].pc \in {"idle", "sweep"}
    BY <1>0, <2>1, DoneIdle
  <2>3. row'[c].status \in {row[c].status, new.status}
    BY <1>0, <2>1, FlushStatus
  <2>4. \A d \in Certs: d # c => row'[d] = row[d]
    BY <1>0, <2>1
  <2>5. ASSUME NEW d \in Certs, row'[d].status = "renewing", exec[e].type = "renew"
        PROVE  exec[e].cert # d
    <3>1. session[s].pc = "renew_call" /\ exec[e].cert = c
      BY <1>0, <2>5 DEF SessionOK
    <3>2. seen.status = "renewing"
      BY <1>0, <3>1 DEF RenewOK
    <3>3. Flush(row[c], seen, new).status = new.status
      <4> HIDE DEF seen, c
      <4> QED BY <3>2, FlushStatus
    <3>4. row'[c].status = new.status
      BY <1>0, <2>1, <3>3
    <3> QED BY <2>5, <3>1, <3>4
  <2>6. \A d \in Certs: \/ row'[d].status = row[d].status
                        \/ row'[d].status \notin {"nil", "gone", "renewing"}
    BY <2>3, <2>4
  <2> HIDE DEF e
  <2> QED BY <1>1, <2>1, <2>2, <2>5, <2>6, CloseExecution
<1> QED BY <1>2, <1>3

\* The inductive step: one case per action.
LEMMA ExecutionStep == IInv /\ EInv /\ [Next]_vars => EInv'
<1> SUFFICES ASSUME IInv, EInv, [Next]_vars PROVE EInv'
  OBVIOUS
<1> USE DEF Sessions
<1>0. TInv /\ TInv' /\ SessionInv /\ ExecInv
  BY TypeStep DEF IInv
<1>1. row \in [Certs -> Row] /\ session \in [Sessions -> Session]
  BY <1>0 DEF TInv, TypeOK
<1>2. ASSUME NEW w \in Workers,
             IssueSucceed(w) \/ IssueFail(w) \/ RenewSucceed(w) \/ RenewSkip(w) \/ RenewFail(w)
      PROVE  EInv'
  <2> DEFINE seen == session[w].view[session[w].cert]
  <2>1. session[w].pc \in {"issue_call", "renew_call"}
    BY <1>2 DEF IssueSucceed, IssueFail, RenewSucceed, RenewSkip, RenewFail
  <2>2. session[w].cert \in Certs
    BY <1>0, <2>1 DEF TInv, PhaseInv
  <2>3. seen \in Row
    BY <1>0, <2>2, ViewType DEF TInv
  <2>4. \E new \in Row, outcome \in JobStatus:
           CommitOutcome(w, new, outcome) /\ new.status \notin {"nil", "gone", "renewing"}
    <3>1. CASE IssueSucceed(w) \/ RenewSucceed(w)
      <4>1. Ingested(seen) \in Row
        BY <1>0, <2>3, <3>1, IngestType DEF TInv, IssueSucceed, RenewSucceed
      <4>2. CASE IssueSucceed(w)
        <5> DEFINE new == [Ingested(seen) EXCEPT !.status = "active", !.renewal = "none"]
        <5>1. new \in Row /\ new.status = "active"
          BY <4>1 DEF Row, CertificateStatus, RenewalStatus
        <5>2. CommitOutcome(w, new, "success")
          BY <4>2 DEF IssueSucceed
        <5> QED BY <5>1, <5>2 DEF JobStatus
      <4>3. CASE RenewSucceed(w)
        <5> DEFINE new == [Ingested(seen) EXCEPT !.status = "active", !.renewal = "success"]
        <5>1. new \in Row /\ new.status = "active"
          BY <4>1 DEF Row, CertificateStatus, RenewalStatus
        <5>2. CommitOutcome(w, new, "success")
          BY <4>3 DEF RenewSucceed
        <5> QED BY <5>1, <5>2 DEF JobStatus
      <4> QED BY <3>1, <4>2, <4>3
    <3>2. CASE IssueFail(w)
      <4> DEFINE new == [seen EXCEPT !.status = "failed", !.renewal = "failed"]
      <4>1. new \in Row /\ new.status = "failed"
        BY <2>3 DEF Row, CertificateStatus, RenewalStatus
      <4>2. CommitOutcome(w, new, "failed")
        BY <3>2 DEF IssueFail
      <4> QED BY <4>1, <4>2 DEF JobStatus
    <3>3. CASE RenewSkip(w)
      <4> DEFINE new == [seen EXCEPT !.status = "active", !.renewal = "skipped"]
      <4>1. new \in Row /\ new.status = "active"
        BY <2>3 DEF Row, CertificateStatus, RenewalStatus
      <4>2. CommitOutcome(w, new, "success")
        BY <3>3 DEF RenewSkip
      <4> QED BY <4>1, <4>2 DEF JobStatus
    <3>4. CASE RenewFail(w)
      <4> DEFINE new == [seen EXCEPT !.status = StatusAfterFailure(seen.fp), !.renewal = "failed"]
      <4>1. new \in Row /\ new.status \in {"active", "expiring"}
        BY <2>3 DEF Row, CertificateStatus, RenewalStatus, StatusAfterFailure
      <4>2. CommitOutcome(w, new, "failed")
        BY <3>4 DEF RenewFail
      <4> QED BY <4>1, <4>2 DEF JobStatus
    <3> QED BY <1>2, <3>1, <3>2, <3>3, <3>4
  <2> QED BY <1>0, <2>1, <2>4, CommitEnds
<1>3. ASSUME NEW w \in Workers, RenewAbort(w) \/ RevokeFail(w) \/ IssueAbort(w) \/ Crash(w)
      PROVE  EInv'
  <2>1. /\ UNCHANGED <<row, exec>>
        /\ session' = Done(w) \/ session' = [session EXCEPT ![w] = IdleSession]
    BY <1>3 DEF RenewAbort, RevokeFail, IssueAbort, Crash
  <2>2. \A q \in Sessions: session'[q] = session[q] \/ session'[q].pc \in {"idle", "sweep"}
    BY <1>0, <2>1, DoneIdle
  <2> QED BY <1>0, <2>1, <2>2, QuietExecutions
<1>4. ASSUME NEW w \in Workers, NEW c \in Certs, NEW pc,
             session'[w].pc = pc, pc \notin {"renew_call", "reset"},
             session'[w].cert = c, row[c].status # "nil", UNCHANGED <<row, exec>>,
             \A q \in Sessions \ {w}: session'[q] = session[q]
      PROVE  EInv'
  <2>1. RenewOK(w)' /\ row'[session'[w].cert].status # "nil"
    BY <1>4 DEF RenewOK
  <2> QED BY <1>0, <1>4, <2>1, QuietExecutions
<1>5. ASSUME NEW w \in Workers,
             RenewIngestFails(w) \/ (\E b \in BOOLEAN: RevokeAccepted(w, b)) \/ DeleteUnlink(w)
      PROVE  EInv'
  <2>1. /\ session[w].pc \notin {"idle", "sweep"} /\ session[w] \in Session
        /\ UNCHANGED <<row, exec>>
    BY <1>1, <1>5 DEF RenewIngestFails, RevokeAccepted, DeleteUnlink
  <2>2. session[w].cert \in Certs /\ row[session[w].cert].status # "nil"
    BY <1>0, <2>1 DEF TInv, PhaseInv, EInv, KnownInv
  <2>3. /\ session'[w].pc \in {"renew_leak", "revoke_clean", "revoke_keep", "delete_commit"}
        /\ session'[w].cert = session[w].cert
        /\ \A q \in Sessions \ {w}: session'[q] = session[q]
    BY <1>1, <1>5, <2>1 DEF RenewIngestFails, RevokeAccepted, DeleteUnlink, Become, Session
  <2> QED BY <1>4, <2>1, <2>2, <2>3
<1>6. ASSUME NEW w \in Workers, LeakCommit(w) \/ RevokeCommit(w) PROVE EInv'
  <2>1. /\ session[w].cert \in Certs /\ UNCHANGED exec
        /\ session' = Done(w) \/ session' = [session EXCEPT ![w] = IdleSession]
    BY <1>0, <1>6 DEF LeakCommit, RevokeCommit, StaleData, TInv, PhaseInv
  <2>2. \A q \in Sessions: session'[q] = session[q] \/ session'[q].pc \in {"idle", "sweep"}
    BY <1>0, <2>1, DoneIdle
  <2>3. \A d \in Certs: row'[d].status \in {row[d].status, "revoked"}
    <3>1. CASE LeakCommit(w)
      BY <1>1, <3>1 DEF LeakCommit, StaleData, Row
    <3>2. CASE RevokeCommit(w)
      <4> DEFINE c == session[w].cert
                 seen == session[w].view[c]
                 revoked == [seen EXCEPT !.status = "revoked", !.auto = FALSE,
                               !.renewal = "disabled",
                               !.path = IF session[w].pc = "revoke_clean" THEN 0 ELSE @]
      <4>1. row' = row \/ row' = [row EXCEPT ![c] = Flush(row[c], seen, revoked)]
        BY <3>2 DEF RevokeCommit, StaleData
      <4>2. revoked.status = "revoked"
        BY <1>0, <2>1, ViewType DEF TInv, Row
      <4>3. Flush(row[c], seen, revoked).status \in {row[c].status, "revoked"}
        <5> HIDE DEF seen, revoked
        <5> QED BY <4>2, FlushStatus
      <4> QED BY <1>1, <2>1, <4>1, <4>3
    <3> QED BY <1>6, <3>1, <3>2
  <2> QED BY <1>0, <2>1, <2>2, <2>3, QuietExecutions
<1>7. ASSUME NEW w \in Workers, RenewBegin(w) PROVE EInv'
  <2> DEFINE c == session[w].cert
             seen == session[w].view[c]
             claimed == [seen EXCEPT !.renewal = "in_progress", !.status = "renewing"]
  <2>1. c \in Certs /\ session[w] \in Session /\ row[c].status # "nil"
    BY <1>0, <1>1, <1>7 DEF RenewBegin, TInv, PhaseInv, EInv, KnownInv
  <2>2. CASE StaleData(w) /\ UNCHANGED nexec
    <3>1. UNCHANGED <<row, exec>> /\ session' = [session EXCEPT ![w] = IdleSession]
      BY <2>2 DEF StaleData
    <3>2. \A q \in Sessions: session'[q] = session[q] \/ session'[q].pc \in {"idle", "sweep"}
      BY <1>0, <3>1, DoneIdle
    <3> QED BY <1>0, <3>1, <3>2, QuietExecutions
  <2>3. CASE ~(StaleData(w) /\ UNCHANGED nexec)
    <3>1. /\ nexec < MaxExec /\ row[c].status # "gone"
          /\ row' = [row EXCEPT ![c] = Flush(row[c], seen, claimed)]
          /\ exec' = [exec EXCEPT ![nexec + 1] = NewExec("renew", c)]
          /\ session' = [session EXCEPT ![w].pc = "renew_call", ![w].exec = nexec + 1,
                                        ![w].view[c] = claimed]
      BY <1>7, <2>3 DEF RenewBegin
    <3>2. claimed.status = "renewing"
      BY <1>0, <2>1, ViewType DEF TInv, Row
    <3>3. /\ session'[w].pc = "renew_call" /\ session'[w].cert = c
          /\ session'[w].view = [session[w].view EXCEPT ![c] = claimed]
          /\ \A q \in Sessions \ {w}: session'[q] = session[q]
      BY <1>1, <2>1, <3>1 DEF Session
    <3>4. session'[w].view[c].status = "renewing"
      BY <2>1, <3>2, <3>3 DEF Session
    <3>5. row'[c].status \in {row[c].status, "renewing"} /\ \A d \in Certs: d # c => row'[d] = row[d]
      <4> HIDE DEF seen, claimed, c
      <4>1. Flush(row[c], seen, claimed).status \in {row[c].status, "renewing"}
        BY <3>2, FlushStatus
      <4> QED BY <1>1, <2>1, <3>1, <4>1
    <3>6. RenewOK(w)' /\ row'[session'[w].cert].status # "nil"
      BY <2>1, <3>3, <3>4, <3>5 DEF RenewOK
    <3>7. \A d \in Certs: d = c => Exists(d)'
      BY <2>1, <3>1, <3>5 DEF Exists
    <3>8. \A d \in Certs: d = c => EInv'
      <4> SUFFICES ASSUME NEW d \in Certs, d = c PROVE EInv'
        OBVIOUS
      <4> HIDE DEF c
      <4>1. exec' = [exec EXCEPT ![nexec + 1] = NewExec("renew", d)] /\ Exists(d)'
        BY <3>1, <3>7
      <4>2. \A b \in Certs: \/ row'[b].status = row[b].status
                            \/ row'[b].status \notin {"nil", "gone", "renewing"}
                            \/ "renew" = "renew" /\ b = d /\ row'[b].status = "renewing"
        BY <3>5
      <4> QED BY <1>0, <3>1, <3>3, <3>6, <4>1, <4>2, OpenExecution
    <3> QED BY <2>1, <3>8
  <2> QED BY <2>2, <2>3
<1>8. ASSUME NEW w \in Workers, DeleteCommit(w) PROVE EInv'
  <2>1. PICK c \in Certs: c = session[w].cert
    BY <1>0, <1>8 DEF DeleteCommit, TInv, PhaseInv
  <2>2. /\ row' = [row EXCEPT ![c] = GoneRow]
        /\ exec' = [e \in ExecIds |-> IF exec[e].cert = c THEN NoExec ELSE exec[e]]
        /\ session' = Done(w)
    BY <1>8, <2>1 DEF DeleteCommit
  <2>3. \A q \in Sessions: session'[q] = session[q] \/ session'[q].pc \in {"idle", "sweep"}
    BY <1>0, <2>2, DoneIdle
  <2>4. row'[c].status = "gone" /\ \A d \in Certs: d # c => row'[d] = row[d]
    BY <1>1, <2>2 DEF GoneRow, NilRow
  <2>5. NoOrphanExecutions'
    <3> SUFFICES ASSUME NEW e \in ExecIds, exec'[e].type # "none"
                 PROVE  row'[exec'[e].cert].status \notin {"nil", "gone"}
      BY DEF NoOrphanExecutions, Exists, ExecIds
    <3>1. exec'[e] = exec[e] /\ exec[e].cert # c
      BY <2>2 DEF NoExec
    <3>2. exec[e].cert \in Certs /\ Exists(exec[e].cert)
      BY <1>0, <3>1 DEF TInv, ExecCertInv, EInv, NoOrphanExecutions
    <3> QED BY <2>4, <3>1, <3>2 DEF Exists
  <2>6. \A d \in Certs: Supported(d)
    <3> SUFFICES ASSUME NEW d \in Certs, row'[d].status = "renewing" PROVE Supported(d)
      BY DEF Supported
    <3>1. d # c /\ row[d].status = "renewing"
      BY <2>4
    <3>2. \A f \in RunningRenewals(d): f \in RunningRenewals(d)' /\ f >= f
      BY <2>2, <3>1, ConstantsAssumption DEF RunningRenewals, ExecIds
    <3> QED BY <3>1, <3>2 DEF Supported
  <2>7. \A d \in Certs: row[d].status # "nil" => row'[d].status # "nil"
    BY <2>4
  <2> QED BY <1>0, <2>3, <2>5, <2>6, <2>7, ExecutionFrame
<1>9. ASSUME NEW w \in Workers, NEW c \in Certs, SweepNext(w, c) PROVE EInv'
  <2>0. session[w] \in Session /\ session[w].pc = "sweep" /\ UNCHANGED <<row, exec>>
    BY <1>1, <1>9 DEF SweepNext
  <2>1. CASE Exists(c) /\ Renewable(c, session[w].view[c])
    <3>1. session' = [session EXCEPT ![w].pc = "renew_begin", ![w].cert = c,
                                     ![w].todo = @ \ {c}]
      BY <1>9, <2>1 DEF SweepNext
    <3>2. /\ session'[w].pc = "renew_begin" /\ session'[w].cert = c
          /\ \A q \in Sessions \ {w}: session'[q] = session[q]
      BY <1>1, <2>0, <3>1 DEF Session
    <3> QED BY <1>4, <2>0, <2>1, <3>2 DEF Exists
  <2>2. CASE ~(Exists(c) /\ Renewable(c, session[w].view[c]))
    <3>1. session' = [session EXCEPT ![w] =
            IF session[w].todo = {c} THEN IdleSession
            ELSE [@ EXCEPT !.todo = session[w].todo \ {c}, !.view[c] = NilRow]]
      BY <1>9, <2>2 DEF SweepNext
    <3>2. session'[w].pc \in {"idle", "sweep"} /\ \A q \in Sessions \ {w}: session'[q] = session[q]
      BY <1>1, <2>0, <3>1 DEF Session, IdleSession
    <3> QED BY <1>0, <2>0, <3>2, QuietExecutions
  <2> QED BY <2>1, <2>2
<1>10. ASSUME NEW w \in Workers, SweepStart(w) PROVE EInv'
  <2>1. /\ session'[w].pc = "sweep" /\ UNCHANGED <<row, exec>>
        /\ \A q \in Sessions \ {w}: session'[q] = session[q]
    BY <1>1, <1>10 DEF SweepStart, IdleSession
  <2> QED BY <1>0, <2>1, QuietExecutions
<1>11. ASSUME NEW w \in Workers, NEW c \in Certs, NEW t,
              RenewRead(w, c, t) \/ RevokeRead(w, c, t) \/ DeleteRead(w, c, t)
       PROVE  EInv'
  <2>1. PICK pc \in {"renew_begin", "revoke_call", "delete_unlink"}:
           session' = Begin(w, pc, c, 0, t) /\ UNCHANGED <<row, exec>>
    BY <1>11 DEF RenewRead, RevokeRead, DeleteRead
  <2>2. row[c].status # "nil"
    BY <1>11 DEF RenewRead, RevokeRead, DeleteRead, Exists
  <2>3. /\ session'[w].pc = pc /\ session'[w].cert = c
        /\ \A q \in Sessions \ {w}: session'[q] = session[q]
    BY <1>1, <2>1 DEF Begin, IdleSession
  <2> QED BY <1>4, <2>1, <2>2, <2>3
<1>12. ASSUME NEW w \in Workers, NEW e \in ExecIds, RetryRenew(w, e) PROVE EInv'
  <2>1. exec[e].cert \in Certs
    BY <1>0, <1>12 DEF RetryRenew, TInv, ExecCertInv
  <2> QED BY <1>11, <1>12, <2>1 DEF RetryRenew
<1>13. ASSUME NEW w \in Workers, NEW c \in Certs, nexec < MaxExec,
              exec' = [exec EXCEPT ![nexec + 1] = NewExec("issue", c)],
              NEW new, session' = [session EXCEPT ![w] = new],
              new.pc = "issue_call", new.cert = c, Exists(c)',
              \A d \in Certs: row'[d].status \in {row[d].status, "issuing"}
       PROVE  EInv'
  <2>1. session'[w] = new /\ \A q \in Sessions \ {w}: session'[q] = session[q]
    BY <1>1, <1>13
  <2>2. RenewOK(w)' /\ row'[session'[w].cert].status # "nil"
    BY <1>13, <2>1 DEF RenewOK, Exists
  <2> QED BY <1>0, <1>13, <2>1, <2>2, OpenExecution
<1>14. ASSUME NEW w \in Workers, NEW t \in Task, Deliver(w, t) PROVE EInv'
  <2>1. PICK c \in Certs: c = t.cert
    BY DEF Task
  <2>2. CASE IssueBegin(w, c, t)
    <3> DEFINE new == [IdleSession EXCEPT !.pc = "issue_call", !.cert = c,
                         !.exec = nexec + 1, !.task = t, !.view[c] = row[c]]
    <3>1. new.pc = "issue_call" /\ new.cert = c
      BY DEF IdleSession
    <3>2. session' = [session EXCEPT ![w] = new] /\ Exists(c)' /\ row' = row
      BY <2>2 DEF IssueBegin, Begin, Exists
    <3> HIDE DEF new
    <3> QED BY <1>13, <2>2, <3>1, <3>2 DEF IssueBegin
  <2> QED BY <1>11, <1>14, <2>1, <2>2 DEF Deliver
<1>15. ASSUME NEW w \in Workers, NEW src \in Certs, NEW c \in Certs,
              CloneCertificate(w, src, c)
       PROVE EInv'
  <2> DEFINE new == [IdleSession EXCEPT !.pc = "issue_call", !.cert = c,
                       !.exec = nexec + 1, !.view[c] = NewRow(row[src].auto)]
  <2>1. new.pc = "issue_call" /\ new.cert = c
    BY DEF IdleSession
  <2>2. session' = [session EXCEPT ![w] = new]
    BY <1>15 DEF CloneCertificate
  <2>3. row'[c].status = "issuing" /\ \A d \in Certs: d # c => row'[d] = row[d]
    BY <1>1, <1>15 DEF CloneCertificate, NewRow, NilRow
  <2>4. Exists(c)'
    BY <2>3 DEF Exists
  <2>5. nexec < MaxExec /\ exec' = [exec EXCEPT ![nexec + 1] = NewExec("issue", c)]
    BY <1>15 DEF CloneCertificate
  <2>6. \A d \in Certs: row'[d].status \in {row[d].status, "issuing"}
    BY <2>3
  <2> HIDE DEF new
  <2> QED BY <1>13, <2>1, <2>2, <2>4, <2>5, <2>6
<1>16. ASSUME NEW r \in Readers, ResetWrite(r) PROVE EInv'
  <2> DEFINE c == session[r].cert
             e == session[r].exec
             seen == session[r].view[c]
             reset == [seen EXCEPT !.renewal = "failed", !.status = StatusAfterFailure(seen.fp)]
  <2>1. c \in Certs /\ session[r] \in Session /\ SessionOK(r) /\ RenewOK(r) /\ session[r].pc = "reset"
    BY <1>0, <1>1, <1>16 DEF ResetWrite, TInv, PhaseInv, SessionInv, EInv, RenewInv
  <2>2. session' = Done(r) \/ session' = [session EXCEPT ![r] = IdleSession]
    BY <1>16 DEF ResetWrite, StaleData
  <2>3. \A q \in Sessions: session'[q] = session[q] \/ session'[q].pc \in {"idle", "sweep"}
    BY <1>0, <2>2, DoneIdle
  <2>4. CASE StaleData(r)
    <3>1. UNCHANGED <<row, exec>>
      BY <1>16, <2>4 DEF ResetWrite, StaleData
    <3> QED BY <1>0, <2>3, <3>1, QuietExecutions
  <2>5. CASE ~StaleData(r)
    <3>1. /\ row' = [row EXCEPT ![c] = Flush(row[c], seen, reset)]
          /\ exec' = IF e = 0 THEN exec ELSE [exec EXCEPT ![e].status = "failed"]
      BY <1>16, <2>5 DEF ResetWrite
    <3>2. reset.status \in {"active", "expiring"}
      BY <1>0, <2>1, ViewType DEF TInv, Row, StatusAfterFailure
    <3>3. /\ row'[c].status \in {row[c].status, "active", "expiring"}
          /\ \A d \in Certs: d # c => row'[d] = row[d]
      <4> HIDE DEF seen, reset, c
      <4>1. Flush(row[c], seen, reset).status \in {row[c].status, "active", "expiring"}
        BY <3>2, FlushStatus
      <4> QED BY <1>1, <2>1, <3>1, <4>1
    <3>4. \A d \in Certs: \/ row'[d].status = row[d].status
                          \/ row'[d].status \notin {"nil", "gone", "renewing"}
      BY <3>3
    <3>5. seen.status = "renewing" => row'[c].status # "renewing"
      <4>1. seen.status = "renewing" => Flush(row[c], seen, reset).status = reset.status
        <5> HIDE DEF seen, reset
        <5> QED BY <3>2, FlushStatus
      <4>2. row'[c] = Flush(row[c], seen, reset)
        BY <1>1, <2>1, <3>1
      <4> QED BY <3>2, <4>1, <4>2
    <3>6. CASE e = 0
      BY <1>0, <2>3, <3>1, <3>4, <3>6, QuietExecutions
    <3>7. CASE e # 0
      <4>1. e \in ExecIds
        BY <2>1, <3>7, ConstantsAssumption DEF SessionOK, Session, ExecIds
      <4>2. ASSUME NEW d \in Certs, row'[d].status = "renewing",
                   exec[e].type = "renew", exec[e].cert = d
            PROVE  \E f \in RunningRenewals(d): f > e
        <5>1. d = c
          BY <2>1, <3>7, <4>2 DEF SessionOK
        <5>2. row[c].status = "renewing" /\ seen.status # "renewing"
          BY <3>3, <3>5, <4>2, <5>1
        <5> QED BY <2>1, <5>1, <5>2 DEF RenewOK
      <4>3. exec' = [exec EXCEPT ![e].status = "failed"] /\ "failed" \in JobStatus
        BY <3>1, <3>7 DEF JobStatus
      <4> HIDE DEF e
      <4> QED BY <1>0, <2>3, <3>4, <4>1, <4>2, <4>3, CloseExecution
    <3> QED BY <3>6, <3>7
  <2> QED BY <2>4, <2>5
<1>17. ASSUME NEW r \in Readers, NEW c \in Certs, CancelRenewal(r, c) \/ MarkStaleRenewal(r, c)
       PROVE EInv'
  <2>1. /\ Exists(c) /\ session' = Begin(r, "reset", c, LatestRunning(c), NoTask)
        /\ UNCHANGED <<row, exec>>
    BY <1>17 DEF CancelRenewal, MarkStaleRenewal, ResetRead
  <2>2. /\ session'[r].pc = "reset" /\ session'[r].cert = c /\ session'[r].view[c] = row[c]
        /\ \A q \in Sessions \ {r}: session'[q] = session[q]
    BY <1>1, <2>1 DEF Begin, IdleSession
  <2>3. RenewOK(r)' /\ row'[session'[r].cert].status # "nil"
    BY <2>1, <2>2 DEF RenewOK, Exists
  <2> QED BY <1>0, <2>1, <2>2, <2>3, QuietExecutions
<1>18. ASSUME NEW c \in Certs, NEW auto \in BOOLEAN,
              IssueCertificate(c, auto) \/ ImportCertificate(c, auto) \/ UpdateCertificate(c)
       PROVE  EInv'
  <2>1. UNCHANGED <<exec, session>>
    BY <1>18 DEF IssueCertificate, ImportCertificate, UpdateCertificate
  <2>2. \A d \in Certs: row'[d].status \in {row[d].status, "issuing", "active"}
    <3>1. CASE IssueCertificate(c, auto)
      BY <1>1, <3>1 DEF IssueCertificate, NewRow, NilRow
    <3>2. CASE ImportCertificate(c, auto)
      BY <1>1, <3>2 DEF ImportCertificate, Ingested, NilRow
    <3>3. CASE UpdateCertificate(c)
      BY <1>1, <3>3 DEF UpdateCertificate, Row
    <3> QED BY <1>18, <3>1, <3>2, <3>3
  <2> QED BY <1>0, <2>1, <2>2, QuietExecutions
<1>19. ASSUME NEW e \in ExecIds, RetryIssue(e) PROVE EInv'
  <2>1. /\ exec' = [exec EXCEPT ![e].status = "queued"] /\ exec[e].type = "issue"
        /\ UNCHANGED <<row, session>>
    BY <1>19 DEF RetryIssue
  <2> QED BY <1>0, <2>1, CloseExecution DEF JobStatus
<1>20. ASSUME NEW e \in ExecIds, HourPasses(e) PROVE EInv'
  <2>1. exec' = [exec EXCEPT ![e].old = TRUE] /\ UNCHANGED <<row, session>>
    BY <1>20 DEF HourPasses
  <2>2. \A f \in ExecIds: /\ exec'[f].type = exec[f].type
                          /\ exec'[f].cert = exec[f].cert
                          /\ exec'[f].status = exec[f].status
    BY <1>0, <2>1 DEF TInv, TypeOK, Execution
  <2>3. NoOrphanExecutions'
    <3>1. \A c \in Certs: Exists(c) => Exists(c)'
      BY <2>1 DEF Exists
    <3> QED BY <1>0, <2>2, <3>1, OrphanFrame DEF EInv
  <2>4. \A c \in Certs: Supported(c)
    <3> SUFFICES ASSUME NEW c \in Certs PROVE Supported(c)
      OBVIOUS
    <3>1. \A f \in RunningRenewals(c): f \in RunningRenewals(c)' /\ f >= f
      BY <2>2, ConstantsAssumption DEF RunningRenewals, ExecIds
    <3> QED BY <2>1, <3>1 DEF Supported
  <2> QED BY <1>0, <2>1, <2>3, <2>4, ExecutionFrame
<1>21. ASSUME \/ \E w \in Workers, t \in Task: TaskRaises(w, t)
              \/ \E t \in Task: BulkAction(t)
              \/ \E g \in FpIds: CertificateAges(g)
              \/ ImportRejected
              \/ SetMaintenance
              \/ UNCHANGED vars
       PROVE  EInv'
  <2>1. UNCHANGED <<row, exec, session>>
    BY <1>21 DEF TaskRaises, BulkAction, CertificateAges, ImportRejected, SetMaintenance, vars
  <2> QED BY <1>0, <2>1, QuietExecutions
<1> QED
  BY <1>2, <1>3, <1>5, <1>6, <1>7, <1>8, <1>9, <1>10, <1>11, <1>12, <1>14, <1>15, <1>16,
     <1>17, <1>18, <1>19, <1>20, <1>21
     DEF Next, Worker, Provider, Internal, Reader, ApiRenew, ApiRevoke, ApiDelete

\* EInv holds in every behaviour.
LEMMA ExecutionsAlways == Spec => []EInv
<1>1. Init => IInv /\ EInv
  <2> SUFFICES ASSUME Init PROVE IInv /\ EInv
    OBVIOUS
  <2>1. IInv
    BY InitInv
  <2>2. RenewInv /\ KnownInv
    BY DEF Init, RenewInv, RenewOK, KnownInv, IdleSession
  <2>3. RenewingHasExecution /\ NoOrphanExecutions
    BY DEF Init, RenewingHasExecution, NoOrphanExecutions, NilRow, NoExec
  <2> QED BY <2>1, <2>2, <2>3 DEF EInv
<1> QED
  BY <1>1, InProgressStep, ExecutionStep, PTL DEF Spec

\* In every behaviour a row shown as renewing has a RUNNING renew execution, although
\* resets read one status and write over another (cancel_renewal,
\* mark_stale_renewal_failed, renew_certificate).
THEOREM RenewingAlwaysHasExecution == Spec => []RenewingHasExecution
<1>1. EInv => RenewingHasExecution
  BY DEF EInv
<1> QED BY <1>1, ExecutionsAlways, PTL

\* In every behaviour an execution's certificate is there, whatever was in flight when
\* it was deleted (delete_certificate, which cascades to job_executions).
THEOREM NoExecutionIsOrphaned == Spec => []NoOrphanExecutions
<1>1. EInv => NoOrphanExecutions
  BY DEF EInv
<1> QED BY <1>1, ExecutionsAlways, PTL
=============================================================================
