------------------------- MODULE RegistrationProofs -------------------------
(***************************************************************************)
(* Proofs about Registration, for any number of accounts, codes, requests, *)
(* attempts, failed commits and faults.                                    *)
(***************************************************************************)
EXTENDS Registration, FiniteSetTheorems, TLAPS

-----------------------------------------------------------------------------
(* The inductive invariant.                                                *)

\* The codes issued so far are the first ones: a new one is newer than all.
IssuedAreFirst == \A c \in Issued, d \in CodeIds : d < c => d \in Issued

\* A transaction that issues a code touches rows of its own account only.
IssuesTouchOwn ==
    \A q \in Requests : req[q].pc = "in issue" =>
        req[q].todo \cup req[q].locked \subseteq CodesOf(req[q].email)

\* A code about to be accepted is the account's own.
AcceptsOwn ==
    \A q \in Requests : req[q].pc = "accept" =>
        code[req[q].code].owner = req[q].email

IInv ==
    /\ TypeOK
    /\ IssuedAreFirst
    /\ IssuesTouchOwn
    /\ AcceptsOwn
    /\ ApprovedByOwnCode
    /\ RevokedWasReplaced

-----------------------------------------------------------------------------
(* What a request in progress looks like.                                  *)

LEMMA RequestTypes ==
  ASSUME NEW r \in RequestState
  PROVE  /\ r.pc \in {"idle", "insert user", "issue", "in issue", "accept"}
         /\ r.pc = "idle" => r = Idle
         /\ r.pc # "idle" => r.email \in Emails
         /\ r.pc = "in issue" => /\ r.todo \in SUBSET CodeIds
                                 /\ r.locked \in SUBSET CodeIds
                                 /\ r.tries \in 0 .. Tries - 1
         /\ r.pc = "accept" => r.code \in CodeIds
  BY DEF RequestState, Idle

LEMMA RequestStates ==
  /\ Idle \in RequestState
  /\ \A e \in Emails : Inserting(e) \in RequestState /\ Issuing(e) \in RequestState
  /\ \A e \in Emails, todo \in SUBSET CodeIds, locked \in SUBSET CodeIds,
        tries \in 0 .. Tries - 1 : InIssue(e, todo, locked, tries) \in RequestState
  /\ \A e \in Emails, c \in CodeIds : Accepting(e, c) \in RequestState
  <1>1. Idle \in RequestState
    BY DEF Idle, RequestState
  <1>2. \A e \in Emails : Inserting(e) \in RequestState /\ Issuing(e) \in RequestState
    BY DEF Inserting, Issuing, RequestState
  <1>3. \A e \in Emails, todo \in SUBSET CodeIds, locked \in SUBSET CodeIds,
          tries \in 0 .. Tries - 1 : InIssue(e, todo, locked, tries) \in RequestState
    BY DEF InIssue, RequestState
  <1>4. \A e \in Emails, c \in CodeIds : Accepting(e, c) \in RequestState
    BY DEF Accepting, RequestState
  <1> QED
    BY <1>1, <1>2, <1>3, <1>4

\* Only three steps write users or registration_codes.
LEMMA Writers ==
  ASSUME [Next]_vars
  PROVE  \/ \E q \in Requests : RegisterInsert(q) \/ IssueCommit(q) \/ VerifyCommit(q)
         \/ \E c \in CodeIds : Expire(c)
         \/ UNCHANGED <<account, code>>
  BY DEF Next, Progress, RegisterRead, ResendRead, VerifyRead, VerifyRefused,
     RegisterConflict, RevokeStart, RevokeRow, IssueRollback, Killed, Deliver,
     DeliveryFails, vars

\* Locking the first row moves it from todo to locked, or drops it.
LEMMA RowStep ==
  ASSUME TypeOK, NEW q \in Requests, RevokeRow(q)
  PROVE  /\ req'[q].pc = "in issue" /\ req'[q].email = req[q].email
         /\ \E c \in req[q].todo :
              /\ \A d \in req[q].todo : c <= d
              /\ req'[q].todo = req[q].todo \ {c}
              /\ req'[q].locked \subseteq req[q].locked \cup {c}
  <1>1. PICK c \in req[q].todo :
          /\ \A d \in req[q].todo : c <= d
          /\ req' = [req EXCEPT ![q].todo = @ \ {c},
                                ![q].locked = IF Active(code[c]) THEN @ \cup {c} ELSE @]
    BY DEF RevokeRow
  <1>2. req[q] \in RequestState /\ req[q].pc = "in issue"
    BY DEF RevokeRow, TypeOK
  <1>3. PICK locked :
          /\ locked \subseteq req[q].locked \cup {c}
          /\ req'[q] = [req[q] EXCEPT !.todo = req[q].todo \ {c}, !.locked = locked]
    <2>1. CASE Active(code[c])
      <3> WITNESS req[q].locked \cup {c}
      <3> QED
        BY <1>1, <2>1 DEF TypeOK
    <2>2. CASE ~Active(code[c])
      <3> WITNESS req[q].locked
      <3> QED
        BY <1>1, <2>2 DEF TypeOK
    <2> QED
      BY <2>1, <2>2
  <1>4. /\ req'[q].pc = req[q].pc /\ req'[q].email = req[q].email
        /\ req'[q].todo = req[q].todo \ {c} /\ req'[q].locked = locked
    BY <1>2, <1>3 DEF RequestState
  <1> QED
    BY <1>1, <1>2, <1>3, <1>4

\* A request changes by its own steps only, to what they make of it.
LEMMA RequestChanges ==
  ASSUME TypeOK, [Next]_vars, NEW q \in Requests
  PROVE  \/ req'[q] = req[q]
         \/ req'[q] = Idle
         \/ \E e \in Emails : req'[q] \in {Inserting(e), Issuing(e)}
         \/ RevokeStart(q)
         \/ RevokeRow(q)
         \/ IssueRollback(q)
         \/ \E e \in Emails, c \in CodeIds : VerifyRead(q, e, c)
  <1> USE DEF TypeOK
  <1> DEFINE Own(p) == \/ \E e \in Emails : RegisterRead(p, e) \/ ResendRead(p, e)
                       \/ \E e \in Emails, c \in CodeIds : VerifyRead(p, e, c)
                       \/ Progress(p) \/ Killed(p)
  <1>1. ASSUME NEW p \in Requests, Own(p), p # q
        PROVE  req'[q] = req[q]
    BY <1>1 DEF RegisterRead, ResendRead, VerifyRead, Progress, RegisterInsert,
       RegisterConflict, RevokeStart, RevokeRow, IssueCommit, IssueRollback,
       VerifyCommit, Killed
  <1>2. (\A p \in Requests : ~Own(p)) => req' = req
    BY DEF Next, VerifyRefused, Deliver, DeliveryFails, Expire, vars
  <1>3. ASSUME RegisterInsert(q)
        PROVE  \E e \in Emails : req'[q] = Issuing(e)
    BY <1>3, RequestTypes DEF RegisterInsert
  <1>4. CASE Own(q)
    <2> HIDE DEF TypeOK
    <2>1. req \in [Requests -> RequestState]
      BY DEF TypeOK
    <2>2. QED
      BY <1>3, <1>4, <2>1 DEF RegisterRead, ResendRead, Progress, RegisterConflict,
         IssueCommit, VerifyCommit, Killed
  <1>5. QED
    BY <1>1, <1>2, <1>4

-----------------------------------------------------------------------------
(* IInv is inductive.                                                      *)

LEMMA InitIInv == ASSUME Init PROVE IInv
  <1>1. TypeOK
    BY ConstantsAssumption DEF Init, TypeOK, CodeRow, NoCode, RequestState, Idle
  <1>2. Issued = {}
    BY DEF Init, Issued, NoCode
  <1>3. \A e \in Emails : CodesOf(e) = {}
    BY ConstantsAssumption DEF Init, CodesOf, NoCode
  <1>4. \A q \in Requests : req[q].pc = "idle"
    BY DEF Init, Idle
  <1> QED
    BY <1>1, <1>2, <1>3, <1>4 DEF Init, IInv, IssuedAreFirst, IssuesTouchOwn, AcceptsOwn,
       ApprovedByOwnCode, RevokedWasReplaced

LEMMA TypeStep == ASSUME TypeOK, [Next]_vars PROVE TypeOK'
  <1> USE DEF TypeOK
  <1>1. req' \in [Requests -> RequestState]
    <2>1. ASSUME NEW q \in Requests PROVE req'[q] \in RequestState
      <3>1. CASE req'[q] = req[q] \/ req'[q] = Idle
                   \/ \E e \in Emails : req'[q] \in {Inserting(e), Issuing(e)}
        BY <3>1, RequestStates
      <3>2. CASE RevokeStart(q)
        <4>1. req[q].email \in Emails
          BY <3>2, RequestTypes DEF RevokeStart
        <4>2. 0 \in 0 .. Tries - 1
          BY ConstantsAssumption
        <4> DEFINE rows == {c \in CodesOf(req[q].email) : Active(code[c])}
        <4>3. rows \in SUBSET CodeIds
          BY DEF CodesOf
        <4>4. req'[q] = InIssue(req[q].email, rows, {}, 0)
          BY <3>2 DEF RevokeStart
        <4> HIDE DEF rows
        <4> QED
          BY <4>1, <4>2, <4>3, <4>4, RequestStates
      <3>3. CASE RevokeRow(q)
        <4>1. PICK c \in req[q].todo :
                req' = [req EXCEPT ![q].todo = @ \ {c},
                           ![q].locked = IF Active(code[c]) THEN @ \cup {c} ELSE @]
          BY <3>3 DEF RevokeRow
        <4>2. /\ req[q] \in RequestState /\ req[q].pc = "in issue"
              /\ c \in CodeIds
          BY <3>3, RequestTypes DEF RevokeRow
        <4>3. PICK locked \in SUBSET CodeIds :
                req'[q] = [req[q] EXCEPT !.todo = req[q].todo \ {c}, !.locked = locked]
          BY <4>1, <4>2, RequestTypes
        <4>4. PICK e \in Emails, rows \in SUBSET CodeIds, held \in SUBSET CodeIds,
                   n \in 0 .. Tries - 1 : req[q] = InIssue(e, rows, held, n)
          BY <4>2 DEF RequestState, InIssue
        <4>5. req[q].todo = rows
          <5>1. InIssue(e, rows, held, n).todo = rows
            BY DEF InIssue
          <5> QED
            BY <4>4, <5>1
        <4>6. req'[q] = [InIssue(e, rows, held, n) EXCEPT !.todo = rows \ {c},
                                                          !.locked = locked]
          BY <4>3, <4>4, <4>5
        <4>7. req'[q] = InIssue(e, rows \ {c}, locked, n)
          BY <4>6 DEF InIssue
        <4> QED
          BY <4>7, RequestStates
      <3>4. CASE IssueRollback(q)
        <4>1. req[q].email \in Emails /\ req[q].tries \in 0 .. Tries - 1
          BY <3>4, RequestTypes DEF IssueRollback
        <4>2. req[q].tries + 1 < Tries => req[q].tries + 1 \in 0 .. Tries - 1
          BY <4>1, ConstantsAssumption
        <4>3. req'[q] = IF req[q].tries + 1 < Tries
                          THEN InIssue(req[q].email, {}, {}, req[q].tries + 1) ELSE Idle
          BY <3>4 DEF IssueRollback
        <4> QED
          BY <4>1, <4>2, <4>3, RequestStates
      <3>5. ASSUME NEW e \in Emails, NEW c \in CodeIds, VerifyRead(q, e, c)
            PROVE  req'[q] \in RequestState
        BY <3>5, RequestStates DEF VerifyRead
      <3> QED
        BY <3>1, <3>2, <3>3, <3>4, <3>5, RequestChanges
    <2>2. req' = [q \in Requests |-> req'[q]]
      BY DEF Next, RegisterRead, ResendRead, VerifyRead, VerifyRefused, Progress,
         RegisterInsert, RegisterConflict, RevokeStart, RevokeRow, IssueCommit,
         IssueRollback, VerifyCommit, Killed, Deliver, DeliveryFails, Expire, vars
    <2> QED
      BY <2>1, <2>2
  <1>2. account' \in [Emails -> {"none", "pending", "approved"}]
    <2>1. ASSUME NEW q \in Requests, RegisterInsert(q) \/ VerifyCommit(q)
          PROVE  account' \in [Emails -> {"none", "pending", "approved"}]
      BY <2>1 DEF RegisterInsert, VerifyCommit
    <2> QED
      BY <2>1, Writers DEF IssueCommit, Expire
  <1>3. code' \in [CodeIds -> CodeRow]
    <2>1. ASSUME NEW q \in Requests, IssueCommit(q)
          PROVE  code' \in [CodeIds -> CodeRow]
      <3>1. req[q].email \in Emails
        BY <2>1, RequestTypes DEF IssueCommit
      <3>2. [NoCode EXCEPT !.owner = req[q].email] \in CodeRow
        BY <3>1 DEF CodeRow, NoCode
      <3>3. \A c \in CodeIds :
              [code[c] EXCEPT !.revoked = @ \/ c \in req[q].locked] \in CodeRow
        BY DEF CodeRow
      <3> QED
        BY <2>1, <3>2, <3>3 DEF IssueCommit
    <2>2. ASSUME NEW q \in Requests, VerifyCommit(q)
          PROVE  code' \in [CodeIds -> CodeRow]
      BY <2>2 DEF VerifyCommit, CodeRow
    <2>3. ASSUME NEW c \in CodeIds, Expire(c)
          PROVE  code' \in [CodeIds -> CodeRow]
      BY <2>3 DEF Expire, CodeRow
    <2> QED
      BY <2>1, <2>2, <2>3, Writers DEF RegisterInsert
  <1>4. outbox' \subseteq CodeIds /\ mailbox' \subseteq CodeIds
    BY DEF Next, RegisterRead, ResendRead, VerifyRead, VerifyRefused, Progress,
       RegisterInsert, RegisterConflict, RevokeStart, RevokeRow, IssueCommit,
       IssueRollback, VerifyCommit, Killed, Deliver, DeliveryFails, Expire, vars
  <1>5. rollbacks' \in 0..MaxRollbacks /\ faults' \in 0..MaxFaults
    <2>1. \/ UNCHANGED rollbacks
          \/ rollbacks < MaxRollbacks /\ rollbacks' = rollbacks + 1
      BY DEF Next, RegisterRead, ResendRead, VerifyRead, VerifyRefused, Progress,
         RegisterInsert, RegisterConflict, RevokeStart, RevokeRow, IssueCommit,
         IssueRollback, VerifyCommit, Killed, Deliver, DeliveryFails, Expire, vars
    <2>2. UNCHANGED faults \/ (faults < MaxFaults /\ faults' = faults + 1)
      BY DEF Next, RegisterRead, ResendRead, VerifyRead, VerifyRefused, Progress,
         RegisterInsert, RegisterConflict, RevokeStart, RevokeRow, IssueCommit,
         IssueRollback, VerifyCommit, Killed, Deliver, DeliveryFails, Expire, vars
    <2> QED
      BY <2>1, <2>2, ConstantsAssumption
  <1> QED
    BY <1>1, <1>2, <1>3, <1>4, <1>5

\* The code that is issued.
LEMMA NewCode ==
  ASSUME IInv, NEW q \in Requests, IssueCommit(q)
  PROVE  \E new \in CodeIds \ Issued :
           /\ \A c \in Issued : c < new
           /\ \A c \in CodeIds \ Issued : new <= c
           /\ Issued' = Issued \cup {new}
           /\ code'[new] = [NoCode EXCEPT !.owner = req[q].email]
           /\ \A c \in CodeIds \ {new} :
                code'[c] = [code[c] EXCEPT !.revoked = @ \/ c \in req[q].locked]
  <1> USE DEF IInv, TypeOK
  <1>1. PICK new \in CodeIds \ Issued :
          /\ \A c \in CodeIds \ Issued : new <= c
          /\ code' = [c \in CodeIds |->
                        IF c = new
                          THEN [NoCode EXCEPT !.owner = req[q].email]
                          ELSE [code[c] EXCEPT !.revoked = @ \/ c \in req[q].locked]]
    BY DEF IssueCommit
  <1>2. \A c \in Issued : c < new
    <2> HIDE DEF IInv, TypeOK
    <2>1. CodeIds \subseteq Int /\ Issued \subseteq CodeIds
      BY ConstantsAssumption DEF Issued
    <2>2. \A c \in Issued : new < c => new \in Issued
      BY <1>1 DEF IInv, IssuedAreFirst
    <2> QED
      BY <1>1, <2>1, <2>2
  <1>3. req[q].email \in Emails
    BY RequestTypes DEF IssueCommit
  <1>4. code'[new] = [NoCode EXCEPT !.owner = req[q].email]
    BY <1>1
  <1>5. code'[new].owner # NoOne
    BY <1>3, <1>4, ConstantsAssumption DEF NoCode
  <1>6. \A c \in CodeIds \ {new} :
          /\ code'[c] = [code[c] EXCEPT !.revoked = @ \/ c \in req[q].locked]
          /\ code'[c].owner = code[c].owner
    BY <1>1 DEF CodeRow
  <1>7. Issued' = Issued \cup {new}
    BY <1>5, <1>6 DEF Issued
  <1> QED
    BY <1>1, <1>2, <1>4, <1>6, <1>7

\* Each row keeps its owner once it has one, and its flags once they are set.
LEMMA RowsKeep ==
  ASSUME IInv, [Next]_vars, NEW c \in Issued
  PROVE  /\ c \in Issued'
         /\ code'[c].owner = code[c].owner
         /\ code[c].used => code'[c].used
         /\ code[c].revoked => code'[c].revoked
  <1> USE DEF IInv, TypeOK, Issued
  <1>1. ASSUME NEW q \in Requests, IssueCommit(q)
        PROVE  /\ code'[c].owner = code[c].owner
               /\ code[c].used => code'[c].used
               /\ code[c].revoked => code'[c].revoked
    <2>1. PICK new \in CodeIds \ Issued :
            \A d \in CodeIds \ {new} :
              code'[d] = [code[d] EXCEPT !.revoked = @ \/ d \in req[q].locked]
      BY <1>1, NewCode
    <2>2. code[c] \in CodeRow /\ c # new
      BY <2>1
    <2>3. code'[c] = [code[c] EXCEPT !.revoked = @ \/ c \in req[q].locked]
      BY <2>1, <2>2
    <2> QED
      BY <2>2, <2>3 DEF CodeRow
  <1>2. ASSUME NEW q \in Requests, VerifyCommit(q)
        PROVE  /\ code'[c].owner = code[c].owner
               /\ code[c].used => code'[c].used
               /\ code[c].revoked => code'[c].revoked
    BY <1>2, RequestTypes DEF VerifyCommit, CodeRow
  <1>3. ASSUME NEW d \in CodeIds, Expire(d)
        PROVE  /\ code'[c].owner = code[c].owner
               /\ code[c].used => code'[c].used
               /\ code[c].revoked => code'[c].revoked
    BY <1>3 DEF Expire, CodeRow
  <1> QED
    BY <1>1, <1>2, <1>3, Writers DEF RegisterInsert

\* Each step keeps each conjunct of the invariant.
LEMMA NextIInv == ASSUME IInv, [Next]_vars PROVE IInv'
  <1>1. TypeOK'
    BY TypeStep DEF IInv
  <1>2. IssuedAreFirst'
    <2>1. ASSUME NEW q \in Requests, IssueCommit(q)
          PROVE  IssuedAreFirst'
      <3>1. PICK new \in CodeIds \ Issued :
              /\ \A c \in CodeIds \ Issued : new <= c
              /\ Issued' = Issued \cup {new}
        BY <2>1, NewCode
      <3>2. CodeIds \subseteq Int
        BY ConstantsAssumption
      <3>3. \A c \in Issued, d \in CodeIds : d < c => d \in Issued
        BY DEF IssuedAreFirst, IInv
      <3>4. \A d \in CodeIds : d < new => d \in Issued
        BY <3>1, <3>2
      <3> HIDE DEF IInv
      <3>5. \A c \in Issued', d \in CodeIds : d < c => d \in Issued'
        BY <3>1, <3>3, <3>4
      <3> QED
        BY <3>5 DEF IssuedAreFirst
    <2>2. CASE Issued' = Issued
      BY <2>2 DEF IssuedAreFirst, IInv
    <2>3. ASSUME NEW q \in Requests, VerifyCommit(q)
          PROVE  Issued' = Issued
      BY <2>3, RequestTypes DEF VerifyCommit, Issued, IInv, TypeOK, CodeRow
    <2>4. ASSUME NEW c \in CodeIds, Expire(c)
          PROVE  Issued' = Issued
      BY <2>4 DEF Expire, Issued, IInv, TypeOK, CodeRow
    <2> QED
      BY <2>1, <2>2, <2>3, <2>4, Writers DEF RegisterInsert, Issued
  <1>3. IssuesTouchOwn'
    <2> SUFFICES ASSUME NEW q \in Requests, req'[q].pc = "in issue",
                        NEW c \in req'[q].todo \cup req'[q].locked
                 PROVE  c \in CodeIds /\ code'[c].owner = req'[q].email
      BY DEF IssuesTouchOwn, CodesOf
    <2>1. ASSUME c \in CodesOf(req'[q].email), req'[q].email \in Emails
          PROVE  c \in CodeIds /\ code'[c].owner = req'[q].email
      <3>1. c \in Issued
        BY <2>1, ConstantsAssumption DEF CodesOf, Issued
      <3> QED
        BY <2>1, <3>1, RowsKeep DEF CodesOf
    <2>2. req'[q] \in RequestState
      BY <1>1 DEF TypeOK
    <2>3. req'[q].email \in Emails
      BY <2>2, RequestTypes
    <2>4. c \in CodesOf(req'[q].email)
      <3>1. CASE req'[q] = req[q]
        BY <3>1 DEF IInv, IssuesTouchOwn
      <3>2. CASE RevokeStart(q)
        BY <3>2 DEF RevokeStart, InIssue, IInv, TypeOK
      <3>3. CASE RevokeRow(q)
        BY <3>3, RowStep DEF IInv, IssuesTouchOwn, RevokeRow
      <3>4. CASE IssueRollback(q)
        BY <3>4 DEF IssueRollback, InIssue, Idle, IInv, TypeOK
      <3>5. ASSUME NEW e \in Emails, NEW d \in CodeIds, VerifyRead(q, e, d)
            PROVE  FALSE
        BY <3>5 DEF VerifyRead, Accepting, IInv, TypeOK
      <3>6. Idle.pc # "in issue" /\ \A e \in Emails : /\ Inserting(e).pc # "in issue"
                                                       /\ Issuing(e).pc # "in issue"
        BY DEF Idle, Inserting, Issuing
      <3> QED
        BY <3>1, <3>2, <3>3, <3>4, <3>5, <3>6, RequestChanges DEF IInv
    <2> QED
      BY <2>1, <2>3, <2>4
  <1>4. AcceptsOwn'
    <2> SUFFICES ASSUME NEW q \in Requests, req'[q].pc = "accept"
                 PROVE  code'[req'[q].code].owner = req'[q].email
      BY DEF AcceptsOwn
    <2>1. /\ req'[q].code \in CodeIds /\ req'[q].email \in Emails
      BY <1>1, RequestTypes DEF TypeOK
    <2>2. code[req'[q].code].owner = req'[q].email
      <3>1. CASE req'[q] = req[q]
        BY <3>1 DEF IInv, AcceptsOwn
      <3>2. CASE RevokeStart(q)
        BY <3>2 DEF RevokeStart, InIssue, IInv, TypeOK
      <3>3. CASE RevokeRow(q)
        BY <3>3, RowStep DEF IInv
      <3>4. CASE IssueRollback(q)
        BY <3>4 DEF IssueRollback, InIssue, Idle, IInv, TypeOK
      <3>5. ASSUME NEW e \in Emails, NEW d \in CodeIds, VerifyRead(q, e, d)
            PROVE  code[req'[q].code].owner = req'[q].email
        BY <3>5 DEF VerifyRead, Accepting, IInv, TypeOK
      <3>6. Idle.pc # "accept" /\ \A e \in Emails : /\ Inserting(e).pc # "accept"
                                                     /\ Issuing(e).pc # "accept"
        BY DEF Idle, Inserting, Issuing
      <3> QED
        BY <3>1, <3>2, <3>3, <3>4, <3>5, <3>6, RequestChanges DEF IInv
    <2>3. req'[q].code \in Issued
      BY <2>1, <2>2, ConstantsAssumption DEF Issued
    <2> QED
      BY <2>2, <2>3, RowsKeep
  <1>5. ApprovedByOwnCode'
    <2> SUFFICES ASSUME NEW e \in Emails \ Legacy
                 PROVE  account'[e] = "approved"
                          <=> \E c \in CodeIds : code'[c].owner = e /\ code'[c].used
      BY DEF ApprovedByOwnCode, CodesOf
    <2> USE DEF IInv, TypeOK
    <2>1. account[e] = "approved"
            <=> \E c \in CodeIds : code[c].owner = e /\ code[c].used
      BY DEF ApprovedByOwnCode, CodesOf
    <2>2. ASSUME NEW q \in Requests, RegisterInsert(q)
          PROVE  account'[e] = "approved" <=> account[e] = "approved"
      BY <2>2, RequestTypes DEF RegisterInsert
    <2>3. ASSUME NEW q \in Requests, IssueCommit(q)
          PROVE  \A c \in CodeIds : code'[c].owner = e /\ code'[c].used
                                      <=> code[c].owner = e /\ code[c].used
      <3>1. PICK new \in CodeIds \ Issued :
              /\ code'[new] = [NoCode EXCEPT !.owner = req[q].email]
              /\ \A c \in CodeIds \ {new} :
                   code'[c] = [code[c] EXCEPT !.revoked = @ \/ c \in req[q].locked]
        BY <2>3, NewCode
      <3>2. ~code'[new].used /\ code[new].owner # e
        BY <3>1, ConstantsAssumption DEF NoCode, Issued
      <3>3. \A c \in CodeIds \ {new} : /\ code'[c].owner = code[c].owner
                                       /\ code'[c].used = code[c].used
        <4> SUFFICES ASSUME NEW c \in CodeIds \ {new}
                     PROVE  code'[c].owner = code[c].owner /\ code'[c].used = code[c].used
          OBVIOUS
        <4>1. code[c] \in CodeRow
          OBVIOUS
        <4>2. code'[c] = [code[c] EXCEPT !.revoked = @ \/ c \in req[q].locked]
          BY <3>1
        <4> QED
          BY <4>1, <4>2 DEF CodeRow
      <3> QED
        BY <3>2, <3>3
    <2>4. ASSUME NEW q \in Requests, VerifyCommit(q)
          PROVE  account'[e] = "approved"
                   <=> \E c \in CodeIds : code'[c].owner = e /\ code'[c].used
      <3> DEFINE d == req[q].code
      <3>1. d \in CodeIds /\ req[q].email \in Emails /\ code[d].owner = req[q].email
        BY <2>4, RequestTypes DEF VerifyCommit, AcceptsOwn
      <3>2. /\ code'[d].owner = code[d].owner /\ code'[d].used
            /\ \A c \in CodeIds \ {d} : code'[c] = code[c]
        BY <2>4, <3>1 DEF VerifyCommit, CodeRow
      <3>3. account'[req[q].email] = "approved"
            /\ (e # req[q].email => account'[e] = account[e])
        BY <2>4, <3>1 DEF VerifyCommit
      <3> HIDE DEF d
      <3>4. CASE e = req[q].email
        BY <3>1, <3>2, <3>3, <3>4
      <3>5. CASE e # req[q].email
        BY <2>1, <3>1, <3>2, <3>3, <3>5
      <3> QED
        BY <3>4, <3>5
    <2>5. ASSUME NEW d \in CodeIds, Expire(d)
          PROVE  \A c \in CodeIds : /\ code'[c].owner = code[c].owner
                                    /\ code'[c].used = code[c].used
      BY <2>5 DEF Expire, CodeRow
    <2> QED
      BY <2>1, <2>2, <2>3, <2>4, <2>5, Writers DEF RegisterInsert, IssueCommit, Expire
  <1>6. RevokedWasReplaced'
    <2> SUFFICES ASSUME NEW c \in Issued', code'[c].revoked
                 PROVE  \E d \in CodeIds : code'[d].owner = code'[c].owner /\ d > c
      BY DEF RevokedWasReplaced, CodesOf
    <2> USE DEF IInv, TypeOK
    <2>1. ASSUME c \in Issued, code[c].revoked
          PROVE  \E d \in CodeIds : code'[d].owner = code'[c].owner /\ d > c
      <3>1. PICK d \in CodeIds : code[d].owner = code[c].owner /\ d > c
        BY <2>1 DEF RevokedWasReplaced, CodesOf
      <3>2. d \in Issued
        BY <2>1, <3>1 DEF Issued
      <3> QED
        BY <2>1, <3>1, <3>2, RowsKeep
    <2>2. ASSUME NEW q \in Requests, IssueCommit(q), ~(c \in Issued /\ code[c].revoked)
          PROVE  \E d \in CodeIds : code'[d].owner = code'[c].owner /\ d > c
      <3>1. PICK new \in CodeIds \ Issued :
              /\ \A d \in Issued : d < new
              /\ Issued' = Issued \cup {new}
              /\ code'[new] = [NoCode EXCEPT !.owner = req[q].email]
              /\ \A d \in CodeIds \ {new} :
                   code'[d] = [code[d] EXCEPT !.revoked = @ \/ d \in req[q].locked]
        BY <2>2, NewCode
      <3>2. code'[new].owner = req[q].email /\ ~code'[new].revoked
        BY <3>1 DEF NoCode
      <3>3. c # new /\ c \in Issued /\ c \in CodeIds
        BY <3>1, <3>2 DEF Issued
      <3>4. code'[c] = [code[c] EXCEPT !.revoked = @ \/ c \in req[q].locked]
        BY <3>1, <3>3
      <3>5. c \in req[q].locked /\ code'[c].owner = code[c].owner
        BY <2>2, <3>3, <3>4 DEF CodeRow
      <3>6. code[c].owner = req[q].email
        BY <2>2, <3>5 DEF IssueCommit, IssuesTouchOwn, CodesOf
      <3>7. new > c
        BY <3>1, <3>3, ConstantsAssumption
      <3> QED
        BY <3>1, <3>2, <3>5, <3>6, <3>7
    <2>3. ASSUME NEW q \in Requests, VerifyCommit(q)
          PROVE  c \in Issued /\ code[c].revoked
      BY <2>3, RequestTypes DEF VerifyCommit, CodeRow, Issued
    <2>4. ASSUME NEW d \in CodeIds, Expire(d)
          PROVE  c \in Issued /\ code[c].revoked
      BY <2>4 DEF Expire, CodeRow, Issued
    <2> QED
      BY <2>1, <2>2, <2>3, <2>4, Writers DEF RegisterInsert, Issued
  <1> QED
    BY <1>1, <1>2, <1>3, <1>4, <1>5, <1>6 DEF IInv

LEMMA Invariant == Spec => []IInv
  BY InitIInv, NextIInv, PTL DEF Spec

-----------------------------------------------------------------------------
(* The order of the locks.                                                 *)

LEMMA Order ==
  ASSUME NEW a \in Nat, NEW b \in Nat
  PROVE  /\ a <= b /\ a # b => a < b
         /\ ~(a < a)
         /\ \A c \in Nat : a < b /\ b < c => a < c
  OBVIOUS

LEMMA LocksInOrderStep ==
  ASSUME TypeOK, LocksInOrder, [Next]_vars
  PROVE  LocksInOrder'
  <1> SUFFICES ASSUME NEW q \in Requests, req'[q].pc = "in issue",
                      NEW held \in req'[q].locked, NEW row \in req'[q].todo
               PROVE  held < row
    BY DEF LocksInOrder
  <1>1. CASE req'[q] = req[q]
    BY <1>1 DEF LocksInOrder
  <1>2. CASE RevokeStart(q)
    <2>1. req'[q].locked = {}
      BY <1>2 DEF RevokeStart, TypeOK, InIssue
    <2> QED
      BY <2>1
  <1>3. CASE RevokeRow(q)
    <2>1. PICK c \in req[q].todo :
            /\ \A d \in req[q].todo : c <= d
            /\ req'[q].todo = req[q].todo \ {c}
            /\ req'[q].locked \subseteq req[q].locked \cup {c}
      BY <1>3, RowStep
    <2>2. req[q].pc = "in issue" /\ req[q].todo \subseteq CodeIds /\ CodeIds \subseteq Nat
      BY <1>3, RequestTypes, ConstantsAssumption DEF RevokeRow, TypeOK
    <2>3. row \in req[q].todo /\ row # c /\ c <= row
      BY <2>1
    <2>4. CASE held = c
      <3>1. c \in Nat /\ row \in Nat
        BY <2>2, <2>3
      <3> QED
        BY <2>3, <2>4, <3>1, Order
    <2>5. CASE held \in req[q].locked
      BY <2>2, <2>3, <2>5 DEF LocksInOrder
    <2> QED
      BY <2>1, <2>4, <2>5
  <1>4. CASE IssueRollback(q)
    <2>1. req'[q].locked = {}
      BY <1>4 DEF IssueRollback, TypeOK, InIssue, Idle
    <2> QED
      BY <2>1
  <1>5. CASE \E e \in Emails, c \in CodeIds : VerifyRead(q, e, c)
    BY <1>5 DEF VerifyRead, TypeOK, Accepting
  <1>6. CASE req'[q] = Idle
    BY <1>6 DEF Idle
  <1>7. CASE \E e \in Emails : req'[q] \in {Inserting(e), Issuing(e)}
    <2>1. \A e : Inserting(e).pc # "in issue" /\ Issuing(e).pc # "in issue"
      BY DEF Inserting, Issuing
    <2> QED
      BY <1>7, <2>1
  <1> QED
    BY <1>1, <1>2, <1>3, <1>4, <1>5, <1>6, <1>7, RequestChanges

\* If each of some requests waited for another of them, the first row that it
\* needs would be before the other's, and so on for ever; they are finitely many.
LEMMA OrderPreventsDeadlock == ASSUME TypeOK, LocksInOrder PROVE NoDeadlock
  <1> SUFFICES ASSUME NEW S \in SUBSET Requests, S # {},
                      \A q \in S : \E p \in S : WaitsFor(q, p)
               PROVE  FALSE
    BY DEF NoDeadlock
  <1> DEFINE T == {q \in S : req[q].pc = "in issue"}
             IsFirst(q, c) == c \in req[q].todo /\ \A d \in req[q].todo : c <= d
  <1>1. T # {}
    BY DEF WaitsFor
  <1>2. ASSUME NEW q \in T
        PROVE  \E c \in Nat, p \in T : IsFirst(q, c) /\ c \in req[p].locked
    <2>1. PICK p \in S : WaitsFor(q, p)
      OBVIOUS
    <2>2. PICK c \in req[p].locked : IsFirst(q, c)
      BY <2>1 DEF WaitsFor
    <2>3. req[q].todo \subseteq CodeIds /\ CodeIds \subseteq Nat
      BY RequestTypes, ConstantsAssumption DEF TypeOK
    <2>4. p \in T
      BY <2>1 DEF WaitsFor
    <2> QED
      BY <2>2, <2>3, <2>4
  <1> DEFINE first == [q \in T |-> CHOOSE c \in Nat :
                         \E p \in T : IsFirst(q, c) /\ c \in req[p].locked]
             Above(q) == {p \in T : first[q] < first[p]}
             Aboves == {Above(q) : q \in T}
  <1>21. ASSUME NEW q \in T
         PROVE  /\ first[q] \in Nat
                /\ \E p \in T : IsFirst(q, first[q]) /\ first[q] \in req[p].locked
    BY <1>2
  <1> HIDE DEF first
  <1>3. ASSUME NEW q \in T PROVE \E p \in T : first[q] < first[p]
    <2>1. PICK p \in T : first[q] \in req[p].locked
      BY <1>21
    <2>2. first[p] \in req[p].todo
      BY <1>21
    <2> QED
      BY <2>1, <2>2 DEF LocksInOrder
  <1>4. Aboves \subseteq FiniteSubsetsOf(Requests) /\ Aboves # {}
    <2>1. IsFiniteSet(Requests)
      BY ConstantsAssumption
    <2>2. FiniteSubsetsOf(Requests) = SUBSET Requests
      BY <2>1, FS_FiniteSubsetsOfFinite
    <2>3. Aboves \subseteq SUBSET Requests
      OBVIOUS
    <2>4. Aboves # {}
      <3> HIDE DEF T
      <3> QED
        BY <1>1
    <2> HIDE DEF Aboves
    <2> QED
      BY <2>2, <2>3, <2>4
  <1>5. \E A \in Aboves : \A B \in Aboves : <<B, A>> \notin StrictSubsetOrdering(Requests)
    <2> HIDE DEF Aboves
    <2>1. IsWellFoundedOn(StrictSubsetOrdering(Requests), FiniteSubsetsOf(Requests))
      BY FS_StrictSubsetOrderingWellFounded
    <2> QED
      BY <1>4, <2>1, WFMin
  <1>6. PICK q \in T : \A p \in T : <<Above(p), Above(q)>> \notin StrictSubsetOrdering(Requests)
    BY <1>5
  <1>7. PICK p \in T : first[q] < first[p]
    BY <1>3
  <1>8. Above(p) \subseteq Above(q)
    <2> SUFFICES ASSUME NEW o \in Above(p) PROVE o \in Above(q)
      OBVIOUS
    <2>1. first[q] \in Nat /\ first[p] \in Nat /\ first[o] \in Nat
      BY <1>21
    <2> QED
      BY <1>7, <2>1, Order
  <1>9. p \in Above(q) /\ p \notin Above(p)
    <2>1. first[p] \in Nat
      BY <1>21
    <2> QED
      BY <1>7, <2>1, Order
  <1>10. <<Above(p), Above(q)>> \in StrictSubsetOrdering(Requests)
    <2>1. Above(p) \in SUBSET Requests /\ Above(q) \in SUBSET Requests
      OBVIOUS
    <2> HIDE DEF Above
    <2> QED
      BY <1>8, <1>9, <2>1 DEF StrictSubsetOrdering
  <1> QED
    BY <1>6, <1>10

-----------------------------------------------------------------------------
(* Theorems.                                                               *)

\* No requests wait for each other's rows in a circle: the safety half of
\* RequestsEnd (auth.py:94-112, 191-195).
THEOREM WaitsAreOrdered == Spec => []NoDeadlock
  <1>1. Init => TypeOK /\ LocksInOrder
    <2> SUFFICES ASSUME Init PROVE TypeOK /\ LocksInOrder
      OBVIOUS
    <2>1. \A q \in Requests : req[q].pc = "idle"
      BY DEF Init, Idle
    <2> QED
      BY <2>1, InitIInv DEF IInv, LocksInOrder
  <1>2. TypeOK /\ LocksInOrder /\ [Next]_vars => (TypeOK /\ LocksInOrder)'
    BY TypeStep, LocksInOrderStep
  <1>3. TypeOK /\ LocksInOrder => NoDeadlock
    BY OrderPreventsDeadlock
  <1> QED
    BY <1>1, <1>2, <1>3, PTL DEF Spec

\* An account is approved exactly when one of its own codes is used, or the
\* migration approved it (auth.py:191-195).
THEOREM ApprovedByCode == Spec => []ApprovedByOwnCode
  <1>1. IInv => ApprovedByOwnCode
    BY DEF IInv
  <1> QED
    BY <1>1, Invariant, PTL

\* A revoked code has a newer one of the same account (auth.py:94-112).
THEOREM RevokedReplaced == Spec => []RevokedWasReplaced
  <1>1. IInv => RevokedWasReplaced
    BY DEF IInv
  <1> QED
    BY <1>1, Invariant, PTL

\* Approval is kept: an insert finds no account, or fails on the unique email
\* (auth.py:140-154).
THEOREM ApprovalKept == Spec => ApprovalIsKept
  <1>1. ASSUME IInv, [Next]_vars, NEW e \in Emails, account[e] = "approved"
        PROVE  account'[e] = "approved"
    <2> USE DEF IInv, TypeOK
    <2>1. ASSUME NEW q \in Requests, RegisterInsert(q)
          PROVE  account'[e] = "approved"
      BY <1>1, <2>1, RequestTypes DEF RegisterInsert
    <2>2. ASSUME NEW q \in Requests, VerifyCommit(q)
          PROVE  account'[e] = "approved"
      BY <1>1, <2>2, RequestTypes DEF VerifyCommit
    <2> QED
      BY <1>1, <2>1, <2>2, Writers DEF IssueCommit, Expire
  <1>2. IInv /\ [Next]_vars
          => [\A e \in Emails : account[e] = "approved" => account'[e] = "approved"]_vars
    BY <1>1
  <1> QED
    BY <1>2, Invariant, PTL DEF Spec, ApprovalIsKept
=============================================================================
