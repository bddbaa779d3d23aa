---------------------------- MODULE Registration ----------------------------
(***************************************************************************)
(* Admin-approved registration: POST /auth/register, /registration/resend  *)
(* and /registration/verify over the users and registration_codes tables.  *)
(*                                                                         *)
(* Requests run concurrently, each in database transactions of its own     *)
(* under READ COMMITTED (PostgreSQL in production).  The transaction that  *)
(* issues a code is modelled statement by statement, because it holds row  *)
(* locks in between:                                                       *)
(*   - UPDATE ... SET revoked: picks its rows from what is committed when  *)
(*     it starts, then locks them one by one, waits for a row another      *)
(*     transaction has locked and skips it if it no longer qualifies;      *)
(*   - INSERT of the new code and COMMIT, which publishes both at once;    *)
(*   - on a failed commit, ROLLBACK, and another try with the INSERT only. *)
(* All other transactions are a read and one commit.  Equal statements     *)
(* visit rows in the same order (that of the ids here).                    *)
(*                                                                         *)
(* Codes are numbered in the order in which they are committed.            *)
(***************************************************************************)
EXTENDS Integers, FiniteSets

CONSTANTS
    Emails,
    CodeIds,       \* bound: the codes that can be issued
    Requests,      \* requests that can be in progress at once
    Legacy,        \* accounts the migration approved (README.md:130)
    Tries,         \* attempts to insert a code (5 in the code)
    MaxRollbacks,  \* bound on failed commits
    MaxFaults      \* bound on killed requests and undelivered codes

NoOne == "no one"

ASSUME ConstantsAssumption ==
    /\ CodeIds \subseteq Nat
    /\ NoOne \notin Emails
    /\ IsFiniteSet(Requests)
    /\ Legacy \subseteq Emails
    /\ Tries \in Nat \ {0}
    /\ MaxRollbacks \in Nat
    /\ MaxFaults \in Nat

VARIABLES
    account,    \* users: "none", "pending" (is_approved false) or "approved"
    code,       \* registration_codes
    req,        \* requests in progress
    outbox,     \* background tasks: codes still to be sent to the admin
    mailbox,    \* codes the admin has received and may relay
    rollbacks, faults

vars == <<account, code, req, outbox, mailbox, rollbacks, faults>>

NoCode == [owner |-> NoOne, used |-> FALSE, revoked |-> FALSE, expired |-> FALSE]

CodeRow == [owner : Emails \cup {NoOne}, used : BOOLEAN, revoked : BOOLEAN,
            expired : BOOLEAN]

Idle == [pc |-> "idle"]

\* Registering: the email was free when the handler looked.
Inserting(e) == [pc |-> "insert user", email |-> e]

\* About to issue a code to e.
Issuing(e) == [pc |-> "issue", email |-> e]

\* In the transaction that issues a code to e: rows still to lock, rows locked
\* and set to revoked, attempts made.
InIssue(e, todo, locked, tries) ==
    [pc |-> "in issue", email |-> e, todo |-> todo, locked |-> locked,
     tries |-> tries]

\* A code of e matched and will be marked used.
Accepting(e, c) == [pc |-> "accept", email |-> e, code |-> c]

RequestState ==
    [pc : {"idle"}]
      \cup [pc : {"insert user", "issue"}, email : Emails]
      \cup [pc : {"in issue"}, email : Emails, todo : SUBSET CodeIds,
            locked : SUBSET CodeIds, tries : 0..Tries - 1]
      \cup [pc : {"accept"}, email : Emails, code : CodeIds]

Issued == {c \in CodeIds : code[c].owner # NoOne}

CodesOf(e) == {c \in CodeIds : code[c].owner = e}

\* used_at IS NULL AND revoked IS FALSE.
Active(row) == ~row.used /\ ~row.revoked

\* What verify accepts: active and expires_at in the future.
Valid(row) == Active(row) /\ ~row.expired

Locked(c) == \E q \in Requests : req[q].pc = "in issue" /\ c \in req[q].locked

\* Bound: a request that will issue a code starts only if an id is left for it.
CodeLeft ==
    Cardinality(Issued)
      + Cardinality({q \in Requests :
                        req[q].pc \in {"insert user", "issue", "in issue"}})
      < Cardinality(CodeIds)

Init ==
    /\ account = [e \in Emails |-> IF e \in Legacy THEN "approved" ELSE "none"]
    /\ code = [c \in CodeIds |-> NoCode]
    /\ req = [q \in Requests |-> Idle]
    /\ outbox = {}
    /\ mailbox = {}
    /\ rollbacks = 0
    /\ faults = 0

-----------------------------------------------------------------------------
(* POST /auth/register.  A known email is refused with 409.                *)

RegisterRead(q, e) ==
    /\ req[q] = Idle
    /\ account[e] = "none"
    /\ CodeLeft
    /\ req' = [req EXCEPT ![q] = Inserting(e)]
    /\ UNCHANGED <<account, code, outbox, mailbox, rollbacks, faults>>

\* Variant: no unique constraint, the row is written over.
RegisterUpsert(q) ==
    /\ req[q].pc = "insert user"
    /\ account' = [account EXCEPT ![req[q].email] = "pending"]
    /\ req' = [req EXCEPT ![q] = Issuing(req[q].email)]
    /\ UNCHANGED <<code, outbox, mailbox, rollbacks, faults>>

\* users.email is unique.
RegisterInsert(q) ==
    /\ req[q].pc = "insert user"
    /\ LET e == req[q].email
       IN  /\ account[e] = "none"
           /\ account' = [account EXCEPT ![e] = "pending"]
           /\ req' = [req EXCEPT ![q] = Issuing(e)]
    /\ UNCHANGED <<code, outbox, mailbox, rollbacks, faults>>

\* Variant: the insert is tried again and again.
RegisterRetries(q) ==
    /\ req[q].pc = "insert user"
    /\ account[req[q].email] # "none"
    /\ UNCHANGED vars

\* Another request inserted the email first: integrity error, no retry.
RegisterConflict(q) ==
    /\ req[q].pc = "insert user"
    /\ account[req[q].email] # "none"
    /\ req' = [req EXCEPT ![q] = Idle]
    /\ UNCHANGED <<account, code, outbox, mailbox, rollbacks, faults>>

-----------------------------------------------------------------------------
(* POST /auth/registration/resend.  An unknown email gets 404, an approved *)
(* account 400.                                                            *)

ResendRead(q, e) ==
    /\ req[q] = Idle
    /\ account[e] = "pending"
    /\ CodeLeft
    /\ req' = [req EXCEPT ![q] = Issuing(e)]
    /\ UNCHANGED <<account, code, outbox, mailbox, rollbacks, faults>>

-----------------------------------------------------------------------------
(* _create_and_send_registration_code.                                     *)

RevokeStart(q) ==
    /\ req[q].pc = "issue"
    /\ LET e == req[q].email
           rows == {c \in CodesOf(e) : Active(code[c])}
       IN  req' = [req EXCEPT ![q] = InIssue(e, rows, {}, 0)]
    /\ UNCHANGED <<account, code, outbox, mailbox, rollbacks, faults>>

\* Variant: the UPDATE is committed on its own, before the INSERT.
RevokeRowAtOnce(q) ==
    /\ req[q].pc = "in issue"
    /\ \E c \in req[q].todo :
         /\ req' = [req EXCEPT ![q].todo = @ \ {c}]
         /\ code' = [code EXCEPT ![c].revoked = TRUE]
    /\ UNCHANGED <<account, outbox, mailbox, rollbacks, faults>>

RevokeRow(q) ==
    /\ req[q].pc = "in issue"
    /\ \E c \in req[q].todo :
         /\ \A d \in req[q].todo : c <= d
         /\ ~Locked(c)
         /\ req' = [req EXCEPT ![q].todo = @ \ {c},
                               ![q].locked = IF Active(code[c]) THEN @ \cup {c}
                                                                ELSE @]
    /\ UNCHANGED <<account, code, outbox, mailbox, rollbacks, faults>>

IssueCommit(q) ==
    /\ req[q].pc = "in issue"
    /\ req[q].todo = {}
    /\ \E new \in CodeIds \ Issued :
         /\ \A c \in CodeIds \ Issued : new <= c
         /\ code' = [c \in CodeIds |->
                       IF c = new
                         THEN [NoCode EXCEPT !.owner = req[q].email]
                         ELSE [code[c] EXCEPT !.revoked =
                                               @ \/ c \in req[q].locked]]
         /\ outbox' = outbox \cup {new}
    /\ req' = [req EXCEPT ![q] = Idle]
    /\ UNCHANGED <<account, mailbox, rollbacks, faults>>

\* The commit raises (a code_hash collision or any other database error): the
\* rollback gives up the locks and the revocations with them; the next attempt
\* only inserts.  After the last attempt the handler answers 500.
IssueRollback(q) ==
    /\ req[q].pc = "in issue"
    /\ req[q].todo = {}
    /\ rollbacks < MaxRollbacks
    /\ rollbacks' = rollbacks + 1
    /\ LET tries == req[q].tries + 1
       IN  req' = [req EXCEPT ![q] =
                     IF tries < Tries THEN InIssue(req[q].email, {}, {}, tries)
                                      ELSE Idle]
    /\ UNCHANGED <<account, code, outbox, mailbox, faults>>

-----------------------------------------------------------------------------
(* The background task hands the code to the admin, or fails on both       *)
(* channels; there is no retry.                                            *)

Deliver(c) ==
    /\ c \in outbox
    /\ outbox' = outbox \ {c}
    /\ mailbox' = mailbox \cup {c}
    /\ UNCHANGED <<account, code, req, rollbacks, faults>>

DeliveryFails(c) ==
    /\ c \in outbox
    /\ faults < MaxFaults
    /\ faults' = faults + 1
    /\ outbox' = outbox \ {c}
    /\ UNCHANGED <<account, code, req, mailbox, rollbacks>>

-----------------------------------------------------------------------------
(* POST /auth/registration/verify with a code the admin relayed.           *)

\* Variant: the code is looked up without its user.
VerifyReadAnyOwner(q, e, c) ==
    /\ req[q] = Idle
    /\ account[e] # "none"
    /\ c \in mailbox
    /\ Valid(code[c])
    /\ req' = [req EXCEPT ![q] = Accepting(e, c)]
    /\ UNCHANGED <<account, code, outbox, mailbox, rollbacks, faults>>

VerifyRead(q, e, c) ==
    /\ req[q] = Idle
    /\ account[e] # "none"
    /\ c \in mailbox
    /\ code[c].owner = e
    /\ Valid(code[c])
    /\ req' = [req EXCEPT ![q] = Accepting(e, c)]
    /\ UNCHANGED <<account, code, outbox, mailbox, rollbacks, faults>>

\* No such account, or none of its valid codes matches: 400.
VerifyRefused(q, e, c) ==
    /\ req[q] = Idle
    /\ \/ account[e] = "none"
       \/ code[c].owner # e
       \/ ~Valid(code[c])
    /\ UNCHANGED vars

\* The UPDATE names the code's id only, and waits for a lock on its row.
VerifyCommit(q) ==
    /\ req[q].pc = "accept"
    /\ ~Locked(req[q].code)
    /\ code' = [code EXCEPT ![req[q].code].used = TRUE]
    /\ account' = [account EXCEPT ![req[q].email] = "approved"]
    /\ req' = [req EXCEPT ![q] = Idle]
    /\ UNCHANGED <<outbox, mailbox, rollbacks, faults>>

-----------------------------------------------------------------------------
\* expires_at passes.
Expire(c) ==
    /\ c \in Issued
    /\ Valid(code[c])
    /\ code' = [code EXCEPT ![c].expired = TRUE]
    /\ UNCHANGED <<account, req, outbox, mailbox, rollbacks, faults>>

\* The process serving a request dies: its transaction is rolled back.
Killed(q) ==
    /\ req[q] # Idle
    /\ faults < MaxFaults
    /\ faults' = faults + 1
    /\ req' = [req EXCEPT ![q] = Idle]
    /\ UNCHANGED <<account, code, outbox, mailbox, rollbacks>>

Progress(q) ==
    \/ RegisterInsert(q)
    \/ RegisterConflict(q)
    \/ RevokeStart(q)
    \/ RevokeRow(q)
    \/ IssueCommit(q)
    \/ IssueRollback(q)
    \/ VerifyCommit(q)

Next ==
    \/ \E q \in Requests :
         \/ \E e \in Emails : RegisterRead(q, e) \/ ResendRead(q, e)
         \/ \E e \in Emails, c \in CodeIds :
               VerifyRead(q, e, c) \/ VerifyRefused(q, e, c)
         \/ Progress(q)
         \/ Killed(q)
    \/ \E c \in CodeIds : Deliver(c) \/ DeliveryFails(c) \/ Expire(c)

Spec == Init /\ [][Next]_vars

\* The server finishes what it accepted.  The database queues lock waiters, so
\* one that is enabled again and again is served.
Fairness == \A q \in Requests : SF_vars(Progress(q))

FairSpec == Spec /\ Fairness

-----------------------------------------------------------------------------
(* Properties.                                                             *)

TypeOK ==
    /\ account \in [Emails -> {"none", "pending", "approved"}]
    /\ code \in [CodeIds -> CodeRow]
    /\ req \in [Requests -> RequestState]
    /\ outbox \subseteq CodeIds
    /\ mailbox \subseteq CodeIds
    /\ rollbacks \in 0..MaxRollbacks
    /\ faults \in 0..MaxFaults

\* Approval and the code that bought it are one fact: an account is approved
\* exactly when one of its own codes is used (or the migration approved it),
\* whatever requests die or roll back in between (auth.py:191-195).
ApprovedByOwnCode ==
    \A e \in Emails \ Legacy :
        account[e] = "approved" <=> \E c \in CodesOf(e) : code[c].used

\* A code is revoked only together with the issue of a newer one to the same
\* account: no failure leaves a registrant with every code revoked and none
\* issued (auth.py:94-112).
RevokedWasReplaced ==
    \A c \in Issued : code[c].revoked =>
        \E d \in CodesOf(code[c].owner) : d > c

\* Racing registrations of one email never disturb the account that won: once
\* approved it stays approved (auth.py:140-154, users.email unique).
ApprovalIsKept ==
    [][\A e \in Emails : account[e] = "approved" => account'[e] = "approved"]_vars

\* auth.py:92-93: earlier codes are revoked "so only the newest one is valid".
OnlyNewestIsValid ==
    \A c, d \in Issued :
        code[c].owner = code[d].owner /\ c < d => ~Valid(code[c])

\* A transaction locks rows in the order of their ids: what it still has to lock
\* comes after what it holds.
LocksInOrder ==
    \A q \in Requests : req[q].pc = "in issue" =>
        \A held \in req[q].locked, row \in req[q].todo : held < row

\* The next statement of q needs a row that p has locked.
WaitsFor(q, p) ==
    /\ req[p].pc = "in issue"
    /\ \/ /\ req[q].pc = "in issue"
          /\ \E c \in req[q].todo \cap req[p].locked :
               \A d \in req[q].todo : c <= d
       \/ req[q].pc = "accept" /\ req[q].code \in req[p].locked

\* Of any requests one does not wait for another of them: there is no circle of
\* transactions, each waiting for the next one's rows (auth.py:94-112, 191-195).
NoDeadlock ==
    \A S \in SUBSET Requests :
        S # {} => \E q \in S : \A p \in S : ~WaitsFor(q, p)

\* Every request is answered: no wait for a row lock lasts for ever.
RequestsEnd == \A q \in Requests : req[q] # Idle ~> req[q] = Idle
=============================================================================
