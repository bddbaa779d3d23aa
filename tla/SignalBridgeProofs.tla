------------------------- MODULE SignalBridgeProofs -------------------------
(***************************************************************************)
(* Proofs about SignalBridge, for any number of signals, symbols, requests *)
(* and faults.                                                             *)
(***************************************************************************)
EXTENDS SignalBridge, FiniteSetTheorems, TLAPS

-----------------------------------------------------------------------------
(* The inductive invariant.                                                *)

Past(row) == row.status \notin {"none", "pending"}

IsSetup(row) == row.setup = "SETUP" /\ row.direction \in Directional

\* Only a directional SETUP leaves PENDING.
PastIsSetup == \A s \in SignalIds : Past(signal[s]) => IsSetup(signal[s])

\* A poll between its query and its commit holds stored directional SETUPs.
HeldIsSetup ==
    \A p \in Pollers : poll[p].pc = "read" =>
        \A s \in poll[p].batch : ~Absent(signal[s]) /\ IsSetup(signal[s])

\* A poll that has committed holds signals that are no longer PENDING.
ReplyIsPast ==
    \A p \in Pollers : poll[p].pc = "reply" =>
        \A s \in poll[p].batch : Past(signal[s])

\* An execution report in progress is about a signal past PENDING.
ReportIsPast ==
    \A r \in Reporters : report[r].pc = "read" => Past(signal[report[r].id])

IInv ==
    /\ TypeOK
    /\ PendingIsUntouched
    /\ PastIsSetup
    /\ HeldIsSetup
    /\ ReplyIsPast
    /\ ReportIsPast

-----------------------------------------------------------------------------
(* What a poll may return, and what its commit writes.                     *)

\* The LIMIT only drops rows.
LEMMA NewestIsSubset == ASSUME NEW ids, NEW n PROVE Newest(ids, n) \subseteq ids
  BY DEF Newest

\* Acknowledging a row keeps it a row and changes nothing but its status.
LEMMA AcknowledgeRow ==
  ASSUME NEW row \in SignalRow
  PROVE  /\ Acknowledge(row) \in SignalRow
         /\ Acknowledge(row).status = "acknowledged"
         /\ Acknowledge(row).setup = row.setup
         /\ Acknowledge(row).direction = row.direction
  BY DEF Acknowledge, SignalRow, SignalStatus

\* The initial state satisfies the inductive invariant.
LEMMA InitIInv == ASSUME Init PROVE IInv
  <1>1. TypeOK
    BY ConstantsAssumption DEF Init, TypeOK, IdlePoll
  <1>2. \A s \in SignalIds : Absent(signal[s])
    BY DEF Init
  <1>3. QED
    BY <1>1, <1>2 DEF Init, IInv, PendingIsUntouched, PastIsSetup, HeldIsSetup,
       ReplyIsPast, ReportIsPast, Past, Absent, IdlePoll, IdleReport

-----------------------------------------------------------------------------
(* Type correctness, action by action.                                     *)

\* Every step keeps every variable in its type.
LEMMA TypeStep == ASSUME IInv, [Next]_vars PROVE TypeOK'
  <1> USE DEF IInv, TypeOK
  <1>1. ASSUME NEW s \in SignalIds, NEW x \in Symbols, NEW result \in Results,
               PersistSignal(s, x, result)
        PROVE  TypeOK'
    BY <1>1 DEF PersistSignal, SignalRow, SignalStatus, Results, Directional
  <1>2. ASSUME NEW p \in Pollers, NEW filter, PollRead(p, filter)
        PROVE  TypeOK'
    <2> DEFINE candidates == {s \in SignalIds : /\ Eligible(signal[s])
                                                /\ Matches(signal[s], filter)}
    <2>1. Newest(candidates, Limit) \in SUBSET SignalIds
      BY NewestIsSubset
    <2>2. QED
      BY <1>2, <2>1 DEF PollRead
  <1>3. ASSUME NEW p \in Pollers, PollCommit(p)
        PROVE  TypeOK'
    <2>1. signal' \in [SignalIds -> SignalRow]
      BY <1>3, AcknowledgeRow DEF PollCommit
    <2>2. handed' \in [SignalIds -> Nat]
      BY <1>3 DEF PollCommit
    <2>3. QED
      BY <1>3, <2>1, <2>2 DEF PollCommit
  <1>4. ASSUME NEW p \in Pollers, PollAbort(p) \/ PollReplyLost(p)
        PROVE  TypeOK'
    <2>1. faults' \in 0..MaxFaults
      BY <1>4, ConstantsAssumption DEF PollAbort, PollReplyLost
    <2>2. poll' \in [Pollers -> [pc : {"idle", "read", "reply"},
                                 batch : SUBSET SignalIds]]
      BY <1>4 DEF PollAbort, PollReplyLost, IdlePoll
    <2>3. QED
      BY <1>4, <2>1, <2>2 DEF PollAbort, PollReplyLost
  <1>5. ASSUME NEW p \in Pollers, PollReply(p)
        PROVE  TypeOK'
    BY <1>5 DEF PollReply, IdlePoll
  <1>6. ASSUME NEW s \in SignalIds, NEW outcome \in {"filled", "rejected"},
               EAOrder(s, outcome)
        PROVE  TypeOK'
    BY <1>6 DEF EAOrder, ReportStatus
  <1>7. ASSUME NEW s \in SignalIds, EAClose(s)
        PROVE  TypeOK'
    BY <1>7 DEF EAClose, ReportStatus
  <1>8. ASSUME NEW r \in Reporters, NEW s \in SignalIds,
               NEW reported \in ReportStatus, ReportRead(r, s, reported)
        PROVE  TypeOK'
    <2>1. signal[s].status \in SignalStatus
      BY <1>8 DEF ReportRead, Absent, SignalRow
    <2>2. [pc |-> "read", id |-> s, status |-> reported,
           seen |-> signal[s].status] \in ActiveReport
      BY <2>1 DEF ActiveReport
    <2>3. report' \in [Reporters -> {IdleReport} \cup ActiveReport]
      BY <1>8, <2>2 DEF ReportRead
    <2>4. QED
      BY <1>8, <2>3 DEF ReportRead
  <1>9. ASSUME NEW r \in Reporters, ReportCommit(r)
        PROVE  TypeOK'
    <2>1. report[r] \in ActiveReport
      BY <1>9 DEF ReportCommit, IdleReport
    <2>2. report[r].id \in SignalIds /\ report[r].status \in ReportStatus
      BY <2>1 DEF ActiveReport
    <2>3. executions' \in [SignalIds -> SUBSET ReportStatus]
      BY <1>9, <2>2 DEF ReportCommit
    <2>4. signal' \in [SignalIds -> SignalRow]
      BY <1>9, <2>2 DEF ReportCommit, Outcome, SignalRow, SignalStatus
    <2>5. QED
      BY <1>9, <2>3, <2>4 DEF ReportCommit
  <1>10. ASSUME NEW r \in Reporters, ReportAbort(r)
         PROVE  TypeOK'
    BY <1>10, ConstantsAssumption DEF ReportAbort
  <1>11. CASE UNCHANGED vars
    BY <1>11 DEF vars
  <1>12. QED
    BY <1>1, <1>2, <1>3, <1>4, <1>5, <1>6, <1>7, <1>8, <1>9, <1>10, <1>11
       DEF Next, Persist, PollStep, EAStep, ReportStep

-----------------------------------------------------------------------------
(* The rest of the inductive invariant.                                    *)

\* A step never takes a row out of the past, nor changes what the engine
\* decided about a stored row.
LEMMA RowsOnlyAdvance ==
  ASSUME IInv, [Next]_vars, NEW s \in SignalIds
  PROVE  /\ Past(signal[s]) => Past(signal'[s])
         /\ ~Absent(signal[s]) => /\ ~Absent(signal'[s])
                                  /\ signal'[s].setup = signal[s].setup
                                  /\ signal'[s].direction = signal[s].direction
  <1> USE DEF IInv, TypeOK
  <1>1. ASSUME NEW i \in SignalIds, NEW x \in Symbols, NEW result \in Results,
               PersistSignal(i, x, result)
        PROVE  ~Absent(signal[s]) => signal'[s] = signal[s]
    BY <1>1 DEF PersistSignal
  <1>2. ASSUME NEW p \in Pollers, PollCommit(p)
        PROVE  signal'[s] = signal[s] \/ signal'[s] = Acknowledge(signal[s])
    BY <1>2 DEF PollCommit
  <1>3. ASSUME NEW r \in Reporters, ReportCommit(r)
        PROVE  \/ signal'[s] = signal[s]
               \/ \E st \in {"executed", "rejected"} :
                     signal'[s] = [signal[s] EXCEPT !.status = st]
    <2>1. report[r].id \in SignalIds
      BY <1>3 DEF ReportCommit, IdleReport, ActiveReport
    <2>2. QED
      BY <1>3, <2>1 DEF ReportCommit, Outcome
  <1>4. CASE UNCHANGED signal
    BY <1>4 DEF Past, Absent
  <1>5. \/ \E i \in SignalIds, x \in Symbols, result \in Results :
              PersistSignal(i, x, result)
        \/ \E p \in Pollers : PollCommit(p)
        \/ \E r \in Reporters : ReportCommit(r)
        \/ UNCHANGED signal
    BY DEF Next, Persist, PollStep, PollRead, PollAbort, PollReply,
       PollReplyLost, EAStep, EAOrder, EAClose, ReportStep, ReportRead,
       ReportAbort, vars
  <1>6. signal[s] \in SignalRow
    OBVIOUS
  <1>7. QED
    BY <1>1, <1>2, <1>3, <1>4, <1>5, <1>6, AcknowledgeRow
       DEF Past, Absent, SignalRow

\* A step either leaves a poll as it was, or is that poll's query or commit,
\* or makes it idle.
LEMMA PollChanges ==
  ASSUME TypeOK, [Next]_vars, NEW p \in Pollers
  PROVE  \/ poll'[p] = poll[p]
         \/ \E filter \in Symbols \cup {AnySymbol} : PollRead(p, filter)
         \/ PollCommit(p)
         \/ poll'[p].pc = "idle"
  <1> USE DEF TypeOK
  <1>1. ASSUME NEW q \in Pollers, PollStep(q), q # p
        PROVE  poll'[p] = poll[p]
    BY <1>1 DEF PollStep, PollRead, PollCommit, PollAbort, PollReply, PollReplyLost
  <1>2. ASSUME PollAbort(p) \/ PollReply(p) \/ PollReplyLost(p)
        PROVE  poll'[p].pc = "idle"
    BY <1>2 DEF PollAbort, PollReply, PollReplyLost, IdlePoll
  <1>3. (\A q \in Pollers : ~PollStep(q)) => poll' = poll
    BY DEF Next, Persist, PersistSignal, EAStep, EAOrder, EAClose, ReportStep,
       ReportRead, ReportCommit, ReportAbort, vars
  <1>4. QED
    BY <1>1, <1>2, <1>3 DEF PollStep

\* A step either leaves a report as it was, or is its read, or makes it idle.
LEMMA ReportChanges ==
  ASSUME TypeOK, [Next]_vars, NEW r \in Reporters
  PROVE  \/ report'[r] = report[r]
         \/ \E s \in SignalIds, reported \in ReportStatus :
               ReportRead(r, s, reported)
         \/ report'[r].pc = "idle"
  <1> USE DEF TypeOK
  <1>1. ASSUME NEW q \in Reporters, ReportStep(q), q # r
        PROVE  report'[r] = report[r]
    BY <1>1 DEF ReportStep, ReportRead, ReportCommit, ReportAbort
  <1>2. ASSUME ReportCommit(r) \/ ReportAbort(r)
        PROVE  report'[r].pc = "idle"
    BY <1>2 DEF ReportCommit, ReportAbort, IdleReport
  <1>3. (\A q \in Reporters : ~ReportStep(q)) => report' = report
    BY DEF Next, Persist, PersistSignal, EAStep, EAOrder, EAClose, PollStep,
       PollRead, PollCommit, PollAbort, PollReply, PollReplyLost, vars
  <1>4. QED
    BY <1>1, <1>2, <1>3 DEF ReportStep

\* A step keeps every named conjunct of the inductive invariant.
LEMMA NextIInv == ASSUME IInv, [Next]_vars PROVE IInv'
  <1>1. TypeOK'
    BY TypeStep
  <1> USE DEF IInv
  <1>2. PendingIsUntouched'
    <2> SUFFICES ASSUME NEW s \in SignalIds, ~Past(signal'[s])
                 PROVE  /\ handed'[s] = 0
                        /\ s \notin received'
                        /\ events'[s] = {}
                        /\ executions'[s] = {}
      BY DEF PendingIsUntouched, Past
    <2> USE DEF TypeOK
    <2>1. ~Past(signal[s])
      BY RowsOnlyAdvance
    <2>2. /\ handed[s] = 0
          /\ s \notin received
          /\ events[s] = {}
          /\ executions[s] = {}
      BY <2>1 DEF PendingIsUntouched, Past
    <2>3. ASSUME NEW p \in Pollers, PollCommit(p)
          PROVE  handed'[s] = 0
      <3>1. s \notin poll[p].batch
        BY <2>3, AcknowledgeRow DEF PollCommit, Past
      <3>2. QED
        BY <2>2, <2>3, <3>1 DEF PollCommit
    <2>4. ASSUME NEW p \in Pollers, PollReply(p)
          PROVE  s \notin received'
      BY <2>1, <2>2, <2>4 DEF PollReply, ReplyIsPast
    <2>5. ASSUME NEW i \in SignalIds, NEW outcome, EAOrder(i, outcome)
          PROVE  s \notin received' /\ events'[s] = {}
      BY <2>2, <2>5 DEF EAOrder
    <2>6. ASSUME NEW i \in SignalIds, EAClose(i)
          PROVE  events'[s] = {}
      BY <2>2, <2>6 DEF EAClose
    <2>7. ASSUME NEW r \in Reporters, ReportCommit(r)
          PROVE  executions'[s] = {}
      <3>1. report[r].id # s /\ report[r].id \in SignalIds
        BY <2>1, <2>7 DEF ReportCommit, ReportIsPast, ActiveReport, IdleReport
      <3>2. QED
        BY <2>2, <2>7, <3>1 DEF ReportCommit
    <2>8. QED
      BY <2>2, <2>3, <2>4, <2>5, <2>6, <2>7
         DEF Next, Persist, PersistSignal, PollStep, PollRead, PollCommit,
             PollAbort, PollReply, PollReplyLost, EAStep, EAOrder, EAClose,
             ReportStep, ReportRead, ReportCommit, ReportAbort, vars
  <1>3. PastIsSetup'
    <2> SUFFICES ASSUME NEW s \in SignalIds, Past(signal'[s])
                 PROVE  IsSetup(signal'[s])
      BY DEF PastIsSetup
    <2>1. CASE Past(signal[s])
      BY <2>1, RowsOnlyAdvance DEF PastIsSetup, IsSetup, Past, Absent
    <2>2. CASE ~Past(signal[s])
      <3>1. ASSUME NEW i \in SignalIds, NEW x \in Symbols,
                   NEW result \in Results, PersistSignal(i, x, result)
            PROVE  FALSE
        BY <2>2, <3>1 DEF PersistSignal, Past, TypeOK
      <3>2. ASSUME NEW p \in Pollers, PollCommit(p)
            PROVE  IsSetup(signal'[s])
        <4>1. s \in poll[p].batch
          BY <2>2, <3>2 DEF PollCommit, Past
        <4>2. IsSetup(signal[s]) /\ ~Absent(signal[s])
          BY <3>2, <4>1 DEF PollCommit, HeldIsSetup
        <4>3. QED
          BY <4>2, RowsOnlyAdvance DEF IsSetup
      <3>3. ASSUME NEW r \in Reporters, ReportCommit(r)
            PROVE  FALSE
        <4>1. report[r].id # s /\ report[r].id \in SignalIds
          BY <2>2, <3>3
             DEF ReportCommit, ReportIsPast, TypeOK, ActiveReport, IdleReport
        <4>2. signal'[s] = signal[s]
          BY <3>3, <4>1 DEF ReportCommit, TypeOK
        <4>3. QED
          BY <2>2, <4>2
      <3>4. CASE UNCHANGED signal
        BY <2>2, <3>4 DEF Past
      <3>5. QED
        BY <3>1, <3>2, <3>3, <3>4
           DEF Next, Persist, PollStep, PollRead, PollAbort, PollReply,
               PollReplyLost, EAStep, EAOrder, EAClose, ReportStep, ReportRead,
               ReportAbort, vars
    <2>3. QED
      BY <2>1, <2>2
  <1>4. HeldIsSetup'
    <2> SUFFICES ASSUME NEW p \in Pollers, poll'[p].pc = "read",
                        NEW s \in poll'[p].batch
                 PROVE  ~Absent(signal'[s]) /\ IsSetup(signal'[s])
      BY DEF HeldIsSetup
    <2>1. s \in SignalIds
      BY <1>1 DEF TypeOK
    <2>2. CASE poll[p] = poll'[p]
      BY <2>1, <2>2, RowsOnlyAdvance DEF HeldIsSetup, IsSetup
    <2>3. CASE poll[p] # poll'[p]
      <3>1. PICK filter \in Symbols \cup {AnySymbol} : PollRead(p, filter)
        BY <2>3, PollChanges DEF PollCommit, TypeOK
      <3> DEFINE candidates == {i \in SignalIds : /\ Eligible(signal[i])
                                                  /\ Matches(signal[i], filter)}
      <3>2. s \in candidates
        BY <3>1, NewestIsSubset DEF PollRead, TypeOK
      <3>3. QED
        BY <3>1, <3>2 DEF PollRead, Eligible, IsSetup, Absent
    <2>4. QED
      BY <2>2, <2>3
  <1>5. ReplyIsPast'
    <2> SUFFICES ASSUME NEW p \in Pollers, poll'[p].pc = "reply",
                        NEW s \in poll'[p].batch
                 PROVE  Past(signal'[s])
      BY DEF ReplyIsPast
    <2>1. s \in SignalIds
      BY <1>1 DEF TypeOK
    <2>2. CASE poll[p] = poll'[p]
      BY <2>1, <2>2, RowsOnlyAdvance DEF ReplyIsPast
    <2>3. CASE poll[p] # poll'[p]
      <3>1. ASSUME NEW filter, PollRead(p, filter)
            PROVE  poll'[p].pc = "read"
        BY <3>1 DEF PollRead, TypeOK
      <3>2. PollCommit(p)
        BY <2>3, <3>1, PollChanges
      <3>3. signal'[s] = Acknowledge(signal[s])
        BY <2>1, <3>2 DEF PollCommit, TypeOK
      <3>4. QED
        BY <2>1, <3>3, AcknowledgeRow DEF Past, TypeOK
    <2>4. QED
      BY <2>2, <2>3
  <1>6. ReportIsPast'
    <2> SUFFICES ASSUME NEW r \in Reporters, report'[r].pc = "read"
                 PROVE  Past(signal'[report'[r].id])
      BY DEF ReportIsPast
    <2>1. report'[r].id \in SignalIds
      BY <1>1 DEF TypeOK, ActiveReport, IdleReport
    <2>2. CASE report'[r] = report[r]
      BY <2>1, <2>2, RowsOnlyAdvance DEF ReportIsPast
    <2>3. CASE report'[r] # report[r]
      <3>1. PICK s \in SignalIds, reported \in ReportStatus :
                ReportRead(r, s, reported)
        BY <2>3, ReportChanges
      <3>2. report'[r].id = s /\ signal' = signal
        BY <3>1 DEF ReportRead, TypeOK
      <3>3. Past(signal[s])
        BY <3>1 DEF ReportRead, PendingIsUntouched, Past
      <3>4. QED
        BY <3>2, <3>3
    <2>4. QED
      BY <2>2, <2>3
  <1>7. QED
    BY <1>1, <1>2, <1>3, <1>4, <1>5, <1>6

\* Every reachable state satisfies the inductive invariant.
LEMMA Invariance == Spec => []IInv
  <1>1. Init => IInv
    BY InitIInv
  <1>2. IInv /\ [Next]_vars => IInv'
    BY NextIInv
  <1>3. QED
    BY <1>1, <1>2, PTL DEF Spec

-----------------------------------------------------------------------------
(* The theorems.                                                           *)

\* Every variable keeps its type.
THEOREM TypeCorrect == Spec => []TypeOK
  BY Invariance, PTL DEF IInv

\* A PENDING row was returned to nobody, acted on by nobody and reported by
\* nobody, however polls and reports interleave and fail.
THEOREM PendingUntouched == Spec => []PendingIsUntouched
  BY Invariance, PTL DEF IInv

\* Only directional SETUPs are returned to the EA or get executions.
THEOREM OnlySetups == Spec => []OnlySetupsReachEA
  <1>1. IInv => OnlySetupsReachEA
    BY DEF IInv, OnlySetupsReachEA, PendingIsUntouched, PastIsSetup, Past, IsSetup
  <1>2. QED
    BY <1>1, Invariance, PTL

\* No handler makes a signal PENDING again or edits the engine's decision.
THEOREM PendingOnce == Spec => NeverPendingAgain
  <1>1. ASSUME IInv, [Next]_vars, NEW s \in SignalIds, ~Absent(signal[s])
        PROVE  /\ signal[s].status # "pending" => signal'[s].status # "pending"
               /\ signal'[s].setup = signal[s].setup
               /\ signal'[s].direction = signal[s].direction
    BY <1>1, RowsOnlyAdvance DEF Past, Absent
  <1>2. IInv /\ [Next]_vars =>
          [\A s \in SignalIds :
             ~Absent(signal[s]) =>
                /\ signal[s].status # "pending" => signal'[s].status # "pending"
                /\ signal'[s].setup = signal[s].setup
                /\ signal'[s].direction = signal[s].direction]_vars
    BY <1>1
  <1>3. QED
    BY <1>2, Invariance, PTL DEF Spec, NeverPendingAgain

\* EXECUTED and REJECTED are always backed by a trade_executions row.
THEOREM OutcomeReported == Spec => []OutcomeWasReported
  <1>1. Init => OutcomeWasReported
    BY DEF Init, OutcomeWasReported, Absent
  <1>2. ASSUME IInv, OutcomeWasReported, [Next]_vars
        PROVE  OutcomeWasReported'
    <2> SUFFICES ASSUME NEW s \in SignalIds
                 PROVE  /\ signal'[s].status = "executed" => "filled" \in executions'[s]
                        /\ signal'[s].status = "rejected" =>
                              executions'[s] \ {"filled"} # {}
      BY DEF OutcomeWasReported
    <2> USE <1>2 DEF IInv, TypeOK, OutcomeWasReported
    <2>1. ASSUME NEW i \in SignalIds, NEW x \in Symbols, NEW result \in Results,
                 PersistSignal(i, x, result)
          PROVE  /\ executions' = executions
                 /\ signal'[s] = signal[s] \/ signal'[s].status = "pending"
      BY <2>1 DEF PersistSignal
    <2>2. ASSUME NEW p \in Pollers, PollCommit(p)
          PROVE  /\ executions' = executions
                 /\ signal'[s] = signal[s] \/ signal'[s].status = "acknowledged"
      BY <2>2, AcknowledgeRow DEF PollCommit
    <2>3. ASSUME NEW r \in Reporters, ReportCommit(r)
          PROVE  /\ signal'[s].status = "executed" => "filled" \in executions'[s]
                 /\ signal'[s].status = "rejected" =>
                        executions'[s] \ {"filled"} # {}
      <3>1. report[r].id \in SignalIds /\ report[r].status \in ReportStatus
        BY <2>3 DEF ReportCommit, ActiveReport, IdleReport
      <3>2. /\ executions[s] \subseteq executions'[s]
            /\ report[r].id = s => report[r].status \in executions'[s]
        BY <2>3, <3>1 DEF ReportCommit
      <3>3. \/ signal'[s] = signal[s]
            \/ report[r].id = s /\ signal'[s].status = Outcome(report[r].status)
        BY <2>3, <3>1 DEF ReportCommit, SignalRow
      <3>4. QED
        BY <3>1, <3>2, <3>3 DEF Outcome, ReportStatus
    <2>4. CASE UNCHANGED <<signal, executions>>
      BY <2>4
    <2>5. QED
      BY <2>1, <2>2, <2>3, <2>4
         DEF Next, Persist, PollStep, PollRead, PollAbort, PollReply,
             PollReplyLost, EAStep, EAOrder, EAClose, ReportStep, ReportRead,
             ReportAbort, vars
  <1>3. QED
    <2>1. IInv /\ OutcomeWasReported /\ [Next]_vars => OutcomeWasReported'
      BY <1>2
    <2>2. QED
      BY <1>1, <2>1, Invariance, PTL DEF Spec

-----------------------------------------------------------------------------
(* Counting: a signal is handed out at most once per concurrent poll.      *)

\* The polls in flight with a signal are finitely many, at most all of them.
LEMMA InFlightBound ==
  ASSUME NEW s \in SignalIds
  PROVE  /\ IsFiniteSet(InFlight(s))
         /\ Cardinality(InFlight(s)) \in Nat
         /\ Cardinality(Pollers) \in Nat
         /\ Cardinality(InFlight(s)) <= Cardinality(Pollers)
  BY ConstantsAssumption, FS_Subset, FS_CardinalityType DEF InFlight

\* A step adds to the polls in flight with a signal only while the signal has
\* been handed out to none, and each hand-out removes one of them.
LEMMA HandoutStep ==
  ASSUME IInv, [Next]_vars, NEW s \in SignalIds
  PROVE  \/ handed'[s] = 0
         \/ handed'[s] = handed[s] /\ InFlight(s)' \subseteq InFlight(s)
         \/ \E p \in InFlight(s) : /\ handed'[s] = handed[s] + 1
                                   /\ InFlight(s)' \subseteq InFlight(s) \ {p}
  <1> USE DEF IInv, TypeOK
  <1>1. ASSUME NEW p \in Pollers, NEW filter, PollRead(p, filter)
        PROVE  \/ handed'[s] = 0
               \/ handed'[s] = handed[s] /\ InFlight(s)' \subseteq InFlight(s)
    <2> DEFINE candidates == {i \in SignalIds : /\ Eligible(signal[i])
                                                /\ Matches(signal[i], filter)}
               batch == Newest(candidates, Limit)
    <2>1. CASE s \in batch
      <3>1. signal[s].status = "pending"
        BY <2>1, NewestIsSubset DEF Eligible
      <3>2. QED
        BY <1>1, <3>1 DEF PendingIsUntouched, PollRead
    <2>2. CASE s \notin batch
      <3>1. /\ handed' = handed
            /\ poll' = [poll EXCEPT ![p] = [pc |-> "read", batch |-> batch]]
        BY <1>1 DEF PollRead
      <3>2. \A q \in Pollers : s \in poll'[q].batch => poll'[q] = poll[q]
        <4> HIDE DEF batch
        <4>1. QED
          BY <2>2, <3>1
      <3>3. QED
        BY <3>1, <3>2 DEF InFlight
    <2>3. QED
      BY <2>1, <2>2
  <1>2. ASSUME NEW p \in Pollers, PollCommit(p)
        PROVE  \/ handed'[s] = handed[s] /\ InFlight(s)' \subseteq InFlight(s)
               \/ /\ p \in InFlight(s)
                  /\ handed'[s] = handed[s] + 1
                  /\ InFlight(s)' \subseteq InFlight(s) \ {p}
    BY <1>2 DEF PollCommit, InFlight
  <1>3. ASSUME NEW p \in Pollers, PollAbort(p) \/ PollReply(p) \/ PollReplyLost(p)
        PROVE  handed'[s] = handed[s] /\ InFlight(s)' \subseteq InFlight(s)
    BY <1>3 DEF PollAbort, PollReply, PollReplyLost, IdlePoll, InFlight
  <1>4. CASE UNCHANGED <<poll, handed>>
    BY <1>4 DEF InFlight
  <1>5. QED
    BY <1>1, <1>2, <1>3, <1>4
       DEF Next, Persist, PersistSignal, PollStep, EAStep, EAOrder, EAClose,
           ReportStep, ReportRead, ReportCommit, ReportAbort, vars

\* However requests interleave, a signal is returned by at most as many polls
\* as can run at the same time.
THEOREM HandoutsBounded == Spec => []HandoutsBoundedByPolls
  <1>1. Init => HandoutsBoundedByPolls
    <2>1. ASSUME Init, NEW s \in SignalIds
          PROVE  handed[s] = 0
      BY <2>1 DEF Init
    <2>2. QED
      BY <2>1, InFlightBound DEF HandoutsBoundedByPolls
  <1>2. ASSUME IInv, HandoutsBoundedByPolls, [Next]_vars
        PROVE  HandoutsBoundedByPolls'
    <2> SUFFICES ASSUME NEW s \in SignalIds
                 PROVE  handed'[s] + Cardinality(InFlight(s)') <= Cardinality(Pollers)
      BY DEF HandoutsBoundedByPolls
    <2>1. /\ IsFiniteSet(InFlight(s)')
          /\ Cardinality(InFlight(s)') \in Nat
          /\ Cardinality(InFlight(s)') <= Cardinality(Pollers)
      <3>1. InFlight(s)' \subseteq Pollers
        BY DEF InFlight
      <3>2. QED
        BY <3>1, ConstantsAssumption, FS_Subset, FS_CardinalityType
    <2>2. handed[s] \in Nat
      BY <1>2 DEF IInv, TypeOK
    <2>3. handed[s] + Cardinality(InFlight(s)) <= Cardinality(Pollers)
      BY <1>2 DEF HandoutsBoundedByPolls
    <2>4. CASE handed'[s] = 0
      BY <2>1, <2>4
    <2>5. CASE handed'[s] = handed[s] /\ InFlight(s)' \subseteq InFlight(s)
      <3>1. Cardinality(InFlight(s)') <= Cardinality(InFlight(s))
        BY <2>5, InFlightBound, FS_Subset
      <3>2. QED
        BY <2>1, <2>2, <2>3, <2>5, <3>1, InFlightBound
    <2>6. ASSUME NEW p \in InFlight(s), handed'[s] = handed[s] + 1,
                 InFlight(s)' \subseteq InFlight(s) \ {p}
          PROVE  handed'[s] + Cardinality(InFlight(s)') <= Cardinality(Pollers)
      <3>1. /\ IsFiniteSet(InFlight(s) \ {p})
            /\ Cardinality(InFlight(s) \ {p}) = Cardinality(InFlight(s)) - 1
        BY <2>6, InFlightBound, FS_RemoveElement
      <3>2. Cardinality(InFlight(s)') <= Cardinality(InFlight(s) \ {p})
        BY <2>6, <3>1, FS_Subset
      <3>3. QED
        BY <2>1, <2>2, <2>3, <2>6, <3>1, <3>2, InFlightBound
    <2>7. QED
      BY <1>2, <2>4, <2>5, <2>6, HandoutStep
  <1>3. QED
    <2>1. IInv /\ HandoutsBoundedByPolls /\ [Next]_vars => HandoutsBoundedByPolls'
      BY <1>2
    <2>2. QED
      BY <1>1, <2>1, Invariance, PTL DEF Spec

\* When polls never overlap, the promise of mt5.py:144-145 holds: no second
\* poll returns the same signal.
THEOREM SerialPollsHandOutOnce ==
  ASSUME Cardinality(Pollers) = 1
  PROVE  Spec => []HandedOutOnce
  <1>1. TypeOK /\ HandoutsBoundedByPolls => HandedOutOnce
    <2> SUFFICES ASSUME TypeOK, HandoutsBoundedByPolls, NEW s \in SignalIds
                 PROVE  handed[s] <= 1
      BY DEF HandedOutOnce
    <2>1. handed[s] \in Nat
      BY DEF TypeOK
    <2>2. QED
      BY <2>1, InFlightBound DEF HandoutsBoundedByPolls
  <1>2. QED
    BY <1>1, TypeCorrect, HandoutsBounded, PTL

-----------------------------------------------------------------------------
(* With one poll at a time a reported outcome is never lost.               *)

Final(row) == row.status \in {"executed", "rejected"}

\* A poll that has not committed holds rows that are still PENDING.
HeldIsPending ==
    \A p \in Pollers : poll[p].pc = "read" =>
        \A s \in poll[p].batch : signal[s].status = "pending"

\* A report that found a final status is about a signal with an execution.
SeenWasReported ==
    \A r \in Reporters :
        report[r].pc = "read" /\ report[r].seen \in {"executed", "rejected"} =>
            executions[report[r].id] # {}

SerialInv == HeldIsPending /\ SeenWasReported /\ ReportedIsFinal

\* One step keeps the three facts if there is only one poll.
LEMMA SerialStep ==
  ASSUME Cardinality(Pollers) = 1, IInv, OutcomeWasReported, SerialInv, [Next]_vars
  PROVE  SerialInv'
  <1> USE DEF IInv, TypeOK
  <1>1. PICK only : Pollers = {only}
    BY ConstantsAssumption, FS_Singleton
  <1>2. ASSUME NEW s \in SignalIds
        PROVE  \/ signal'[s] = signal[s] /\ executions'[s] = executions[s]
               \/ Absent(signal[s]) /\ executions'[s] = executions[s]
               \/ /\ PollCommit(only)
                  /\ s \in poll[only].batch
                  /\ executions'[s] = executions[s]
               \/ \E r \in Reporters : ReportCommit(r) /\ report[r].id = s
    <2>1. ASSUME NEW i \in SignalIds, NEW x \in Symbols, NEW result \in Results,
                 PersistSignal(i, x, result)
          PROVE  /\ executions'[s] = executions[s]
                 /\ signal'[s] = signal[s] \/ Absent(signal[s])
      BY <2>1 DEF PersistSignal
    <2>2. ASSUME PollCommit(only)
          PROVE  /\ executions'[s] = executions[s]
                 /\ signal'[s] = signal[s] \/ s \in poll[only].batch
      BY <2>2 DEF PollCommit
    <2>3. ASSUME NEW r \in Reporters, ReportCommit(r), report[r].id # s
          PROVE  signal'[s] = signal[s] /\ executions'[s] = executions[s]
      BY <2>3 DEF ReportCommit, ActiveReport, IdleReport
    <2>4. CASE UNCHANGED <<signal, executions>>
      BY <2>4
    <2>5. QED
      BY <1>1, <2>1, <2>2, <2>3, <2>4
         DEF Next, Persist, PollStep, PollRead, PollAbort, PollReply,
             PollReplyLost, EAStep, EAOrder, EAClose, ReportStep, ReportRead,
             ReportAbort, vars
  <1>3. ASSUME NEW r \in Reporters, ReportCommit(r)
        PROVE  LET s == report[r].id
               IN  /\ s \in SignalIds
                   /\ Past(signal[s])
                   /\ executions'[s] # {}
                   /\ Final(signal'[s])
                   /\ UNCHANGED poll
    <2> DEFINE s == report[r].id
    <2>1. report[r] \in ActiveReport
      BY <1>3 DEF ReportCommit, IdleReport
    <2>2. s \in SignalIds /\ report[r].status \in ReportStatus
      BY <2>1 DEF ActiveReport
    <2>3. Past(signal[s])
      BY <1>3 DEF ReportCommit, ReportIsPast
    <2>4. executions'[s] # {}
      BY <1>3, <2>2 DEF ReportCommit
    <2>5. CASE Outcome(report[r].status) # report[r].seen
      <3>1. signal' = [signal EXCEPT ![s].status = Outcome(report[r].status)]
        BY <1>3, <2>5 DEF ReportCommit
      <3>2. signal[s] \in SignalRow
        BY <2>2
      <3>3. signal'[s].status = Outcome(report[r].status)
        BY <2>2, <3>1, <3>2 DEF SignalRow
      <3>4. QED
        BY <1>3, <2>2, <2>3, <2>4, <3>3 DEF Final, Outcome, ReportCommit
    <2>6. CASE Outcome(report[r].status) = report[r].seen
      <3>1. signal' = signal
        BY <1>3, <2>6 DEF ReportCommit
      <3>2. executions[s] # {}
        BY <1>3, <2>6 DEF SerialInv, SeenWasReported, Outcome, ReportCommit
      <3>3. Final(signal[s])
        BY <2>2, <3>2 DEF SerialInv, ReportedIsFinal, Final
      <3>4. QED
        BY <1>3, <2>2, <2>3, <2>4, <3>1, <3>3 DEF ReportCommit
    <2>7. QED
      BY <2>5, <2>6
  <1>4. HeldIsPending'
    <2> SUFFICES ASSUME poll'[only].pc = "read", NEW s \in poll'[only].batch
                 PROVE  signal'[s].status = "pending"
      BY <1>1 DEF HeldIsPending
    <2>1. s \in SignalIds
      BY <1>1, TypeStep
    <2>2. CASE poll'[only] = poll[only]
      <3>1. signal[s].status = "pending"
        BY <1>1, <2>2 DEF SerialInv, HeldIsPending
      <3>2. ~PollCommit(only)
        BY <1>1, <2>2 DEF PollCommit
      <3>3. ~\E r \in Reporters : ReportCommit(r) /\ report[r].id = s
        BY <1>3, <3>1 DEF Past
      <3>4. QED
        BY <1>2, <2>1, <3>1, <3>2, <3>3 DEF Absent
    <2>3. CASE poll'[only] # poll[only]
      <3>1. ~PollCommit(only)
        BY <1>1 DEF PollCommit
      <3>2. PICK filter \in Symbols \cup {AnySymbol} : PollRead(only, filter)
        BY <1>1, <2>3, <3>1, PollChanges
      <3> DEFINE candidates == {i \in SignalIds : /\ Eligible(signal[i])
                                                  /\ Matches(signal[i], filter)}
      <3>3. s \in candidates
        BY <1>1, <3>2, NewestIsSubset DEF PollRead
      <3>4. QED
        BY <3>2, <3>3 DEF PollRead, Eligible
    <2>4. QED
      BY <2>2, <2>3
  <1>5. SeenWasReported'
    <2> SUFFICES ASSUME NEW r \in Reporters, report'[r].pc = "read",
                        report'[r].seen \in {"executed", "rejected"}
                 PROVE  executions'[report'[r].id] # {}
      BY DEF SeenWasReported
    <2> DEFINE s == report'[r].id
    <2>1. s \in SignalIds
      BY TypeStep DEF ActiveReport, IdleReport
    <2>2. executions[s] # {}
      <3>1. CASE report'[r] = report[r]
        BY <3>1 DEF SerialInv, SeenWasReported
      <3>2. CASE report'[r] # report[r]
        <4>1. PICK i \in SignalIds, reported \in ReportStatus :
                  ReportRead(r, i, reported)
          BY <3>2, ReportChanges
        <4>2. s = i /\ report'[r].seen = signal[i].status
          BY <4>1 DEF ReportRead
        <4>3. QED
          BY <4>2 DEF OutcomeWasReported
      <3>3. QED
        BY <3>1, <3>2
    <2>3. QED
      BY <1>2, <1>3, <2>1, <2>2
  <1>6. ReportedIsFinal'
    <2> SUFFICES ASSUME NEW s \in SignalIds, executions'[s] # {}
                 PROVE  Final(signal'[s])
      BY DEF ReportedIsFinal, Final
    <2>1. ASSUME NEW r \in Reporters, ReportCommit(r), report[r].id = s
          PROVE  Final(signal'[s])
      BY <1>3, <2>1
    <2>2. CASE executions[s] # {} /\ executions'[s] = executions[s]
      <3>1. Final(signal[s])
        BY <2>2 DEF SerialInv, ReportedIsFinal, Final
      <3>2. ~(PollCommit(only) /\ s \in poll[only].batch)
        BY <1>1, <3>1 DEF SerialInv, HeldIsPending, Final, PollCommit
      <3>3. QED
        BY <1>2, <2>1, <3>1, <3>2 DEF Absent, Final
    <2>3. QED
      BY <1>2, <2>1, <2>2
  <1>7. QED
    BY <1>4, <1>5, <1>6 DEF SerialInv

\* When polls never overlap, a signal with a recorded execution stays EXECUTED
\* or REJECTED: no late poll turns it back to ACKNOWLEDGED.
THEOREM SerialPollsKeepOutcome ==
  ASSUME Cardinality(Pollers) = 1
  PROVE  Spec => []ReportedIsFinal
  <1>1. Init => SerialInv
    BY DEF Init, SerialInv, HeldIsPending, SeenWasReported, ReportedIsFinal,
       IdlePoll, IdleReport
  <1>2. IInv /\ OutcomeWasReported /\ SerialInv /\ [Next]_vars => SerialInv'
    BY SerialStep
  <1>3. SerialInv => ReportedIsFinal
    BY DEF SerialInv
  <1>4. QED
    BY <1>1, <1>2, <1>3, Invariance, OutcomeReported, PTL DEF Spec
=============================================================================
