---------------------------- MODULE SignalBridge ----------------------------
(***************************************************************************)
(* The bridge between the analysis engine and the MetaTrader 5 expert      *)
(* advisor (EA): an analysis run stores a Signal row, the EA polls         *)
(* GET /mt5/pending-signals, acts on what it receives and sends            *)
(* POST /mt5/execution-report.                                             *)
(*                                                                         *)
(* Both routes are plain `def` handlers: FastAPI runs each request on a    *)
(* worker thread with a database session of its own, and nothing           *)
(* serialises them.  A request reads what is committed when it queries and *)
(* writes it all in one commit, so a handler is two atomic steps, read and *)
(* commit, with other requests' steps in between.  The session's UPDATE    *)
(* names only the row's id, never the status the row was read with.        *)
(*                                                                         *)
(* The EA is not in the repository.  It is modelled from what the routes   *)
(* and schemas expect of it: it polls, places an order for each signal of  *)
(* a response it receives, and reports filled / rejected / closed, maybe   *)
(* more than once and in any order (a retry, two requests in flight).      *)
(***************************************************************************)
EXTENDS Integers, FiniteSets

CONSTANTS
    SignalIds,   \* ids of Signal rows, numbered in the order of created_at
    Symbols,     \* canonical symbols
    Pollers,     \* pending-signals requests that can be in flight at once
    Reporters,   \* execution-report requests that can be in flight at once
    Limit,       \* the query's LIMIT (20 in the code)
    MaxFaults    \* bound on killed requests and lost responses

ASSUME ConstantsAssumption ==
    /\ SignalIds \subseteq Nat
    /\ IsFiniteSet(Pollers)
    /\ Limit \in Nat \ {0}
    /\ MaxFaults \in Nat

VARIABLES
    signal,      \* the signals table; status "none" is an id not yet inserted
    executions,  \* the trade_executions table: statuses of the signal's rows
    poll,        \* pending-signals requests
    report,      \* execution-report requests
    received,    \* EA: signals received and not yet acted on
    events,      \* EA: what has happened to the orders of each signal
    handed,      \* history: how many committed polls returned the signal
    faults       \* number of faults so far

vars == <<signal, executions, poll, report, received, events, handed, faults>>

-----------------------------------------------------------------------------
(* Values.                                                                 *)

SignalStatus == {"pending", "acknowledged", "executed", "expired", "rejected"}

Directional == {"bullish", "bearish"}

\* The (status, direction) pairs an AnalysisResult can have: the pipeline
\* names a direction only for a SETUP.  NO_SETUP stands for
\* INSUFFICIENT_CONFIRMATION too: no query tells them apart.
Results ==
    ({"SETUP"} \X Directional)
        \cup ({"NO_SETUP"} \X {"no_trade"})

ReportStatus == {"filled", "rejected", "closed"}

AnySymbol == "any symbol"   \* a poll without the symbol parameter

SignalRow ==
    [status    : SignalStatus \cup {"none"},
     setup     : {"SETUP", "NO_SETUP"},
     direction : Directional \cup {"no_trade"},
     symbol    : Symbols]

Absent(row) == row.status = "none"

IdlePoll == [pc |-> "idle", batch |-> {}]

IdleReport == [pc |-> "idle"]

ActiveReport ==
    [pc : {"read"}, id : SignalIds, status : ReportStatus,
     seen : SignalStatus]

Init ==
    /\ signal \in [SignalIds -> {row \in SignalRow :
                        /\ Absent(row)
                        /\ row.setup = "NO_SETUP"
                        /\ row.direction = "no_trade"
                        /\ row.symbol = CHOOSE x \in Symbols : TRUE}]
    /\ executions = [s \in SignalIds |-> {}]
    /\ poll = [p \in Pollers |-> IdlePoll]
    /\ report = [r \in Reporters |-> IdleReport]
    /\ received = {}
    /\ events = [s \in SignalIds |-> {}]
    /\ handed = [s \in SignalIds |-> 0]
    /\ faults = 0

-----------------------------------------------------------------------------
(* persist_analysis: the run, its evidence and its signal in one commit.   *)

\* Variant: a later run stores its signal over an earlier row.
PersistOver(s, x, result) ==
    /\ signal' = [signal EXCEPT ![s] = [status    |-> "pending",
                                        setup     |-> result[1],
                                        direction |-> result[2],
                                        symbol    |-> x]]
    /\ UNCHANGED <<executions, poll, report, received, events, handed, faults>>

PersistSignal(s, x, result) ==
    /\ Absent(signal[s])
    /\ signal' = [signal EXCEPT ![s] = [status    |-> "pending",
                                        setup     |-> result[1],
                                        direction |-> result[2],
                                        symbol    |-> x]]
    /\ UNCHANGED <<executions, poll, report, received, events, handed, faults>>

-----------------------------------------------------------------------------
(* GET /mt5/pending-signals.                                               *)

\* Variant: the query filters on the status only.
EligibleByStatus(row) == row.status = "pending"

\* Variant: signals are returned until an execution is reported.
EligibleUntilReported(row) ==
    /\ row.status \in {"pending", "acknowledged"}
    /\ row.setup = "SETUP"
    /\ row.direction \in Directional

Eligible(row) ==
    /\ row.status = "pending"
    /\ row.setup = "SETUP"
    /\ row.direction \in Directional

\* Variant: a poll without a symbol is compared like any other.
MatchesExactly(row, filter) == row.symbol = filter

Matches(row, filter) == filter = AnySymbol \/ row.symbol = filter

\* ORDER BY created_at DESC LIMIT n.
Newest(ids, n) == {s \in ids : Cardinality({t \in ids : t > s}) < n}

PollRead(p, filter) ==
    /\ poll[p].pc = "idle"
    /\ LET candidates == {s \in SignalIds : /\ Eligible(signal[s])
                                            /\ Matches(signal[s], filter)}
       IN  poll' = [poll EXCEPT ![p] = [pc    |-> "read",
                                        batch |-> Newest(candidates, Limit)]]
    /\ UNCHANGED <<signal, executions, report, received, events, handed, faults>>

Acknowledge(row) == [row EXCEPT !.status = "acknowledged"]

PollCommit(p) ==
    /\ poll[p].pc = "read"
    /\ signal' = [s \in SignalIds |->
                    IF s \in poll[p].batch THEN Acknowledge(signal[s])
                                           ELSE signal[s]]
    /\ handed' = [s \in SignalIds |->
                    IF s \in poll[p].batch THEN handed[s] + 1 ELSE handed[s]]
    /\ poll' = [poll EXCEPT ![p].pc = "reply"]
    /\ UNCHANGED <<executions, report, received, events, faults>>

\* The process dies before the commit: the database rolls back.
PollAbort(p) ==
    /\ poll[p].pc = "read"
    /\ faults < MaxFaults
    /\ faults' = faults + 1
    /\ poll' = [poll EXCEPT ![p] = IdlePoll]
    /\ UNCHANGED <<signal, executions, report, received, events, handed>>

PollReply(p) ==
    /\ poll[p].pc = "reply"
    /\ received' = received \cup poll[p].batch
    /\ poll' = [poll EXCEPT ![p] = IdlePoll]
    /\ UNCHANGED <<signal, executions, report, events, handed, faults>>

\* Variant: a response that could not be sent puts its signals back.
PollReplyRequeued(p) ==
    /\ poll[p].pc = "reply"
    /\ faults < MaxFaults
    /\ faults' = faults + 1
    /\ signal' = [s \in SignalIds |->
                    IF s \in poll[p].batch
                      THEN [signal[s] EXCEPT !.status = "pending"]
                      ELSE signal[s]]
    /\ poll' = [poll EXCEPT ![p] = IdlePoll]
    /\ UNCHANGED <<executions, report, received, events, handed>>

\* The response never arrives: connection lost, EA timed out or restarted,
\* process died after the commit.
PollReplyLost(p) ==
    /\ poll[p].pc = "reply"
    /\ faults < MaxFaults
    /\ faults' = faults + 1
    /\ poll' = [poll EXCEPT ![p] = IdlePoll]
    /\ UNCHANGED <<signal, executions, report, received, events, handed>>

-----------------------------------------------------------------------------
(* The EA (external).                                                      *)

EAOrder(s, outcome) ==
    /\ s \in received
    /\ received' = received \ {s}
    /\ events' = [events EXCEPT ![s] = @ \cup {outcome}]
    /\ UNCHANGED <<signal, executions, poll, report, handed, faults>>

EAClose(s) ==
    /\ "filled" \in events[s]
    /\ "closed" \notin events[s]
    /\ events' = [events EXCEPT ![s] = @ \cup {"closed"}]
    /\ UNCHANGED <<signal, executions, poll, report, received, handed, faults>>

-----------------------------------------------------------------------------
(* POST /mt5/execution-report.  A report for an id the table does not have *)
(* returns at once and changes nothing.                                    *)

Outcome(reported) == IF reported = "filled" THEN "executed" ELSE "rejected"

ReportRead(r, s, reported) ==
    /\ report[r].pc = "idle"
    /\ reported \in events[s]
    /\ ~Absent(signal[s])
    /\ report' = [report EXCEPT ![r] = [pc |-> "read", id |-> s,
                                        status |-> reported,
                                        seen |-> signal[s].status]]
    /\ UNCHANGED <<signal, executions, poll, received, events, handed, faults>>

\* Variant: one execution is kept per signal, the first.
ReportCommitFirst(r) ==
    /\ report[r].pc = "read"
    /\ LET s == report[r].id
           new == Outcome(report[r].status)
       IN  /\ executions' = IF executions[s] = {}
                              THEN [executions EXCEPT ![s] = {report[r].status}]
                              ELSE executions
           /\ signal' = [signal EXCEPT ![s].status = new]
    /\ report' = [report EXCEPT ![r] = IdleReport]
    /\ UNCHANGED <<poll, received, events, handed, faults>>

\* The session writes the signal only when the assigned status differs from
\* the one it loaded.
ReportCommit(r) ==
    /\ report[r].pc = "read"
    /\ LET s == report[r].id
           new == Outcome(report[r].status)
       IN  /\ executions' = [executions EXCEPT ![s] = @ \cup {report[r].status}]
           /\ signal' = IF new # report[r].seen
                          THEN [signal EXCEPT ![s].status = new]
                          ELSE signal
    /\ report' = [report EXCEPT ![r] = IdleReport]
    /\ UNCHANGED <<poll, received, events, handed, faults>>

ReportAbort(r) ==
    /\ report[r].pc = "read"
    /\ faults < MaxFaults
    /\ faults' = faults + 1
    /\ report' = [report EXCEPT ![r] = IdleReport]
    /\ UNCHANGED <<signal, executions, poll, received, events, handed>>

-----------------------------------------------------------------------------
Persist == \E s \in SignalIds, x \in Symbols, result \in Results :
              PersistSignal(s, x, result)

PollStep(p) ==
    \/ \E filter \in Symbols \cup {AnySymbol} : PollRead(p, filter)
    \/ PollCommit(p)
    \/ PollAbort(p)
    \/ PollReply(p)
    \/ PollReplyLost(p)

EAStep(s) ==
    \/ \E outcome \in {"filled", "rejected"} : EAOrder(s, outcome)
    \/ EAClose(s)

ReportStep(r) ==
    \/ \E s \in SignalIds, reported \in ReportStatus : ReportRead(r, s, reported)
    \/ ReportCommit(r)
    \/ ReportAbort(r)

Next ==
    \/ Persist
    \/ \E p \in Pollers : PollStep(p)
    \/ \E s \in SignalIds : EAStep(s)
    \/ \E r \in Reporters : ReportStep(r)

Spec == Init /\ [][Next]_vars

\* A request that has been accepted runs to its end; the EA polls without a
\* symbol again and again, acts on what it receives and reports each event.
Fairness ==
    /\ \A p \in Pollers :
         /\ SF_vars(PollRead(p, AnySymbol))
         /\ WF_vars(PollCommit(p) \/ PollAbort(p))
         /\ WF_vars(PollReply(p) \/ PollReplyLost(p))
    /\ \A s \in SignalIds :
         WF_vars(\E outcome \in {"filled", "rejected"} : EAOrder(s, outcome))
    /\ \A r \in Reporters :
         /\ WF_vars(ReportCommit(r) \/ ReportAbort(r))
         /\ \A s \in SignalIds, reported \in ReportStatus :
              SF_vars(ReportRead(r, s, reported))

FairSpec == Spec /\ Fairness

-----------------------------------------------------------------------------
(* Properties.                                                             *)

InFlight(s) == {p \in Pollers : poll[p].pc = "read" /\ s \in poll[p].batch}

TypeOK ==
    /\ signal \in [SignalIds -> SignalRow]
    /\ executions \in [SignalIds -> SUBSET ReportStatus]
    /\ poll \in [Pollers -> [pc : {"idle", "read", "reply"},
                             batch : SUBSET SignalIds]]
    /\ report \in [Reporters -> {IdleReport} \cup ActiveReport]
    /\ received \subseteq SignalIds
    /\ events \in [SignalIds -> SUBSET ReportStatus]
    /\ handed \in [SignalIds -> Nat]
    /\ faults \in 0..MaxFaults

\* Whatever the requests' interleaving, a row the engine did not judge to be a
\* directional SETUP is never returned to the EA, and no status the EA reports
\* can belong to such a row (mt5.py:136-140).
OnlySetupsReachEA ==
    \A s \in SignalIds :
        handed[s] > 0 \/ executions[s] # {} =>
            signal[s].setup = "SETUP" /\ signal[s].direction \in Directional

\* A signal's final status always has a trade_executions row that says so:
\* EXECUTED a filled one, REJECTED one that is not a fill.  Stale polls and
\* racing reports may move the status, never to an outcome nobody reported
\* (mt5.py:166-177).
OutcomeWasReported ==
    \A s \in SignalIds :
        /\ signal[s].status = "executed" => "filled" \in executions[s]
        /\ signal[s].status = "rejected" => executions[s] \ {"filled"} # {}

\* How often a signal can be returned is bounded by the polls that may run at
\* the same time: each must have read the row while it was still PENDING, and
\* the first commit ends that for good (mt5.py:136-148).  With one poller this
\* is the comment's promise, at most once.
HandoutsBoundedByPolls ==
    \A s \in SignalIds :
        handed[s] + Cardinality(InFlight(s)) <= Cardinality(Pollers)

\* While a row is PENDING nothing downstream knows of it: it was returned by no
\* committed poll, the EA has not acted on it and no execution refers to it.
PendingIsUntouched ==
    \A s \in SignalIds :
        signal[s].status \in {"none", "pending"} =>
            /\ handed[s] = 0
            /\ s \notin received
            /\ events[s] = {}
            /\ executions[s] = {}

\* If only one poll runs at a time, a signal with a recorded execution has a
\* final status, and keeps one (mt5.py:145-148, 176).
ReportedIsFinal ==
    \A s \in SignalIds :
        executions[s] # {} => signal[s].status \in {"executed", "rejected"}

\* No step of any handler makes a signal PENDING again or changes what the
\* engine decided about it.
NeverPendingAgain ==
    [][\A s \in SignalIds :
         ~Absent(signal[s]) =>
            /\ signal[s].status # "pending" => signal'[s].status # "pending"
            /\ signal'[s].setup = signal[s].setup
            /\ signal'[s].direction = signal[s].direction]_vars

\* mt5.py:144-145: the status is set "so the same signal isn't re-fetched/
\* re-executed by a second EA poll".
HandedOutOnce == \A s \in SignalIds : handed[s] <= 1

\* signal.py:30-31: a signal for which the EA reported a fill is past
\* ACKNOWLEDGED, "EA has fetched it".
FillIsNotForgotten ==
    \A s \in SignalIds :
        "filled" \in executions[s] => signal[s].status # "acknowledged"

\* signal.py:33: REJECTED says "EA/broker rejected it".
RejectedWasRefused ==
    \A s \in SignalIds :
        signal[s].status = "rejected" => "rejected" \in executions[s]

\* Every directional SETUP is eventually handed out, although each poll takes
\* only the newest rows up to the limit (mt5.py:143).
EverySetupIsHandedOut ==
    \A s \in SignalIds : Eligible(signal[s]) ~> handed[s] > 0

\* signal.py:32: a signal "not acted on in time" is EXPIRED; so none stays
\* ACKNOWLEDGED for ever.
AcknowledgedEnds ==
    \A s \in SignalIds :
        signal[s].status = "acknowledged" ~> signal[s].status # "acknowledged"
=============================================================================
