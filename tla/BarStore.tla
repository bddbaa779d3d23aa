------------------------------- MODULE BarStore -------------------------------
(***************************************************************************)
(* The bars of one symbol and timeframe, and their two writers: the EA's   *)
(* POST /mt5/ingest, and the backfill an analysis makes before it reads    *)
(* them (services/bar_ingest.py, called by POST /analysis/run).            *)
(*                                                                         *)
(* Both writers look every bar up, one query each, queue the ones they did *)
(* not find and insert them in one commit.  The session does not flush     *)
(* before a query (database/session.py: autoflush off), so a lookup sees   *)
(* what is committed and not what the request itself has queued; the       *)
(* unique key (symbol, timeframe, bar_time) is enforced at the commit.     *)
(*                                                                         *)
(* Ingests are `def` handlers on worker threads.  Analyses are coroutines  *)
(* of one event loop and give it up only while they wait for the provider, *)
(* so between two analyses a backfill and the read after it are one piece, *)
(* but an ingest may commit anywhere.                                      *)
(*                                                                         *)
(* A request is answered once; its last state is kept.                     *)
(***************************************************************************)
EXTENDS Integers, FiniteSets, Sequences, SequencesExt

CONSTANTS
    Times,        \* bar times
    Ingests,      \* ingest requests
    Analyses,     \* analysis requests
    MaxBatch,     \* bound on the bars of one payload or provider response
    MinBars,      \* minimum_bars of the analyses
    BarLimit,     \* their bar_limit
    StaleAfter    \* oldest age at which the latest bar counts as fresh

NoOne == "no one"

Requests == Ingests \cup Analyses

ASSUME ConstantsAssumption ==
    /\ NoOne \notin Requests
    /\ Times \subseteq Nat /\ IsFiniteSet(Times)
    /\ Ingests \cap Analyses = {}
    /\ {MaxBatch, MinBars, BarLimit, StaleAfter} \subseteq Nat

VARIABLES
    store,   \* market_bars: the request that inserted the bar, or NoOne
    req,     \* requests
    now

vars == <<store, req, now>>

\* A bar as it arrives: sane is the OHLC check.
Bars == [time : Times, sane : BOOLEAN]

New == [pc |-> "new"]

\* Waiting for the provider.
Fetching == [pc |-> "fetch"]

\* Bars still to be looked up, times queued for insertion.
Scanning(batch, todo, queued) ==
    [pc |-> "scan", batch |-> batch, todo |-> todo, queued |-> queued]

\* Analysis: about to read the newest bars; batch is what was backfilled.
Loading(batch) == [pc |-> "load", batch |-> batch]

Answered(answer, batch, loaded) ==
    [pc |-> "answered", answer |-> answer, batch |-> batch, loaded |-> loaded]

RequestState ==
    [pc : {"new", "fetch"}]
      \cup [pc : {"scan"}, batch : Seq(Bars), todo : Seq(Bars), queued : Seq(Times)]
      \cup [pc : {"load"}, batch : Seq(Bars)]
      \cup [pc : {"answered"}, batch : Seq(Bars), loaded : SUBSET Times,
            answer : {"ok", "invalid", "failed", "killed", "insufficient",
                      "analysed"}]

Stored == {t \in Times : store[t] # NoOne}

Newest(ids, n) == {s \in ids : Cardinality({t \in ids : t > s}) < n}

Distinct(queue) == \A i, j \in DOMAIN queue : queue[i] = queue[j] => i = j

Init ==
    /\ store = [t \in Times |-> NoOne]
    /\ req = [q \in Requests |-> New]
    /\ now \in Times

\* Variant: the backfill runs on a worker thread.
LoopUnheld(a) == a \in Analyses

\* The event loop is not held by another analysis.
LoopFree(a) ==
    \A b \in Analyses \ {a} : req[b].pc \notin {"scan", "load"}

-----------------------------------------------------------------------------
(* POST /mt5/ingest.                                                       *)

Ingest(q, batch) ==
    /\ req[q] = New
    /\ req' = [req EXCEPT ![q] = Scanning(batch, batch, <<>>)]
    /\ UNCHANGED <<store, now>>

\* A malformed bar ends the request with 422; nothing was committed.
IngestInvalid(q) ==
    /\ req[q].pc = "scan"
    /\ req[q].todo # <<>>
    /\ ~Head(req[q].todo).sane
    /\ req' = [req EXCEPT ![q] = Answered("invalid", req[q].batch, {})]
    /\ UNCHANGED <<store, now>>

-----------------------------------------------------------------------------
(* Steps of both writers.                                                  *)

\* Variant: each bar is committed as soon as it was not found.
LookUpAndStore(q) ==
    /\ req[q].pc = "scan"
    /\ req[q].todo # <<>>
    /\ Head(req[q].todo).sane
    /\ LET t == Head(req[q].todo).time
       IN  store' = IF t \in Stored THEN store ELSE [store EXCEPT ![t] = q]
    /\ req' = [req EXCEPT ![q].todo = Tail(@)]
    /\ UNCHANGED now

\* SELECT for the next bar: skip it or queue it.
LookUp(q) ==
    /\ req[q].pc = "scan"
    /\ req[q].todo # <<>>
    /\ Head(req[q].todo).sane
    /\ LET t == Head(req[q].todo).time
       IN  req' = [req EXCEPT ![q].todo = Tail(@),
                              ![q].queued = IF t \in Stored THEN @
                                                            ELSE Append(@, t)]
    /\ UNCHANGED <<store, now>>

\* What follows the commit.
AfterCommit(q) ==
    IF q \in Ingests THEN Answered("ok", req[q].batch, {})
                      ELSE Loading(req[q].batch)

\* Variant: a violated key is swallowed and the request goes on.
CommitOrSkip(q) ==
    /\ req[q].pc = "scan"
    /\ req[q].todo = <<>>
    /\ LET queue == req[q].queued
       IN  store' = IF Distinct(queue) /\ ToSet(queue) \cap Stored = {}
                      THEN [t \in Times |-> IF t \in ToSet(queue) THEN q
                                                                  ELSE store[t]]
                      ELSE store
    /\ req' = [req EXCEPT ![q] = AfterCommit(q)]
    /\ UNCHANGED now

Commit(q) ==
    /\ req[q].pc = "scan"
    /\ req[q].todo = <<>>
    /\ LET queue == req[q].queued
       IN  /\ Distinct(queue)
           /\ ToSet(queue) \cap Stored = {}
           /\ store' = [t \in Times |-> IF t \in ToSet(queue) THEN q
                                                              ELSE store[t]]
    /\ req' = [req EXCEPT ![q] = AfterCommit(q)]
    /\ UNCHANGED now

\* The key is violated: the whole commit is rolled back, the answer is 500.
CommitFails(q) ==
    /\ req[q].pc = "scan"
    /\ req[q].todo = <<>>
    /\ LET queue == req[q].queued
       IN  ~Distinct(queue) \/ ToSet(queue) \cap Stored # {}
    /\ req' = [req EXCEPT ![q] = Answered("failed", req[q].batch, {})]
    /\ UNCHANGED <<store, now>>

\* The process serving the request dies.
Killed(q) ==
    /\ req[q].pc \in {"scan", "fetch", "load"}
    /\ req' = [req EXCEPT ![q] = Answered("killed", <<>>, {})]
    /\ UNCHANGED <<store, now>>

-----------------------------------------------------------------------------
(* POST /analysis/run: ensure_recent_bars, then _load_bars.                *)

Enough ==
    /\ Cardinality(Stored) >= MinBars
    /\ \E t \in Stored : now - t <= StaleAfter

Check(a) ==
    /\ req[a] = New
    /\ LoopFree(a)
    /\ req' = [req EXCEPT ![a] = IF Enough THEN Loading(<<>>) ELSE Fetching]
    /\ UNCHANGED <<store, now>>

\* No interval for the timeframe, no API key, a failed or empty response.
FetchNothing(a) ==
    /\ req[a] = Fetching
    /\ LoopFree(a)
    /\ req' = [req EXCEPT ![a] = Loading(<<>>)]
    /\ UNCHANGED <<store, now>>

FetchBars(a, batch) ==
    /\ req[a] = Fetching
    /\ LoopFree(a)
    /\ req' = [req EXCEPT ![a] = Scanning(batch, batch, <<>>)]
    /\ UNCHANGED <<store, now>>

\* The backfill skips a malformed bar.
SkipInvalid(a) ==
    /\ req[a].pc = "scan"
    /\ req[a].todo # <<>>
    /\ ~Head(req[a].todo).sane
    /\ req' = [req EXCEPT ![a].todo = Tail(@)]
    /\ UNCHANGED <<store, now>>

\* Variant: the query takes the first rows of the table, the oldest.
LoadOldest(a) ==
    /\ req[a].pc = "load"
    /\ LET loaded == {s \in Stored :
                        Cardinality({t \in Stored : t < s}) < BarLimit}
           answer == IF Cardinality(loaded) < MinBars THEN "insufficient"
                                                      ELSE "analysed"
       IN  req' = [req EXCEPT ![a] = Answered(answer, req[a].batch, loaded)]
    /\ UNCHANGED <<store, now>>

Load(a) ==
    /\ req[a].pc = "load"
    /\ LET loaded == Newest(Stored, BarLimit)
           answer == IF Cardinality(loaded) < MinBars THEN "insufficient"
                                                      ELSE "analysed"
       IN  req' = [req EXCEPT ![a] = Answered(answer, req[a].batch, loaded)]
    /\ UNCHANGED <<store, now>>

-----------------------------------------------------------------------------
Tick ==
    /\ \E t \in Times : t > now /\ now' = t
    /\ UNCHANGED <<store, req>>

\* Bound: a payload has at most MaxBatch bars.  It has one at least.
Batches == UNION {[1..n -> {b \in Bars : b.time <= now}] : n \in 1..MaxBatch}

Next ==
    \/ \E q \in Ingests : \/ \E batch \in Batches : Ingest(q, batch)
                          \/ IngestInvalid(q)
    \/ \E q \in Requests : LookUp(q) \/ Commit(q) \/ CommitFails(q) \/ Killed(q)
    \/ \E a \in Analyses : \/ Check(a)
                           \/ FetchNothing(a)
                           \/ \E batch \in Batches : FetchBars(a, batch)
                           \/ SkipInvalid(a)
                           \/ Load(a)
    \/ Tick

Spec == Init /\ [][Next]_vars

-----------------------------------------------------------------------------
(* Properties.                                                             *)

TypeOK ==
    /\ store \in [Times -> Requests \cup {NoOne}]
    /\ now \in Times
    /\ req \in [Requests -> RequestState]

Finished(q, answers) == req[q].pc = "answered" /\ req[q].answer \in answers

Sane(batch) == {batch[i].time : i \in {j \in DOMAIN batch : batch[j].sane}}

\* A request that was refused or failed, and one that is still looking its bars
\* up, has left no bar behind: the EA can send the payload again as a whole
\* (mt5.py:85-116, bar_ingest.py:80-114).
AllOrNothing ==
    \A q \in Ingests :
        req[q].pc = "scan" \/ Finished(q, {"invalid", "failed", "killed"}) =>
            \A t \in Times : store[t] # q

\* "ok" means that every bar of the payload is in the store, whichever feed's
\* copy it is and whatever was committed meanwhile (mt5.py:97-118).
AcceptedBarsAreStored ==
    \A q \in Ingests : Finished(q, {"ok"}) => Sane(req[q].batch) \subseteq Stored

\* The bars an analysis fetched for itself are among those it reads, unless the
\* limit pushes them out for newer ones (analysis.py:72-88, 169-186,
\* bar_ingest.py:197-206).
AnalysisReadsWhatItFetched ==
    \A a \in Analyses : Finished(a, {"analysed", "insufficient"}) =>
        \A t \in Sane(req[a].batch) \ req[a].loaded :
            Cardinality({s \in req[a].loaded : s > t}) = BarLimit

Repeats(batch) ==
    \E i, j \in DOMAIN batch :
        /\ i # j /\ batch[i].sane /\ batch[j].sane
        /\ batch[i].time = batch[j].time

\* Two backfills of the same series do not collide, although both were started
\* because the same bars were missing: the event loop separates them, and a
\* backfill fails only for a bar it was given twice or an ingest has inserted
\* (bar_ingest.py:197-206).
BackfillsDoNotCollide ==
    \A a \in Analyses : Finished(a, {"failed"}) =>
        \/ Repeats(req[a].batch)
        \/ \E t \in Sane(req[a].batch) : store[t] \in Ingests

\* bar_ingest.py:7-10: the two feeds "can never collide", the later of two
\* copies "is a no-op skip".
FeedsDoNotCollide ==
    \A q \in Requests : Finished(q, {"failed"}) => Repeats(req[q].batch)

\* bar_ingest.py:73-75: "one malformed upstream row should not fail the whole
\* analysis request".
OneRowFailsNoAnalysis == \A a \in Analyses : ~Finished(a, {"failed"})
=============================================================================
