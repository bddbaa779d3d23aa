--------------------------- MODULE BarStoreProofs ---------------------------
(***************************************************************************)
(* Proofs about BarStore, for any number of bar times, payloads, analyses  *)
(* and bars in a batch, and any limits.                                    *)
(***************************************************************************)
EXTENDS BarStore, FiniteSetTheorems, TLAPS

-----------------------------------------------------------------------------
(* The inductive invariant.                                                *)

\* A payload's bars appear with its answer.
StoredByAnswered ==
    \A t \in Times, q \in Ingests : store[t] = q => Finished(q, {"ok"})

\* The loop is held by one analysis at most.
OneOnLoop ==
    \A a, b \in Analyses :
        req[a].pc \in {"scan", "load"} /\ req[b].pc \in {"scan", "load"} => a = b

\* The bars of the batch that have been looked up.
Done(r) == 1 .. Len(r.batch) - Len(r.todo)

\* todo is what is left of the batch; each sane bar before that is stored or
\* queued, and nothing else is queued, nothing twice unless the batch has it
\* twice.
ScanGood(r, stored) ==
    /\ Len(r.todo) <= Len(r.batch)
    /\ \A i \in 1 .. Len(r.todo) :
         r.todo[i] = r.batch[Len(r.batch) - Len(r.todo) + i]
    /\ \A j \in Done(r) : r.batch[j].sane =>
         r.batch[j].time \in stored \cup ToSet(r.queued)
    /\ \A t \in ToSet(r.queued) :
         \E j \in Done(r) : r.batch[j].sane /\ r.batch[j].time = t
    /\ ~Repeats(r.batch) => Distinct(r.queued)

ScanSound == \A q \in Requests : req[q].pc = "scan" => ScanGood(req[q], Stored)

\* While a backfill looks its bars up, only ingests store any of them.
QueuedByAnalysis ==
    \A a \in Analyses : req[a].pc = "scan" =>
        \A t \in ToSet(req[a].queued) : store[t] \in Ingests \cup {NoOne}

\* What was backfilled is there when the analysis reads.
LoadsStored ==
    \A a \in Analyses : req[a].pc = "load" => Sane(req[a].batch) \subseteq Stored

IInv ==
    /\ TypeOK
    /\ StoredByAnswered
    /\ OneOnLoop
    /\ ScanSound
    /\ QueuedByAnalysis
    /\ LoadsStored
    /\ AcceptedBarsAreStored
    /\ AnalysisReadsWhatItFetched
    /\ BackfillsDoNotCollide

-----------------------------------------------------------------------------
(* The newest elements of a finite set of numbers.                         *)

LEMMA NewestProperties ==
  ASSUME NEW S \in SUBSET Nat, IsFiniteSet(S), NEW n \in Nat,
         NEW t \in S, t \notin Newest(S, n)
  PROVE  Cardinality({s \in Newest(S, n) : s > t}) = n
  <1> DEFINE Above(s) == {u \in S : u > s}
             rank == [s \in S |-> Cardinality(Above(s))]
  <1>1. \A s \in S : /\ IsFiniteSet(Above(s)) /\ Cardinality(Above(s)) \in Nat
                     /\ Cardinality(Above(s)) < Cardinality(S)
    <2> SUFFICES ASSUME NEW s \in S
                 PROVE  /\ IsFiniteSet(Above(s)) /\ Cardinality(Above(s)) \in Nat
                        /\ Cardinality(Above(s)) < Cardinality(S)
      OBVIOUS
    <2>1. Above(s) \in SUBSET S /\ s \notin Above(s)
      OBVIOUS
    <2> HIDE DEF Above
    <2>2. /\ IsFiniteSet(Above(s)) /\ Cardinality(Above(s)) <= Cardinality(S)
          /\ Cardinality(S) # Cardinality(Above(s))
      BY <2>1, FS_Subset
    <2> QED
      BY <2>2, FS_CardinalityType
  <1>2. \A s, u \in S : s < u => Cardinality(Above(u)) < Cardinality(Above(s))
    <2> SUFFICES ASSUME NEW s \in S, NEW u \in S, s < u
                 PROVE  Cardinality(Above(u)) < Cardinality(Above(s))
      OBVIOUS
    <2>1. \A v \in Above(u) : v \in Above(s)
      <3> SUFFICES ASSUME NEW v \in S, v > u PROVE v > s
        OBVIOUS
      <3>1. v \in Nat /\ u \in Nat /\ s \in Nat
        OBVIOUS
      <3> QED
        BY <3>1
    <2>2. u \in Above(s) /\ u \notin Above(u)
      <3>1. u \in Nat /\ s \in Nat
        OBVIOUS
      <3> QED
        BY <3>1
    <2> HIDE DEF Above
    <2>3. Above(u) \in SUBSET Above(s)
      BY <2>1
    <2>4. /\ Cardinality(Above(u)) <= Cardinality(Above(s))
          /\ Cardinality(Above(s)) # Cardinality(Above(u))
      BY <1>1, <2>2, <2>3, FS_Subset
    <2> QED
      BY <1>1, <2>4
  <1>3. Cardinality(S) \in Nat
    BY FS_CardinalityType
  <1> HIDE DEF Above
  <1>4. rank \in Injection(S, 0 .. Cardinality(S) - 1)
    <2>1. rank \in [S -> 0 .. Cardinality(S) - 1]
      BY <1>1, <1>3
    <2>2. \A s, u \in S : rank[s] = rank[u] => s = u
      BY <1>1, <1>2
    <2> QED
      BY <2>1, <2>2 DEF Injection, IsInjective
  <1>5. rank \in Surjection(S, 0 .. Cardinality(S) - 1)
    <2>1. /\ IsFiniteSet(0 .. Cardinality(S) - 1)
          /\ Cardinality(0 .. Cardinality(S) - 1) = Cardinality(S)
      <3> DEFINE top == Cardinality(S) - 1
      <3>1. 0 \in Int /\ top \in Int /\ Cardinality(S) = top + 1 /\ ~(0 > top + 1)
        BY <1>3
      <3> HIDE DEF top
      <3>2. /\ IsFiniteSet(0 .. top)
            /\ Cardinality(0 .. top) = IF 0 > top THEN 0 ELSE top - 0 + 1
        BY <3>1, FS_Interval
      <3>3. IsFiniteSet(0 .. top) /\ Cardinality(0 .. top) = top + 1
        BY <3>1, <3>2
      <3> QED
        BY <3>1, <3>3 DEF top
    <2> QED
      BY <1>4, <2>1, FS_Injection
  <1>6. Newest(S, n) = {s \in S : rank[s] < n} /\ \A s \in S : rank[s] \in Nat
    BY <1>1 DEF Newest, Above
  <1>7. n <= rank[t] /\ rank[t] < Cardinality(S) /\ rank[t] \in Nat
    BY <1>1, <1>6
  <1> HIDE DEF rank
  <1>8. Cardinality(Newest(S, n)) = n
    <2> DEFINE low == [s \in Newest(S, n) |-> rank[s]]
    <2>1. low \in [Newest(S, n) -> 0 .. n - 1]
      <3>1. ASSUME NEW s \in Newest(S, n) PROVE rank[s] \in 0 .. n - 1
        <4>1. rank[s] \in Nat /\ rank[s] < n
          BY <1>6
        <4> QED
          BY <4>1
      <3> QED
        BY <3>1
    <2>2. \A s, u \in Newest(S, n) : low[s] = low[u] => s = u
      BY <1>4, <1>6 DEF Injection, IsInjective
    <2>3. \A i \in 0 .. n - 1 : \E s \in Newest(S, n) : low[s] = i
      <3> SUFFICES ASSUME NEW i \in 0 .. n - 1
                   PROVE  \E s \in Newest(S, n) : low[s] = i
        OBVIOUS
      <3>1. i \in 0 .. Cardinality(S) - 1
        BY <1>3, <1>7
      <3>2. PICK s \in S : rank[s] = i
        BY <1>5, <3>1 DEF Surjection
      <3> QED
        BY <1>6, <3>2
    <2> HIDE DEF low
    <2>4. low \in Injection(Newest(S, n), 0 .. n - 1)
      BY <2>1, <2>2 DEF Injection, IsInjective
    <2>5. low \in Surjection(Newest(S, n), 0 .. n - 1)
      BY <2>1, <2>3 DEF Surjection
    <2>6. IsFiniteSet(0 .. n - 1) /\ Cardinality(0 .. n - 1) = n
      BY FS_Interval
    <2> QED
      BY <2>4, <2>5, <2>6, FS_Injection
  <1>9. {s \in Newest(S, n) : s > t} = Newest(S, n)
    <2> SUFFICES ASSUME NEW s \in Newest(S, n) PROVE s > t
      OBVIOUS
    <2>1. s \in S /\ rank[s] < n /\ rank[s] \in Nat
      BY <1>6
    <2>2. CASE s < t
      BY <1>2, <1>7, <2>1, <2>2 DEF rank
    <2>3. s # t
      BY <1>7, <2>1
    <2> QED
      BY <2>1, <2>2, <2>3
  <1> QED
    BY <1>8, <1>9

-----------------------------------------------------------------------------
(* What a request looks like, and which steps change what.                 *)

LEMMA RequestTypes ==
  ASSUME NEW r \in RequestState
  PROVE  /\ r.pc \in {"new", "fetch", "scan", "load", "answered"}
         /\ r.pc \in {"scan", "load", "answered"} => r.batch \in Seq(Bars)
         /\ r.pc = "scan" => r.todo \in Seq(Bars) /\ r.queued \in Seq(Times)
         /\ r.pc = "answered" => r.loaded \in SUBSET Times
  BY DEF RequestState

LEMMA BatchType == \A batch \in Batches : batch \in Seq(Bars)
  <1> SUFFICES ASSUME NEW batch \in Batches PROVE batch \in Seq(Bars)
    OBVIOUS
  <1>1. PICK n \in 1 .. MaxBatch : batch \in [1 .. n -> {b \in Bars : b.time <= now}]
    BY DEF Batches
  <1>2. n \in Nat /\ batch \in [1 .. n -> Bars]
    BY <1>1, ConstantsAssumption
  <1> QED
    BY <1>2

LEMMA RequestStates ==
  /\ New \in RequestState /\ Fetching \in RequestState
  /\ \A batch \in Seq(Bars), todo \in Seq(Bars), queued \in Seq(Times) :
        Scanning(batch, todo, queued) \in RequestState
  /\ \A batch \in Seq(Bars) : Loading(batch) \in RequestState
  /\ \A batch \in Seq(Bars), loaded \in SUBSET Times,
        answer \in {"ok", "invalid", "failed", "killed", "insufficient", "analysed"} :
        Answered(answer, batch, loaded) \in RequestState
  <1>1. New \in RequestState /\ Fetching \in RequestState
    BY DEF New, Fetching, RequestState
  <1>2. \A batch \in Seq(Bars), todo \in Seq(Bars), queued \in Seq(Times) :
          Scanning(batch, todo, queued) \in RequestState
    BY DEF Scanning, RequestState
  <1>3. \A batch \in Seq(Bars) : Loading(batch) \in RequestState
    BY DEF Loading, RequestState
  <1>4. \A batch \in Seq(Bars), loaded \in SUBSET Times,
           answer \in {"ok", "invalid", "failed", "killed", "insufficient", "analysed"} :
           Answered(answer, batch, loaded) \in RequestState
    BY DEF Answered, RequestState
  <1> QED
    BY <1>1, <1>2, <1>3, <1>4

\* A look-up and a skipped bar, field by field.
LEMMA ScanStep ==
  ASSUME TypeOK, NEW q \in Requests, LookUp(q) \/ SkipInvalid(q)
  PROVE  LET r == req[q]
         IN  /\ r.pc = "scan" /\ r.todo # <<>>
             /\ req'[q] \in RequestState
             /\ req'[q].pc = "scan"
             /\ req'[q].batch = r.batch /\ req'[q].todo = Tail(r.todo)
             /\ \/ ~r.todo[1].sane /\ req'[q].queued = r.queued
                \/ /\ r.todo[1].sane /\ r.todo[1].time \in Stored
                   /\ req'[q].queued = r.queued
                \/ /\ r.todo[1].sane /\ r.todo[1].time \notin Stored
                   /\ req'[q].queued = Append(r.queued, r.todo[1].time)
             /\ store' = store
             /\ \A p \in Requests \ {q} : req'[p] = req[p]
  <1> DEFINE r == req[q]
  <1>1. r \in RequestState /\ r.pc = "scan" /\ r.todo # <<>>
    BY DEF TypeOK, LookUp, SkipInvalid
  <1>2. r.todo \in Seq(Bars) /\ r.queued \in Seq(Times) /\ r.batch \in Seq(Bars)
    BY <1>1, RequestTypes
  <1>3. Head(r.todo) = r.todo[1] /\ Tail(r.todo) \in Seq(Bars) /\ r.todo[1].time \in Times
    <2>1. r.todo[1] \in Bars
      BY <1>1, <1>2
    <2>2. Head(r.todo) = r.todo[1] /\ Tail(r.todo) \in Seq(Bars)
      BY <1>1, <1>2
    <2> QED
      BY <2>1, <2>2 DEF Bars
  <1>4. CASE SkipInvalid(q)
    <2>1. /\ req'[q] = [r EXCEPT !.todo = Tail(r.todo)] /\ ~r.todo[1].sane
          /\ store' = store /\ \A p \in Requests \ {q} : req'[p] = req[p]
      BY <1>3, <1>4 DEF SkipInvalid, TypeOK
    <2> HIDE DEF r
    <2>2. /\ req'[q] \in RequestState /\ req'[q].pc = "scan"
          /\ req'[q].batch = r.batch /\ req'[q].todo = Tail(r.todo)
          /\ req'[q].queued = r.queued
      BY <1>1, <1>2, <1>3, <2>1 DEF RequestState
    <2> QED
      BY <1>1, <2>1, <2>2 DEF r
  <1>5. CASE LookUp(q)
    <2>1. PICK queued :
            /\ req'[q] = [r EXCEPT !.todo = Tail(r.todo), !.queued = queued]
            /\ queued = IF r.todo[1].time \in Stored THEN r.queued
                                                     ELSE Append(r.queued, r.todo[1].time)
      BY <1>3, <1>5 DEF LookUp, TypeOK
    <2>2. /\ r.todo[1].sane /\ store' = store
          /\ \A p \in Requests \ {q} : req'[p] = req[p]
      BY <1>3, <1>5 DEF LookUp, TypeOK
    <2>3. queued \in Seq(Times)
      BY <1>2, <1>3, <2>1
    <2> HIDE DEF r
    <2>4. /\ req'[q] \in RequestState /\ req'[q].pc = "scan"
          /\ req'[q].batch = r.batch /\ req'[q].todo = Tail(r.todo)
          /\ req'[q].queued = queued
      BY <1>1, <1>2, <1>3, <2>1, <2>3 DEF RequestState
    <2> QED
      BY <1>1, <2>1, <2>2, <2>4 DEF r
  <1> QED
    BY <1>4, <1>5

\* The bars of one commit, none of which was there.
LEMMA CommitRows ==
  ASSUME TypeOK, NEW q \in Requests, Commit(q)
  PROVE  /\ req[q].pc = "scan" /\ req[q].todo = <<>>
         /\ req[q].queued \in Seq(Times)
         /\ ToSet(req[q].queued) \subseteq Times
         /\ ToSet(req[q].queued) \cap Stored = {}
         /\ \A t \in Times : store'[t] = IF t \in ToSet(req[q].queued) THEN q ELSE store[t]
         /\ Stored' = Stored \cup ToSet(req[q].queued)
         /\ req'[q] = AfterCommit(q)
         /\ \A p \in Requests \ {q} : req'[p] = req[p]
  <1>1. /\ req[q] \in RequestState /\ req[q].pc = "scan" /\ req[q].todo = <<>>
        /\ ToSet(req[q].queued) \cap Stored = {}
        /\ req'[q] = AfterCommit(q)
        /\ \A p \in Requests \ {q} : req'[p] = req[p]
    BY DEF TypeOK, Commit
  <1>2. req[q].queued \in Seq(Times)
    BY <1>1, RequestTypes
  <1>3. ToSet(req[q].queued) \subseteq Times
    BY <1>2 DEF ToSet
  <1>4. \A t \in Times : store'[t] = IF t \in ToSet(req[q].queued) THEN q ELSE store[t]
    BY DEF Commit
  <1>5. Stored' = Stored \cup ToSet(req[q].queued)
    BY <1>3, <1>4, ConstantsAssumption DEF Stored
  <1> QED
    BY <1>1, <1>2, <1>3, <1>4, <1>5

LEMMA StoreWriters ==
  ASSUME [Next]_vars
  PROVE  (\E q \in Requests : Commit(q)) \/ UNCHANGED store
  BY DEF Next, Ingest, IngestInvalid, LookUp, CommitFails, Killed, Check, FetchNothing,
     FetchBars, SkipInvalid, Load, Tick, vars

\* A stored bar stays, with its first writer.
LEMMA StoreKeeps ==
  ASSUME TypeOK, [Next]_vars
  PROVE  /\ \A t \in Times : store[t] # NoOne => store'[t] = store[t]
         /\ Stored \subseteq Stored'
  <1>1. \A t \in Times : store[t] # NoOne => store'[t] = store[t]
    BY StoreWriters, CommitRows DEF Stored
  <1> QED
    BY <1>1 DEF Stored

\* A request changes by its own steps only.
LEMMA RequestChanges ==
  ASSUME TypeOK, [Next]_vars, NEW q \in Requests, req'[q] # req[q]
  PROVE  \/ /\ \E batch \in Batches : req'[q] = Scanning(batch, batch, <<>>)
            /\ store' = store /\ (q \in Analyses => LoopFree(q))
         \/ LookUp(q) \/ SkipInvalid(q)
         \/ Commit(q)
         \/ q \in Analyses /\ req'[q] = Fetching
         \/ q \in Analyses /\ LoopFree(q) /\ req'[q] = Loading(<<>>)
         \/ q \in Ingests /\ IngestInvalid(q)
         \/ CommitFails(q)
         \/ Killed(q)
         \/ q \in Analyses /\ Load(q)
  <1>1. req \in [Requests -> RequestState]
    BY DEF TypeOK
  <1> DEFINE Own(p) == \/ p \in Ingests /\ \/ \E batch \in Batches : Ingest(p, batch)
                                           \/ IngestInvalid(p)
                       \/ LookUp(p) \/ Commit(p) \/ CommitFails(p) \/ Killed(p)
                       \/ p \in Analyses /\ \/ Check(p) \/ FetchNothing(p)
                                            \/ \E batch \in Batches : FetchBars(p, batch)
                                            \/ SkipInvalid(p) \/ Load(p)
  <1>2. ASSUME NEW p \in Requests, Own(p), p # q
        PROVE  req'[q] = req[q]
    BY <1>1, <1>2 DEF Ingest, IngestInvalid, LookUp, Commit, CommitFails, Killed, Check,
       FetchNothing, FetchBars, SkipInvalid, Load
  <1>3. ASSUME \A p \in Requests : ~Own(p) PROVE req' = req
    BY <1>3 DEF Next, Tick, vars, Requests
  <1>4. Own(q)
    BY <1>2, <1>3
  <1>5. CASE q \in Ingests /\ \E batch \in Batches : Ingest(q, batch)
    BY <1>1, <1>5, ConstantsAssumption DEF Ingest
  <1>6. CASE q \in Analyses /\ \/ Check(q) \/ FetchNothing(q)
                               \/ \E batch \in Batches : FetchBars(q, batch)
    BY <1>1, <1>6 DEF Check, FetchNothing, FetchBars
  <1> QED
    BY <1>4, <1>5, <1>6

LEMMA OneMoves ==
  ASSUME TypeOK, [Next]_vars, NEW p \in Requests, NEW q \in Requests, p # q,
         req'[p] # req[p]
  PROVE  req'[q] = req[q]
  BY DEF TypeOK, Next, Ingest, IngestInvalid, LookUp, Commit, CommitFails, Killed,
     Check, FetchNothing, FetchBars, SkipInvalid, Load, Tick, vars

\* How a request comes to look bars up, to load and to be answered.
LEMMA ScanChanges ==
  ASSUME TypeOK, [Next]_vars, NEW q \in Requests, req'[q] # req[q], req'[q].pc = "scan"
  PROVE  \/ /\ store' = store /\ (q \in Analyses => LoopFree(q))
            /\ \E batch \in Batches :
                 /\ req'[q].batch = batch /\ req'[q].todo = batch
                 /\ req'[q].queued = <<>>
         \/ LookUp(q) \/ SkipInvalid(q)
  <1>1. req \in [Requests -> RequestState]
    BY DEF TypeOK
  <1>2. ASSUME NEW batch \in Batches, req'[q] = Scanning(batch, batch, <<>>)
        PROVE  /\ req'[q].batch = batch /\ req'[q].todo = batch
               /\ req'[q].queued = <<>>
    BY <1>2 DEF Scanning
  <1>3. Commit(q) => FALSE
    BY <1>1 DEF Commit, AfterCommit, Answered, Loading
  <1>4. IngestInvalid(q) \/ CommitFails(q) \/ Killed(q) \/ Load(q) => FALSE
    BY <1>1 DEF IngestInvalid, CommitFails, Killed, Load, Answered
  <1>5. req'[q] # Fetching /\ req'[q] # Loading(<<>>)
    BY DEF Fetching, Loading
  <1>6. CASE \E batch \in Batches : req'[q] = Scanning(batch, batch, <<>>)
    <2>1. \E batch \in Batches : /\ req'[q].batch = batch /\ req'[q].todo = batch
                                 /\ req'[q].queued = <<>>
      BY <1>2, <1>6
    <2>2. ~LookUp(q) /\ ~SkipInvalid(q) =>
            store' = store /\ (q \in Analyses => LoopFree(q))
      BY <1>3, <1>4, <1>5, RequestChanges
    <2> QED
      BY <2>1, <2>2
  <1> QED
    BY <1>3, <1>4, <1>5, <1>6, RequestChanges

LEMMA LoadChanges ==
  ASSUME TypeOK, [Next]_vars, NEW q \in Requests, req'[q] # req[q], req'[q].pc = "load"
  PROVE  /\ q \in Analyses
         /\ \/ LoopFree(q) /\ req'[q].batch = <<>>
            \/ Commit(q) /\ req'[q].batch = req[q].batch
  <1>1. req \in [Requests -> RequestState]
    BY DEF TypeOK
  <1>2. \A batch \in Batches : req'[q] # Scanning(batch, batch, <<>>)
    BY DEF Scanning
  <1>3. ~LookUp(q) /\ ~SkipInvalid(q)
    BY ScanStep
  <1>4. Commit(q) => q \in Analyses /\ req'[q].batch = req[q].batch
    BY <1>1 DEF Commit, AfterCommit, Answered, Loading, Requests
  <1>5. IngestInvalid(q) \/ CommitFails(q) \/ Killed(q) \/ Load(q) => FALSE
    BY <1>1 DEF IngestInvalid, CommitFails, Killed, Load, Answered
  <1>6. req'[q] # Fetching
    BY DEF Fetching
  <1>7. req'[q] = Loading(<<>>) => req'[q].batch = <<>>
    BY DEF Loading
  <1> QED
    BY <1>2, <1>3, <1>4, <1>5, <1>6, <1>7, RequestChanges

LEMMA AnswerChanges ==
  ASSUME TypeOK, [Next]_vars, NEW q \in Requests, req'[q] # req[q],
         req'[q].pc = "answered"
  PROVE  /\ req[q].pc # "answered"
         /\ \/ q \in Ingests /\ req'[q].answer = "invalid"
            \/ /\ q \in Ingests /\ Commit(q)
               /\ req'[q].answer = "ok" /\ req'[q].batch = req[q].batch
            \/ /\ CommitFails(q) /\ store' = store
               /\ req'[q].answer = "failed" /\ req'[q].batch = req[q].batch
            \/ req'[q].answer = "killed"
            \/ /\ q \in Analyses /\ req[q].pc = "load" /\ store' = store
               /\ req'[q].answer \in {"insufficient", "analysed"}
               /\ req'[q].batch = req[q].batch
               /\ req'[q].loaded = Newest(Stored, BarLimit)
  <1>1. req \in [Requests -> RequestState]
    BY DEF TypeOK
  <1>2. \A batch \in Batches : req'[q] # Scanning(batch, batch, <<>>)
    BY DEF Scanning
  <1>3. ~LookUp(q) /\ ~SkipInvalid(q)
    BY ScanStep
  <1>4. req'[q] # Fetching /\ req'[q] # Loading(<<>>)
    BY DEF Fetching, Loading
  <1>5. Commit(q) => /\ q \in Ingests /\ req[q].pc # "answered"
                     /\ req'[q].answer = "ok" /\ req'[q].batch = req[q].batch
    BY <1>1 DEF Commit, AfterCommit, Answered, Loading
  <1>6. CommitFails(q) => /\ req[q].pc # "answered" /\ store' = store
                          /\ req'[q].answer = "failed" /\ req'[q].batch = req[q].batch
    BY <1>1 DEF CommitFails, Answered
  <1>7. /\ IngestInvalid(q) => req[q].pc # "answered" /\ req'[q].answer = "invalid"
        /\ Killed(q) => req[q].pc # "answered" /\ req'[q].answer = "killed"
    BY <1>1 DEF IngestInvalid, Killed, Answered
  <1>8. Load(q) => /\ req[q].pc = "load" /\ store' = store
                   /\ req'[q].answer \in {"insufficient", "analysed"}
                   /\ req'[q].batch = req[q].batch
                   /\ req'[q].loaded = Newest(Stored, BarLimit)
    BY <1>1 DEF Load, Answered
  <1> QED
    BY <1>2, <1>3, <1>4, <1>5, <1>6, <1>7, <1>8, RequestChanges

\* Answers are final.
LEMMA AnswersKeep ==
  ASSUME TypeOK, [Next]_vars, NEW q \in Requests, req[q].pc = "answered"
  PROVE  req'[q] = req[q]
  <1>1. /\ ~LookUp(q) /\ ~SkipInvalid(q) /\ ~Commit(q) /\ ~CommitFails(q)
        /\ ~Killed(q) /\ ~IngestInvalid(q) /\ ~Load(q)
    BY DEF LookUp, SkipInvalid, Commit, CommitFails, Killed, IngestInvalid, Load
  <1>2. req[q] # New /\ req[q] # Fetching
    BY DEF New, Fetching
  <1>3. \A p \in Requests : p # q =>
          /\ (\E batch \in Batches : Ingest(p, batch) \/ FetchBars(p, batch)) => req'[q] = req[q]
    BY DEF Ingest, FetchBars, TypeOK
  <1> QED
    BY <1>1, <1>2, <1>3
       DEF TypeOK, Next, Requests, Ingest, IngestInvalid, LookUp, Commit, CommitFails, Killed,
           Check, FetchNothing, FetchBars, SkipInvalid, Load, Tick, vars

-----------------------------------------------------------------------------
(* IInv is inductive.                                                      *)

LEMMA InitIInv == ASSUME Init PROVE IInv
  <1>1. TypeOK
    BY RequestStates DEF Init, TypeOK
  <1>2. \A q \in Requests : req[q].pc = "new"
    BY DEF Init, New
  <1>3. \A t \in Times : store[t] = NoOne
    BY DEF Init
  <1>4. StoredByAnswered
    BY <1>3, ConstantsAssumption DEF StoredByAnswered, Requests
  <1> QED
    BY <1>1, <1>2, <1>4
       DEF IInv, OneOnLoop, ScanSound, QueuedByAnalysis, LoadsStored,
           AcceptedBarsAreStored, AnalysisReadsWhatItFetched, BackfillsDoNotCollide,
           Finished, Requests

LEMMA TypeStep == ASSUME TypeOK, [Next]_vars PROVE TypeOK'
  <1>1. /\ req \in [Requests -> RequestState]
        /\ store \in [Times -> Requests \cup {NoOne}] /\ now \in Times
    BY DEF TypeOK
  <1>2. req' \in [Requests -> RequestState]
    <2>1. ASSUME NEW q \in Requests PROVE req'[q] \in RequestState
      <3>1. ASSUME NEW batch \in Batches, req'[q] = Scanning(batch, batch, <<>>)
            PROVE  req'[q] \in RequestState
        <4>1. batch \in Seq(Bars) /\ <<>> \in Seq(Times)
          BY BatchType
        <4> QED
          BY <3>1, <4>1, RequestStates
      <3>2. CASE Commit(q)
        <4>1. req'[q] = AfterCommit(q) /\ req[q].batch \in Seq(Bars)
          BY <1>1, <3>2, RequestTypes DEF Commit
        <4> QED
          BY <4>1, RequestStates DEF AfterCommit
      <3>3. CASE IngestInvalid(q) \/ CommitFails(q)
        <4>1. /\ req[q].batch \in Seq(Bars)
              /\ \/ req'[q] = Answered("invalid", req[q].batch, {})
                 \/ req'[q] = Answered("failed", req[q].batch, {})
          BY <1>1, <3>3, RequestTypes DEF IngestInvalid, CommitFails
        <4> QED
          BY <4>1, RequestStates
      <3>4. CASE Killed(q)
        <4>1. req'[q] = Answered("killed", <<>>, {}) /\ <<>> \in Seq(Bars)
          BY <1>1, <3>4 DEF Killed
        <4> QED
          BY <4>1, RequestStates
      <3>5. CASE Load(q)
        <4>1. /\ req[q].batch \in Seq(Bars) /\ Newest(Stored, BarLimit) \in SUBSET Times
              /\ \/ req'[q] = Answered("insufficient", req[q].batch, Newest(Stored, BarLimit))
                 \/ req'[q] = Answered("analysed", req[q].batch, Newest(Stored, BarLimit))
          BY <1>1, <3>5, RequestTypes DEF Load, Newest, Stored
        <4> QED
          BY <4>1, RequestStates
      <3>6. Loading(<<>>) \in RequestState
        <4>1. <<>> \in Seq(Bars)
          OBVIOUS
        <4> QED
          BY <4>1, RequestStates
      <3> QED
        BY <1>1, <3>1, <3>2, <3>3, <3>4, <3>5, <3>6, RequestChanges, RequestStates, ScanStep
    <2>2. req' = [q \in Requests |-> req'[q]]
      BY <1>1 DEF Next, Ingest, IngestInvalid, LookUp, Commit, CommitFails, Killed, Check,
         FetchNothing, FetchBars, SkipInvalid, Load, Tick, vars
    <2> QED
      BY <2>1, <2>2
  <1>3. store' \in [Times -> Requests \cup {NoOne}]
    BY <1>1, StoreWriters DEF Commit
  <1>4. now' \in Times
    BY <1>1 DEF Next, Ingest, IngestInvalid, LookUp, Commit, CommitFails, Killed, Check,
       FetchNothing, FetchBars, SkipInvalid, Load, Tick, vars
  <1> QED
    BY <1>2, <1>3, <1>4 DEF TypeOK

LEMMA StoredByAnsweredStep == ASSUME IInv, [Next]_vars PROVE StoredByAnswered'
  <1>1. TypeOK /\ StoredByAnswered
    BY DEF IInv
  <1> SUFFICES ASSUME NEW t \in Times, NEW q \in Ingests, store'[t] = q
               PROVE  req'[q].pc = "answered" /\ req'[q].answer = "ok"
    BY DEF StoredByAnswered, Finished
  <1>2. CASE store[t] = q
    <2>1. req[q].pc = "answered" /\ req[q].answer = "ok"
      BY <1>1, <1>2 DEF StoredByAnswered, Finished
    <2> QED
      BY <1>1, <2>1, AnswersKeep DEF Requests
  <1>3. CASE store[t] # q
    <2>1. PICK p \in Requests : Commit(p)
      BY <1>3, StoreWriters
    <2>2. p = q /\ req'[p] = AfterCommit(p)
      BY <1>1, <1>3, <2>1, CommitRows
    <2> QED
      BY <2>2 DEF AfterCommit, Answered
  <1> QED
    BY <1>2, <1>3

LEMMA OneOnLoopStep == ASSUME IInv, [Next]_vars PROVE OneOnLoop'
  <1>1. TypeOK /\ OneOnLoop
    BY DEF IInv
  <1> DEFINE On(a) == req[a].pc \in {"scan", "load"}
  <1>2. ASSUME NEW a \in Analyses, req'[a].pc \in {"scan", "load"}
        PROVE  On(a) \/ (LoopFree(a) /\ req'[a] # req[a])
    <2>1. a \in Requests
      BY DEF Requests
    <2>2. CASE req'[a] = req[a]
      BY <1>2, <2>2
    <2>3. CASE req'[a] # req[a] /\ req'[a].pc = "scan"
      BY <1>1, <2>1, <2>3, ScanChanges, ScanStep
    <2>4. CASE req'[a] # req[a] /\ req'[a].pc = "load"
      BY <1>1, <2>1, <2>4, LoadChanges, CommitRows
    <2> QED
      BY <1>2, <2>2, <2>3, <2>4
  <1>3. ASSUME NEW a \in Analyses, LoopFree(a), req'[a] # req[a],
               NEW b \in Analyses, b # a
        PROVE  ~(req'[b].pc \in {"scan", "load"})
    <2>1. ~On(b)
      BY <1>3 DEF LoopFree
    <2>2. req'[b] = req[b]
      BY <1>1, <1>3, OneMoves DEF Requests
    <2> QED
      BY <2>1, <2>2
  <1> SUFFICES ASSUME NEW a \in Analyses, NEW b \in Analyses, a # b,
                      req'[a].pc \in {"scan", "load"}, req'[b].pc \in {"scan", "load"}
               PROVE  FALSE
    BY DEF OneOnLoop
  <1> QED
    BY <1>1, <1>2, <1>3 DEF OneOnLoop

\* Taking the next bar of a batch.
LEMMA ScanOne ==
  ASSUME NEW batch \in Seq(Bars), NEW todo \in Seq(Bars), todo # <<>>,
         Len(todo) <= Len(batch),
         \A i \in 1 .. Len(todo) : todo[i] = batch[Len(batch) - Len(todo) + i]
  PROVE  \E n \in Nat :
           /\ n = Len(batch) - Len(todo) /\ n + 1 = Len(batch) - Len(Tail(todo))
           /\ n + 1 \in DOMAIN batch /\ (\A j \in 1 .. n : j \in DOMAIN batch)
           /\ todo[1] = batch[n + 1] /\ batch[n + 1].time \in Times
           /\ Len(Tail(todo)) <= Len(batch)
           /\ \A i \in 1 .. Len(Tail(todo)) :
                Tail(todo)[i] = batch[Len(batch) - Len(Tail(todo)) + i]
  <1>1. PICK b \in Nat, t \in Nat : b = Len(batch) /\ t = Len(todo)
    OBVIOUS
  <1>2. t # 0 /\ t <= b /\ Len(Tail(todo)) = t - 1
    BY <1>1
  <1>3. \A i \in 1 .. t - 1 : Tail(todo)[i] = todo[i + 1]
    BY <1>1, <1>2
  <1>4. \A i \in 1 .. t : todo[i] = batch[b - t + i]
    BY <1>1
  <1>5. DOMAIN batch = 1 .. b
    BY <1>1
  <1>6. b - t \in Nat /\ b - t + 1 \in 1 .. b /\ \A j \in 1 .. b - t : j \in 1 .. b
    BY <1>1, <1>2
  <1>7. todo[1] = batch[b - t + 1]
    BY <1>1, <1>2, <1>4
  <1>8. ASSUME NEW i \in 1 .. t - 1
        PROVE  Tail(todo)[i] = batch[b - (t - 1) + i]
    <2>1. Tail(todo)[i] = todo[i + 1] /\ i + 1 \in 1 .. t
      BY <1>1, <1>3
    <2>2. b - t + (i + 1) = b - (t - 1) + i
      BY <1>1
    <2> QED
      BY <1>4, <2>1, <2>2
  <1>9. batch[b - t + 1].time \in Times
    <2>1. batch[b - t + 1] \in Bars
      BY <1>5, <1>6
    <2> QED
      BY <2>1 DEF Bars
  <1>10. b - t + 1 = b - (t - 1) /\ t - 1 <= b
    BY <1>1, <1>2
  <1> QED
    BY <1>1, <1>2, <1>5, <1>6, <1>7, <1>8, <1>9, <1>10

\* Queueing one more time.
LEMMA QueueOne ==
  ASSUME NEW queue \in Seq(Times), NEW t \in Times
  PROVE  /\ ToSet(Append(queue, t)) = ToSet(queue) \cup {t}
         /\ Distinct(queue) /\ t \notin ToSet(queue) => Distinct(Append(queue, t))
  <1>1. PICK n \in Nat : n = Len(queue)
    OBVIOUS
  <1>2. PICK longer : longer = Append(queue, t)
    OBVIOUS
  <1>3. /\ DOMAIN queue = 1 .. n /\ DOMAIN longer = 1 .. n + 1
        /\ \A i \in 1 .. n : longer[i] = queue[i]
        /\ longer[n + 1] = t
    BY <1>1, <1>2
  <1>4. \A i : i \in 1 .. n + 1 <=> i \in 1 .. n \/ i = n + 1
    BY <1>1
  <1>5. ToSet(longer) = ToSet(queue) \cup {t}
    BY <1>3, <1>4 DEF ToSet
  <1>6. ASSUME Distinct(queue), t \notin ToSet(queue)
        PROVE  Distinct(longer)
    <2>1. \A i \in 1 .. n : queue[i] # t
      BY <1>3, <1>6 DEF ToSet
    <2> QED
      BY <1>3, <1>4, <1>6, <2>1 DEF Distinct
  <1> QED
    BY <1>2, <1>5, <1>6

LEMMA ScanSoundStep == ASSUME IInv, [Next]_vars PROVE ScanSound'
  <1>1. TypeOK /\ Stored \subseteq Stored'
    BY StoreKeeps DEF IInv
  <1>2. \A q \in Requests : req[q].pc = "scan" => ScanGood(req[q], Stored)
    BY DEF IInv, ScanSound
  <1> SUFFICES ASSUME NEW q \in Requests, req'[q].pc = "scan"
               PROVE  ScanGood(req'[q], Stored')
    BY DEF ScanSound, ScanGood, Done, Repeats, Distinct
  <1>3. CASE req'[q] = req[q]
    <2>1. ScanGood(req[q], Stored)
      BY <1>2, <1>3
    <2>2. ScanGood(req[q], Stored')
      BY <1>1, <2>1 DEF ScanGood
    <2> QED
      BY <1>3, <2>2
  <1>4. ASSUME NEW batch \in Batches,
               req'[q].batch = batch /\ req'[q].todo = batch /\ req'[q].queued = <<>>
        PROVE  ScanGood(req'[q], Stored')
    <2>1. batch \in Seq(Bars) /\ Len(batch) \in Nat
      BY BatchType
    <2>2. Done(req'[q]) = {} /\ ToSet(req'[q].queued) = {} /\ Distinct(req'[q].queued)
      BY <1>4, <2>1 DEF Done, ToSet, Distinct
    <2>3. \A i \in 1 .. Len(batch) : i = Len(batch) - Len(batch) + i
      BY <2>1
    <2> QED
      BY <1>4, <2>1, <2>2, <2>3 DEF ScanGood
  <1>5. ASSUME LookUp(q) \/ SkipInvalid(q)
        PROVE  ScanGood(req'[q], Stored')
    <2>1. PICK r, s : r = req[q] /\ s = req'[q]
      OBVIOUS
    <2>2. /\ r.batch \in Seq(Bars) /\ r.todo \in Seq(Bars) /\ r.queued \in Seq(Times)
          /\ r.todo # <<>> /\ ScanGood(r, Stored)
      BY <1>1, <1>2, <1>5, <2>1, ScanStep, RequestTypes DEF TypeOK
    <2>3. PICK n \in Nat :
            /\ n = Len(r.batch) - Len(r.todo) /\ n + 1 = Len(r.batch) - Len(Tail(r.todo))
            /\ n + 1 \in DOMAIN r.batch /\ (\A j \in 1 .. n : j \in DOMAIN r.batch)
            /\ r.todo[1] = r.batch[n + 1] /\ r.batch[n + 1].time \in Times
            /\ Len(Tail(r.todo)) <= Len(r.batch)
            /\ \A i \in 1 .. Len(Tail(r.todo)) :
                 Tail(r.todo)[i] = r.batch[Len(r.batch) - Len(Tail(r.todo)) + i]
      BY <2>2, ScanOne DEF ScanGood
    <2>4. PICK next : next = r.batch[n + 1]
      OBVIOUS
    <2>5. /\ s.batch = r.batch /\ s.todo = Tail(r.todo)
          /\ \/ ~next.sane /\ s.queued = r.queued
             \/ next.sane /\ next.time \in Stored /\ s.queued = r.queued
             \/ next.sane /\ next.time \notin Stored /\ s.queued = Append(r.queued, next.time)
          /\ Stored' = Stored
      <3>1. store' = store
        BY <1>1, <1>5, ScanStep
      <3>2. Stored' = Stored
        BY <3>1 DEF Stored
      <3>3. r.todo[1] = next
        BY <2>1, <2>2, <2>3, <2>4
      <3> QED
        BY <1>1, <1>5, <2>1, <3>2, <3>3, ScanStep
    <2>6. /\ ToSet(r.queued) \subseteq ToSet(s.queued)
          /\ next.sane => next.time \in Stored \cup ToSet(s.queued)
          /\ \A t \in ToSet(s.queued) : t \in ToSet(r.queued) \/ (next.sane /\ t = next.time)
          /\ Distinct(r.queued) /\ ~(next.sane /\ next.time \in ToSet(r.queued))
               => Distinct(s.queued)
      <3>1. CASE s.queued = r.queued
        BY <2>5, <3>1
      <3>2. CASE next.sane /\ s.queued = Append(r.queued, next.time)
        <4>1. /\ ToSet(s.queued) = ToSet(r.queued) \cup {next.time}
              /\ Distinct(r.queued) /\ next.time \notin ToSet(r.queued) => Distinct(s.queued)
          <5>1. r.queued \in Seq(Times) /\ next.time \in Times
            BY <2>2, <2>3, <2>4
          <5>2. s.queued = Append(r.queued, next.time)
            BY <3>2
          <5> QED
            BY <5>1, <5>2, QueueOne
        <4> QED
          BY <3>2, <4>1
      <3> QED
        BY <2>5, <3>1, <3>2
    <2>7. Done(r) = 1 .. n /\ Done(s) = 1 .. n + 1
      BY <2>3, <2>5 DEF Done
    <2>8. /\ \A j : j \in 1 .. n + 1 <=> j \in 1 .. n \/ j = n + 1
          /\ \A j \in 1 .. n : j # n + 1
      <3>1. n \in Nat
        OBVIOUS
      <3> QED
        BY <3>1
    <2>9. \A j \in Done(s) : s.batch[j].sane => s.batch[j].time \in Stored \cup ToSet(s.queued)
      BY <2>2, <2>4, <2>5, <2>6, <2>7, <2>8 DEF ScanGood
    <2>10. \A t \in ToSet(s.queued) : \E j \in Done(s) : s.batch[j].sane /\ s.batch[j].time = t
      <3> SUFFICES ASSUME NEW t \in ToSet(s.queued)
                   PROVE  \E j \in Done(s) : s.batch[j].sane /\ s.batch[j].time = t
        OBVIOUS
      <3>1. CASE t \in ToSet(r.queued)
        BY <2>2, <2>5, <2>7, <2>8, <3>1 DEF ScanGood
      <3>2. CASE next.sane /\ t = next.time
        BY <2>4, <2>5, <2>7, <2>8, <3>2
      <3> QED
        BY <2>6, <3>1, <3>2
    <2>11. ~Repeats(s.batch) => Distinct(s.queued)
      <3> SUFFICES ASSUME ~Repeats(r.batch), next.sane, next.time \in ToSet(r.queued)
                   PROVE  FALSE
        BY <2>2, <2>5, <2>6 DEF ScanGood
      <3>1. PICK j \in 1 .. n : r.batch[j].sane /\ r.batch[j].time = next.time
        BY <2>2, <2>7 DEF ScanGood
      <3>2. j \in DOMAIN r.batch /\ n + 1 \in DOMAIN r.batch /\ j # n + 1
        BY <2>3, <2>8
      <3> QED
        BY <2>4, <3>1, <3>2 DEF Repeats
    <2>12. /\ Len(s.todo) <= Len(s.batch)
           /\ \A i \in 1 .. Len(s.todo) :
                s.todo[i] = s.batch[Len(s.batch) - Len(s.todo) + i]
      BY <2>3, <2>5
    <2>13. ScanGood(s, Stored)
      BY <2>9, <2>10, <2>11, <2>12 DEF ScanGood
    <2> QED
      BY <2>1, <2>5, <2>13
  <1>6. CASE req'[q] # req[q]
    <2>1. CASE LookUp(q) \/ SkipInvalid(q)
      BY <1>5, <2>1
    <2>2. CASE \E batch \in Batches : /\ req'[q].batch = batch /\ req'[q].todo = batch
                                      /\ req'[q].queued = <<>>
      BY <1>4, <2>2
    <2> QED
      BY <1>1, <1>6, <2>1, <2>2, ScanChanges
  <1> QED
    BY <1>3, <1>6

\* What a batch is worth once all of it has been looked up.
LEMMA ScanEnd ==
  ASSUME NEW r \in RequestState, r.pc = "scan", r.todo = <<>>,
         NEW stored, ScanGood(r, stored)
  PROVE  /\ Sane(r.batch) \subseteq stored \cup ToSet(r.queued)
         /\ ToSet(r.queued) \subseteq Sane(r.batch)
  <1>1. r.batch \in Seq(Bars)
    BY RequestTypes
  <1>2. Done(r) = DOMAIN r.batch
    BY <1>1 DEF Done
  <1> QED
    BY <1>2 DEF ScanGood, Sane

LEMMA QueuedByAnalysisStep == ASSUME IInv, [Next]_vars PROVE QueuedByAnalysis'
  <1>1. TypeOK /\ QueuedByAnalysis /\ OneOnLoop
    BY DEF IInv
  <1> SUFFICES ASSUME NEW a \in Analyses, req'[a].pc = "scan",
                      NEW t \in ToSet(req'[a].queued)
               PROVE  store'[t] \in Ingests \cup {NoOne}
    BY DEF QueuedByAnalysis
  <1>2. a \in Requests
    BY DEF Requests
  <1>3. t \in Times
    <2>1. req'[a] \in RequestState
      BY <1>1, <1>2, TypeStep DEF TypeOK
    <2>2. req'[a].queued \in Seq(Times)
      BY <2>1, RequestTypes
    <2> QED
      BY <2>2 DEF ToSet
  <1>4. CASE req'[a] # req[a]
    <2>1. CASE LookUp(a) \/ SkipInvalid(a)
      <3>1. /\ req[a].pc = "scan" /\ req[a].todo # <<>> /\ store' = store
            /\ \/ req'[a].queued = req[a].queued
               \/ /\ req[a].todo[1].time \notin Stored
                  /\ req'[a].queued = Append(req[a].queued, req[a].todo[1].time)
        BY <1>1, <1>2, <2>1, ScanStep
      <3>2. CASE req'[a].queued = req[a].queued
        BY <1>1, <3>1, <3>2 DEF QueuedByAnalysis
      <3>3. CASE /\ req[a].todo[1].time \notin Stored
                 /\ req'[a].queued = Append(req[a].queued, req[a].todo[1].time)
        <4>1. req[a].queued \in Seq(Times) /\ req[a].todo \in Seq(Bars)
          BY <1>1, <1>2, <3>1, RequestTypes DEF TypeOK
        <4>2. req[a].todo[1] \in Bars
          BY <3>1, <4>1
        <4>3. t \in ToSet(req[a].queued) \/ t = req[a].todo[1].time
          BY <3>3, <4>1, <4>2, QueueOne DEF Bars
        <4> QED
          BY <1>1, <1>3, <3>1, <3>3, <4>3 DEF QueuedByAnalysis, Stored
      <3> QED
        BY <3>1, <3>2, <3>3
    <2>2. req'[a].queued = <<>> => FALSE
      BY DEF ToSet
    <2> QED
      BY <1>1, <1>2, <1>4, <2>1, <2>2, ScanChanges
  <1>5. CASE req'[a] = req[a]
    <2>1. store[t] \in Ingests \cup {NoOne}
      BY <1>1, <1>5 DEF QueuedByAnalysis
    <2>2. ASSUME NEW q \in Requests, Commit(q)
          PROVE  store'[t] \in Ingests \cup {NoOne}
      <3>1. req[q].pc = "scan" /\ (store'[t] = q \/ store'[t] = store[t])
        BY <1>1, <1>3, <2>2, CommitRows
      <3>2. q # a
        <4>1. req'[q] = AfterCommit(q)
          BY <1>1, <2>2, CommitRows
        <4>2. req'[q].pc # "scan"
          BY <4>1 DEF AfterCommit, Answered, Loading
        <4> QED
          BY <4>2
      <3>3. q \in Ingests
        BY <1>1, <1>5, <3>1, <3>2 DEF OneOnLoop, Requests
      <3> QED
        BY <2>1, <3>1, <3>3
    <2> QED
      BY <2>1, <2>2, StoreWriters
  <1> QED
    BY <1>4, <1>5

LEMMA LoadsStoredStep == ASSUME IInv, [Next]_vars PROVE LoadsStored'
  <1>1. TypeOK /\ LoadsStored /\ ScanSound /\ Stored \subseteq Stored'
    BY StoreKeeps DEF IInv
  <1> SUFFICES ASSUME NEW a \in Analyses, req'[a].pc = "load"
               PROVE  Sane(req'[a].batch) \subseteq Stored'
    BY DEF LoadsStored, Sane
  <1>2. a \in Requests
    BY DEF Requests
  <1>3. CASE req'[a] = req[a]
    BY <1>1, <1>3 DEF LoadsStored
  <1>4. CASE req'[a].batch = <<>>
    BY <1>4 DEF Sane
  <1>5. CASE Commit(a) /\ req'[a].batch = req[a].batch
    BY <1>1, <1>2, <1>5, CommitRows, ScanEnd DEF ScanSound, TypeOK
  <1> QED
    BY <1>1, <1>2, <1>3, <1>4, <1>5, LoadChanges

LEMMA AcceptedStep == ASSUME IInv, [Next]_vars PROVE AcceptedBarsAreStored'
  <1>1. TypeOK /\ AcceptedBarsAreStored /\ ScanSound /\ Stored \subseteq Stored'
    BY StoreKeeps DEF IInv
  <1> SUFFICES ASSUME NEW q \in Ingests, req'[q].pc = "answered", req'[q].answer = "ok"
               PROVE  Sane(req'[q].batch) \subseteq Stored'
    BY DEF AcceptedBarsAreStored, Finished, Sane
  <1>2. q \in Requests
    BY DEF Requests
  <1>3. CASE req'[q] = req[q]
    BY <1>1, <1>3 DEF AcceptedBarsAreStored, Finished
  <1>4. CASE req'[q] # req[q]
    <2>1. Commit(q) /\ req'[q].batch = req[q].batch
      BY <1>1, <1>2, <1>4, AnswerChanges
    <2> QED
      BY <1>1, <1>2, <2>1, CommitRows, ScanEnd DEF ScanSound, TypeOK
  <1> QED
    BY <1>3, <1>4

LEMMA ReadsStep == ASSUME IInv, [Next]_vars PROVE AnalysisReadsWhatItFetched'
  <1>1. TypeOK /\ AnalysisReadsWhatItFetched /\ LoadsStored
    BY DEF IInv
  <1> SUFFICES ASSUME NEW a \in Analyses, req'[a].pc = "answered",
                      req'[a].answer \in {"analysed", "insufficient"},
                      NEW t \in Sane(req'[a].batch) \ req'[a].loaded
               PROVE  Cardinality({s \in req'[a].loaded : s > t}) = BarLimit
    BY DEF AnalysisReadsWhatItFetched, Finished, Sane
  <1>2. a \in Requests
    BY DEF Requests
  <1>3. CASE req'[a] = req[a]
    BY <1>1, <1>3 DEF AnalysisReadsWhatItFetched, Finished
  <1>4. CASE req'[a] # req[a]
    <2>1. /\ req[a].pc = "load" /\ req'[a].batch = req[a].batch
          /\ req'[a].loaded = Newest(Stored, BarLimit)
      BY <1>1, <1>2, <1>4, AnswerChanges, ConstantsAssumption
    <2>2. t \in Stored
      BY <1>1, <2>1 DEF LoadsStored
    <2>3. Stored \in SUBSET Nat /\ IsFiniteSet(Stored) /\ BarLimit \in Nat
      BY ConstantsAssumption, FS_Subset DEF Stored
    <2> QED
      BY <2>1, <2>2, <2>3, NewestProperties
  <1> QED
    BY <1>3, <1>4

LEMMA BackfillsStep == ASSUME IInv, [Next]_vars PROVE BackfillsDoNotCollide'
  <1>1. TypeOK /\ BackfillsDoNotCollide /\ ScanSound /\ QueuedByAnalysis
    BY DEF IInv
  <1> SUFFICES ASSUME NEW a \in Analyses, req'[a].pc = "answered", req'[a].answer = "failed"
               PROVE  \/ Repeats(req'[a].batch)
                      \/ \E t \in Sane(req'[a].batch) : store'[t] \in Ingests
    BY DEF BackfillsDoNotCollide, Finished, Sane, Repeats
  <1>2. a \in Requests
    BY DEF Requests
  <1>3. CASE req'[a] = req[a]
    <2>1. \/ Repeats(req[a].batch)
          \/ \E t \in Sane(req[a].batch) : store[t] \in Ingests
      BY <1>1, <1>3 DEF BackfillsDoNotCollide, Finished
    <2>2. Sane(req[a].batch) \subseteq Times
      <3>1. req[a].batch \in Seq(Bars)
        BY <1>1, <1>2, <1>3, RequestTypes DEF TypeOK
      <3>2. \A i \in DOMAIN req[a].batch : req[a].batch[i] \in Bars
        BY <3>1
      <3> QED
        BY <3>2 DEF Sane, Bars
    <2>3. NoOne \notin Ingests
      BY ConstantsAssumption DEF Requests
    <2> QED
      BY <1>1, <1>3, <2>1, <2>2, <2>3, StoreKeeps
  <1>4. CASE req'[a] # req[a]
    <2>1. CommitFails(a) /\ store' = store /\ req'[a].batch = req[a].batch
      BY <1>1, <1>2, <1>4, AnswerChanges, ConstantsAssumption
    <2>2. /\ req[a] \in RequestState /\ req[a].pc = "scan" /\ req[a].todo = <<>>
          /\ ~Distinct(req[a].queued) \/ ToSet(req[a].queued) \cap Stored # {}
      BY <1>1, <1>2, <2>1 DEF CommitFails, TypeOK
    <2>3. ScanGood(req[a], Stored)
      BY <1>1, <1>2, <2>2 DEF ScanSound
    <2>4. CASE ~Distinct(req[a].queued)
      BY <2>1, <2>3, <2>4 DEF ScanGood
    <2>5. ASSUME NEW t \in ToSet(req[a].queued), t \in Stored
          PROVE  \E u \in Sane(req'[a].batch) : store'[u] \in Ingests
      <3>1. t \in Sane(req[a].batch)
        BY <2>2, <2>3, ScanEnd
      <3>2. store[t] \in Ingests
        BY <1>1, <2>2, <2>5 DEF QueuedByAnalysis, Stored
      <3> QED
        BY <2>1, <3>1, <3>2
    <2> QED
      BY <2>2, <2>4, <2>5
  <1> QED
    BY <1>3, <1>4

LEMMA NextIInv == ASSUME IInv, [Next]_vars PROVE IInv'
  BY TypeStep, StoredByAnsweredStep, OneOnLoopStep, ScanSoundStep, QueuedByAnalysisStep,
     LoadsStoredStep, AcceptedStep, ReadsStep, BackfillsStep DEF IInv

LEMMA Invariant == Spec => []IInv
  BY InitIInv, NextIInv, PTL DEF Spec

-----------------------------------------------------------------------------
(* Theorems.                                                               *)

\* A payload that is refused, fails or is not answered yet has left no bar
\* behind (mt5.py:85-116, bar_ingest.py:80-114).
THEOREM IngestIsAtomic == Spec => []AllOrNothing
  <1>1. IInv => AllOrNothing
    BY DEF IInv, StoredByAnswered, AllOrNothing, Finished
  <1> QED
    BY <1>1, Invariant, PTL

\* An accepted payload is stored (mt5.py:97-118).
THEOREM AcceptedStored == Spec => []AcceptedBarsAreStored
  <1>1. IInv => AcceptedBarsAreStored
    BY DEF IInv
  <1> QED
    BY <1>1, Invariant, PTL

\* An analysis reads what it fetched, unless BarLimit newer bars push it out
\* (analysis.py:72-88, 169-186).
THEOREM ReadsFetched == Spec => []AnalysisReadsWhatItFetched
  <1>1. IInv => AnalysisReadsWhatItFetched
    BY DEF IInv
  <1> QED
    BY <1>1, Invariant, PTL

\* Backfills fail only for a bar given twice or one an ingest stored
\* (bar_ingest.py:197-206).
THEOREM NoBackfillCollision == Spec => []BackfillsDoNotCollide
  <1>1. IInv => BackfillsDoNotCollide
    BY DEF IInv
  <1> QED
    BY <1>1, Invariant, PTL

\* A stored bar is never written again: the first copy stays
\* (bar_ingest.py:88-104).
THEOREM FirstCopyStays ==
  Spec => [][\A t \in Times : store[t] # NoOne => store'[t] = store[t]]_vars
  <1>1. IInv /\ [Next]_vars
          => [\A t \in Times : store[t] # NoOne => store'[t] = store[t]]_vars
    BY StoreKeeps DEF IInv
  <1> QED
    BY <1>1, Invariant, PTL DEF Spec
=============================================================================
