------------------------- MODULE AnalysisRunProofs -------------------------
(***************************************************************************)
(* What AnalysisRun promises for any number of analyses, any timeframes,   *)
(* events and windows, and any bound on the clock.                         *)
(*                                                                         *)
(* The proofs follow one record, the handler's locals, from the request to *)
(* the stored signal: it is the same record all the way, and the clock,    *)
(* the bars and the signals only grow around it.  The invariant therefore  *)
(* says one thing of a record (LocalInv) and says it of the locals of the  *)
(* requests and of the copies in the signals.                              *)
(***************************************************************************)
EXTENDS AnalysisRun, SequenceTheorems, TLAPS

\* At time t an event of the report is ahead whose run-up has begun.
Due(report, t) == \E e \in report : RunUp(e, t)

\* The list and the blackout follow from what their calls were told, and the
\* test has been made after the list or neither has been made.
Tested(r, t) ==
    /\ \/ /\ r.listedAt = Never
          /\ r.listed = {}
       \/ /\ r.listedAt \in 0 .. t
          /\ r.listed = {e \in r.listReport : r.listedAt <= e /\ e <= r.listedAt + Ahead}
    /\ \/ /\ r.checkedAt = Never
          /\ r.testReport = {}
          /\ ~ r.blackout
       \/ /\ r.checkedAt \in 0 .. t
          /\ r.listedAt # Never
          /\ r.listedAt <= r.checkedAt
          /\ r.blackout = Due(r.testReport, r.checkedAt)
    /\ r.result = "SETUP" => ~ r.blackout

\* Every timeframe has been read, and the primary one has enough bars.
Complete(read) ==
    /\ Len(read) = Len(Timeframes)
    /\ \A k \in 1 .. Len(Timeframes) : Timeframes[k] = Primary => read[k] >= MinBars

\* What has been read is stored.
Rests(read, bars) ==
    /\ Len(read) <= Len(Timeframes)
    /\ \A k \in 1 .. Len(read) : read[k] <= bars[Timeframes[k]]

\* What has been read is at least as new as what the signals rest on that were
\* there before the request.
Newer(r, sigs) ==
    /\ r.since <= Len(sigs)
    /\ \A m \in 1 .. r.since, k \in 1 .. Len(r.read) :
         sigs[m].local.read[k] <= r.read[k]

\* How far a request has come.
Progress(r) ==
    /\ r.pc \in {"idle", "reading", "fetching", "listing", "answered"} =>
         r.listedAt = Never /\ r.checkedAt = Never
    /\ r.pc = "checking" => r.listedAt # Never /\ r.checkedAt = Never
    /\ r.pc # "checking" /\ r.checkedAt = Never => r.listedAt = Never
    /\ r.pc # "narrating" => r.result = "none"
    /\ r.pc \in {"reading", "fetching"} => Len(r.read) < Len(Timeframes)
    /\ r.pc \in {"listing", "checking", "news", "narrating"} => Complete(r.read)

LocalInv(r, t, bars, sigs) ==
    Tested(r, t) /\ Rests(r.read, bars) /\ Newer(r, sigs) /\ Progress(r)

StoredInv(s, t, bars, sigs) ==
    /\ LocalInv(s.local, t, bars, sigs)
    /\ Complete(s.local.read)
    /\ s.local.pc = "narrating" /\ s.local.checkedAt <= s.at

\* A stored signal.
Signal == [by : Analyses, at : Times, local : Local]

Types ==
    /\ now \in Times
    /\ latest \in [TimeframeSet -> Times]
    /\ \A tf \in TimeframeSet : latest[tf] <= now
    /\ run \in [Analyses -> Local]
    /\ signals \in Seq(Signal)
    /\ \A n \in 1 .. Len(signals) : signals[n].at <= now

IInv ==
    /\ Types
    /\ \A a \in Analyses : LocalInv(run[a], now, latest, signals)
    /\ \A n \in 1 .. Len(signals) : StoredInv(signals[n], now, latest, signals)

-----------------------------------------------------------------------------
(* One record while the clock, the bars and the signals grow.              *)

\* sigs2 is sigs, or goes on.
Extends(sigs, sigs2) ==
    /\ Len(sigs) <= Len(sigs2)
    /\ \A n \in 1 .. Len(sigs) : sigs2[n] = sigs[n]

LEMMA LocalKeeps ==
    ASSUME NEW r \in Local, NEW t \in Nat, NEW t2 \in Nat, t <= t2,
           NEW bars \in [TimeframeSet -> Nat], NEW bars2 \in [TimeframeSet -> Nat],
           \A tf \in TimeframeSet : bars[tf] <= bars2[tf],
           NEW sigs \in Seq(Signal), NEW sigs2 \in Seq(Signal), Extends(sigs, sigs2),
           LocalInv(r, t, bars, sigs)
    PROVE  LocalInv(r, t2, bars2, sigs2)
  <1>1. r.read \in Seq(Nat) /\ r.since \in Nat /\ r.listedAt \in Int /\ r.checkedAt \in Int
    <2>1. r.read \in Seq(Times) /\ Times \subseteq Nat
      BY ConstantsAssumption DEF Local, Times
    <2>2. r.read \in Seq(Nat)
      BY <2>1, SeqMonotonic
    <2>3. r.since \in Nat /\ r.listedAt \in Times \cup {Never}
          /\ r.checkedAt \in Times \cup {Never}
      BY DEF Local
    <2>4. Times \cup {Never} \subseteq Int
      BY <2>1 DEF Never
    <2> QED
      BY <2>2, <2>3, <2>4
  <1>2. Tested(r, t2)
    <2>1. 0 .. t \subseteq 0 .. t2
      OBVIOUS
    <2> QED
      BY <2>1 DEF LocalInv, Tested
  <1>3. Rests(r.read, bars2)
    <2>1. Rests(r.read, bars)
      BY DEF LocalInv
    <2> SUFFICES ASSUME NEW k \in 1 .. Len(r.read) PROVE r.read[k] <= bars2[Timeframes[k]]
      BY <2>1 DEF Rests
    <2>2. Timeframes[k] \in TimeframeSet /\ r.read[k] \in Nat /\ r.read[k] <= bars[Timeframes[k]]
      <3>1. k \in 1 .. Len(Timeframes) /\ DOMAIN Timeframes = 1 .. Len(Timeframes)
        BY <1>1, <2>1, ConstantsAssumption DEF Rests
      <3>2. Timeframes[k] \in TimeframeSet
        BY <3>1 DEF TimeframeSet
      <3>3. r.read[k] <= bars[Timeframes[k]]
        BY <2>1 DEF Rests
      <3>4. r.read[k] \in Nat
        BY <1>1, ElementOfSeq
      <3> QED
        BY <3>2, <3>3, <3>4
    <2>3. bars[Timeframes[k]] \in Nat /\ bars2[Timeframes[k]] \in Nat
          /\ bars[Timeframes[k]] <= bars2[Timeframes[k]]
      BY <2>2
    <2> QED
      BY <2>2, <2>3
  <1>4. Newer(r, sigs2)
    <2>1. Newer(r, sigs) /\ Len(sigs) \in Nat /\ Len(sigs2) \in Nat
      BY DEF LocalInv
    <2>2. \A m \in 1 .. r.since : sigs2[m] = sigs[m]
      BY <1>1, <2>1 DEF Newer, Extends
    <2>3. r.since <= Len(sigs2)
      BY <1>1, <2>1 DEF Newer, Extends
    <2>4. \A m \in 1 .. r.since, k \in 1 .. Len(r.read) :
            sigs[m].local.read[k] <= r.read[k]
      BY <2>1 DEF Newer
    <2> QED
      BY <2>2, <2>3, <2>4 DEF Newer
  <1> QED
    BY <1>2, <1>3, <1>4 DEF LocalInv

\* The locals of a request that has not begun or has returned.
LEMMA LocalBlank ==
    ASSUME NEW r \in {Idle, Answered}, NEW t \in Nat, NEW bars, NEW sigs \in Seq(Signal)
    PROVE  r \in Local /\ LocalInv(r, t, bars, sigs)
  <1>1. /\ r.pc \in {"idle", "answered"} /\ r.asked = FALSE /\ r.persist = FALSE
        /\ r.read = <<>> /\ r.listed = {} /\ r.testReport = {} /\ r.blackout = FALSE
        /\ r.listedAt = Never /\ r.checkedAt = Never
        /\ r.result = "none" /\ r.since = 0
    BY DEF Idle, Answered
  <1>2. r \in Local
    <2>1. <<>> \in Seq(Times) /\ {} \in SUBSET Events /\ Never \in Times \cup {Never}
      OBVIOUS
    <2>2. Idle \in Local
      BY <2>1 DEF Local, Idle
    <2>3. Answered \in Local
      BY <2>2 DEF Local, Answered
    <2> QED
      BY <2>2, <2>3
  <1>3. Tested(r, t)
    BY <1>1 DEF Tested
  <1>4. Len(Timeframes) \in Nat /\ Len(sigs) \in Nat /\ Len(<<>>) = 0
    BY ConstantsAssumption
  <1>5. Rests(r.read, bars) /\ Newer(r, sigs)
    BY <1>1, <1>4 DEF Rests, Newer
  <1>6. Progress(r)
    BY <1>1 DEF Progress
  <1> QED
    BY <1>2, <1>3, <1>5, <1>6 DEF LocalInv

\* The next timeframe has been read up to its latest bar.
LEMMA LocalReads ==
    ASSUME NEW r \in Local, NEW t \in Nat, NEW bars \in [TimeframeSet -> Times],
           NEW sigs \in Seq(Signal), LocalInv(r, t, bars, sigs),
           \A n \in 1 .. Len(sigs) : StoredInv(sigs[n], t, bars, sigs),
           r.pc \in {"reading", "fetching"}
    PROVE  LET r2 == AfterReading(r, bars[Timeframes[Len(r.read) + 1]])
           IN  r2 \in Local /\ LocalInv(r2, t, bars, sigs)
  <1>1. PICK n \in Nat : n = Len(r.read) /\ n < Len(Timeframes)
    <2>1. r.read \in Seq(Times)
      BY DEF Local
    <2> QED
      BY <2>1 DEF LocalInv, Progress
  <1> DEFINE bar == bars[Timeframes[n + 1]]
             read == Append(r.read, bar)
             r2 == AfterReading(r, bar)
  <1>2. /\ DOMAIN Timeframes = 1 .. Len(Timeframes) /\ n + 1 \in 1 .. Len(Timeframes)
        /\ Len(Timeframes) \in Nat
    BY <1>1, ConstantsAssumption
  <1>3. Timeframes[n + 1] \in TimeframeSet /\ bar \in Times
    BY <1>2 DEF TimeframeSet
  <1>4. r.read \in Seq(Times) /\ Times \subseteq Nat
    BY ConstantsAssumption DEF Local, Times
  <1>5. /\ read \in Seq(Times) /\ Len(read) = n + 1 /\ read[n + 1] = bar
        /\ \A k \in 1 .. n : read[k] = r.read[k]
    <2> HIDE DEF bar
    <2> QED
      BY <1>1, <1>3, <1>4
  <1>6. PICK p \in 1 .. Len(Timeframes) :
          /\ Timeframes[p] = Primary
          /\ \A k \in 1 .. Len(Timeframes) : Timeframes[k] = Primary => k = p
          /\ p = CHOOSE k \in DOMAIN Timeframes : Timeframes[k] = Primary
    <2>1. \E k \in DOMAIN Timeframes : Timeframes[k] = Primary
      BY ConstantsAssumption DEF TimeframeSet
    <2> DEFINE q == CHOOSE k \in DOMAIN Timeframes : Timeframes[k] = Primary
    <2>2. q \in DOMAIN Timeframes /\ Timeframes[q] = Primary
      BY <2>1
    <2>3. \A k \in DOMAIN Timeframes : Timeframes[k] = Primary => k = q
      BY <2>2, ConstantsAssumption
    <2> QED
      BY <1>2, <2>2, <2>3
  <1> HIDE DEF bar, read
  <1>7. CASE n + 1 = Len(Timeframes) /\ read[p] < MinBars
    <2>1. r2 = Answered
      BY <1>2, <1>5, <1>6, <1>7 DEF AfterReading, read
    <2>2. Answered \in Local /\ LocalInv(Answered, t, bars, sigs)
      BY LocalBlank
    <2> QED
      BY <1>1, <2>1, <2>2 DEF bar
  <1>8. CASE ~ (n + 1 = Len(Timeframes) /\ read[p] < MinBars)
    <2> DEFINE next == IF n + 1 < Len(Timeframes) THEN "reading"
                       ELSE IF r.asked THEN "listing" ELSE "news"
    <2>1. r2 = [r EXCEPT !.read = read, !.pc = next]
      BY <1>2, <1>5, <1>6, <1>8 DEF AfterReading, read
    <2>2. next \in {"reading", "listing", "news"}
      OBVIOUS
    <2>3. /\ r2.read = read /\ r2.pc = next
          /\ r2.listReport = r.listReport /\ r2.testReport = r.testReport
          /\ r2.listed = r.listed /\ r2.listedAt = r.listedAt
          /\ r2.checkedAt = r.checkedAt /\ r2.blackout = r.blackout
          /\ r2.result = r.result /\ r2.since = r.since
      BY <2>1 DEF Local
    <2>4. r2 \in Local
      <3> HIDE DEF next
      <3> QED
        BY <1>5, <2>1, <2>2, ZenonT(60) DEF Local
    <2>5. Tested(r, t) /\ Rests(r.read, bars) /\ Newer(r, sigs) /\ Progress(r)
      BY DEF LocalInv
    <2> HIDE DEF r2
    <2>6. Tested(r2, t)
      BY <2>3, <2>5 DEF Tested
    <2>7. Rests(read, bars)
      <3>1. \A k \in 1 .. n : r.read[k] <= bars[Timeframes[k]]
        BY <1>1, <2>5 DEF Rests
      <3>2. bar <= bars[Timeframes[n + 1]]
        <4>1. bar \in Nat /\ bar = bars[Timeframes[n + 1]]
          BY <1>3, <1>4 DEF bar
        <4> QED
          BY <4>1
      <3>3. \A k \in 1 .. n + 1 : k \in 1 .. n \/ k = n + 1
        BY <1>1
      <3>4. \A k \in 1 .. n + 1 : read[k] <= bars[Timeframes[k]]
        BY <1>5, <3>1, <3>2, <3>3
      <3> QED
        BY <1>1, <1>2, <1>5, <3>4 DEF Rests
    <2>8. Newer(r2, sigs)
      <3>1. /\ r.since \in Nat /\ Len(sigs) \in Nat /\ r.since <= Len(sigs)
            /\ \A m \in 1 .. r.since, k \in 1 .. n : sigs[m].local.read[k] <= r.read[k]
        BY <1>1, <2>5 DEF Newer, Local
      <3>2. ASSUME NEW m \in 1 .. r.since PROVE sigs[m].local.read[n + 1] <= bar
        <4>1. m \in 1 .. Len(sigs)
          BY <3>1
        <4>2. Complete(sigs[m].local.read) /\ Rests(sigs[m].local.read, bars)
          BY <4>1 DEF StoredInv, LocalInv
        <4> QED
          BY <1>2, <4>2 DEF Complete, Rests, bar
      <3>3. ASSUME NEW m \in 1 .. r.since, NEW k \in 1 .. n + 1
            PROVE  sigs[m].local.read[k] <= read[k]
        <4>1. CASE k = n + 1
          BY <1>5, <3>2, <4>1
        <4>2. CASE k # n + 1
          <5>1. k \in 1 .. n
            BY <1>1, <4>2
          <5> QED
            BY <1>5, <3>1, <5>1
        <4> QED
          BY <4>1, <4>2
      <3> QED
        BY <1>5, <2>3, <3>1, <3>3 DEF Newer
    <2>9. Progress(r2)
      <3>1. r.listedAt = Never /\ r.checkedAt = Never /\ r.result = "none"
        BY <2>5 DEF Progress
      <3>2. r2.pc = "reading" => Len(r2.read) < Len(Timeframes)
        BY <1>5, <2>3
      <3>3. r2.pc # "reading" => Complete(r2.read)
        <4> SUFFICES ASSUME r2.pc # "reading" PROVE Complete(read)
          BY <2>3
        <4>1. n + 1 = Len(Timeframes)
          <5>1. n + 1 < Len(Timeframes) => next = "reading"
            OBVIOUS
          <5>2. ~ (n + 1 < Len(Timeframes))
            BY <2>3, <5>1
          <5> QED
            <6>1. n + 1 <= Len(Timeframes) /\ Len(Timeframes) \in Nat
              BY <1>2
            <6> QED
              BY <5>2, <6>1
        <4>2. read[p] \in Nat /\ MinBars \in Nat
          <5>1. p \in 1 .. Len(read) /\ read \in Seq(Times)
            BY <1>5, <4>1
          <5>2. read[p] \in Times
            BY <5>1, ElementOfSeq
          <5> QED
            BY <1>4, <5>2, ConstantsAssumption
        <4>3. read[p] >= MinBars
          BY <1>8, <4>1, <4>2
        <4> QED
          BY <1>5, <1>6, <4>1, <4>3 DEF Complete
      <3> QED
        BY <2>2, <2>3, <3>1, <3>2, <3>3 DEF Progress
    <2>10. LocalInv(r2, t, bars, sigs)
      BY <2>3, <2>6, <2>7, <2>8, <2>9 DEF LocalInv
    <2> QED
      BY <1>1, <2>4, <2>10 DEF r2, bar
  <1> QED
    BY <1>7, <1>8

-----------------------------------------------------------------------------
(* The steps that touch the calendar and the classification.               *)

LEMMA LocalLists ==
    ASSUME NEW r \in Local, NEW t \in Times, NEW bars, NEW sigs,
           NEW report \in SUBSET Events, NEW listed,
           listed = {e \in report : t <= e /\ e <= t + Ahead},
           LocalInv(r, t, bars, sigs), r.pc = "listing"
    PROVE  LET r2 == [r EXCEPT !.pc = "checking", !.listed = listed,
                               !.listReport = report, !.listedAt = t]
           IN  r2 \in Local /\ LocalInv(r2, t, bars, sigs)
  <1> DEFINE r2 == [r EXCEPT !.pc = "checking", !.listed = listed,
                             !.listReport = report, !.listedAt = t]
  <1>1. /\ r2.pc = "checking" /\ r2.read = r.read /\ r2.listed = listed
        /\ r2.listReport = report /\ r2.testReport = r.testReport
        /\ r2.listedAt = t /\ r2.checkedAt = r.checkedAt
        /\ r2.blackout = r.blackout /\ r2.result = r.result /\ r2.since = r.since
    BY DEF Local
  <1>2. r2 \in Local
    BY DEF Local
  <1> HIDE DEF r2
  <1>3. t \in 0 .. t /\ t # Never /\ Never \notin 0 .. t
    BY ConstantsAssumption DEF Times, Never
  <1>4. /\ r.checkedAt = Never /\ r.result = "none" /\ Complete(r.read)
        /\ Rests(r.read, bars) /\ Newer(r, sigs)
    BY DEF LocalInv, Progress
  <1>5. r.testReport = {} /\ ~ r.blackout
    BY <1>3, <1>4 DEF LocalInv, Tested
  <1>6. Tested(r2, t)
    BY <1>1, <1>3, <1>4, <1>5 DEF Tested
  <1>7. Progress(r2)
    BY <1>1, <1>3, <1>4 DEF Progress
  <1>8. Rests(r2.read, bars) /\ Newer(r2, sigs)
    BY <1>1, <1>4 DEF Newer
  <1> QED
    BY <1>2, <1>6, <1>7, <1>8 DEF LocalInv, r2

LEMMA LocalChecks ==
    ASSUME NEW r \in Local, NEW t \in Times, NEW bars, NEW sigs,
           NEW report \in SUBSET Events, NEW b \in BOOLEAN, b = Due(report, t),
           LocalInv(r, t, bars, sigs), r.pc = "checking"
    PROVE  LET r2 == [r EXCEPT !.pc = "news", !.blackout = b,
                               !.testReport = report, !.checkedAt = t]
           IN  r2 \in Local /\ LocalInv(r2, t, bars, sigs)
  <1> DEFINE r2 == [r EXCEPT !.pc = "news", !.blackout = b,
                             !.testReport = report, !.checkedAt = t]
  <1>1. /\ r2.pc = "news" /\ r2.read = r.read /\ r2.listed = r.listed
        /\ r2.listReport = r.listReport /\ r2.testReport = report
        /\ r2.listedAt = r.listedAt /\ r2.checkedAt = t
        /\ r2.blackout = b /\ r2.result = r.result /\ r2.since = r.since
    BY DEF Local
  <1>2. r2 \in Local
    BY DEF Local
  <1> HIDE DEF r2
  <1>3. t \in 0 .. t /\ t \in Nat
    BY ConstantsAssumption DEF Times
  <1>4. /\ r.listedAt # Never /\ r.result = "none" /\ Complete(r.read)
        /\ Rests(r.read, bars) /\ Newer(r, sigs)
    BY DEF LocalInv, Progress
  <1>5. /\ r.listedAt \in 0 .. t /\ r.listedAt <= t
        /\ r.listed = {e \in r.listReport : r.listedAt <= e /\ e <= r.listedAt + Ahead}
    BY <1>3, <1>4 DEF LocalInv, Tested
  <1>6. Tested(r2, t)
    BY <1>1, <1>3, <1>4, <1>5 DEF Tested
  <1>7. Progress(r2)
    BY <1>1, <1>3, <1>4 DEF Progress, Never
  <1>8. Rests(r2.read, bars) /\ Newer(r2, sigs)
    BY <1>1, <1>4 DEF Newer
  <1> QED
    BY <1>2, <1>6, <1>7, <1>8 DEF LocalInv, r2

\* The other steps of a handler: only pc or the result changes.
LEMMA LocalMoves ==
    ASSUME NEW r \in Local, NEW t \in Times, NEW bars, NEW sigs,
           LocalInv(r, t, bars, sigs),
           NEW r2 \in Local, r2.read = r.read, r2.listed = r.listed,
           r2.listReport = r.listReport, r2.testReport = r.testReport,
           r2.listedAt = r.listedAt,
           r2.checkedAt = r.checkedAt, r2.blackout = r.blackout, r2.since = r.since,
           r2.result = "SETUP" => ~ r.blackout, Progress(r2)
    PROVE  LocalInv(r2, t, bars, sigs)
  <1>1. Tested(r2, t)
    BY DEF LocalInv, Tested
  <1>2. Rests(r2.read, bars) /\ Newer(r2, sigs)
    BY DEF LocalInv, Newer
  <1> QED
    BY <1>1, <1>2 DEF LocalInv

\* Whichever feeds answer, a call is told of events.
LEMMA ReportsAreEvents ==
    ASSUME NEW report \in Reports
    PROVE  report \in SUBSET Events
  <1>1. PICK answering \in SUBSET Keys, lists \in [Keys -> SUBSET Events] :
          report = Told(answering, lists)
    BY DEF Reports
  <1>2. \A feed \in answering : lists[feed] \in SUBSET Events
    BY <1>1
  <1> QED
    BY <1>1, <1>2 DEF Told

\* The blackout test of the program: an event still to come whose window has
\* begun is within the hours asked for, since minutes_before is shorter.
LEMMA BlackoutIsDue ==
    ASSUME now \in Times, NEW report \in SUBSET Events
    PROVE  (\E e \in Upcoming(report, Soon) : InWindow(e, now)) <=> Due(report, now)
  <1>1. now \in Nat /\ Before \in Nat /\ After \in Nat /\ Soon \in Nat /\ Before <= Soon
    BY ConstantsAssumption DEF Times
  <1>2. ASSUME NEW e \in report
        PROVE  (now <= e /\ e <= now + Soon /\ InWindow(e, now)) <=> RunUp(e, now)
    <2>1. e \in Nat
      BY ConstantsAssumption
    <2> QED
      BY <1>1, <2>1 DEF InWindow, RunUp
  <1> QED
    BY <1>2 DEF Upcoming, Due

-----------------------------------------------------------------------------
(* One step of a handler.                                                  *)

\* The request's new locals.
Becomes(a, r2) == run' = [run EXCEPT ![a] = r2]

LEMMA StepBegins ==
    ASSUME IInv, NEW a \in Analyses, NEW asked \in BOOLEAN, NEW persist \in BOOLEAN,
           Begin(a, asked, persist)
    PROVE  \E r2 \in Local : Becomes(a, r2) /\ LocalInv(r2, now, latest, signals)
  <1> DEFINE r2 == [Idle EXCEPT !.pc = "reading", !.asked = asked,
                                !.persist = persist, !.since = Len(signals)]
  <1>1. run[a] = Idle /\ run \in [Analyses -> Local] /\ signals \in Seq(Signal) /\ now \in Nat
    BY ConstantsAssumption DEF Begin, IInv, Types, Times
  <1>2. Idle \in Local /\ Len(signals) \in Nat
    BY <1>1, LocalBlank
  <1>3. r2 \in Local
    BY <1>2 DEF Local
  <1>4. Becomes(a, r2)
    BY <1>1 DEF Begin, Becomes
  <1>5. /\ r2.pc = "reading" /\ r2.read = <<>> /\ r2.result = "none"
        /\ r2.listed = {} /\ r2.testReport = {} /\ r2.blackout = FALSE
        /\ r2.listedAt = Never /\ r2.checkedAt = Never
        /\ r2.since = Len(signals)
    BY DEF Idle
  <1> HIDE DEF r2
  <1>6. Len(Timeframes) \in Nat /\ 0 < Len(Timeframes) /\ Len(<<>>) = 0
    BY ConstantsAssumption DEF TimeframeSet
  <1>7. Tested(r2, now)
    BY <1>5 DEF Tested
  <1>8. Progress(r2)
    BY <1>5, <1>6 DEF Progress
  <1>9. Rests(r2.read, latest) /\ Newer(r2, signals)
    BY <1>2, <1>5, <1>6 DEF Rests, Newer
  <1> QED
    BY <1>3, <1>4, <1>7, <1>8, <1>9 DEF LocalInv

LEMMA StepReads ==
    ASSUME IInv, NEW a \in Analyses, NEW bars \in [TimeframeSet -> Times],
           \A tf \in TimeframeSet : latest[tf] <= bars[tf],
           run[a].pc \in {"reading", "fetching"},
           run' = [run EXCEPT ![a] = AfterReading(@, bars[Reading(a)])]
    PROVE  \E r2 \in Local : Becomes(a, r2) /\ LocalInv(r2, now, bars, signals)
  <1>1. /\ now \in Nat /\ latest \in [TimeframeSet -> Nat] /\ bars \in [TimeframeSet -> Nat]
        /\ signals \in Seq(Signal) /\ run \in [Analyses -> Local] /\ run[a] \in Local
        /\ \A n \in 1 .. Len(signals) : signals[n].local \in Local
    <2>1. Times \subseteq Nat
      BY ConstantsAssumption DEF Times
    <2>2. \A n \in 1 .. Len(signals) : signals[n] \in Signal
      BY DEF IInv, Types
    <2> QED
      BY <2>1, <2>2 DEF IInv, Types, Signal
  <1>2. Extends(signals, signals) /\ now <= now
    BY <1>1 DEF Extends
  <1>3. LocalInv(run[a], now, latest, signals)
        /\ \A n \in 1 .. Len(signals) : StoredInv(signals[n], now, latest, signals)
    BY DEF IInv
  <1>4. LocalInv(run[a], now, bars, signals)
    BY <1>1, <1>2, <1>3, LocalKeeps
  <1>5. ASSUME NEW n \in 1 .. Len(signals) PROVE StoredInv(signals[n], now, bars, signals)
    <2>1. LocalInv(signals[n].local, now, latest, signals)
      BY <1>3 DEF StoredInv
    <2>2. LocalInv(signals[n].local, now, bars, signals)
      BY <1>1, <1>2, <2>1, LocalKeeps
    <2> QED
      BY <1>3, <2>2 DEF StoredInv
  <1> DEFINE r2 == AfterReading(run[a], bars[Timeframes[Len(run[a].read) + 1]])
  <1>6. r2 \in Local /\ LocalInv(r2, now, bars, signals)
    BY <1>1, <1>4, <1>5, LocalReads
  <1>7. Becomes(a, r2)
    BY <1>1 DEF Becomes, Reading
  <1> QED
    BY <1>6, <1>7

LEMMA StepAnswers ==
    ASSUME IInv, NEW a \in Analyses, run' = [run EXCEPT ![a] = Answered]
    PROVE  \E r2 \in Local : Becomes(a, r2) /\ LocalInv(r2, now, latest, signals)
  <1>1. now \in Nat /\ signals \in Seq(Signal)
    BY ConstantsAssumption DEF IInv, Types, Times
  <1> QED
    BY <1>1, LocalBlank DEF Becomes

\* A step of a handler replaces its locals by others of which the same holds,
\* about the bars it leaves behind.
LEMMA HandlerSteps ==
    ASSUME IInv, NEW a \in Analyses, Step(a)
    PROVE  /\ \E r2 \in Local : Becomes(a, r2) /\ LocalInv(r2, now, latest', signals)
           /\ now' = now
           /\ latest' \in [TimeframeSet -> Times]
           /\ \A tf \in TimeframeSet : latest[tf] <= latest'[tf] /\ latest'[tf] <= now
  <1>1. /\ now \in Times /\ latest \in [TimeframeSet -> Times] /\ Times \subseteq Nat
        /\ \A tf \in TimeframeSet : latest[tf] <= now
        /\ run \in [Analyses -> Local] /\ run[a] \in Local /\ MaxTime \in Nat
        /\ LocalInv(run[a], now, latest, signals)
    BY ConstantsAssumption DEF IInv, Types, Times
  <1>2. \A tf \in TimeframeSet : latest[tf] <= latest[tf]
    <2>1. \A tf \in TimeframeSet : latest[tf] \in Nat
      BY <1>1
    <2> QED
      BY <2>1
  <1>3. ASSUME latest' = latest, now' = now,
               \E r2 \in Local : Becomes(a, r2) /\ LocalInv(r2, now, latest, signals)
        PROVE  /\ \E r2 \in Local : Becomes(a, r2) /\ LocalInv(r2, now, latest', signals)
               /\ now' = now
               /\ latest' \in [TimeframeSet -> Times]
               /\ \A tf \in TimeframeSet : latest[tf] <= latest'[tf] /\ latest'[tf] <= now
    BY <1>1, <1>2, <1>3
  <1>4. ASSUME NEW asked \in BOOLEAN, NEW persist \in BOOLEAN, Begin(a, asked, persist)
        PROVE  \E r2 \in Local : Becomes(a, r2) /\ LocalInv(r2, now, latest, signals)
    BY <1>4, StepBegins
  <1>5. ASSUME ReadFresh(a) \/ FetchedNothing(a)
        PROVE  \E r2 \in Local : Becomes(a, r2) /\ LocalInv(r2, now, latest, signals)
    <2>1. run[a].pc \in {"reading", "fetching"}
          /\ run' = [run EXCEPT ![a] = AfterReading(@, latest[Reading(a)])]
      BY <1>5 DEF ReadFresh, FetchedNothing
    <2> QED
      BY <1>1, <1>2, <2>1, StepReads
  <1>6. ASSUME NEW bar \in 1 .. now, Fetched(a, bar)
        PROVE  /\ \E r2 \in Local : Becomes(a, r2) /\ LocalInv(r2, now, latest', signals)
               /\ now' = now
               /\ latest' \in [TimeframeSet -> Times]
               /\ \A tf \in TimeframeSet : latest[tf] <= latest'[tf] /\ latest'[tf] <= now
    <2> DEFINE tf == Reading(a)
               newest == IF bar > latest[tf] THEN bar ELSE latest[tf]
               bars == [latest EXCEPT ![tf] = newest]
    <2>1. /\ latest' = bars /\ now' = now /\ run[a].pc = "fetching"
          /\ run' = [run EXCEPT ![a] = AfterReading(@, bars[Reading(a)])]
      BY <1>6 DEF Fetched
    <2>2. tf \in TimeframeSet
      <3>1. Len(run[a].read) < Len(Timeframes) /\ run[a].read \in Seq(Times)
        BY <1>1, <2>1 DEF LocalInv, Progress, Local
      <3>2. Len(run[a].read) + 1 \in DOMAIN Timeframes
        BY <3>1, ConstantsAssumption
      <3> QED
        BY <3>2 DEF Reading, TimeframeSet
    <2> HIDE DEF tf
    <2>3. latest[tf] \in Times /\ latest[tf] <= now /\ bar \in Times /\ bar <= now
      BY <1>1, <2>2 DEF Times
    <2>4. newest \in Times /\ latest[tf] <= newest /\ newest <= now
      <3>1. CASE bar > latest[tf]
        <4>1. newest = bar
          BY <3>1
        <4>2. latest[tf] \in Nat /\ bar \in Nat
          BY <1>1, <2>3
        <4> QED
          BY <2>3, <3>1, <4>1, <4>2
      <3>2. CASE ~ (bar > latest[tf])
        <4>1. newest = latest[tf] /\ latest[tf] \in Nat
          BY <1>1, <2>3, <3>2
        <4> QED
          BY <2>3, <4>1
      <3> QED
        BY <3>1, <3>2
    <2> HIDE DEF newest
    <2>5. bars \in [TimeframeSet -> Times]
      BY <1>1, <2>4
    <2>6. \A f \in TimeframeSet : latest[f] <= bars[f] /\ bars[f] <= now
      BY <1>1, <1>2, <2>2, <2>4
    <2> HIDE DEF bars
    <2>7. \E r2 \in Local : Becomes(a, r2) /\ LocalInv(r2, now, bars, signals)
      BY <2>1, <2>5, <2>6, StepReads
    <2> QED
      BY <2>1, <2>5, <2>6, <2>7
  <1>7. ASSUME Persist(a) \/ AnswerOnly(a) \/ Killed(a)
        PROVE  \E r2 \in Local : Becomes(a, r2) /\ LocalInv(r2, now, latest, signals)
    BY <1>7, StepAnswers DEF Persist, AnswerOnly, Killed
  <1>8. ASSUME ListEvents(a)
        PROVE  \E r2 \in Local : Becomes(a, r2) /\ LocalInv(r2, now, latest, signals)
    <2>1. PICK report \in Reports :
            run' = [run EXCEPT ![a].pc = "checking",
                               ![a].listed = Upcoming(report, Ahead),
                               ![a].listReport = report,
                               ![a].listedAt = now]
      BY <1>8 DEF ListEvents
    <2> DEFINE listed == Upcoming(report, Ahead)
               r2 == [run[a] EXCEPT !.pc = "checking", !.listed = listed,
                                    !.listReport = report, !.listedAt = now]
    <2>2. run[a].pc = "listing" /\ listed = {e \in report : now <= e /\ e <= now + Ahead}
      BY <1>8 DEF ListEvents, Upcoming
    <2>3. run' = [run EXCEPT ![a] = r2]
      BY <1>1, <2>1
    <2>4. report \in SUBSET Events
      BY ReportsAreEvents
    <2> HIDE DEF listed
    <2>5. r2 \in Local /\ LocalInv(r2, now, latest, signals)
      BY <1>1, <2>2, <2>4, LocalLists
    <2> QED
      BY <2>3, <2>5 DEF Becomes
  <1>9. ASSUME CheckBlackout(a)
        PROVE  \E r2 \in Local : Becomes(a, r2) /\ LocalInv(r2, now, latest, signals)
    <2>1. PICK report \in Reports :
            run' = [run EXCEPT ![a].pc = "news",
                               ![a].blackout =
                                   \E e \in Upcoming(report, Soon) : InWindow(e, now),
                               ![a].testReport = report,
                               ![a].checkedAt = now]
      BY <1>9 DEF CheckBlackout
    <2> DEFINE b == \E e \in Upcoming(report, Soon) : InWindow(e, now)
               r2 == [run[a] EXCEPT !.pc = "news", !.blackout = b,
                                    !.testReport = report, !.checkedAt = now]
    <2>2. report \in SUBSET Events
      BY ReportsAreEvents
    <2>3. run[a].pc = "checking" /\ b = Due(report, now) /\ b \in BOOLEAN
      BY <1>1, <1>9, <2>2, BlackoutIsDue DEF CheckBlackout, Due
    <2>4. run' = [run EXCEPT ![a] = r2]
      BY <1>1, <2>1
    <2> HIDE DEF b
    <2>5. r2 \in Local /\ LocalInv(r2, now, latest, signals)
      BY <1>1, <2>2, <2>3, LocalChecks
    <2> QED
      BY <2>4, <2>5 DEF Becomes
  <1>10. ASSUME Miss(a)
         PROVE  \E r2 \in Local : Becomes(a, r2) /\ LocalInv(r2, now, latest, signals)
    <2> DEFINE r2 == [run[a] EXCEPT !.pc = "fetching"]
    <2>1. run[a].pc = "reading" /\ run' = [run EXCEPT ![a] = r2]
      BY <1>1, <1>10 DEF Miss
    <2>2. /\ r2 \in Local /\ r2.pc = "fetching" /\ r2.read = run[a].read
          /\ r2.listed = run[a].listed
          /\ r2.listReport = run[a].listReport /\ r2.testReport = run[a].testReport
          /\ r2.listedAt = run[a].listedAt
          /\ r2.checkedAt = run[a].checkedAt /\ r2.blackout = run[a].blackout
          /\ r2.since = run[a].since /\ r2.result = run[a].result
      BY <1>1 DEF Local
    <2> HIDE DEF r2
    <2>3. Progress(r2)
      BY <1>1, <2>1, <2>2 DEF LocalInv, Progress
    <2>4. r2.result = "SETUP" => ~ run[a].blackout
      BY <1>1, <2>2 DEF LocalInv, Tested
    <2>5. LocalInv(r2, now, latest, signals)
      BY <1>1, <2>2, <2>3, <2>4, LocalMoves
    <2> QED
      BY <2>1, <2>2, <2>5 DEF Becomes
  <1>11. ASSUME Classify(a)
         PROVE  \E r2 \in Local : Becomes(a, r2) /\ LocalInv(r2, now, latest, signals)
    <2>1. PICK result \in Results(run[a]) :
            run' = [run EXCEPT ![a].pc = "narrating", ![a].result = result]
      BY <1>11 DEF Classify
    <2> DEFINE r2 == [run[a] EXCEPT !.pc = "narrating", !.result = result]
    <2>2. /\ result \in {"SETUP", "NO_SETUP"}
          /\ result = "SETUP" => ~ run[a].blackout
      BY <2>1 DEF Results
    <2>3. run' = [run EXCEPT ![a] = r2]
      BY <1>1, <2>1
    <2>4. /\ r2 \in Local /\ r2.pc = "narrating" /\ r2.read = run[a].read
          /\ r2.listed = run[a].listed
          /\ r2.listReport = run[a].listReport /\ r2.testReport = run[a].testReport
          /\ r2.listedAt = run[a].listedAt
          /\ r2.checkedAt = run[a].checkedAt /\ r2.blackout = run[a].blackout
          /\ r2.since = run[a].since /\ r2.result = result
      BY <1>1, <2>2 DEF Local
    <2> HIDE DEF r2
    <2>5. Progress(run[a]) /\ run[a].pc = "news"
      BY <1>1, <1>11 DEF LocalInv, Classify
    <2>6. Progress(r2)
      BY <2>4, <2>5 DEF Progress
    <2>7. LocalInv(r2, now, latest, signals)
      BY <1>1, <2>2, <2>4, <2>6, LocalMoves
    <2> QED
      BY <2>3, <2>4, <2>7 DEF Becomes
  <1>12. (latest' = latest /\ now' = now) \/ \E bar \in 1 .. now : Fetched(a, bar)
    BY DEF Step, Begin, ReadFresh, Miss, FetchedNothing, ListEvents,
           CheckBlackout, Classify, Persist, AnswerOnly, Killed
  <1>13. CASE \E bar \in 1 .. now : Fetched(a, bar)
    BY <1>6, <1>13
  <1>14. CASE ~ (\E bar \in 1 .. now : Fetched(a, bar))
    <2>1. \E r2 \in Local : Becomes(a, r2) /\ LocalInv(r2, now, latest, signals)
      BY <1>4, <1>5, <1>7, <1>8, <1>9, <1>10, <1>11, <1>14 DEF Step
    <2> QED
      BY <1>3, <1>12, <1>14, <2>1
  <1> QED
    BY <1>13, <1>14

-----------------------------------------------------------------------------
(* The invariant.                                                          *)

LEMMA InitIInv == Init => IInv
  <1> SUFFICES ASSUME Init PROVE IInv
    OBVIOUS
  <1>1. /\ now = 0 /\ latest = [tf \in TimeframeSet |-> 0]
        /\ run = [a \in Analyses |-> Idle] /\ signals = <<>> /\ Len(<<>>) = 0
        /\ 0 \in Times /\ now \in Nat /\ <<>> \in Seq(Signal)
    BY ConstantsAssumption DEF Init, Times
  <1>2. Idle \in Local /\ LocalInv(Idle, now, latest, signals)
    BY <1>1, LocalBlank
  <1>3. Types
    BY <1>1, <1>2 DEF Types
  <1> QED
    BY <1>1, <1>2, <1>3 DEF IInv

\* Signals are added, never changed.
LEMMA SignalsExtend ==
    ASSUME IInv, [Next]_vars
    PROVE  /\ signals' \in Seq(Signal)
           /\ Extends(signals, signals')
           /\ \/ signals' = signals
              \/ \E a \in Analyses :
                   /\ run[a].pc = "narrating"
                   /\ signals' = Append(signals, [by |-> a, at |-> now, local |-> run[a]])
                   /\ now' = now
           /\ Len(signals) \in Nat
  <1>1. signals \in Seq(Signal) /\ Len(signals) \in Nat /\ now \in Times
        /\ run \in [Analyses -> Local]
    BY DEF IInv, Types
  <1>2. CASE signals' = signals
    BY <1>1, <1>2 DEF Extends
  <1>3. ASSUME NEW a \in Analyses, Persist(a)
        PROVE  /\ signals' \in Seq(Signal)
               /\ Extends(signals, signals')
               /\ run[a].pc = "narrating"
               /\ signals' = Append(signals, [by |-> a, at |-> now, local |-> run[a]])
               /\ now' = now
    <2> DEFINE s == [by |-> a, at |-> now, local |-> run[a]]
    <2>1. signals' = Append(signals, s) /\ run[a].pc = "narrating" /\ now' = now
      BY <1>3 DEF Persist
    <2>2. s \in Signal
      BY <1>1 DEF Signal
    <2> HIDE DEF s
    <2>3. /\ Append(signals, s) \in Seq(Signal)
          /\ Len(Append(signals, s)) = Len(signals) + 1
          /\ \A n \in 1 .. Len(signals) : Append(signals, s)[n] = signals[n]
      BY <1>1, <2>2
    <2>4. Extends(signals, signals')
      BY <1>1, <2>1, <2>3 DEF Extends
    <2> QED
      BY <2>1, <2>3, <2>4 DEF s
  <1>4. signals' = signals \/ \E a \in Analyses : Persist(a)
    BY DEF Next, Step, Begin, ReadFresh, Miss, Fetched, FetchedNothing, ListEvents,
           CheckBlackout, Classify, AnswerOnly, Killed,
           Feed, Tick, vars
  <1> QED
    BY <1>1, <1>2, <1>3, <1>4

\* The clock and the bars grow.
LEMMA WorldGrows ==
    ASSUME IInv, [Next]_vars
    PROVE  /\ now' \in Times /\ now <= now'
           /\ latest' \in [TimeframeSet -> Times]
           /\ \A tf \in TimeframeSet : latest[tf] <= latest'[tf] /\ latest'[tf] <= now'
  <1>1. /\ now \in Times /\ Times \subseteq Nat /\ latest \in [TimeframeSet -> Times]
        /\ \A tf \in TimeframeSet : latest[tf] <= now
        /\ \A tf \in TimeframeSet : latest[tf] \in Nat
        /\ now \in Nat /\ MaxTime \in Nat /\ Times = 0 .. MaxTime
    <2>1. Times \subseteq Nat /\ Times = 0 .. MaxTime /\ MaxTime \in Nat
      BY ConstantsAssumption DEF Times
    <2> QED
      BY <2>1 DEF IInv, Types
  <1>2. \A tf \in TimeframeSet : latest[tf] <= latest[tf]
    BY <1>1
  <1>3. ASSUME NEW a \in Analyses, Step(a)
        PROVE  /\ now' = now
               /\ latest' \in [TimeframeSet -> Times]
               /\ \A tf \in TimeframeSet : latest[tf] <= latest'[tf] /\ latest'[tf] <= now
    BY <1>3, HandlerSteps
  <1>4. ASSUME NEW tf \in TimeframeSet, NEW bar \in 1 .. now, Feed(tf, bar)
        PROVE  /\ now' = now
               /\ latest' \in [TimeframeSet -> Times]
               /\ \A f \in TimeframeSet : latest[f] <= latest'[f] /\ latest'[f] <= now
    <2>1. latest' = [latest EXCEPT ![tf] = bar] /\ latest[tf] < bar /\ now' = now
      BY <1>4 DEF Feed
    <2>2. bar \in Times /\ bar <= now /\ latest[tf] <= bar
      BY <1>1, <2>1
    <2> QED
      BY <1>1, <1>2, <2>1, <2>2
  <1>5. CASE Tick
    <2>1. now' = now + 1 /\ now < MaxTime /\ latest' = latest
      BY <1>5 DEF Tick
    <2>2. now' \in Times /\ now <= now' /\ \A tf \in TimeframeSet : latest[tf] <= now'
      BY <1>1, <2>1
    <2> QED
      BY <1>1, <1>2, <2>1, <2>2
  <1>6. CASE UNCHANGED vars
    BY <1>1, <1>2, <1>6 DEF vars
  <1>7. now <= now
    BY <1>1
  <1> QED
    BY <1>1, <1>3, <1>4, <1>5, <1>6, <1>7 DEF Next

\* The locals of a request: they stay, or are those its step made.
LEMMA LocalsStep ==
    ASSUME IInv, [Next]_vars
    PROVE  /\ run' \in [Analyses -> Local]
           /\ \A a \in Analyses : LocalInv(run'[a], now', latest', signals')
  <1>1. /\ now \in Nat /\ now' \in Nat /\ now <= now'
        /\ latest \in [TimeframeSet -> Nat] /\ latest' \in [TimeframeSet -> Nat]
        /\ \A tf \in TimeframeSet : latest[tf] <= latest'[tf]
        /\ signals \in Seq(Signal) /\ signals' \in Seq(Signal) /\ Extends(signals, signals')
        /\ run \in [Analyses -> Local]
        /\ \A a \in Analyses : LocalInv(run[a], now, latest, signals)
    <2>1. Times \subseteq Nat
      BY ConstantsAssumption DEF Times
    <2> QED
      BY <2>1, WorldGrows, SignalsExtend DEF IInv, Types
  <1>2. \A a \in Analyses : LocalInv(run[a], now', latest', signals')
    BY <1>1, LocalKeeps
  <1>3. ASSUME NEW a \in Analyses, Step(a)
        PROVE  /\ run' \in [Analyses -> Local]
               /\ \A b \in Analyses : LocalInv(run'[b], now', latest', signals')
    <2>1. PICK r2 \in Local : Becomes(a, r2) /\ LocalInv(r2, now, latest', signals)
      BY <1>3, HandlerSteps
    <2>2. \A tf \in TimeframeSet : latest'[tf] <= latest'[tf]
      <3>1. \A tf \in TimeframeSet : latest'[tf] \in Nat
        BY <1>1
      <3> QED
        BY <3>1
    <2>3. LocalInv(r2, now', latest', signals')
      BY <1>1, <2>1, <2>2, LocalKeeps
    <2>4. run' = [run EXCEPT ![a] = r2]
      BY <2>1 DEF Becomes
    <2> QED
      BY <1>1, <1>2, <2>1, <2>3, <2>4
  <1>4. run' = run \/ \E a \in Analyses : Step(a)
    BY DEF Next, Feed, Tick, vars
  <1> QED
    BY <1>1, <1>2, <1>3, <1>4

\* A signal is a copy of the locals of a request whose reading is complete.
LEMMA SignalsStep ==
    ASSUME IInv, [Next]_vars
    PROVE  /\ \A n \in 1 .. Len(signals') : signals'[n].at <= now'
           /\ \A n \in 1 .. Len(signals') : StoredInv(signals'[n], now', latest', signals')
  <1>1. /\ now \in Nat /\ now' \in Nat /\ now <= now'
        /\ latest \in [TimeframeSet -> Nat] /\ latest' \in [TimeframeSet -> Nat]
        /\ \A tf \in TimeframeSet : latest[tf] <= latest'[tf]
        /\ signals \in Seq(Signal) /\ signals' \in Seq(Signal) /\ Extends(signals, signals')
        /\ run \in [Analyses -> Local]
        /\ \A a \in Analyses : LocalInv(run[a], now, latest, signals)
        /\ Times \subseteq Nat
    <2>1. Times \subseteq Nat
      BY ConstantsAssumption DEF Times
    <2> QED
      BY <2>1, WorldGrows, SignalsExtend DEF IInv, Types
  <1>2. ASSUME NEW s \in Signal, s.at <= now, StoredInv(s, now, latest, signals)
        PROVE  s.at <= now' /\ StoredInv(s, now', latest', signals')
    <2>1. s.at \in Nat /\ s.local \in Local
      BY <1>1 DEF Signal
    <2>2. LocalInv(s.local, now, latest, signals)
      BY <1>2 DEF StoredInv
    <2>3. LocalInv(s.local, now', latest', signals')
      BY <1>1, <2>1, <2>2, LocalKeeps
    <2>4. s.at <= now'
      BY <1>1, <1>2, <2>1
    <2> QED
      BY <1>2, <2>3, <2>4 DEF StoredInv
  <1>3. ASSUME NEW n \in 1 .. Len(signals)
        PROVE  signals[n].at <= now' /\ StoredInv(signals[n], now', latest', signals')
    <2>1. signals[n] \in Signal /\ signals[n].at <= now /\ StoredInv(signals[n], now, latest, signals)
      BY DEF IInv, Types
    <2> QED
      BY <1>2, <2>1
  <1>4. CASE signals' = signals
    BY <1>3, <1>4
  <1>5. ASSUME NEW a \in Analyses, run[a].pc = "narrating",
               signals' = Append(signals, [by |-> a, at |-> now, local |-> run[a]])
        PROVE  /\ \A n \in 1 .. Len(signals') : signals'[n].at <= now'
               /\ \A n \in 1 .. Len(signals') : StoredInv(signals'[n], now', latest', signals')
    <2> DEFINE s == [by |-> a, at |-> now, local |-> run[a]]
    <2>1. s \in Signal /\ s.at = now /\ s.local = run[a] /\ run[a] \in Local
      BY <1>1 DEF Signal, IInv, Types
    <2>2. signals' = Append(signals, s)
      BY <1>5
    <2> HIDE DEF s
    <2>3. LocalInv(run[a], now, latest, signals) /\ Complete(run[a].read)
      BY <1>1, <1>5 DEF LocalInv, Progress
    <2>4. run[a].checkedAt <= now
      BY <1>1, <2>3 DEF LocalInv, Tested, Never
    <2>5. s.at <= now /\ StoredInv(s, now, latest, signals)
      BY <1>1, <1>5, <2>1, <2>3, <2>4 DEF StoredInv
    <2>6. s.at <= now' /\ StoredInv(s, now', latest', signals')
      BY <1>2, <2>1, <2>5
    <2>7. PICK k \in Nat : k = Len(signals)
      BY <1>1
    <2>8. /\ Len(signals') = k + 1 /\ signals'[k + 1] = s
          /\ \A n \in 1 .. k : signals'[n] = signals[n]
      BY <1>1, <2>1, <2>2, <2>7
    <2>9. ASSUME NEW n \in 1 .. k + 1
          PROVE  signals'[n].at <= now' /\ StoredInv(signals'[n], now', latest', signals')
      <3>1. CASE n = k + 1
        BY <2>6, <2>8, <3>1
      <3>2. CASE n # k + 1
        <4>1. n \in 1 .. k
          BY <3>2
        <4> QED
          BY <1>3, <2>7, <2>8, <4>1
      <3> QED
        BY <3>1, <3>2
    <2> QED
      BY <2>8, <2>9
  <1> QED
    BY <1>4, <1>5, SignalsExtend

LEMMA NextIInv == IInv /\ [Next]_vars => IInv'
  <1> SUFFICES ASSUME IInv, [Next]_vars PROVE IInv'
    OBVIOUS
  <1>1. Types'
    BY WorldGrows, LocalsStep, SignalsExtend, SignalsStep DEF Types
  <1>2. \A a \in Analyses : LocalInv(run'[a], now', latest', signals')
    BY LocalsStep
  <1>3. \A n \in 1 .. Len(signals') : StoredInv(signals'[n], now', latest', signals')
    BY SignalsStep
  <1> QED
    BY <1>1, <1>2, <1>3 DEF IInv

\* The locals of every request, and their copies in the signals, agree with the
\* calendar, the bars and the signals before them.
THEOREM Invariant == Spec => []IInv
  BY InitIInv, NextIInv, PTL DEF Spec

-----------------------------------------------------------------------------
(* The properties.                                                         *)

\* Every reachable state is well typed; what was read is stored, and a signal
\* rests on enough bars of the primary timeframe.
THEOREM TypeCorrect == Spec => []TypeOK
  <1>1. IInv => TypeOK
    <2> SUFFICES ASSUME IInv PROVE TypeOK
      OBVIOUS
    <2>1. /\ now \in Times /\ now \in Nat /\ Times \subseteq Nat /\ Times = 0 .. MaxTime
          /\ MaxTime \in Nat /\ latest \in [TimeframeSet -> Times]
          /\ \A tf \in TimeframeSet : latest[tf] <= now
          /\ run \in [Analyses -> Local] /\ signals \in Seq(Signal)
          /\ \A n \in 1 .. Len(signals) : signals[n] \in Signal /\ signals[n].at <= now
          /\ DOMAIN Timeframes = 1 .. Len(Timeframes)
          /\ DOMAIN signals = 1 .. Len(signals)
      <3>1. Times \subseteq Nat /\ Times = 0 .. MaxTime /\ MaxTime \in Nat
        BY ConstantsAssumption DEF Times
      <3>2. signals \in Seq(Signal)
        BY DEF IInv, Types
      <3>3. \A n \in 1 .. Len(signals) : signals[n] \in Signal
        BY <3>2
      <3> QED
        BY <3>1, <3>2, <3>3, ConstantsAssumption DEF IInv, Types
    <2>2. latest \in [TimeframeSet -> 0 .. now]
      BY <2>1
    <2>3. ASSUME NEW a \in Analyses, NEW k \in DOMAIN Timeframes, k \in DOMAIN run[a].read
          PROVE  run[a].read[k] <= latest[Timeframes[k]]
      <3>1. run[a].read \in Seq(Times)
        BY <2>1 DEF Local
      <3>2. k \in 1 .. Len(run[a].read)
        BY <2>3, <3>1
      <3> QED
        BY <3>2 DEF IInv, LocalInv, Rests
    <2>4. signals \in Seq([by : Analyses, at : 0 .. now, local : Local])
      <3> DEFINE S == [by : Analyses, at : 0 .. now, local : Local]
      <3>1. \A n \in 1 .. Len(signals) : signals[n] \in S
        BY <2>1 DEF Signal
      <3>2. Len(signals) \in Nat /\ signals = [n \in 1 .. Len(signals) |-> signals[n]]
        BY <2>1
      <3> HIDE DEF S
      <3>3. signals \in [1 .. Len(signals) -> S]
        BY <3>1, <3>2
      <3>4. signals \in Seq(S)
        BY <3>2, <3>3
      <3> QED
        BY <3>4 DEF S
    <2>5. \A n \in DOMAIN signals, k \in DOMAIN Timeframes :
            Timeframes[k] = Primary => signals[n].local.read[k] >= MinBars
      BY <2>1 DEF IInv, StoredInv, Complete
    <2> QED
      BY <2>1, <2>2, <2>3, <2>4, <2>5 DEF TypeOK
  <1> QED
    BY <1>1, Invariant, PTL

\* A setup stored in the run-up to an event its test was told of was tested
\* before the run-up began, for any reports and any windows.
THEOREM LateByAwaits == Spec => []LateOnlyByAwaits
  <1>1. IInv => LateOnlyByAwaits
    <2> SUFFICES ASSUME IInv, NEW n \in DOMAIN signals,
                        signals[n].local.result = "SETUP",
                        NEW e \in signals[n].local.testReport,
                        RunUp(e, signals[n].at)
                 PROVE  signals[n].local.checkedAt < e - Before
      BY DEF LateOnlyByAwaits, Setups
    <2> DEFINE r == signals[n].local
    <2>1. signals \in Seq(Signal) /\ n \in 1 .. Len(signals) /\ now \in Times /\ Times \subseteq Nat
      <3>1. signals \in Seq(Signal) /\ now \in Times
        BY DEF IInv, Types
      <3>2. Times \subseteq Nat
        BY ConstantsAssumption DEF Times
      <3> QED
        BY <3>1, <3>2
    <2>2. signals[n].at \in Nat /\ e \in Nat /\ Before \in Nat
      <3>1. signals[n] \in Signal
        BY <2>1
      <3>2. signals[n].at \in Times /\ r.testReport \in SUBSET Events
        BY <3>1 DEF Signal, Local
      <3> QED
        BY <2>1, <3>2, ConstantsAssumption
    <2>3. StoredInv(signals[n], now, latest, signals)
      BY <2>1 DEF IInv
    <2>4. r.checkedAt \in 0 .. now /\ r.blackout = Due(r.testReport, r.checkedAt)
          /\ ~ r.blackout /\ r.checkedAt <= signals[n].at
      BY <2>3 DEF StoredInv, LocalInv, Tested
    <2>5. ~ RunUp(e, r.checkedAt)
      BY <2>4 DEF Due
    <2> HIDE DEF r
    <2>6. r.checkedAt \in Nat
      BY <2>1, <2>4
    <2> QED
      BY <2>2, <2>4, <2>5, <2>6 DEF RunUp, r
  <1> QED
    BY <1>1, Invariant, PTL

\* A stored run's list contradicts its blackout only over an event that one of
\* the two calls was told of and the other was not, for any reports and windows,
\* if the two calls are close enough for the list to reach that far.
THEOREM ContradictionInReports == Spec => []ContradictionIsInTheReports
  <1>1. IInv => ContradictionIsInTheReports
    <2> SUFFICES ASSUME IInv, NEW n \in DOMAIN signals, NEW r, r = signals[n].local,
                        r.blackout # (\E e \in r.listed : RunUp(e, r.checkedAt)),
                        r.checkedAt - r.listedAt <= Ahead - Before
                 PROVE  \E e \in r.listReport \cup r.testReport :
                            /\ RunUp(e, r.checkedAt)
                            /\ (e \in r.listReport) # (e \in r.testReport)
      BY DEF ContradictionIsInTheReports
    <2>1. n \in 1 .. Len(signals) /\ now \in Nat /\ signals \in Seq(Signal)
      BY ConstantsAssumption DEF IInv, Types, Times
    <2>2. Tested(r, now) /\ Progress(r) /\ r.pc = "narrating" /\ r \in Local
      <3>1. signals[n] \in Signal
        BY <2>1
      <3> QED
        BY <2>1, <3>1 DEF IInv, StoredInv, LocalInv, Signal
    <2>3. /\ Before \in Nat /\ Ahead \in Nat /\ Events \subseteq Nat
          /\ r.listReport \subseteq Events /\ r.testReport \subseteq Events
          /\ r.blackout \in BOOLEAN
      BY <2>2, ConstantsAssumption DEF Local
    <2> DEFINE named == \E e \in r.listed : RunUp(e, r.checkedAt)
    <2>4. r.checkedAt # Never
      <3> SUFFICES ASSUME r.checkedAt = Never PROVE FALSE
        OBVIOUS
      <3>1. ~ r.blackout
        BY <2>1, <2>2 DEF Tested, Never
      <3>2. r.listed = {}
        BY <2>1, <2>2 DEF Progress, Tested, Never
      <3>3. ~ named
        BY <3>2
      <3>4. r.blackout # named /\ named \in BOOLEAN
        OBVIOUS
      <3> HIDE DEF named
      <3> QED
        BY <2>3, <3>1, <3>3, <3>4
    <2>5. /\ r.checkedAt \in Nat /\ r.listedAt \in Nat /\ r.listedAt <= r.checkedAt
          /\ r.listed = {e \in r.listReport : r.listedAt <= e /\ e <= r.listedAt + Ahead}
          /\ r.blackout = Due(r.testReport, r.checkedAt)
      BY <2>1, <2>2, <2>4 DEF Tested
    <2>6. r.blackout <=> ~ named
      <3>1. r.blackout # named /\ named \in BOOLEAN
        OBVIOUS
      <3> HIDE DEF named
      <3> QED
        BY <2>3, <3>1
    <2>7. CASE r.blackout
      <3>1. PICK e \in r.testReport : RunUp(e, r.checkedAt)
        BY <2>5, <2>7 DEF Due
      <3>2. e \notin r.listed
        BY <2>6, <2>7, <3>1
      <3>3. r.listedAt <= e /\ e <= r.listedAt + Ahead
        <4>1. e \in Nat /\ e - Before <= r.checkedAt /\ r.checkedAt <= e
          BY <2>3, <3>1 DEF RunUp
        <4>2. r.checkedAt - r.listedAt <= Ahead - Before
          OBVIOUS
        <4> QED
          BY <2>3, <2>5, <4>1, <4>2
      <3>4. e \notin r.listReport
        BY <2>5, <3>2, <3>3
      <3> QED
        BY <3>1, <3>4
    <2>8. CASE ~ r.blackout
      <3>1. PICK e \in r.listed : RunUp(e, r.checkedAt)
        BY <2>6, <2>8
      <3>2. e \in r.listReport
        BY <2>5, <3>1
      <3>3. e \notin r.testReport
        BY <2>5, <2>8, <3>1 DEF Due
      <3> QED
        BY <3>1, <3>2, <3>3
    <2> QED
      BY <2>3, <2>7, <2>8
  <1> QED
    BY <1>1, Invariant, PTL

\* Of two analyses one after the other, the later reads bars at least as new, for
\* any number of analyses and timeframes.
THEOREM AnalysesAdvance == Spec => []SequentialAnalysesAdvance
  <1>1. IInv => SequentialAnalysesAdvance
    <2> SUFFICES ASSUME IInv, NEW m \in DOMAIN signals, NEW n \in DOMAIN signals,
                        m <= signals[n].local.since, NEW k \in DOMAIN Timeframes
                 PROVE  signals[m].local.read[k] <= signals[n].local.read[k]
      BY DEF SequentialAnalysesAdvance
    <2>1. signals \in Seq(Signal)
      BY DEF IInv, Types
    <2>2. m \in 1 .. Len(signals) /\ n \in 1 .. Len(signals)
          /\ k \in 1 .. Len(Timeframes)
      BY <2>1, ConstantsAssumption
    <2>3. signals[n].local.since \in Nat
      <3>1. signals[n] \in Signal
        BY <2>1
      <3> QED
        BY <3>1 DEF Signal, Local
    <2>4. Newer(signals[n].local, signals) /\ Complete(signals[n].local.read)
      BY <2>2 DEF IInv, StoredInv, LocalInv
    <2>5. m \in 1 .. signals[n].local.since /\ k \in 1 .. Len(signals[n].local.read)
      BY <2>2, <2>3, <2>4 DEF Complete
    <2> QED
      BY <2>4, <2>5 DEF Newer
  <1> QED
    BY <1>1, Invariant, PTL

=============================================================================
