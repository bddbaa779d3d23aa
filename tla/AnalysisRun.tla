---------------------------- MODULE AnalysisRun ----------------------------
(***************************************************************************)
(* POST /analysis/run from its first query to the stored signal            *)
(* (api/routes/analysis.py), with the economic calendar it asks            *)
(* (services/economic_calendar.py).                                        *)
(*                                                                         *)
(* The handler is a coroutine.  It reads one timeframe after the other,    *)
(* asks the calendar twice, fetches the news, classifies, waits for the    *)
(* narrative and stores the result.  At every await other analyses run,    *)
(* feeds commit bars and time passes; what was read before is used after.  *)
(*                                                                         *)
(* A series is the number of its latest bar, which is the time it was      *)
(* printed: it has no gaps.  BarStore has the details of storing bars,     *)
(* Confluence those of the classification, of which only the influence of  *)
(* the blackout is kept here.                                              *)
(***************************************************************************)
EXTENDS Integers, Sequences

CONSTANTS
    Analyses,     \* requests
    Timeframes,   \* requested timeframes in the order they are read
    Primary,      \* the primary one
    MinBars,      \* minimum_bars
    StaleAfter,   \* oldest age at which the latest bar counts as fresh
    Keys,         \* calendar feeds there is a key for
    Events,       \* times a feed may give for a high-impact event for the symbol
    Before,       \* minutes_before
    After,        \* minutes_after
    Ahead,        \* hours_ahead of the list of events
    Soon,         \* hours_ahead of the blackout test
    MaxTime       \* bound on the clock

TimeframeSet == {Timeframes[k] : k \in DOMAIN Timeframes}

ASSUME ConstantsAssumption ==
    /\ Timeframes \in Seq(TimeframeSet)
    /\ \A j, k \in DOMAIN Timeframes : Timeframes[j] = Timeframes[k] => j = k
    /\ Primary \in TimeframeSet
    /\ Keys \subseteq {"JBlanked", "FMP"}
    /\ Events \subseteq Nat
    /\ {MinBars, StaleAfter, Before, After, Ahead, Soon, MaxTime} \subseteq Nat
    /\ MinBars > 0
    /\ Before <= Soon

VARIABLES
    now,
    latest,   \* market_bars: the latest bar of each timeframe, 0 if none
    run,      \* requests
    signals   \* signals and analysis_runs, in the order of their commits

vars == <<now, latest, run, signals>>

Times == 0 .. MaxTime

Never == -1

\* The handler's local variables.  History: listReport and testReport are the
\* events the two calendar calls were told of, listedAt and checkedAt the times
\* of the calls, since the number of signals when the request began.
Local ==
    [pc        : {"idle", "reading", "fetching", "listing", "checking", "news",
                  "narrating", "answered"},
     asked     : BOOLEAN,                  \* check_calendar_blackout
     persist   : BOOLEAN,
     read      : Seq(Times),               \* by position in Timeframes
     listed    : SUBSET Events,
     blackout  : BOOLEAN,
     result    : {"none", "SETUP", "NO_SETUP"},
     listReport : SUBSET Events,
     testReport : SUBSET Events,
     listedAt  : Times \cup {Never},
     checkedAt : Times \cup {Never},
     since     : Nat]

Idle ==
    [pc |-> "idle", asked |-> FALSE, persist |-> FALSE, read |-> <<>>,
     listed |-> {}, blackout |-> FALSE, result |-> "none", listReport |-> {},
     testReport |-> {}, listedAt |-> Never, checkedAt |-> Never, since |-> 0]

\* The handler has returned, and its locals are gone.
Answered == [Idle EXCEPT !.pc = "answered"]

Init ==
    /\ now = 0
    /\ latest = [tf \in TimeframeSet |-> 0]
    /\ run = [a \in Analyses |-> Idle]
    /\ signals = <<>>

Begin(a, asked, persist) ==
    /\ run[a] = Idle
    /\ run' = [run EXCEPT ![a].pc = "reading", ![a].asked = asked,
                          ![a].persist = persist, ![a].since = Len(signals)]
    /\ UNCHANGED <<now, latest, signals>>

-----------------------------------------------------------------------------
(* The bars.                                                               *)

Reading(a) == Timeframes[Len(run[a].read) + 1]

Enough(tf) == latest[tf] >= MinBars /\ now - latest[tf] <= StaleAfter

\* The request after the timeframe's bars up to `bar` have been loaded: the
\* next timeframe, or 422, or the calendar if it is wanted, or the news.
AfterReading(r, bar) ==
    LET read    == Append(r.read, bar)
        primary == CHOOSE k \in DOMAIN Timeframes : Timeframes[k] = Primary
        next    == IF Len(read) < Len(Timeframes) THEN "reading"
                   ELSE IF r.asked THEN "listing" ELSE "news"
    IN  IF Len(read) = Len(Timeframes) /\ read[primary] < MinBars
          THEN Answered
          ELSE [r EXCEPT !.read = read, !.pc = next]

ReadFresh(a) ==
    /\ run[a].pc = "reading"
    /\ Enough(Reading(a))
    /\ run' = [run EXCEPT ![a] = AfterReading(@, latest[Reading(a)])]
    /\ UNCHANGED <<now, latest, signals>>

\* Too few bars or too old: ask the provider.
Miss(a) ==
    /\ run[a].pc = "reading"
    /\ ~Enough(Reading(a))
    /\ run' = [run EXCEPT ![a].pc = "fetching"]
    /\ UNCHANGED <<now, latest, signals>>

\* Variant: the provider's bars replace the stored ones.
FetchedOver(a, bar) ==
    /\ run[a].pc = "fetching"
    /\ latest' = [latest EXCEPT ![Reading(a)] = bar]
    /\ run' = [run EXCEPT ![a] = AfterReading(@, latest'[Reading(a)])]
    /\ UNCHANGED <<now, signals>>

\* The provider's bars, which end with `bar`, are added and the timeframe read.
Fetched(a, bar) ==
    /\ run[a].pc = "fetching"
    /\ latest' = [latest EXCEPT ![Reading(a)] = IF bar > @ THEN bar ELSE @]
    /\ run' = [run EXCEPT ![a] = AfterReading(@, latest'[Reading(a)])]
    /\ UNCHANGED <<now, signals>>

\* No provider, no answer, an empty one.
FetchedNothing(a) ==
    /\ run[a].pc = "fetching"
    /\ run' = [run EXCEPT ![a] = AfterReading(@, latest[Reading(a)])]
    /\ UNCHANGED <<now, latest, signals>>

-----------------------------------------------------------------------------
(* The calendar.  Each of the two calls sends requests of its own.  A feed *)
(* may fail, know other events than the other feed, and have revised its   *)
(* list since the call before.                                             *)

\* The events a call is told of, when the feeds in `answering` answer it with
\* `lists`: JBlanked's, or FMP's if JBlanked has failed.  An answer that is not
\* a list has no events, and neither has a call that nobody answers.
Told(answering, lists) ==
    IF "JBlanked" \in answering THEN lists["JBlanked"]
    ELSE IF "FMP" \in answering THEN lists["FMP"]
    ELSE {}

Reports ==
    {Told(answering, lists) : answering \in SUBSET Keys, lists \in [Keys -> SUBSET Events]}

\* get_upcoming_events of a report: what lies ahead; the past is left out.
Upcoming(report, ahead) == {e \in report : now <= e /\ e <= now + ahead}

\* Variant: the minute the window opens is left out.
InWindowOpen(e, t) == e - Before < t /\ t <= e + After

InWindow(e, t) == e - Before <= t /\ t <= e + After

ListEvents(a) ==
    /\ run[a].pc = "listing"
    /\ \E report \in Reports :
         run' = [run EXCEPT ![a].pc = "checking",
                            ![a].listed = Upcoming(report, Ahead),
                            ![a].listReport = report,
                            ![a].listedAt = now]
    /\ UNCHANGED <<now, latest, signals>>

\* Variant: whatever get_upcoming_events returned blocks, inside its window or
\* not.
CheckSoon(a) ==
    /\ run[a].pc = "checking"
    /\ \E report \in Reports :
         run' = [run EXCEPT ![a].pc = "news",
                            ![a].blackout = Upcoming(report, Soon) # {},
                            ![a].testReport = report,
                            ![a].checkedAt = now]
    /\ UNCHANGED <<now, latest, signals>>

\* is_blackout_window, over the events of a new report that are still to come.
CheckBlackout(a) ==
    /\ run[a].pc = "checking"
    /\ \E report \in Reports :
         run' = [run EXCEPT ![a].pc = "news",
                            ![a].blackout =
                                \E e \in Upcoming(report, Soon) : InWindow(e, now),
                            ![a].testReport = report,
                            ![a].checkedAt = now]
    /\ UNCHANGED <<now, latest, signals>>

-----------------------------------------------------------------------------
(* Classification and storage.                                             *)

\* A blackout rules a SETUP out; the rest of the evidence may say anything.
\* NO_SETUP stands for INSUFFICIENT_CONFIRMATION as well.
Results(r) == IF r.blackout THEN {"NO_SETUP"} ELSE {"SETUP", "NO_SETUP"}

\* The news has arrived or failed; the pipeline runs.
Classify(a) ==
    /\ run[a].pc = "news"
    /\ \E result \in Results(run[a]) :
         run' = [run EXCEPT ![a].pc = "narrating", ![a].result = result]
    /\ UNCHANGED <<now, latest, signals>>

\* The narrative is there, or its fallback; persist_analysis commits.
Persist(a) ==
    /\ run[a].pc = "narrating"
    /\ run[a].persist
    /\ signals' = Append(signals,
                    [by |-> a, at |-> now, local |-> run[a]])
    /\ run' = [run EXCEPT ![a] = Answered]
    /\ UNCHANGED <<now, latest>>

\* Nothing to store, or the commit fails.
AnswerOnly(a) ==
    /\ run[a].pc = "narrating"
    /\ run' = [run EXCEPT ![a] = Answered]
    /\ UNCHANGED <<now, latest, signals>>

\* The classification raises, or the process serving the request dies.
Killed(a) ==
    /\ run[a].pc \notin {"idle", "answered"}
    /\ run' = [run EXCEPT ![a] = Answered]
    /\ UNCHANGED <<now, latest, signals>>

-----------------------------------------------------------------------------
(* The surroundings: a feed, and time.                                     *)

Feed(tf, bar) ==
    /\ latest[tf] < bar
    /\ latest' = [latest EXCEPT ![tf] = bar]
    /\ UNCHANGED <<now, run, signals>>

Tick ==
    /\ now < MaxTime
    /\ now' = now + 1
    /\ UNCHANGED <<latest, run, signals>>

Step(a) ==
    \/ \E asked, persist \in BOOLEAN : Begin(a, asked, persist)
    \/ ReadFresh(a) \/ Miss(a) \/ FetchedNothing(a)
    \/ \E bar \in 1 .. now : Fetched(a, bar)
    \/ ListEvents(a) \/ CheckBlackout(a)
    \/ Classify(a) \/ Persist(a) \/ AnswerOnly(a) \/ Killed(a)

Next ==
    \/ \E a \in Analyses : Step(a)
    \/ \E tf \in TimeframeSet, bar \in 1 .. now : Feed(tf, bar)
    \/ Tick

Spec == Init /\ [][Next]_vars

-----------------------------------------------------------------------------
(* Properties.                                                             *)

Setups == {s \in {signals[n] : n \in DOMAIN signals} : s.local.result = "SETUP"}

\* Time t is in the run-up to event e, the half of its window that blocks.
RunUp(e, t) == e - Before <= t /\ t <= e

\* Types; and a signal rests on enough bars of the primary timeframe, all of
\* them stored.
TypeOK ==
    /\ now \in Times
    /\ latest \in [TimeframeSet -> 0 .. now]
    /\ run \in [Analyses -> Local]
    /\ \A a \in Analyses, k \in DOMAIN Timeframes :
         k \in DOMAIN run[a].read => run[a].read[k] <= latest[Timeframes[k]]
    /\ signals \in Seq([by : Analyses, at : 0 .. now, local : Local])
    /\ \A n \in DOMAIN signals, k \in DOMAIN Timeframes :
         Timeframes[k] = Primary => signals[n].local.read[k] >= MinBars

\* A setup stored in the run-up to an event its test was told of was tested
\* before the run-up began: only the awaits after the test can make it late
\* (analysis.py:252-372, economic_calendar.py:100-123).
LateOnlyByAwaits ==
    \A s \in Setups : \A e \in s.local.testReport :
        RunUp(e, s.at) => s.local.checkedAt < e - Before

\* The list and the test are two calls (analysis.py:244-250), and what a stored
\* run lists may contradict its blackout: blocked with no such event on its list,
\* or not blocked with one.  Then an event is to blame whose run-up it was and
\* which one call was told of and the other was not: neither the time between
\* the calls nor the two horizons make them disagree, unless the test comes so
\* much later that its window reaches beyond the list.
ContradictionIsInTheReports ==
    \A n \in DOMAIN signals :
        LET r     == signals[n].local
            named == \E e \in r.listed : RunUp(e, r.checkedAt)
        IN  /\ r.blackout # named
            /\ r.checkedAt - r.listedAt <= Ahead - Before
            =>
              \E e \in r.listReport \cup r.testReport :
                  /\ RunUp(e, r.checkedAt)
                  /\ (e \in r.listReport) # (e \in r.testReport)

\* analysis.py:4-10, "auditable": a stored run that a blackout blocked lists the
\* event that blocked it.  The code does not promise it: the list may be FMP's
\* after a failure of JBlanked, or nobody's, and the test JBlanked's.
BlockedRunNamesItsEvent ==
    \A n \in DOMAIN signals :
        LET r == signals[n].local
        IN  r.blackout => \E e \in r.listed : RunUp(e, r.checkedAt)

\* Of two analyses one after the other, the later reads bars at least as new,
\* in every timeframe, whatever providers and feeds deliver in between
\* (bar_ingest.py:159-206, analysis.py:165-186).
SequentialAnalysesAdvance ==
    \A m, n \in DOMAIN signals :
        m <= signals[n].local.since =>
            \A k \in DOMAIN Timeframes :
                signals[m].local.read[k] <= signals[n].local.read[k]

\* README.md:41, economic_calendar.py:106-108: no SETUP while a high-impact
\* event "falls within [-minutes_before, +minutes_after] of now".
SetupOutsideBlackout ==
    \A s \in Setups : \A e \in s.local.testReport :
        ~(e - Before <= s.local.checkedAt /\ s.local.checkedAt <= e + After)
=============================================================================
