--------------------------- MODULE PipelineProofs ---------------------------
(***************************************************************************)
(* What holds of every analysis, for all markets, windows and thresholds.  *)
(*                                                                         *)
(* Most detectors are sets picked from the series, and what they say of a  *)
(* longer series is compared bar by bar with what they say of a shorter    *)
(* one (the lemmas ...OfPrefix and ...Grow) or of one without its first    *)
(* bar (...Shift).  Market structure is a walk, a recursive function: that *)
(* there is one (HasWalk) and what it has found so far (WalkHolds) are     *)
(* carried by the invariant, from each series to the next by one turn      *)
(* (WalkGrows, TurnNow).                                                   *)
(***************************************************************************)
EXTENDS Pipeline, FiniteSetTheorems, SequenceTheorems, TLAPS

-----------------------------------------------------------------------------
(* A series and a longer one.                                              *)

\* Series c goes on where b ends.
Extends(c, b) ==
    /\ Len(b) <= Len(c)
    /\ \A i \in 1 .. Len(b) : c[i] = b[i]

\* The prices of a bar.
LEMMA BarPrices ==
    ASSUME NEW bar \in BarShapes
    PROVE  /\ bar.open \in Nat \ {0} /\ bar.high \in Nat \ {0}
           /\ bar.low \in Nat \ {0} /\ bar.close \in Nat \ {0}
           /\ bar.low <= bar.open /\ bar.open <= bar.high
           /\ bar.low <= bar.close /\ bar.close <= bar.high
  BY ConstantsAssumption

LEMMA SeriesBars ==
    ASSUME NEW b \in Seq(BarShapes)
    PROVE  /\ Len(b) \in Nat /\ DOMAIN b = 1 .. Len(b)
           /\ \A i \in 1 .. Len(b) : b[i] \in BarShapes
  OBVIOUS

LEMMA LookbackType == Lookback \in Nat /\ Lookback >= 1
  BY ConstantsAssumption

\* What it takes to be a swing.
LEMMA SwingMembers ==
    ASSUME NEW b
    PROVE  /\ \A s : s \in Highs(b) <=>
                \E j \in Inner(b) : IsHigh(b, j) /\ s = [index |-> j, price |-> b[j].high]
           /\ \A s : s \in Lows(b) <=>
                \E j \in Inner(b) : IsLow(b, j) /\ s = [index |-> j, price |-> b[j].low]
  BY DEF Highs, Lows

LEMMA SwingTypes ==
    ASSUME NEW b \in Seq(BarShapes)
    PROVE  \A s \in Highs(b) \cup Lows(b) :
               /\ s.index \in Nat /\ s.price \in Nat \ {0}
               /\ Lookback + 1 <= s.index /\ s.index + Lookback <= Len(b)
  <1>1. PICK n \in Nat : n = Len(b)
    OBVIOUS
  <1>2. PICK l \in Nat : l = Lookback
    BY LookbackType
  <1>3. \A j \in Inner(b) : j \in Nat /\ l + 1 <= j /\ j + l <= n
    BY <1>1, <1>2 DEF Inner
  <1>4. \A j \in Inner(b) : b[j] \in BarShapes
    BY <1>1, <1>2, <1>3, LookbackType, SeriesBars
  <1>5. \A j \in Inner(b) : b[j].high \in Nat \ {0} /\ b[j].low \in Nat \ {0}
    BY <1>4, BarPrices
  <1>6. \A s \in Highs(b) \cup Lows(b) :
          \E j \in Inner(b) : s.index = j /\ s.price \in Nat \ {0}
    BY <1>5, SwingMembers
  <1> QED
    BY <1>1, <1>2, <1>3, <1>6

\* A bar is a swing or not once Lookback bars have closed after it.
LEMMA SwingsOfPrefix ==
    ASSUME NEW b \in Seq(BarShapes), NEW c \in Seq(BarShapes), Extends(c, b)
    PROVE  /\ Highs(b) = {s \in Highs(c) : s.index + Lookback <= Len(b)}
           /\ Lows(b) = {s \in Lows(c) : s.index + Lookback <= Len(b)}
  <1>1. PICK n \in Nat : n = Len(b) /\ \A i \in 1 .. n : c[i] = b[i]
    BY DEF Extends
  <1>2. PICK m \in Nat : m = Len(c) /\ n <= m
    BY <1>1 DEF Extends
  <1>3. PICK l \in Nat : l = Lookback /\ l >= 1
    BY LookbackType
  <1>4. \A j : j \in Inner(b) <=> j \in Inner(c) /\ j + l <= n
    BY <1>1, <1>2, <1>3 DEF Inner
  <1>5. ASSUME NEW j \in Inner(b)
        PROVE  /\ c[j] = b[j]
               /\ \A k \in 1 .. l : c[j - k] = b[j - k] /\ c[j + k] = b[j + k]
    <2>1. j \in Nat /\ l + 1 <= j /\ j + l <= n
      BY <1>1, <1>3 DEF Inner
    <2>2. j \in 1 .. n /\ \A k \in 1 .. l : j - k \in 1 .. n /\ j + k \in 1 .. n
      BY <2>1
    <2> QED
      BY <1>1, <2>2
  <1>6. \A j \in Inner(b) : /\ IsHigh(c, j) = IsHigh(b, j)
                            /\ IsLow(c, j) = IsLow(b, j)
    BY <1>3, <1>5 DEF IsHigh, IsLow
  <1>7. \A s : s \in Highs(b) <=> s \in Highs(c) /\ s.index + l <= n
    BY <1>4, <1>5, <1>6, SwingMembers
  <1>8. \A s : s \in Lows(b) <=> s \in Lows(c) /\ s.index + l <= n
    BY <1>4, <1>5, <1>6, SwingMembers
  <1> QED
    BY <1>1, <1>3, <1>7, <1>8

\* Hence up to bar i the same swings are known.
LEMMA KnownOfPrefix ==
    ASSUME NEW b \in Seq(BarShapes), NEW c \in Seq(BarShapes), Extends(c, b),
           NEW i \in 0 .. Len(b)
    PROVE  /\ Known(Highs(c), i) = Known(Highs(b), i)
           /\ Known(Lows(c), i) = Known(Lows(b), i)
           /\ Learned(Highs(c), i) = Learned(Highs(b), i)
           /\ Learned(Lows(c), i) = Learned(Lows(b), i)
  <1>1. PICK n \in Nat : n = Len(b) /\ i \in 0 .. n
    OBVIOUS
  <1>2. PICK l \in Nat : l = Lookback
    BY LookbackType
  <1>3. \A s \in Highs(c) \cup Lows(c) : s.index \in Nat
    BY SwingTypes
  <1>4. \A x \in Nat : x + l <= i => x + l <= n
    BY <1>1
  <1> QED
    BY <1>1, <1>2, <1>3, <1>4, SwingsOfPrefix DEF Known, Learned, ConfirmedAt

LEMMA SliceOf ==
    ASSUME NEW s \in Seq(BarShapes), NEW p \in Nat, NEW q \in Nat,
           1 <= p, p <= q + 1, q <= Len(s)
    PROVE  /\ SubSeq(s, p, q) \in Seq(BarShapes)
           /\ Len(SubSeq(s, p, q)) = q - p + 1
           /\ \A i \in 1 .. q - p + 1 : SubSeq(s, p, q)[i] = s[p + i - 1]
  <1>1. PICK n \in Nat : n = Len(s) /\ q <= n
    OBVIOUS
  <1>2. \A i \in p .. q : i \in 1 .. n /\ s[i] \in BarShapes
    BY <1>1
  <1> QED
    BY <1>1, <1>2

\* The average range before a bar, and so whether it is a displacement, does
\* not depend on later bars.
LEMMA DisplacementOfPrefix ==
    ASSUME NEW b \in Seq(BarShapes), NEW c \in Seq(BarShapes), Extends(c, b),
           NEW i \in 1 .. Len(b)
    PROVE  IsDisplacement(c, i) = IsDisplacement(b, i)
  <1>1. PICK n \in Nat : n = Len(b) /\ (\A k \in 1 .. n : c[k] = b[k]) /\ i \in 1 .. n
    BY DEF Extends
  <1>2. PICK m \in Nat : m = Len(c) /\ n <= m
    BY <1>1 DEF Extends
  <1> DEFINE start == IF i > RangeWindow THEN i - RangeWindow ELSE 1
  <1>3. PICK from \in Nat \ {0} : from = start
    <2>1. PICK r \in Nat : r = RangeWindow
      BY ConstantsAssumption
    <2>2. PICK j \in Nat \ {0} : j = i
      BY <1>1
    <2>3. (IF j > r THEN j - r ELSE 1) \in Nat \ {0}
      BY ONLY j \in Nat \ {0}, r \in Nat
    <2> QED
      BY <2>1, <2>2, <2>3
  <1>4. PICK to \in Nat : to = i - 1 /\ from <= to + 1 /\ to <= n /\ to <= m
    <2>1. i \in Nat \ {0} /\ RangeWindow \in Nat
      BY <1>1, ConstantsAssumption
    <2>2. i - 1 \in Nat /\ start <= (i - 1) + 1 /\ i - 1 <= n /\ i - 1 <= m
      BY <1>1, <1>2, <2>1
    <2> QED
      BY <1>3, <2>2
  <1> HIDE DEF start
  <1>5. SubSeq(c, from, i - 1) = SubSeq(b, from, i - 1)
    <2>1. PICK s \in Seq(BarShapes) :
            /\ s = SubSeq(c, from, to) /\ Len(s) = to - from + 1
            /\ \A k \in 1 .. to - from + 1 : s[k] = c[from + k - 1]
      <3>1. from \in Nat /\ 1 <= from /\ from <= to + 1 /\ to <= Len(c)
        BY <1>2, <1>3, <1>4
      <3>2. /\ SubSeq(c, from, to) \in Seq(BarShapes)
            /\ Len(SubSeq(c, from, to)) = to - from + 1
            /\ \A k \in 1 .. to - from + 1 : SubSeq(c, from, to)[k] = c[from + k - 1]
        BY <3>1, SliceOf
      <3> QED
        BY <3>2
    <2>2. PICK t \in Seq(BarShapes) :
            /\ t = SubSeq(b, from, to) /\ Len(t) = to - from + 1
            /\ \A k \in 1 .. to - from + 1 : t[k] = b[from + k - 1]
      <3>1. from \in Nat /\ 1 <= from /\ from <= to + 1 /\ to <= Len(b)
        BY <1>1, <1>3, <1>4
      <3>2. /\ SubSeq(b, from, to) \in Seq(BarShapes)
            /\ Len(SubSeq(b, from, to)) = to - from + 1
            /\ \A k \in 1 .. to - from + 1 : SubSeq(b, from, to)[k] = b[from + k - 1]
        BY <3>1, SliceOf
      <3> QED
        BY <3>2
    <2>3. \A k \in 1 .. to - from + 1 : from + k - 1 \in 1 .. n
      BY <1>4
    <2>4. \A k \in 1 .. Len(s) : s[k] = t[k]
      BY <1>1, <2>1, <2>2, <2>3
    <2>5. s = t
      BY <2>1, <2>2, <2>4, SeqEqual
    <2> QED
      BY <1>4, <2>1, <2>2, <2>5
  <1>6. Before(c, i) = Before(b, i)
    BY <1>3, <1>5 DEF Before, start
  <1> QED
    BY <1>1, <1>6 DEF IsDisplacement

-----------------------------------------------------------------------------
(* The walk over the bars.  That the recursive function exists is part of  *)
(* the invariant: it is extended by a value with every bar.                *)

Start == [high |-> NoSwing, low |-> NoSwing, trend |-> "none", events |-> <<>>]

IsWalk(b, w) ==
    w = [i \in 0 .. Len(b) |->
           IF i = 0 THEN Start ELSE Turn(b, Highs(b), Lows(b), w[i - 1], i)]

HasWalk(b) == \E w : IsWalk(b, w) /\ \A v : IsWalk(b, v) => v = w

LEMMA TurnOfPrefix ==
    ASSUME NEW b \in Seq(BarShapes), NEW c \in Seq(BarShapes), Extends(c, b),
           NEW i \in 1 .. Len(b), NEW w
    PROVE  Turn(c, Highs(c), Lows(c), w, i) = Turn(b, Highs(b), Lows(b), w, i)
  <1>1. i \in 0 .. Len(b) /\ c[i] = b[i]
    BY DEF Extends
  <1>2. /\ Learned(Highs(c), i) = Learned(Highs(b), i)
        /\ Learned(Lows(c), i) = Learned(Lows(b), i)
    BY <1>1, KnownOfPrefix
  <1>3. \A before : Protected(Highs(c), i, before) = Protected(Highs(b), i, before)
    BY <1>2 DEF Protected
  <1>4. \A before : Protected(Lows(c), i, before) = Protected(Lows(b), i, before)
    BY <1>2 DEF Protected
  <1> QED
    BY <1>1, <1>3, <1>4 DEF Turn

LEMMA WalkValue ==
    ASSUME NEW b, HasWalk(b)
    PROVE  \E w : IsWalk(b, w) /\ Walk(b) = w[Len(b)] /\ \A v : IsWalk(b, v) => v = w
  <1>1. PICK w : IsWalk(b, w) /\ \A v : IsWalk(b, v) => v = w
    BY DEF HasWalk
  <1>2. w = CHOOSE v : IsWalk(b, v)
    BY <1>1
  <1>3. Walk(b) = (CHOOSE v : IsWalk(b, v))[Len(b)]
    BY DEF Walk, IsWalk, Start
  <1> QED
    BY <1>1, <1>2, <1>3

LEMMA FirstWalk == HasWalk(<<>>) /\ Walk(<<>>) = Start
  <1> DEFINE w == [i \in 0 .. 0 |-> Start]
  <1>1. Len(<<>>) = 0
    OBVIOUS
  <1>2. \A v : IsWalk(<<>>, v) <=> v = w
    BY <1>1 DEF IsWalk
  <1>3. HasWalk(<<>>)
    BY <1>2 DEF HasWalk
  <1>4. Walk(<<>>) = w[Len(<<>>)]
    BY <1>2, <1>3, WalkValue
  <1> QED
    BY <1>1, <1>3, <1>4

LEMMA WalkGrows ==
    ASSUME NEW b \in Seq(BarShapes), NEW c \in Seq(BarShapes), Extends(c, b),
           Len(c) = Len(b) + 1, HasWalk(b)
    PROVE  /\ HasWalk(c)
           /\ Walk(c) = Turn(c, Highs(c), Lows(c), Walk(b), Len(c))
  <1>1. PICK n \in Nat : n = Len(b) /\ Len(c) = n + 1
    OBVIOUS
  <1>2. PICK w : IsWalk(b, w) /\ Walk(b) = w[n] /\ \A v : IsWalk(b, v) => v = w
    BY <1>1, WalkValue
  <1> DEFINE next(x, i) == Turn(c, Highs(c), Lows(c), x, i)
             last == next(w[n], n + 1)
             longer == [i \in 0 .. n + 1 |-> IF i = n + 1 THEN last ELSE w[i]]
  <1>3. \A i \in 1 .. n : \A x : next(x, i) = Turn(b, Highs(b), Lows(b), x, i)
    BY <1>1, TurnOfPrefix
  <1>4. /\ w = [i \in 0 .. n |-> w[i]]
        /\ w[0] = Start
        /\ \A i \in 1 .. n : w[i] = next(w[i - 1], i)
    <2>1. w = [i \in 0 .. n |-> IF i = 0 THEN Start
                                ELSE Turn(b, Highs(b), Lows(b), w[i - 1], i)]
      BY <1>1, <1>2 DEF IsWalk
    <2> QED
      BY <1>3, <2>1
  <1> HIDE DEF next, last
  <1>5. \A v : v = [i \in 0 .. n + 1 |-> IF i = 0 THEN Start ELSE next(v[i - 1], i)]
                 => v = longer
    <2> SUFFICES ASSUME NEW v,
                        v = [i \in 0 .. n + 1 |-> IF i = 0 THEN Start ELSE next(v[i - 1], i)]
                 PROVE  v = longer
      OBVIOUS
    <2> DEFINE u == [i \in 0 .. n |-> v[i]]
    <2>1. /\ \A i \in 1 .. n + 1 : v[i] = next(v[i - 1], i)
          /\ v[0] = Start
      OBVIOUS
    <2>2. u = [i \in 0 .. n |-> IF i = 0 THEN Start ELSE next(u[i - 1], i)]
      BY <2>1
    <2>3. u = [i \in 0 .. n |-> IF i = 0 THEN Start
                                ELSE Turn(b, Highs(b), Lows(b), u[i - 1], i)]
      BY <1>3, <2>2
    <2>4. u = w
      BY <1>1, <1>2, <2>3 DEF IsWalk
    <2>5. n + 1 \in 1 .. n + 1 /\ (n + 1) - 1 = n /\ n \in 0 .. n
      BY <1>1
    <2>6. \A i \in 0 .. n : v[i] = w[i]
      BY <2>4
    <2>7. v[n + 1] = last
      BY <2>1, <2>5, <2>6 DEF last
    <2>8. v = [i \in 0 .. n + 1 |-> v[i]]
      OBVIOUS
    <2>9. \A i \in 0 .. n + 1 : i = n + 1 \/ i \in 0 .. n
      BY <1>1
    <2>10. \A i \in 0 .. n + 1 : v[i] = longer[i]
      BY <2>6, <2>7, <2>9
    <2> QED
      BY <2>8, <2>10
  <1>6. longer = [i \in 0 .. n + 1 |-> IF i = 0 THEN Start ELSE next(longer[i - 1], i)]
    <2>1. ASSUME NEW i \in 1 .. n PROVE longer[i] = next(longer[i - 1], i)
      <3>1. i \in 0 .. n + 1 /\ i - 1 \in 0 .. n + 1 /\ i # n + 1 /\ i - 1 # n + 1
        BY <1>1
      <3>2. longer[i] = w[i] /\ longer[i - 1] = w[i - 1]
        BY <3>1
      <3> QED
        BY <1>4, <3>2
    <2>2. longer[n + 1] = next(longer[n], n + 1) /\ longer[0] = Start
      <3>1. 0 \in 0 .. n + 1 /\ n \in 0 .. n + 1 /\ n + 1 \in 0 .. n + 1
        BY <1>1
      <3>2. 0 # n + 1 /\ n # n + 1
        BY <1>1
      <3> QED
        BY <1>4, <3>1, <3>2 DEF last
    <2>3. \A i \in 0 .. n + 1 : i = 0 \/ i \in 1 .. n \/ (i = n + 1 /\ i - 1 = n)
      BY <1>1
    <2> HIDE DEF longer
    <2>4. \A i \in 0 .. n + 1 : longer[i] = IF i = 0 THEN Start ELSE next(longer[i - 1], i)
      BY <2>1, <2>2, <2>3
    <2>5. longer = [i \in 0 .. n + 1 |-> longer[i]]
      BY DEF longer
    <2> QED
      BY <2>4, <2>5
  <1>7. IsWalk(c, longer) /\ \A v : IsWalk(c, v) => v = longer
    BY <1>1, <1>5, <1>6 DEF IsWalk, next
  <1>8. HasWalk(c)
    BY <1>7 DEF HasWalk
  <1>9. Walk(c) = longer[n + 1]
    BY <1>1, <1>7, <1>8, WalkValue
  <1> QED
    BY <1>1, <1>2, <1>8, <1>9 DEF last, next

-----------------------------------------------------------------------------
(* One turn of the walk.  LevelsHold is what makes the structure sound: no *)
(* close since a level's bar lies beyond it.                               *)

SwingType == [index : Nat, price : Nat]

EventType == [kind : {"BOS", "CHoCH"}, index : Nat, price : Nat,
              direction : Directions, swing : SwingType]

WalkType == [high : SwingType, low : SwingType, trend : Directions \cup {"none"},
             events : Seq(EventType)]

\* A level is the swing of a bar that no close has passed since.
HighHolds(b, s) ==
    s # NoSwing => /\ s.index \in 1 .. Len(b)
                   /\ \A k \in s.index .. Len(b) : b[k].close <= s.price

LowHolds(b, s) ==
    s # NoSwing => /\ s.index \in 1 .. Len(b)
                   /\ \A k \in s.index .. Len(b) : b[k].close >= s.price

\* An event is the first close beyond its swing.
EventHolds(b, e) ==
    /\ e.index \in 1 .. Len(b)
    /\ e.swing.index \in 1 .. e.index - 1
    /\ e.direction = "bullish" =>
         /\ b[e.index].close > e.swing.price
         /\ \A k \in e.swing.index .. e.index - 1 : b[k].close <= e.swing.price
    /\ e.direction = "bearish" =>
         /\ b[e.index].close < e.swing.price
         /\ \A k \in e.swing.index .. e.index - 1 : b[k].close >= e.swing.price

WalkHolds(b, w) ==
    /\ w \in WalkType
    /\ HighHolds(b, w.high) /\ LowHolds(b, w.low)
    /\ \A n \in 1 .. Len(w.events) : EventHolds(b, w.events[n])
    /\ IF w.events = <<>> THEN w.trend = "none"
                          ELSE w.trend = w.events[Len(w.events)].direction
    /\ Len(b) < 2 * Lookback + 1 => w.high = NoSwing /\ w.low = NoSwing
    /\ Len(b) < 2 * Lookback + 2 => w.events = <<>>

\* The last bar confirms a high or a low.
NewHigh(b) == Len(b) >= 2 * Lookback + 1 /\ IsHigh(b, Len(b) - Lookback)

NewLow(b) == Len(b) >= 2 * Lookback + 1 /\ IsLow(b, Len(b) - Lookback)

HighNow(b, before) ==
    IF NewHigh(b) THEN [index |-> Len(b) - Lookback, price |-> b[Len(b) - Lookback].high]
                  ELSE before

LowNow(b, before) ==
    IF NewLow(b) THEN [index |-> Len(b) - Lookback, price |-> b[Len(b) - Lookback].low]
                 ELSE before

LEMMA ProtectedNow ==
    ASSUME NEW b \in Seq(BarShapes), Len(b) >= 1, NEW before
    PROVE  /\ Protected(Highs(b), Len(b), before) = HighNow(b, before)
           /\ Protected(Lows(b), Len(b), before) = LowNow(b, before)
  <1>1. PICK n \in Nat : n = Len(b) /\ n >= 1
    OBVIOUS
  <1>2. PICK l \in Nat : l = Lookback /\ l >= 1
    BY LookbackType
  <1>3. \A s \in Highs(b) \cup Lows(b) : s.index \in Nat
    BY SwingTypes
  <1>4. \A x \in Nat : x + l = n <=> (n >= l /\ x = n - l)
    BY <1>1
  <1>5. \A j : (j \in Inner(b) /\ j + l = n) <=> (n >= 2 * l + 1 /\ j = n - l)
    BY <1>1, <1>2 DEF Inner
  <1>6. \A s : s \in Learned(Highs(b), n) <=>
             NewHigh(b) /\ s = [index |-> n - l, price |-> b[n - l].high]
    BY <1>1, <1>2, <1>5, SwingMembers DEF Learned, ConfirmedAt, NewHigh
  <1>7. \A s : s \in Learned(Lows(b), n) <=>
             NewLow(b) /\ s = [index |-> n - l, price |-> b[n - l].low]
    BY <1>1, <1>2, <1>5, SwingMembers DEF Learned, ConfirmedAt, NewLow
  <1>8. Protected(Highs(b), n, before) = HighNow(b, before)
    BY <1>1, <1>2, <1>6 DEF Protected, HighNow
  <1>9. Protected(Lows(b), n, before) = LowNow(b, before)
    BY <1>1, <1>2, <1>7 DEF Protected, LowNow
  <1> QED
    BY <1>1, <1>8, <1>9

\* A level just learned is the extreme of the bars since its own.
LEMMA NewLevels ==
    ASSUME NEW b \in Seq(BarShapes)
    PROVE  /\ NewHigh(b) => LET j == Len(b) - Lookback
                            IN  /\ j \in 1 .. Len(b) - 1
                                /\ b[j].high \in Nat
                                /\ \A k \in j .. Len(b) : b[k].close <= b[j].high
           /\ NewLow(b) => LET j == Len(b) - Lookback
                           IN  /\ j \in 1 .. Len(b) - 1
                               /\ b[j].low \in Nat
                               /\ \A k \in j .. Len(b) : b[k].close >= b[j].low
  <1>1. PICK n \in Nat : n = Len(b)
    OBVIOUS
  <1>2. PICK l \in Nat : l = Lookback /\ l >= 1
    BY LookbackType
  <1>3. \A i \in 1 .. n : /\ b[i].high \in Nat /\ b[i].low \in Nat /\ b[i].close \in Nat
                          /\ b[i].low <= b[i].close /\ b[i].close <= b[i].high
    BY <1>1, SeriesBars, BarPrices
  <1>4. ASSUME n >= 2 * l + 1
        PROVE  /\ n - l \in 1 .. n - 1 /\ n - l \in 1 .. n
               /\ \A k \in n - l .. n : k = n - l \/ \E i \in 1 .. l : k = (n - l) + i
               /\ \A i \in 1 .. l : (n - l) + i \in 1 .. n
    <2>1. \A k \in n - l .. n : k = n - l \/ (k - (n - l) \in 1 .. l /\ k = (n - l) + (k - (n - l)))
      BY <1>2
    <2> QED
      BY <1>2, <1>4, <2>1
  <1>5. ASSUME NewHigh(b), NEW k \in n - l .. n PROVE b[k].close <= b[n - l].high
    <2>1. n >= 2 * l + 1 /\ \A i \in 1 .. l : b[n - l].high > b[(n - l) + i].high
      BY <1>1, <1>2, <1>5 DEF NewHigh, IsHigh
    <2>2. CASE k = n - l
      BY <1>3, <1>4, <2>1, <2>2
    <2>3. ASSUME NEW i \in 1 .. l, k = (n - l) + i PROVE b[k].close <= b[n - l].high
      <3>1. k \in 1 .. n /\ n - l \in 1 .. n /\ b[n - l].high > b[k].high
        BY <1>4, <2>1, <2>3
      <3>2. b[k].close <= b[k].high /\ b[k].close \in Nat /\ b[k].high \in Nat /\ b[n - l].high \in Nat
        BY <1>3, <3>1
      <3> QED
        BY <3>1, <3>2
    <2> QED
      BY <1>4, <2>1, <2>2, <2>3
  <1>6. ASSUME NewLow(b), NEW k \in n - l .. n PROVE b[k].close >= b[n - l].low
    <2>1. n >= 2 * l + 1 /\ \A i \in 1 .. l : b[n - l].low < b[(n - l) + i].low
      BY <1>1, <1>2, <1>6 DEF NewLow, IsLow
    <2>2. CASE k = n - l
      BY <1>3, <1>4, <2>1, <2>2
    <2>3. ASSUME NEW i \in 1 .. l, k = (n - l) + i PROVE b[k].close >= b[n - l].low
      <3>1. k \in 1 .. n /\ n - l \in 1 .. n /\ b[n - l].low < b[k].low
        BY <1>4, <2>1, <2>3
      <3>2. b[k].close >= b[k].low /\ b[k].close \in Nat /\ b[k].low \in Nat /\ b[n - l].low \in Nat
        BY <1>3, <3>1
      <3> QED
        BY <3>1, <3>2
    <2> QED
      BY <1>4, <2>1, <2>2, <2>3
  <1>7. NewHigh(b) \/ NewLow(b) => n >= 2 * l + 1
    BY <1>1, <1>2 DEF NewHigh, NewLow
  <1>8. NewHigh(b) => /\ n - l \in 1 .. n - 1 /\ b[n - l].high \in Nat
                      /\ \A k \in n - l .. n : b[k].close <= b[n - l].high
    BY <1>3, <1>4, <1>5, <1>7
  <1>9. NewLow(b) => /\ n - l \in 1 .. n - 1 /\ b[n - l].low \in Nat
                     /\ \A k \in n - l .. n : b[k].close >= b[n - l].low
    BY <1>3, <1>4, <1>6, <1>7
  <1> QED
    BY <1>1, <1>2, <1>8, <1>9

\* The walk w up to b meets the last bar of c.
UpNow(c, w) ==
    /\ HighNow(c, w.high) # NoSwing
    /\ c[Len(c)].close > HighNow(c, w.high).price

DownNow(c, w) ==
    /\ LowNow(c, w.low) # NoSwing
    /\ c[Len(c)].close < LowNow(c, w.low).price

EventNow(c, w, d, s) ==
    [kind |-> IF w.trend = Opposite(d) THEN "CHoCH" ELSE "BOS",
     index |-> Len(c), price |-> c[Len(c)].close, direction |-> d, swing |-> s]

\* The levels before the break.  A level just learned is not broken, and the
\* other one is on the other side of the last close: at most one breaks.
LEMMA LevelsNow ==
    ASSUME NEW b \in Seq(BarShapes), NEW c \in Seq(BarShapes), Extends(c, b),
           Len(c) = Len(b) + 1, NEW w, WalkHolds(b, w)
    PROVE  /\ HighNow(c, w.high) \in SwingType /\ LowNow(c, w.low) \in SwingType
           /\ HighNow(c, w.high) # NoSwing =>
                /\ HighNow(c, w.high).index \in 1 .. Len(b)
                /\ \A k \in HighNow(c, w.high).index .. Len(b) :
                     c[k].close <= HighNow(c, w.high).price
           /\ LowNow(c, w.low) # NoSwing =>
                /\ LowNow(c, w.low).index \in 1 .. Len(b)
                /\ \A k \in LowNow(c, w.low).index .. Len(b) :
                     c[k].close >= LowNow(c, w.low).price
           /\ ~(UpNow(c, w) /\ DownNow(c, w))
           /\ UpNow(c, w) \/ DownNow(c, w) => Len(c) >= 2 * Lookback + 2
  <1>1. PICK n \in Nat : /\ n = Len(b) /\ Len(c) = n + 1
                         /\ \A i \in 1 .. n : c[i] = b[i]
    BY DEF Extends
  <1>2. PICK l \in Nat : l = Lookback /\ l >= 1
    BY LookbackType
  <1>3. \A i \in 1 .. n + 1 : c[i].close \in Nat
    BY <1>1, SeriesBars, BarPrices
  <1>4. PICK high \in SwingType, low \in SwingType : high = w.high /\ low = w.low
    BY DEF WalkHolds, WalkType
  <1>5. /\ high.index \in Nat /\ high.price \in Nat
        /\ low.index \in Nat /\ low.price \in Nat
    BY DEF SwingType
  <1>6. high # NoSwing => /\ high.index \in 1 .. n
                          /\ \A k \in high.index .. n : c[k].close <= high.price
    BY <1>1, <1>4, <1>5 DEF WalkHolds, HighHolds
  <1>7. low # NoSwing => /\ low.index \in 1 .. n
                         /\ \A k \in low.index .. n : c[k].close >= low.price
    BY <1>1, <1>4, <1>5 DEF WalkHolds, LowHolds
  <1>8. high # NoSwing \/ low # NoSwing => n >= 2 * l + 1
    BY <1>1, <1>2, <1>4 DEF WalkHolds
  <1> DEFINE j == n + 1 - l
             fresh(p) == [index |-> j, price |-> p]
  <1>9. /\ NewHigh(c) => /\ j \in 1 .. n /\ c[j].high \in Nat
                         /\ \A k \in j .. n + 1 : c[k].close <= c[j].high
        /\ NewLow(c) => /\ j \in 1 .. n /\ c[j].low \in Nat
                        /\ \A k \in j .. n + 1 : c[k].close >= c[j].low
    <2>1. (n + 1) - 1 = n
      OBVIOUS
    <2>2. PICK k : k = Len(c) - Lookback /\ k = j
      BY <1>1, <1>2
    <2>3. /\ NewHigh(c) => /\ k \in 1 .. Len(c) - 1 /\ c[k].high \in Nat
                           /\ \A i \in k .. Len(c) : c[i].close <= c[k].high
          /\ NewLow(c) => /\ k \in 1 .. Len(c) - 1 /\ c[k].low \in Nat
                          /\ \A i \in k .. Len(c) : c[i].close >= c[k].low
      BY <2>2, NewLevels
    <2> HIDE DEF j
    <2> QED
      BY <1>1, <2>1, <2>2, <2>3
  <1>10. /\ NewHigh(c) => HighNow(c, w.high) = fresh(c[j].high)
         /\ ~NewHigh(c) => HighNow(c, w.high) = high
         /\ NewLow(c) => LowNow(c, w.low) = fresh(c[j].low)
         /\ ~NewLow(c) => LowNow(c, w.low) = low
    BY <1>1, <1>2, <1>4 DEF HighNow, LowNow
  <1>11. n + 1 \in j .. n + 1 /\ n + 1 \in 1 .. n + 1 /\ \A k \in j .. n : k \in j .. n + 1
    BY <1>2
  <1> HIDE DEF j
  <1>12. \A p \in Nat : j \in Nat => fresh(p) \in SwingType
    BY DEF SwingType
  <1>13. HighNow(c, w.high) \in SwingType /\ LowNow(c, w.low) \in SwingType
    BY <1>4, <1>9, <1>10, <1>12
  <1>14. HighNow(c, w.high) # NoSwing =>
           /\ HighNow(c, w.high).index \in 1 .. n
           /\ \A k \in HighNow(c, w.high).index .. n :
                c[k].close <= HighNow(c, w.high).price
    <2>1. CASE NewHigh(c)
      BY <1>9, <1>10, <1>11, <2>1
    <2>2. CASE ~NewHigh(c)
      BY <1>6, <1>10, <2>2
    <2> QED
      BY <2>1, <2>2
  <1>15. LowNow(c, w.low) # NoSwing =>
           /\ LowNow(c, w.low).index \in 1 .. n
           /\ \A k \in LowNow(c, w.low).index .. n :
                c[k].close >= LowNow(c, w.low).price
    <2>1. CASE NewLow(c)
      BY <1>9, <1>10, <1>11, <2>1
    <2>2. CASE ~NewLow(c)
      BY <1>7, <1>10, <2>2
    <2> QED
      BY <2>1, <2>2
  <1>16. UpNow(c, w) => ~NewHigh(c) /\ high # NoSwing /\ c[n + 1].close > high.price
    <2>1. NewHigh(c) => ~UpNow(c, w)
      BY <1>1, <1>3, <1>9, <1>10, <1>11 DEF UpNow
    <2> QED
      BY <1>1, <1>10, <2>1 DEF UpNow
  <1>17. DownNow(c, w) => ~NewLow(c) /\ low # NoSwing /\ c[n + 1].close < low.price
    <2>1. NewLow(c) => ~DownNow(c, w)
      BY <1>1, <1>3, <1>9, <1>10, <1>11 DEF DownNow
    <2> QED
      BY <1>1, <1>10, <2>1 DEF DownNow
  <1>18. ASSUME UpNow(c, w), DownNow(c, w) PROVE FALSE
    <2>1. n \in high.index .. n /\ n \in low.index .. n /\ n \in 1 .. n + 1
      BY <1>5, <1>6, <1>7, <1>16, <1>17, <1>18
    <2>2. c[n].close <= high.price /\ c[n].close >= low.price
      BY <1>6, <1>7, <1>16, <1>17, <1>18, <2>1
    <2>3. c[n + 1].close > high.price /\ c[n + 1].close < low.price
      BY <1>16, <1>17, <1>18
    <2> QED
      BY <1>3, <1>5, <1>11, <2>1, <2>2, <2>3
  <1>19. UpNow(c, w) \/ DownNow(c, w) => n + 1 >= 2 * l + 2
    BY <1>2, <1>8, <1>16, <1>17
  <1> QED
    BY <1>1, <1>2, <1>13, <1>14, <1>15, <1>18, <1>19

LEMMA TurnNow ==
    ASSUME NEW b \in Seq(BarShapes), NEW c \in Seq(BarShapes), Extends(c, b),
           Len(c) = Len(b) + 1, NEW w, WalkHolds(b, w)
    PROVE  Turn(c, Highs(c), Lows(c), w, Len(c)) =
             IF UpNow(c, w)
               THEN Settle(w, "bullish", HighNow(c, w.high), LowNow(c, w.low),
                           EventNow(c, w, "bullish", HighNow(c, w.high)))
             ELSE IF DownNow(c, w)
               THEN Settle(w, "bearish", HighNow(c, w.high), LowNow(c, w.low),
                           EventNow(c, w, "bearish", LowNow(c, w.low)))
             ELSE [w EXCEPT !.high = HighNow(c, w.high), !.low = LowNow(c, w.low)]
  <1>1. Len(c) >= 1
    <2>1. Len(b) \in Nat
      OBVIOUS
    <2> QED
      BY <2>1
  <1>2. /\ Protected(Highs(c), Len(c), w.high) = HighNow(c, w.high)
        /\ Protected(Lows(c), Len(c), w.low) = LowNow(c, w.low)
    BY <1>1, ProtectedNow
  <1>3. ~(UpNow(c, w) /\ DownNow(c, w))
    BY LevelsNow
  <1> QED
    BY <1>2, <1>3 DEF Turn, UpNow, DownNow, EventNow

\* What was so of an event remains so.
LEMMA EventsStay ==
    ASSUME NEW b \in Seq(BarShapes), NEW c \in Seq(BarShapes), Extends(c, b),
           NEW e \in EventType, EventHolds(b, e)
    PROVE  EventHolds(c, e)
  <1>1. PICK n \in Nat : n = Len(b) /\ \A i \in 1 .. n : c[i] = b[i]
    BY DEF Extends
  <1>2. PICK m \in Nat : m = Len(c) /\ n <= m
    BY <1>1 DEF Extends
  <1>3. PICK i \in Nat : i = e.index
    BY DEF EventType
  <1>4. PICK f \in Nat : f = e.swing.index
    BY DEF EventType, SwingType
  <1>5. i \in 1 .. n /\ f \in 1 .. i - 1
    BY <1>1, <1>3, <1>4 DEF EventHolds
  <1>6. i \in 1 .. m /\ \A k \in f .. i - 1 : k \in 1 .. n
    BY <1>1, <1>2, <1>5
  <1>7. c[i] = b[i] /\ \A k \in f .. i - 1 : c[k] = b[k]
    BY <1>1, <1>5, <1>6
  <1> QED
    BY <1>2, <1>3, <1>4, <1>5, <1>6, <1>7 DEF EventHolds

LEMMA TurnHolds ==
    ASSUME NEW b \in Seq(BarShapes), NEW c \in Seq(BarShapes), Extends(c, b),
           Len(c) = Len(b) + 1, NEW w, WalkHolds(b, w)
    PROVE  WalkHolds(c, Turn(c, Highs(c), Lows(c), w, Len(c)))
  <1>1. PICK n \in Nat : n = Len(b) /\ Len(c) = n + 1
    OBVIOUS
  <1>2. PICK l \in Nat : l = Lookback /\ l >= 1
    BY LookbackType
  <1>3. PICK high \in SwingType : high = HighNow(c, w.high)
    BY LevelsNow
  <1>4. PICK low \in SwingType : low = LowNow(c, w.low)
    BY LevelsNow
  <1>5. /\ high.index \in Nat /\ high.price \in Nat
        /\ low.index \in Nat /\ low.price \in Nat
    BY DEF SwingType
  <1>6. PICK x \in Nat : x = c[n + 1].close
    <2>1. n + 1 \in 1 .. n + 1
      BY <1>1
    <2> QED
      BY <1>1, <2>1, SeriesBars, BarPrices
  <1>7. /\ UpNow(c, w) <=> high # NoSwing /\ x > high.price
        /\ DownNow(c, w) <=> low # NoSwing /\ x < low.price
    BY <1>1, <1>3, <1>4, <1>6 DEF UpNow, DownNow
  <1>8. /\ high # NoSwing => /\ high.index \in 1 .. n
                             /\ \A k \in high.index .. n : c[k].close <= high.price
        /\ low # NoSwing => /\ low.index \in 1 .. n
                            /\ \A k \in low.index .. n : c[k].close >= low.price
    BY <1>1, <1>3, <1>4, LevelsNow
  <1>9. ~(UpNow(c, w) /\ DownNow(c, w))
    BY LevelsNow
  <1>10. UpNow(c, w) \/ DownNow(c, w) => n + 1 >= 2 * l + 2
    BY <1>1, <1>2, LevelsNow
  <1>11. n + 1 < 2 * l + 1 => high = NoSwing /\ low = NoSwing
    <2>1. n + 1 < 2 * l + 1 => n < 2 * l + 1 /\ ~NewHigh(c) /\ ~NewLow(c)
      BY <1>1, <1>2 DEF NewHigh, NewLow
    <2> QED
      BY <1>1, <1>2, <1>3, <1>4, <2>1 DEF HighNow, LowNow, WalkHolds
  <1>12. \A i \in Nat : \A k \in i .. n + 1 : k \in i .. n \/ k = n + 1
    BY <1>1
  <1>13. \A i \in 1 .. n : i \in 1 .. n + 1
    BY <1>1
  <1>14. ~UpNow(c, w) => HighHolds(c, high)
    <2> SUFFICES ASSUME ~UpNow(c, w), high # NoSwing
                 PROVE  /\ high.index \in 1 .. n + 1
                        /\ \A k \in high.index .. n + 1 : c[k].close <= high.price
      BY <1>1 DEF HighHolds
    <2>1. high.index \in 1 .. n /\ \A k \in high.index .. n : c[k].close <= high.price
      BY <1>8
    <2>2. c[n + 1].close <= high.price
      BY <1>5, <1>6, <1>7
    <2> QED
      BY <1>5, <1>12, <1>13, <2>1, <2>2
  <1>15. ~DownNow(c, w) => LowHolds(c, low)
    <2> SUFFICES ASSUME ~DownNow(c, w), low # NoSwing
                 PROVE  /\ low.index \in 1 .. n + 1
                        /\ \A k \in low.index .. n + 1 : c[k].close >= low.price
      BY <1>1 DEF LowHolds
    <2>1. low.index \in 1 .. n /\ \A k \in low.index .. n : c[k].close >= low.price
      BY <1>8
    <2>2. c[n + 1].close >= low.price
      BY <1>5, <1>6, <1>7
    <2> QED
      BY <1>5, <1>12, <1>13, <2>1, <2>2
  <1>16. NoSwing \in SwingType /\ HighHolds(c, NoSwing) /\ LowHolds(c, NoSwing)
    BY DEF NoSwing, SwingType, HighHolds, LowHolds
  <1>17. \A d \in Directions, s \in SwingType : EventNow(c, w, d, s) \in EventType
    BY <1>1, <1>6 DEF EventNow, EventType
  <1>18. UpNow(c, w) => EventHolds(c, EventNow(c, w, "bullish", high))
    <2> SUFFICES ASSUME UpNow(c, w)
                 PROVE  EventHolds(c, EventNow(c, w, "bullish", high))
      OBVIOUS
    <2>1. PICK e : e = EventNow(c, w, "bullish", high)
      OBVIOUS
    <2>2. e.index = n + 1 /\ e.swing = high /\ e.direction = "bullish"
      BY <1>1, <2>1 DEF EventNow
    <2>3. n + 1 \in 1 .. n + 1 /\ (n + 1) - 1 = n
      BY <1>1
    <2>4. high.index \in 1 .. n /\ x > high.price
      BY <1>7, <1>8
    <2>5. \A k \in high.index .. n : c[k].close <= high.price
      BY <1>7, <1>8
    <2>6. EventHolds(c, e)
      BY <1>1, <1>6, <2>2, <2>3, <2>4, <2>5 DEF EventHolds
    <2> QED
      BY <2>1, <2>6
  <1>19. DownNow(c, w) => EventHolds(c, EventNow(c, w, "bearish", low))
    <2> SUFFICES ASSUME DownNow(c, w)
                 PROVE  EventHolds(c, EventNow(c, w, "bearish", low))
      OBVIOUS
    <2>1. PICK e : e = EventNow(c, w, "bearish", low)
      OBVIOUS
    <2>2. e.index = n + 1 /\ e.swing = low /\ e.direction = "bearish"
      BY <1>1, <2>1 DEF EventNow
    <2>3. n + 1 \in 1 .. n + 1 /\ (n + 1) - 1 = n
      BY <1>1
    <2>4. low.index \in 1 .. n /\ x < low.price
      BY <1>7, <1>8
    <2>5. \A k \in low.index .. n : c[k].close >= low.price
      BY <1>7, <1>8
    <2>6. EventHolds(c, e)
      BY <1>1, <1>6, <2>2, <2>3, <2>4, <2>5 DEF EventHolds
    <2> QED
      BY <2>1, <2>6
  <1>20. PICK events \in Seq(EventType) : events = w.events
    BY DEF WalkHolds, WalkType
  <1>21. \A k \in 1 .. Len(events) : EventHolds(c, events[k])
    <2>1. \A k \in 1 .. Len(events) : EventHolds(b, events[k]) /\ events[k] \in EventType
      BY <1>20 DEF WalkHolds
    <2> QED
      BY <2>1, EventsStay
  <1>22. ASSUME NEW e \in EventType, EventHolds(c, e)
         PROVE  /\ Append(events, e) \in Seq(EventType)
                /\ Append(events, e) # <<>>
                /\ Append(events, e)[Len(Append(events, e))] = e
                /\ \A k \in 1 .. Len(Append(events, e)) :
                     EventHolds(c, Append(events, e)[k])
    <2>1. PICK m \in Nat : m = Len(events)
      OBVIOUS
    <2>2. /\ Append(events, e) \in Seq(EventType) /\ Len(Append(events, e)) = m + 1
          /\ \A k \in 1 .. m : Append(events, e)[k] = events[k]
          /\ Append(events, e)[m + 1] = e
      BY <2>1
    <2>3. \A k \in 1 .. m + 1 : k \in 1 .. m \/ k = m + 1
      BY <2>1
    <2>4. PICK longer : longer = Append(events, e)
      OBVIOUS
    <2>5. longer \in Seq(EventType) /\ Len(longer) = m + 1 /\ longer[m + 1] = e
      BY <2>2, <2>4
    <2>6. \A k \in 1 .. m : EventHolds(c, longer[k])
      BY <1>21, <2>1, <2>2, <2>4
    <2>7. \A k \in 1 .. m + 1 : EventHolds(c, longer[k])
      BY <1>22, <2>3, <2>5, <2>6
    <2>8. longer # <<>>
      BY <2>1, <2>5
    <2> QED
      BY <2>4, <2>5, <2>7, <2>8
  <1>23. ASSUME NEW d \in Directions, NEW e \in EventType, EventHolds(c, e), e.direction = d,
                HighHolds(c, high) \/ d = "bullish", LowHolds(c, low) \/ d = "bearish",
                n + 1 >= 2 * l + 2
         PROVE  WalkHolds(c, Settle(w, d, high, low, e))
    <2>1. PICK t : t = Settle(w, d, high, low, e)
      OBVIOUS
    <2>2. /\ t = [high |-> t.high, low |-> t.low, trend |-> t.trend, events |-> t.events]
          /\ t.high = IF d = "bullish" THEN NoSwing ELSE high
          /\ t.low = IF d = "bearish" THEN NoSwing ELSE low
          /\ t.trend = d /\ t.events = Append(events, e)
      BY <1>20, <2>1 DEF Settle
    <2>3. t \in WalkType
      BY <1>16, <1>22, <1>23, <2>2 DEF WalkType
    <2>4. HighHolds(c, t.high) /\ LowHolds(c, t.low)
      BY <1>16, <1>23, <2>2
    <2>5. ~(Len(c) < 2 * Lookback + 1) /\ ~(Len(c) < 2 * Lookback + 2)
      BY <1>1, <1>2, <1>23
    <2>6. WalkHolds(c, t)
      BY <1>22, <1>23, <2>2, <2>3, <2>4, <2>5 DEF WalkHolds
    <2> QED
      BY <2>1, <2>6
  <1>24. CASE UpNow(c, w)
    <2>1. /\ EventNow(c, w, "bullish", high) \in EventType
          /\ EventNow(c, w, "bullish", high).direction = "bullish"
          /\ "bullish" \in Directions
      BY <1>17 DEF Directions, EventNow
    <2>2. LowHolds(c, low) /\ n + 1 >= 2 * l + 2
      BY <1>9, <1>10, <1>15, <1>24
    <2>3. WalkHolds(c, Settle(w, "bullish", high, low, EventNow(c, w, "bullish", high)))
      BY <1>18, <1>23, <1>24, <2>1, <2>2
    <2> QED
      BY <1>3, <1>4, <1>24, <2>3, TurnNow
  <1>25. CASE DownNow(c, w)
    <2>1. /\ EventNow(c, w, "bearish", low) \in EventType
          /\ EventNow(c, w, "bearish", low).direction = "bearish"
          /\ "bearish" \in Directions
      BY <1>17 DEF Directions, EventNow
    <2>2. HighHolds(c, high) /\ n + 1 >= 2 * l + 2
      BY <1>9, <1>10, <1>14, <1>25
    <2>3. WalkHolds(c, Settle(w, "bearish", high, low, EventNow(c, w, "bearish", low)))
      BY <1>19, <1>23, <1>25, <2>1, <2>2
    <2> QED
      BY <1>3, <1>4, <1>9, <1>25, <2>3, TurnNow
  <1>26. CASE ~UpNow(c, w) /\ ~DownNow(c, w)
    <2>1. PICK t : t = [w EXCEPT !.high = high, !.low = low]
      OBVIOUS
    <2>2. /\ t \in WalkType
          /\ t.high = high /\ t.low = low /\ t.trend = w.trend /\ t.events = w.events
      BY <2>1 DEF WalkType, WalkHolds
    <2>3. n + 1 < 2 * l + 2 => n < 2 * l + 2
      BY <1>1, <1>2
    <2>4. WalkHolds(c, t)
      BY <1>1, <1>2, <1>11, <1>14, <1>15, <1>20, <1>21, <1>26, <2>2, <2>3 DEF WalkHolds
    <2>5. Turn(c, Highs(c), Lows(c), w, Len(c))
            = [w EXCEPT !.high = HighNow(c, w.high), !.low = LowNow(c, w.low)]
      BY <1>26, TurnNow
    <2>6. Turn(c, Highs(c), Lows(c), w, Len(c)) = t
      BY <1>3, <1>4, <2>1, <2>5
    <2> QED
      BY <2>4, <2>6
  <1> QED
    BY <1>24, <1>25, <1>26

LEMMA StartHolds == WalkHolds(<<>>, Start)
  <1>1. Len(<<>>) = 0
    OBVIOUS
  <1>2. NoSwing \in SwingType /\ Start \in WalkType
    BY DEF NoSwing, SwingType, Start, WalkType
  <1> QED
    BY <1>1, <1>2 DEF WalkHolds, Start, HighHolds, LowHolds

-----------------------------------------------------------------------------
(* The inductive invariant of Detectors.                                   *)

IInv ==
    /\ bars \in Seq(BarShapes) /\ Len(bars) <= MaxBars
    /\ analysis = Analyse(bars)
    /\ HasWalk(bars)
    /\ WalkHolds(bars, Walk(bars))

\* A series too short for the detector has no events anyway.
LEMMA StructureIsWalk ==
    ASSUME NEW b, WalkHolds(b, Walk(b))
    PROVE  Structure(b) = Walk(b)
  <1>1. PICK w : w = Walk(b) /\ w \in WalkType
    BY DEF WalkHolds
  <1>2. Len(b) < 2 * Lookback + 2 => w.events = <<>> /\ w.trend = "none"
    BY <1>1 DEF WalkHolds
  <1>3. w.events = <<>> /\ w.trend = "none" => [w EXCEPT !.events = <<>>, !.trend = "none"] = w
    BY <1>1 DEF WalkType
  <1> QED
    BY <1>1, <1>2, <1>3 DEF Structure

\* What the analysis consists of.
LEMMA Parts ==
    ASSUME NEW b, WalkHolds(b, Walk(b)), NEW a, a = Analyse(b)
    PROVE  /\ a.highs = Highs(b) /\ a.lows = Lows(b)
           /\ a.high = Walk(b).high /\ a.low = Walk(b).low
           /\ a.trend = Walk(b).trend /\ a.events = Walk(b).events
           /\ a.gaps = Gaps(b)
           /\ a.blocks = Blocks(b, a.events)
           /\ a.sweeps = Sweeps(b)
           /\ a.displacements = {i \in 1 .. Len(b) : IsDisplacement(b, i)}
  <1>1. Structure(b) = Walk(b)
    BY StructureIsWalk
  <1> QED
    BY <1>1 DEF Analyse

LEMMA InitIInv == ASSUME Init PROVE IInv
  <1>1. <<>> \in Seq(BarShapes) /\ Len(<<>>) = 0
    OBVIOUS
  <1>2. MaxBars \in Nat
    BY ConstantsAssumption
  <1> QED
    BY <1>1, <1>2, FirstWalk, StartHolds DEF Init, IInv

\* A step is a new bar, which is analysed.
LEMMA StepIsBar ==
    ASSUME IInv, Next
    PROVE  /\ bars' \in Seq(BarShapes) /\ Len(bars') = Len(bars) + 1
           /\ Len(bars') <= MaxBars
           /\ Extends(bars', bars)
           /\ \E bar \in BarShapes : bars' = Append(bars, bar)
           /\ analysis' = Analyse(bars')
  <1>1. PICK bar \in BarShapes : NewBar(bar)
    BY DEF Next
  <1>2. PICK n \in Nat : n = Len(bars) /\ bars \in Seq(BarShapes)
    BY DEF IInv
  <1>3. bars' = Append(bars, bar) /\ n < MaxBars /\ analysis' = Analyse(bars')
    BY <1>1, <1>2 DEF NewBar
  <1>4. /\ Append(bars, bar) \in Seq(BarShapes) /\ Len(Append(bars, bar)) = n + 1
        /\ \A i \in 1 .. n : Append(bars, bar)[i] = bars[i]
    BY <1>2
  <1>5. n + 1 <= MaxBars /\ n <= n + 1
    BY <1>2, <1>3, ConstantsAssumption
  <1> QED
    BY <1>2, <1>3, <1>4, <1>5 DEF Extends

LEMMA NextIInv == ASSUME IInv, [Next]_vars PROVE IInv'
  <1>1. CASE Next
    <2>1. /\ bars \in Seq(BarShapes) /\ HasWalk(bars) /\ WalkHolds(bars, Walk(bars))
      BY DEF IInv
    <2>2. /\ bars' \in Seq(BarShapes) /\ Extends(bars', bars)
          /\ Len(bars') = Len(bars) + 1
      BY <1>1, StepIsBar
    <2>3. HasWalk(bars') /\ WalkHolds(bars', Walk(bars'))
      BY <2>1, <2>2, WalkGrows, TurnHolds
    <2> QED
      BY <1>1, <2>3, StepIsBar DEF IInv
  <1>2. CASE UNCHANGED vars
    BY <1>2 DEF vars, IInv
  <1> QED
    BY <1>1, <1>2

\* Every analysis is that of the bars there are, and its walk over them knows the
\* swings that were confirmed and not yet broken (structure.py:51-95).
THEOREM Invariant == Spec => []IInv
  BY InitIInv, NextIInv, PTL DEF Spec

\* A close never lies beyond a level that stays protected (structure.py:72-93).
THEOREM ClosesBetween == Spec => []ClosesStayBetweenLevels
  <1>1. ASSUME IInv PROVE ClosesStayBetweenLevels
    <2> SUFFICES ASSUME Len(bars) > 0
                 PROVE  /\ analysis.high # NoSwing
                             => bars[Len(bars)].close <= analysis.high.price
                        /\ analysis.low # NoSwing
                             => bars[Len(bars)].close >= analysis.low.price
      BY DEF ClosesStayBetweenLevels, Now
    <2>1. HighHolds(bars, analysis.high) /\ LowHolds(bars, analysis.low)
      BY <1>1, Parts DEF IInv, WalkHolds
    <2>2. Len(bars) \in Nat
      BY <1>1 DEF IInv
    <2>3. \A i \in 1 .. Len(bars) : Len(bars) \in i .. Len(bars)
      BY <2>2
    <2> QED
      BY <2>1, <2>3 DEF HighHolds, LowHolds
  <1> QED
    BY <1>1, Invariant, PTL

-----------------------------------------------------------------------------
(* Refinement of LiveStructure.                                            *)

\* The last K bars, or all.
EndingFrom(n, K) == IF n > K THEN n - K + 1 ELSE 1

Ending(b, K) == SubSeq(b, EndingFrom(Len(b), K), Len(b))

LEMMA EndingBounds ==
    ASSUME NEW n \in Nat, NEW K \in Nat, K >= 1
    PROVE  \E p, m \in Nat :
             /\ p = EndingFrom(n, K) /\ m = n - p + 1
             /\ 1 <= p /\ p <= n + 1
             /\ n >= K => p = n - K + 1 /\ m = K
             /\ n < K => p = 1 /\ m = n
  <1>1. CASE n > K
    <2>1. n - K + 1 \in Nat /\ n - (n - K + 1) + 1 = K /\ n - K + 1 <= n + 1 /\ 1 <= n - K + 1
      BY <1>1
    <2> QED
      BY <1>1, <2>1 DEF EndingFrom
  <1>2. CASE ~(n > K)
    <2>1. n - 1 + 1 = n /\ 1 <= n + 1 /\ (n >= K => n = K /\ n - K + 1 = 1)
      BY <1>2
    <2> QED
      BY <1>2, <2>1 DEF EndingFrom
  <1> QED
    BY <1>1, <1>2

LEMMA EndingIs ==
    ASSUME NEW b \in Seq(BarShapes), NEW K \in Nat, K >= 1
    PROVE  \E p, m \in Nat :
             /\ m = Len(b) - p + 1
             /\ 1 <= p /\ p <= Len(b) + 1
             /\ Len(b) >= K => p = Len(b) - K + 1 /\ m = K
             /\ Len(b) < K => p = 1 /\ m = Len(b)
             /\ Ending(b, K) \in Seq(BarShapes) /\ Len(Ending(b, K)) = m
             /\ \A i \in 1 .. m : Ending(b, K)[i] = b[p + i - 1]
  <1>0. PICK n \in Nat : n = Len(b)
    OBVIOUS
  <1>1. PICK p \in Nat, m \in Nat :
             /\ p = EndingFrom(n, K) /\ m = n - p + 1
             /\ 1 <= p /\ p <= n + 1
             /\ n >= K => p = n - K + 1 /\ m = K
             /\ n < K => p = 1 /\ m = n
    BY EndingBounds
  <1>2. /\ SubSeq(b, p, n) \in Seq(BarShapes) /\ Len(SubSeq(b, p, n)) = m
        /\ \A i \in 1 .. m : SubSeq(b, p, n)[i] = b[p + i - 1]
    <2>1. n <= Len(b)
      BY <1>0
    <2>2. /\ SubSeq(b, p, n) \in Seq(BarShapes) /\ Len(SubSeq(b, p, n)) = n - p + 1
          /\ \A i \in 1 .. n - p + 1 : SubSeq(b, p, n)[i] = b[p + i - 1]
      BY <1>1, <2>1, SliceOf
    <2> QED
      BY <1>1, <2>2
  <1>3. Ending(b, K) = SubSeq(b, p, n)
    BY <1>0, <1>1 DEF Ending
  <1>4. PICK e \in Seq(BarShapes) :
             e = SubSeq(b, p, n) /\ Len(e) = m /\ \A i \in 1 .. m : e[i] = b[p + i - 1]
    BY <1>2
  <1>5. /\ m = Len(b) - p + 1
        /\ 1 <= p /\ p <= Len(b) + 1
        /\ Len(b) >= K => p = Len(b) - K + 1 /\ m = K
        /\ Len(b) < K => p = 1 /\ m = Len(b)
    BY <1>0, <1>1
  <1>6. Ending(b, K) \in Seq(BarShapes) /\ Len(Ending(b, K)) = m
    BY <1>3, <1>4
  <1>7. \A i \in 1 .. m : Ending(b, K)[i] = b[p + i - 1]
    BY <1>3, <1>4
  <1> QED
    BY <1>5, <1>6, <1>7

\* The arithmetic of the window when bar n + 1 arrives.
LEMMA WindowBounds ==
    ASSUME NEW n \in Nat, NEW K \in Nat, K >= 1,
           NEW p \in Nat, NEW m \in Nat, NEW r \in Nat, NEW k \in Nat,
           m = n - p + 1, k = (n + 1) - r + 1,
           n >= K => p = n - K + 1 /\ m = K, n < K => p = 1 /\ m = n,
           n + 1 >= K => r = (n + 1) - K + 1 /\ k = K, n + 1 < K => r = 1 /\ k = n + 1
    PROVE  /\ n >= K => r = p + 1 /\ k = m /\ m >= 1
           /\ n < K => r = p /\ k = m + 1
           /\ m + 1 = K + 1 <=> n >= K
           /\ m + 1 > K <=> n >= K
           /\ n >= K => \A i \in 1 .. K + 1 : i \in 1 .. m + 1 /\ p + i - 1 = n - K + i
           /\ \A i \in 1 .. m : p + i - 1 \in 1 .. n \/ p < 1
           /\ p + (m + 1) - 1 = n + 1
           /\ \A i \in 1 .. m : p + (i + 1) - 1 = (p + 1) + i - 1
  OBVIOUS

\* The observer's window, with the new bar, is the end of the series.
LEMMA WindowIsRecent ==
    ASSUME NEW b \in Seq(BarShapes), NEW bar \in BarShapes, NEW K \in Nat, K >= 1
    PROVE  \E window \in Seq(BarShapes) :
             /\ window = Append(Ending(b, K), bar)
             /\ Len(window) = K + 1 <=> Len(b) >= K
             /\ Len(b) >= K => \A i \in 1 .. K + 1 :
                                 window[i] = Append(b, bar)[Len(b) - K + i]
             /\ Ending(Append(b, bar), K) = IF Len(window) > K THEN Tail(window) ELSE window
  <1>1. PICK n \in Nat : n = Len(b)
    OBVIOUS
  <1>2. /\ Append(b, bar) \in Seq(BarShapes) /\ Len(Append(b, bar)) = n + 1
        /\ Append(b, bar)[n + 1] = bar /\ \A i \in 1 .. n : Append(b, bar)[i] = b[i]
    BY <1>1
  <1>3. PICK c \in Seq(BarShapes) :
             /\ c = Append(b, bar) /\ Len(c) = n + 1
             /\ c[n + 1] = bar /\ \A i \in 1 .. n : c[i] = b[i]
    BY <1>2
  <1>4. PICK p \in Nat, m \in Nat :
             /\ m = n - p + 1
             /\ 1 <= p /\ p <= n + 1
             /\ n >= K => p = n - K + 1 /\ m = K
             /\ n < K => p = 1 /\ m = n
             /\ Ending(b, K) \in Seq(BarShapes) /\ Len(Ending(b, K)) = m
             /\ \A i \in 1 .. m : Ending(b, K)[i] = b[p + i - 1]
    <2>1. PICK p \in Nat, m \in Nat :
             /\ m = Len(b) - p + 1
             /\ 1 <= p /\ p <= Len(b) + 1
             /\ Len(b) >= K => p = Len(b) - K + 1 /\ m = K
             /\ Len(b) < K => p = 1 /\ m = Len(b)
             /\ Ending(b, K) \in Seq(BarShapes) /\ Len(Ending(b, K)) = m
             /\ \A i \in 1 .. m : Ending(b, K)[i] = b[p + i - 1]
      BY EndingIs
    <2>2. /\ m = n - p + 1
          /\ 1 <= p /\ p <= n + 1
          /\ n >= K => p = n - K + 1 /\ m = K
          /\ n < K => p = 1 /\ m = n
      BY <1>1, <2>1
    <2> QED
      BY <2>1, <2>2
  <1>5. PICK r \in Nat, k \in Nat :
             /\ k = (n + 1) - r + 1
             /\ n + 1 >= K => r = (n + 1) - K + 1 /\ k = K
             /\ n + 1 < K => r = 1 /\ k = n + 1
             /\ Ending(c, K) \in Seq(BarShapes) /\ Len(Ending(c, K)) = k
             /\ \A i \in 1 .. k : Ending(c, K)[i] = c[r + i - 1]
    <2>1. PICK o \in Nat : o = n + 1
      BY <1>1
    <2>2. o = Len(c)
      BY <1>3, <2>1
    <2>3. PICK r \in Nat, k \in Nat :
             /\ k = Len(c) - r + 1
             /\ 1 <= r /\ r <= Len(c) + 1
             /\ Len(c) >= K => r = Len(c) - K + 1 /\ k = K
             /\ Len(c) < K => r = 1 /\ k = Len(c)
             /\ Ending(c, K) \in Seq(BarShapes) /\ Len(Ending(c, K)) = k
             /\ \A i \in 1 .. k : Ending(c, K)[i] = c[r + i - 1]
      BY EndingIs
    <2>4. /\ k = (n + 1) - r + 1
          /\ n + 1 >= K => r = (n + 1) - K + 1 /\ k = K
          /\ n + 1 < K => r = 1 /\ k = n + 1
      BY <2>1, <2>2, <2>3
    <2> QED
      BY <2>3, <2>4
  <1>6. /\ n >= K => r = p + 1 /\ k = m /\ m >= 1
        /\ n < K => r = p /\ k = m + 1
        /\ m + 1 = K + 1 <=> n >= K
        /\ m + 1 > K <=> n >= K
        /\ n >= K => \A i \in 1 .. K + 1 : i \in 1 .. m + 1 /\ p + i - 1 = n - K + i
        /\ \A i \in 1 .. m : p + i - 1 \in 1 .. n
        /\ p + (m + 1) - 1 = n + 1
        /\ \A i \in 1 .. m : p + (i + 1) - 1 = (p + 1) + i - 1
    BY <1>4, <1>5, WindowBounds
  <1>7. PICK recent \in Seq(BarShapes) :
             /\ recent = Ending(b, K) /\ Len(recent) = m
             /\ \A i \in 1 .. m : recent[i] = b[p + i - 1]
    BY <1>4
  <1>8. /\ Append(recent, bar) \in Seq(BarShapes) /\ Len(Append(recent, bar)) = m + 1
        /\ Append(recent, bar)[m + 1] = bar
        /\ \A i \in 1 .. m : Append(recent, bar)[i] = recent[i]
    BY <1>7
  <1>9. PICK window \in Seq(BarShapes) :
             /\ window = Append(recent, bar) /\ Len(window) = m + 1
             /\ window[m + 1] = bar /\ \A i \in 1 .. m : window[i] = recent[i]
    BY <1>8
  <1>10. \A i \in 1 .. m : window[i] = c[p + i - 1]
    BY <1>3, <1>6, <1>7, <1>9
  <1>11. \A i \in 1 .. m + 1 : i \in 1 .. m \/ i = m + 1
    OBVIOUS
  <1>12. \A i \in 1 .. m + 1 : window[i] = c[p + i - 1]
    BY <1>3, <1>6, <1>9, <1>10, <1>11
  <1>13. n >= K => \A i \in 1 .. K + 1 : window[i] = c[n - K + i]
    BY <1>6, <1>12
  <1>14. PICK later \in Seq(BarShapes) :
             /\ later = Ending(c, K) /\ Len(later) = k
             /\ \A i \in 1 .. k : later[i] = c[r + i - 1]
    BY <1>5
  <1>15. ASSUME n >= K PROVE later = Tail(window)
    <2>1. window # <<>>
      <3>1. Len(window) # 0
        BY <1>9
      <3> QED
        BY <3>1
    <2>2. /\ Tail(window) \in Seq(BarShapes) /\ Len(Tail(window)) = Len(window) - 1
          /\ \A i \in 1 .. Len(Tail(window)) : Tail(window)[i] = window[i + 1]
      BY <2>1, HeadTailProperties
    <2>3. PICK t \in Seq(BarShapes) : /\ t = Tail(window) /\ Len(t) = m
                                      /\ \A i \in 1 .. m : t[i] = window[i + 1]
      <3>1. (m + 1) - 1 = m
        OBVIOUS
      <3>2. Len(Tail(window)) = m
        BY <1>9, <2>2, <3>1
      <3> QED
        BY <2>2, <3>2
    <2>4. \A i \in 1 .. m : i + 1 \in 1 .. m + 1
      OBVIOUS
    <2>5. \A i \in 1 .. m : t[i] = c[(p + 1) + i - 1]
      BY <1>6, <1>12, <2>3, <2>4
    <2>6. \A i \in 1 .. m : later[i] = t[i]
      BY <1>6, <1>14, <1>15, <2>5
    <2> QED
      BY <1>6, <1>14, <1>15, <2>3, <2>6
  <1>16. ASSUME n < K PROVE later = window
    <2>1. \A i \in 1 .. m + 1 : later[i] = window[i]
      BY <1>6, <1>12, <1>14, <1>16
    <2> QED
      BY <1>6, <1>9, <1>14, <1>16, <2>1
  <1>17. Ending(c, K) = IF m + 1 > K THEN Tail(window) ELSE window
    <2>1. n >= K \/ n < K
      OBVIOUS
    <2> QED
      BY <1>6, <1>14, <1>15, <1>16, <2>1
  <1> QED
    BY <1>1, <1>3, <1>6, <1>7, <1>9, <1>13, <1>17

\* The middle of a full window is a swing exactly if its bar is one of the
\* series.
Shows(window, c, from, length) ==
    \A i \in 1 .. length : window[i] = c[from + i - 1]

\* The middle of the observer's window is above, or below, the others.
Peaks(window) ==
    \A i \in Live!Others : window[i].high < window[Lookback + 1].high

Dips(window) ==
    \A i \in Live!Others : window[i].low > window[Lookback + 1].low

LEMMA MiddleOfWindow ==
    ASSUME NEW c \in Seq(BarShapes), NEW window,
           NEW j \in Nat, j > Lookback, j + Lookback = Len(c),
           NEW from, from = j - Lookback, NEW length, length = 2 * Lookback + 1,
           Shows(window, c, from, length)
    PROVE  /\ window[Lookback + 1] = c[j]
           /\ Peaks(window) <=> IsHigh(c, j)
           /\ Dips(window) <=> IsLow(c, j)
  <1>1. PICK l \in Nat : l = Lookback /\ l >= 1
    BY LookbackType
  <1>2. PICK n \in Nat : n = Len(c) /\ j + l = n /\ j > l
    BY <1>1
  <1>3. Shows(window, c, j - l, 2 * l + 1)
    BY <1>1
  <1>4. l + 1 \in 1 .. 2 * l + 1 /\ (j - l) + (l + 1) - 1 = j
    OBVIOUS
  <1>5. window[l + 1] = c[j]
    BY <1>4, <1>3 DEF Shows
  <1>6. ASSUME NEW i \in 1 .. l
        PROVE  /\ l + 1 - i \in Live!Others /\ l + 1 + i \in Live!Others
               /\ window[l + 1 - i] = c[j - i] /\ window[l + 1 + i] = c[j + i]
    <2>1. /\ l + 1 - i \in 1 .. 2 * l + 1 /\ l + 1 - i # l + 1
          /\ l + 1 + i \in 1 .. 2 * l + 1 /\ l + 1 + i # l + 1
          /\ (j - l) + (l + 1 - i) - 1 = j - i /\ (j - l) + (l + 1 + i) - 1 = j + i
      OBVIOUS
    <2> QED
      BY <1>1, <1>3, <2>1 DEF Live!Others, Shows
  <1>7. ASSUME NEW i \in Live!Others
        PROVE  \E k \in 1 .. l : i = l + 1 - k \/ i = l + 1 + k
    <2>1. i \in 1 .. 2 * l + 1 /\ i # l + 1
      BY <1>1 DEF Live!Others
    <2>2. CASE i < l + 1
      <3>1. l + 1 - i \in 1 .. l /\ i = l + 1 - (l + 1 - i)
        BY <2>1, <2>2
      <3> QED
        BY <3>1
    <2>3. CASE i > l + 1
      <3>1. i - (l + 1) \in 1 .. l /\ i = l + 1 + (i - (l + 1))
        BY <2>1, <2>3
      <3> QED
        BY <3>1
    <2> QED
      BY <2>1, <2>2, <2>3
  <1>8. \A k \in 1 .. l : /\ c[j - k].high \in Nat /\ c[j + k].high \in Nat
                          /\ c[j - k].low \in Nat /\ c[j + k].low \in Nat
    <2>1. \A k \in 1 .. l : j - k \in 1 .. n /\ j + k \in 1 .. n
      BY <1>2
    <2> QED
      BY <1>2, <2>1, SeriesBars, BarPrices
  <1>9. c[j].high \in Nat /\ c[j].low \in Nat
    <2>1. j \in 1 .. n
      BY <1>2
    <2> QED
      BY <1>2, <2>1, SeriesBars, BarPrices
  <1>10. (\A i \in Live!Others : window[i].high < c[j].high)
          <=> \A k \in 1 .. l : c[j - k].high < c[j].high /\ c[j + k].high < c[j].high
    <2>1. ASSUME \A i \in Live!Others : window[i].high < c[j].high, NEW k \in 1 .. l
          PROVE  c[j - k].high < c[j].high /\ c[j + k].high < c[j].high
      <3>1. /\ window[l + 1 - k].high < c[j].high
            /\ window[l + 1 + k].high < c[j].high
        BY <1>6, <2>1
      <3> QED
        BY <1>6, <3>1
    <2>2. ASSUME \A k \in 1 .. l : c[j - k].high < c[j].high /\ c[j + k].high < c[j].high,
                 NEW i \in Live!Others
          PROVE  window[i].high < c[j].high
      <3>1. PICK k \in 1 .. l : i = l + 1 - k \/ i = l + 1 + k
        BY <1>7
      <3> QED
        BY <1>6, <2>2, <3>1
    <2> QED
      BY <2>1, <2>2
  <1>11. (\A i \in Live!Others : window[i].low > c[j].low)
          <=> \A k \in 1 .. l : c[j - k].low > c[j].low /\ c[j + k].low > c[j].low
    <2>1. ASSUME \A i \in Live!Others : window[i].low > c[j].low, NEW k \in 1 .. l
          PROVE  c[j - k].low > c[j].low /\ c[j + k].low > c[j].low
      <3>1. /\ window[l + 1 - k].low > c[j].low
            /\ window[l + 1 + k].low > c[j].low
        BY <1>6, <2>1
      <3> QED
        BY <1>6, <3>1
    <2>2. ASSUME \A k \in 1 .. l : c[j - k].low > c[j].low /\ c[j + k].low > c[j].low,
                 NEW i \in Live!Others
          PROVE  window[i].low > c[j].low
      <3>1. PICK k \in 1 .. l : i = l + 1 - k \/ i = l + 1 + k
        BY <1>7
      <3> QED
        BY <1>6, <2>2, <3>1
    <2> QED
      BY <2>1, <2>2
  <1>12. \A x, y \in Nat : x < y <=> y > x
    OBVIOUS
  <1>13. (\A k \in 1 .. l : c[j - k].high < c[j].high /\ c[j + k].high < c[j].high)
           <=> \A k \in 1 .. l : c[j].high > c[j - k].high /\ c[j].high > c[j + k].high
    BY <1>8, <1>9, <1>12
  <1>14. (\A k \in 1 .. l : c[j - k].low > c[j].low /\ c[j + k].low > c[j].low)
           <=> \A k \in 1 .. l : c[j].low < c[j - k].low /\ c[j].low < c[j + k].low
    BY <1>8, <1>9, <1>12
  <1> QED
    BY <1>1, <1>5, <1>10, <1>11, <1>13, <1>14 DEF IsHigh, IsLow, Peaks, Dips

\* The window with the new bar of c, and what the observer learns from it.
IsWindow(window, b, c) ==
    /\ Len(window) = 2 * Lookback + 1 <=> Len(b) >= 2 * Lookback
    /\ Len(b) >= 2 * Lookback
         => Shows(window, c, Len(b) - 2 * Lookback + 1, 2 * Lookback + 1)

HighSeen(window, b, before) ==
    IF Len(window) = 2 * Lookback + 1 /\ Peaks(window)
      THEN [index |-> Len(b) + 1 - Lookback, price |-> window[Lookback + 1].high]
      ELSE before

LowSeen(window, b, before) ==
    IF Len(window) = 2 * Lookback + 1 /\ Dips(window)
      THEN [index |-> Len(b) + 1 - Lookback, price |-> window[Lookback + 1].low]
      ELSE before

\* It is what the detector learns.
LEMMA SameLevels ==
    ASSUME NEW b \in Seq(BarShapes), NEW c \in Seq(BarShapes), Len(c) = Len(b) + 1,
           NEW window, IsWindow(window, b, c), NEW before
    PROVE  /\ HighNow(c, before) = HighSeen(window, b, before)
           /\ LowNow(c, before) = LowSeen(window, b, before)
  <1>1. PICK l \in Nat : l = Lookback /\ l >= 1
    BY LookbackType
  <1>2. PICK n \in Nat : n = Len(b)
    OBVIOUS
  <1>3. c \in Seq(BarShapes) /\ Len(c) = n + 1
    BY <1>2
  <1>4. PICK K \in Nat : K = 2 * l
    BY <1>1
  <1>5. n >= K <=> n + 1 >= K + 1
    BY <1>2
  <1>6. /\ Len(window) = K + 1 <=> n >= K
        /\ n >= K => Shows(window, c, n - K + 1, K + 1)
    BY <1>1, <1>2, <1>4 DEF IsWindow
  <1>7. ASSUME n >= K
        PROVE  /\ window[l + 1] = c[n + 1 - l]
               /\ Peaks(window) <=> IsHigh(c, n + 1 - l)
               /\ Dips(window) <=> IsLow(c, n + 1 - l)
    <2>1. PICK j \in Nat : j = n + 1 - l /\ j > l /\ j + l = n + 1
      <3>1. n + 1 - l \in Nat /\ n + 1 - l > l /\ (n + 1 - l) + l = n + 1
        BY <1>1, <1>7, <1>4
      <3> QED
        BY <3>1
    <2>2. n - K + 1 = j - l /\ K + 1 = 2 * l + 1
      BY <1>4, <2>1
    <2>3. Shows(window, c, j - l, 2 * l + 1)
      BY <1>6, <1>7, <2>2
    <2>4. PICK from, length : /\ from = j - Lookback /\ length = 2 * Lookback + 1
                              /\ Shows(window, c, from, length)
      BY <1>1, <2>3
    <2>5. /\ window[l + 1] = c[j]
          /\ Peaks(window) <=> IsHigh(c, j)
          /\ Dips(window) <=> IsLow(c, j)
      <3>1. c \in Seq(BarShapes) /\ j > Lookback /\ j + Lookback = Len(c)
        BY <1>1, <1>3, <2>1
      <3>2. window[Lookback + 1] = c[j] /\ (Peaks(window) <=> IsHigh(c, j))
                                        /\ (Dips(window) <=> IsLow(c, j))
        BY ONLY <2>1, <2>4, <3>1, MiddleOfWindow
      <3> QED
        BY <1>1, <3>2
    <2> QED
      BY <2>1, <2>5
  <1>8. CASE n >= K
    <2>1. Len(c) >= 2 * Lookback + 1 /\ Len(window) = 2 * Lookback + 1
      BY <1>1, <1>3, <1>5, <1>6, <1>8, <1>4
    <2> QED
      BY <1>1, <1>2, <1>3, <1>7, <1>8, <2>1
         DEF HighNow, NewHigh, LowNow, NewLow, HighSeen, LowSeen
  <1>9. CASE ~(n >= K)
    <2>1. ~(Len(c) >= 2 * Lookback + 1) /\ Len(window) # 2 * Lookback + 1
      BY <1>1, <1>3, <1>5, <1>6, <1>9, <1>4
    <2> QED
      BY <2>1 DEF HighNow, NewHigh, LowNow, NewLow, HighSeen, LowSeen
  <1> QED
    BY <1>8, <1>9

LEMMA InitRefines == ASSUME Init PROVE Live!Init
  <1>1. WalkHolds(<<>>, Walk(<<>>)) /\ Walk(<<>>) = Start
    BY FirstWalk, StartHolds
  <1>2. Structure(<<>>) = Start
    BY <1>1, StructureIsWalk
  <1>3. Len(<<>>) = 0 /\ SubSeq(<<>>, 1, 0) = <<>>
    BY SubSeqEmpty
  <1>4. ~(0 > 2 * Lookback)
    BY LookbackType
  <1>5. RecentBars = <<>>
    BY <1>3, <1>4 DEF RecentBars, Init
  <1> QED
    BY <1>2, <1>3, <1>5
       DEF Init, Analyse, Start, NoSwing, Live!Init, Live!NoLevel

\* A turn of the walk is the arrival of the bar.
LEMMA StepRefines == ASSUME IInv, [Next]_vars PROVE [Live!Next]_Live!vars
  <1>1. ASSUME Next PROVE Live!Next
    <2>1. PICK bar \in BarShapes : bars' = Append(bars, bar)
      BY <1>1, StepIsBar
    <2>2. PICK n \in Nat : n = Len(bars) /\ bars \in Seq(BarShapes)
      BY DEF IInv
    <2>3. /\ bars' \in Seq(BarShapes) /\ Extends(bars', bars) /\ Len(bars') = n + 1
          /\ IInv'
      BY <1>1, <2>2, StepIsBar, NextIInv
    <2>4. bars'[n + 1] = bar
      BY <2>1, <2>2
    <2>5. PICK w : w = Walk(bars) /\ WalkHolds(bars, w) /\ w \in WalkType
      BY DEF IInv, WalkHolds
    <2>6. /\ analysis.high = w.high /\ analysis.low = w.low
          /\ analysis.trend = w.trend /\ analysis.events = w.events
      BY <2>5, Parts DEF IInv
    <2>7. PICK t : t = Walk(bars')
      OBVIOUS
    <2>8. /\ analysis'.high = t.high /\ analysis'.low = t.low
          /\ analysis'.trend = t.trend /\ analysis'.events = t.events
      BY <2>3, <2>7, Parts DEF IInv
    <2>9. t = Turn(bars', Highs(bars'), Lows(bars'), w, Len(bars'))
      BY <2>2, <2>3, <2>5, <2>7, WalkGrows DEF IInv
    <2>10. PICK K \in Nat : K = 2 * Lookback /\ K >= 1
      <3>1. 2 * Lookback \in Nat /\ 2 * Lookback >= 1
        BY LookbackType
      <3> QED
        BY <3>1
    <2>11. RecentBars = Ending(bars, K) /\ RecentBars' = Ending(bars', K)
      BY <2>10 DEF RecentBars, Ending, EndingFrom
    <2>12. PICK window \in Seq(BarShapes) :
             /\ window = Append(Ending(bars, K), bar)
             /\ Len(window) = K + 1 <=> Len(bars) >= K
             /\ Len(bars) >= K => \A i \in 1 .. K + 1 :
                                    window[i] = Append(bars, bar)[Len(bars) - K + i]
             /\ Ending(Append(bars, bar), K) = IF Len(window) > K THEN Tail(window) ELSE window
      BY <2>2, <2>10, WindowIsRecent
    <2>13. /\ window = Append(RecentBars, bar)
           /\ RecentBars' = IF Len(window) > 2 * Lookback THEN Tail(window) ELSE window
      BY <2>1, <2>10, <2>11, <2>12
    <2>14. /\ Live!LearnHigh(window) = HighNow(bars', w.high)
           /\ Live!LearnLow(window) = LowNow(bars', w.low)
      <3>1. IsWindow(window, bars, bars')
        <4>1. \A i \in 1 .. K + 1 : n - K + i = (n - K + 1) + i - 1
          OBVIOUS
        <4>2. n >= K => Shows(window, bars', n - K + 1, K + 1)
          BY <2>1, <2>2, <2>12, <4>1 DEF Shows
        <4> QED
          BY <2>2, <2>10, <2>12, <4>2 DEF IsWindow
      <3>2. /\ HighNow(bars', w.high) = HighSeen(window, bars, w.high)
            /\ LowNow(bars', w.low) = LowSeen(window, bars, w.low)
        BY <2>2, <2>3, <3>1, SameLevels
      <3> QED
        BY <2>6, <3>2 DEF Live!LearnHigh, Live!LearnLow, Peaks, Dips, HighSeen, LowSeen
    <2>15. PICK high : high = HighNow(bars', w.high)
      OBVIOUS
    <2>16. PICK low : low = LowNow(bars', w.low)
      OBVIOUS
    <2> DEFINE above == high # NoSwing /\ bar.close > high.price
               below == low # NoSwing /\ bar.close < low.price
    <2>17. (UpNow(bars', w) <=> above) /\ (DownNow(bars', w) <=> below)
      BY <2>3, <2>4, <2>15, <2>16 DEF UpNow, DownNow
    <2>18. ~(above /\ below)
      BY <2>2, <2>3, <2>5, <2>17, LevelsNow
    <2>19. \A d \in Directions : (w.trend = Opposite(d)) <=> w.trend \notin {"none", d}
      BY <2>5 DEF WalkType, Directions, Opposite
    <2>20. ASSUME NEW d \in Directions, NEW s
           PROVE  EventNow(bars', w, d, s) =
                    [kind |-> IF w.trend \in {"none", d} THEN "BOS" ELSE "CHoCH",
                     index |-> n + 1, price |-> bar.close, direction |-> d, swing |-> s]
      BY <2>3, <2>4, <2>19 DEF EventNow
    <2>21. "bullish" \in Directions /\ "bearish" \in Directions
      BY DEF Directions
    <2>22. t = IF above THEN Settle(w, "bullish", high, low, EventNow(bars', w, "bullish", high))
               ELSE IF below THEN Settle(w, "bearish", high, low, EventNow(bars', w, "bearish", low))
               ELSE [w EXCEPT !.high = high, !.low = low]
      <3>1. t = IF UpNow(bars', w)
                  THEN Settle(w, "bullish", HighNow(bars', w.high), LowNow(bars', w.low),
                              EventNow(bars', w, "bullish", HighNow(bars', w.high)))
                ELSE IF DownNow(bars', w)
                  THEN Settle(w, "bearish", HighNow(bars', w.high), LowNow(bars', w.low),
                              EventNow(bars', w, "bearish", LowNow(bars', w.low)))
                ELSE [w EXCEPT !.high = HighNow(bars', w.high),
                               !.low = LowNow(bars', w.low)]
        <4>1. PICK b \in Seq(BarShapes), c \in Seq(BarShapes) :
                /\ b = bars /\ c = bars' /\ Extends(c, b) /\ Len(c) = Len(b) + 1
                /\ WalkHolds(b, w) /\ t = Turn(c, Highs(c), Lows(c), w, Len(c))
          BY <2>2, <2>3, <2>5, <2>9
        <4>2. ASSUME UpNow(c, w)
              PROVE  t = Settle(w, "bullish", HighNow(c, w.high), LowNow(c, w.low),
                                EventNow(c, w, "bullish", HighNow(c, w.high)))
          BY <4>1, <4>2, TurnNow
        <4>3. ASSUME ~UpNow(c, w), DownNow(c, w)
              PROVE  t = Settle(w, "bearish", HighNow(c, w.high), LowNow(c, w.low),
                                EventNow(c, w, "bearish", LowNow(c, w.low)))
          BY <4>1, <4>3, TurnNow
        <4>4. ASSUME ~UpNow(c, w), ~DownNow(c, w)
              PROVE  t = [w EXCEPT !.high = HighNow(c, w.high), !.low = LowNow(c, w.low)]
          <5>1. Extends(c, b) /\ Len(c) = Len(b) + 1 /\ WalkHolds(b, w)
            BY <4>1
          <5>2. Turn(c, Highs(c), Lows(c), w, Len(c))
                  = [w EXCEPT !.high = HighNow(c, w.high), !.low = LowNow(c, w.low)]
            BY <4>4, <5>1, TurnNow
          <5> QED
            BY <4>1, <5>2
        <4> QED
          BY <4>1, <4>2, <4>3, <4>4
      <3> HIDE DEF above, below
      <3> QED
        BY <2>15, <2>16, <2>17, <3>1
    <2>23. CASE above
      <3>1. /\ t.high = NoSwing /\ t.low = low /\ t.trend = "bullish"
            /\ t.events = Append(w.events, EventNow(bars', w, "bullish", high))
        BY <2>22, <2>23 DEF Settle
      <3>2. Live!Break("bullish", bar, high)
        BY <2>2, <2>6, <2>8, <2>20, <2>21, <3>1 DEF Live!Break
      <3> QED
        BY <2>2, <2>3, <2>8, <2>13, <2>14, <2>15, <2>16, <2>18, <2>23, <3>1, <3>2
           DEF Live!Next, Live!Arrive, NoSwing, Live!NoLevel
    <2>24. CASE below
      <3>1. /\ t.high = high /\ t.low = NoSwing /\ t.trend = "bearish"
            /\ t.events = Append(w.events, EventNow(bars', w, "bearish", low))
        BY <2>18, <2>22, <2>24 DEF Settle
      <3>2. Live!Break("bearish", bar, low)
        BY <2>2, <2>6, <2>8, <2>20, <2>21, <3>1 DEF Live!Break
      <3> QED
        BY <2>2, <2>3, <2>8, <2>13, <2>14, <2>15, <2>16, <2>18, <2>24, <3>1, <3>2
           DEF Live!Next, Live!Arrive, NoSwing, Live!NoLevel
    <2>25. CASE ~above /\ ~below
      <3>1. t.high = high /\ t.low = low /\ t.trend = w.trend /\ t.events = w.events
        BY <2>5, <2>22, <2>25 DEF WalkType
      <3> QED
        BY <2>2, <2>3, <2>6, <2>8, <2>13, <2>14, <2>15, <2>16, <2>25, <3>1
           DEF Live!Next, Live!Arrive, NoSwing, Live!NoLevel
    <2> QED
      BY <2>23, <2>24, <2>25
  <1>2. ASSUME UNCHANGED vars PROVE UNCHANGED Live!vars
    BY <1>2 DEF vars, Live!vars, RecentBars
  <1> QED
    BY <1>1, <1>2

\* No look-ahead (structure.py:4-6, README.md:15): what the detector finds in
\* the whole series is what an observer reports who sees the bars one at a time
\* and never more than the last 2 * Lookback + 1.
THEOREM NoLookAhead == Spec => ImplementsLiveStructure
  BY Invariant, InitRefines, StepRefines, PTL DEF Spec, ImplementsLiveStructure, Live!Spec
-----------------------------------------------------------------------------
(* Least and greatest elements.                                            *)

LEMMA LeastNatural ==
    ASSUME NEW S \in SUBSET Nat, S # {}
    PROVE  Min(S) \in S /\ \A k \in S : Min(S) <= k
  <1> DEFINE Below == {0 .. k : k \in S}
  <1>1. IsWellFoundedOn(StrictSubsetOrdering(Nat), FiniteSubsetsOf(Nat))
    BY FS_StrictSubsetOrderingWellFounded
  <1>2. Below \subseteq FiniteSubsetsOf(Nat)
    <2> SUFFICES ASSUME NEW k \in S PROVE 0 .. k \in FiniteSubsetsOf(Nat)
      OBVIOUS
    <2>1. k \in Nat /\ 0 \in Int /\ k \in Int
      OBVIOUS
    <2>2. IsFiniteSet(0 .. k)
      BY <2>1, FS_Interval
    <2>3. 0 .. k \in SUBSET Nat
      BY <2>1
    <2> QED
      BY <2>2, <2>3 DEF FiniteSubsetsOf
  <1>3. Below # {}
    OBVIOUS
  <1>4. \E T \in Below : \A U \in Below : <<U, T>> \notin StrictSubsetOrdering(Nat)
    <2> HIDE DEF Below
    <2> QED
      BY <1>1, <1>2, <1>3, WFMin
  <1>5. PICK m \in S : \A k \in S : <<0 .. k, 0 .. m>> \notin StrictSubsetOrdering(Nat)
    BY <1>4
  <1>6. ASSUME NEW k \in S PROVE m <= k
    <2>1. k \in Nat /\ m \in Nat
      OBVIOUS
    <2> SUFFICES ASSUME k < m PROVE FALSE
      BY <2>1
    <2>2. 0 .. k \in SUBSET Nat /\ 0 .. m \in SUBSET Nat /\ 0 .. k \subseteq 0 .. m
      BY <2>1
    <2>3. m \in 0 .. m /\ m \notin 0 .. k
      BY <2>1
    <2>4. <<0 .. k, 0 .. m>> \in StrictSubsetOrdering(Nat)
      BY <2>2, <2>3 DEF StrictSubsetOrdering
    <2> QED
      BY <1>5, <2>4
  <1> QED
    BY <1>6 DEF Min

LEMMA GreatestNatural ==
    ASSUME NEW n \in Nat, NEW S \in SUBSET (0 .. n), S # {}
    PROVE  Max(S) \in S /\ \A k \in S : k <= Max(S)
  <1> DEFINE Mirrored == {n - k : k \in S}
  <1>1. \A k \in S : k \in Nat /\ k <= n /\ n - k \in Nat
    OBVIOUS
  <1>2. Mirrored \in SUBSET Nat /\ Mirrored # {}
    BY <1>1
  <1>3. Min(Mirrored) \in Mirrored /\ \A m \in Mirrored : Min(Mirrored) <= m
    <2> HIDE DEF Mirrored
    <2> QED
      BY <1>2, LeastNatural
  <1>4. PICK k \in S : Min(Mirrored) = n - k
    BY <1>3
  <1>5. ASSUME NEW j \in S PROVE j <= k
    <2>1. n - j \in Mirrored
      OBVIOUS
    <2>2. n - k <= n - j
      <3> HIDE DEF Mirrored
      <3> QED
        BY <1>3, <1>4, <2>1
    <2> QED
      BY <1>1, <2>2
  <1>6. k \in S /\ \A j \in S : k >= j
    BY <1>1, <1>5
  <1> QED
    BY <1>1, <1>6 DEF Max

\* The first of some bars, and of the same bars with a later one.
LEMMA FirstOf ==
    ASSUME NEW S \in SUBSET Nat
    PROVE  /\ S = {} => First(S) = 0
           /\ S # {} => First(S) \in S /\ \A k \in S : First(S) <= k
  BY LeastNatural DEF First

LEMMA FirstGrows ==
    ASSUME NEW n \in Nat, NEW S \in SUBSET (1 .. n), NEW T,
           T = S \/ T = S \cup {n + 1}
    PROVE  First(T) = First(S) \/ (First(S) = 0 /\ First(T) = n + 1)
  <1>1. CASE T = S
    BY <1>1
  <1>2. CASE T = S \cup {n + 1} /\ S = {}
    <2>1. T \in SUBSET Nat /\ T # {} /\ \A k \in T : k = n + 1
      BY <1>2
    <2> QED
      BY <1>2, <2>1, FirstOf
  <1>3. CASE T = S \cup {n + 1} /\ S # {}
    <2>1. S \in SUBSET Nat /\ T \in SUBSET Nat /\ T # {} /\ \A k \in S : k < n + 1
      BY <1>3
    <2>2. First(S) \in S /\ \A k \in S : First(S) <= k
      BY <1>3, <2>1, FirstOf
    <2>3. First(T) \in T /\ \A k \in T : First(T) <= k
      BY <2>1, FirstOf
    <2>4. First(T) \in S
      <3>1. First(S) \in T /\ First(S) < n + 1 /\ First(T) <= First(S)
        BY <1>3, <2>1, <2>2, <2>3
      <3>2. PICK x \in Nat : x = First(S)
        BY <2>1, <2>2
      <3>3. ~(n + 1 <= x)
        BY <3>1, <3>2
      <3>4. First(T) # n + 1
        BY <3>1, <3>2, <3>3
      <3> QED
        BY <1>3, <2>3, <3>4
    <2>5. First(T) <= First(S) /\ First(S) <= First(T) /\ First(T) \in Nat /\ First(S) \in Nat
      BY <1>3, <2>1, <2>2, <2>3, <2>4
    <2> QED
      BY <2>5
  <1> QED
    BY <1>1, <1>2, <1>3

-----------------------------------------------------------------------------
(* What a further bar changes in the evidence.                             *)

LEMMA SweepIndex ==
    ASSUME NEW b, NEW i, NEW side, NEW swings, NEW s \in SweepsAt(b, i, side, swings)
    PROVE  s.index = i
  <1>1. PICK v : s = [index |-> i, side |-> side, level |-> v,
                      swing |-> SweptSwing(Known(swings, i), v)]
    BY DEF SweepsAt
  <1> QED
    BY <1>1

LEMMA SweepsOfPrefix ==
    ASSUME NEW b \in Seq(BarShapes), NEW c \in Seq(BarShapes), Extends(c, b),
           NEW i \in 1 .. Len(b), NEW side
    PROVE  /\ SweepsAt(c, i, side, Highs(c)) = SweepsAt(b, i, side, Highs(b))
           /\ SweepsAt(c, i, side, Lows(c)) = SweepsAt(b, i, side, Lows(b))
  <1>1. i \in 0 .. Len(b) /\ c[i] = b[i]
    BY DEF Extends
  <1>2. /\ Known(Highs(c), i) = Known(Highs(b), i)
        /\ Known(Lows(c), i) = Known(Lows(b), i)
    BY <1>1, KnownOfPrefix
  <1> QED
    BY <1>1, <1>2 DEF SweepsAt

LEMMA SweepsGrow ==
    ASSUME NEW b \in Seq(BarShapes), NEW c \in Seq(BarShapes), Extends(c, b),
           Len(c) = Len(b) + 1
    PROVE  /\ Sweeps(b) \subseteq Sweeps(c)
           /\ \A s \in Sweeps(c) \ Sweeps(b) : s.index = Len(c)
  <1>1. PICK n \in Nat : n = Len(b) /\ Len(c) = n + 1
    OBVIOUS
  <1> DEFINE at(x, i) == SweepsAt(x, i, "buy_side", Highs(x))
                           \cup SweepsAt(x, i, "sell_side", Lows(x))
  <1>2. \A i \in 1 .. n : at(c, i) = at(b, i)
    BY <1>1, SweepsOfPrefix
  <1>3. \A s : /\ s \in Sweeps(b) <=> \E i \in 1 .. n : s \in at(b, i)
               /\ s \in Sweeps(c) <=> \E i \in 1 .. n + 1 : s \in at(c, i)
    BY <1>1 DEF Sweeps
  <1>4. \A s \in at(c, n + 1) : s.index = n + 1
    BY SweepIndex
  <1>5. \A i \in 1 .. n + 1 : i \in 1 .. n \/ i = n + 1
    OBVIOUS
  <1>6. \A i \in 1 .. n : i \in 1 .. n + 1
    OBVIOUS
  <1> HIDE DEF at
  <1> QED
    BY <1>1, <1>2, <1>3, <1>4, <1>5, <1>6

\* What it takes to be a gap of the analysis.
LEMMA GapMembers ==
    ASSUME NEW b
    PROVE  \A x : x \in Gaps(b) <=>
             \E i \in 2 .. Len(b) - 1, d \in Directions :
               /\ IsGap(b, i, d)
               /\ x = [gap |-> GapAt(b, i, d), filledAt |-> First(Fills(b, GapAt(b, i, d)))]
  <1> DEFINE pairs == {y \in (2 .. Len(b) - 1) \X Directions : IsGap(b, y[1], y[2])}
  <1>1. \A g : g \in {GapAt(b, x[1], x[2]) : x \in pairs} <=>
          \E i \in 2 .. Len(b) - 1, d \in Directions : IsGap(b, i, d) /\ g = GapAt(b, i, d)
    <2>1. ASSUME NEW x \in pairs
          PROVE  x[1] \in 2 .. Len(b) - 1 /\ x[2] \in Directions /\ IsGap(b, x[1], x[2])
      OBVIOUS
    <2>2. ASSUME NEW i \in 2 .. Len(b) - 1, NEW d \in Directions, IsGap(b, i, d)
          PROVE  \E x \in pairs : x[1] = i /\ x[2] = d
      <3>1. <<i, d>> \in pairs /\ <<i, d>>[1] = i /\ <<i, d>>[2] = d
        BY <2>2
      <3> QED
        BY <3>1
    <2> HIDE DEF pairs
    <2> QED
      BY <2>1, <2>2
  <1>2. Gaps(b) = {[gap |-> g, filledAt |-> First(Fills(b, g))] :
                     g \in {GapAt(b, x[1], x[2]) : x \in pairs}}
    BY DEF Gaps
  <1> DEFINE gaps == {GapAt(b, x[1], x[2]) : x \in pairs}
  <1> HIDE DEF gaps
  <1>3. \A x : x \in Gaps(b) <=>
               \E g \in gaps : x = [gap |-> g, filledAt |-> First(Fills(b, g))]
    BY <1>2 DEF gaps
  <1> HIDE DEF pairs
  <1>4. \A g : g \in gaps <=>
          \E i \in 2 .. Len(b) - 1, d \in Directions : IsGap(b, i, d) /\ g = GapAt(b, i, d)
    BY <1>1 DEF gaps
  <1> QED
    BY <1>3, <1>4

LEMMA GapOfPrefix ==
    ASSUME NEW b \in Seq(BarShapes), NEW c \in Seq(BarShapes), Extends(c, b),
           Len(c) = Len(b) + 1, NEW i \in 2 .. Len(b) - 1, NEW d \in Directions
    PROVE  /\ IsGap(c, i, d) = IsGap(b, i, d) /\ GapAt(c, i, d) = GapAt(b, i, d)
           /\ LET S == Fills(b, GapAt(b, i, d))
                  T == Fills(c, GapAt(b, i, d))
              IN  S \in SUBSET (1 .. Len(b)) /\ (T = S \/ T = S \cup {Len(c)})
  <1>1. PICK n \in Nat : n = Len(b) /\ Len(c) = n + 1 /\ \A k \in 1 .. n : c[k] = b[k]
    BY DEF Extends
  <1>2. i \in 1 .. n /\ i + 1 \in 1 .. n /\ i - 1 \in 1 .. n
    BY <1>1
  <1>3. c[i] = b[i] /\ c[i + 1] = b[i + 1] /\ c[i - 1] = b[i - 1]
    BY <1>1, <1>2
  <1>4. IsDisplacement(c, i) = IsDisplacement(b, i)
    BY <1>1, <1>2, DisplacementOfPrefix
  <1>5. IsGap(c, i, d) = IsGap(b, i, d) /\ GapAt(c, i, d) = GapAt(b, i, d)
    BY <1>3, <1>4 DEF IsGap, GapAt
  <1>6. PICK g : g = GapAt(b, i, d)
    OBVIOUS
  <1>7. g.index = i
    BY <1>6 DEF GapAt
  <1>8. /\ \A k \in i + 2 .. n : k \in 1 .. n /\ k \in i + 2 .. n + 1
        /\ \A k \in i + 2 .. n + 1 : k \in i + 2 .. n \/ k = n + 1
        /\ n + 1 \in i + 2 .. n + 1
    BY <1>1, <1>2
  <1> DEFINE fills(x, k) == IF g.direction = "bullish" THEN x[k].low <= g.bottom
                                                       ELSE x[k].high >= g.top
  <1>9. \A k \in 1 .. n : fills(c, k) = fills(b, k)
    BY <1>1
  <1>10. /\ Fills(b, g) = {k \in i + 2 .. n : fills(b, k)}
         /\ Fills(c, g) = {k \in i + 2 .. n + 1 : fills(c, k)}
    BY <1>1, <1>7 DEF Fills
  <1> HIDE DEF fills
  <1>11. Fills(b, g) \in SUBSET (1 .. n)
    BY <1>8, <1>10
  <1>12. Fills(c, g) = Fills(b, g) \/ Fills(c, g) = Fills(b, g) \cup {n + 1}
    BY <1>8, <1>9, <1>10
  <1> QED
    BY <1>1, <1>5, <1>6, <1>11, <1>12

LEMMA GapsGrow ==
    ASSUME NEW b \in Seq(BarShapes), NEW c \in Seq(BarShapes), Extends(c, b),
           Len(c) = Len(b) + 1
    PROVE  /\ \A x \in Gaps(b) : \E y \in Gaps(c) :
                y.gap = x.gap /\ (\/ y.filledAt = x.filledAt
                                  \/ x.filledAt = 0 /\ y.filledAt = Len(c))
           /\ \A y \in Gaps(c) :
                \/ \E x \in Gaps(b) : x.gap = y.gap
                \/ y.gap.index = Len(b) /\ y.filledAt = 0
  <1>1. PICK n \in Nat : n = Len(b) /\ Len(c) = n + 1
    OBVIOUS
  <1>2. ASSUME NEW i \in 2 .. n - 1, NEW d \in Directions, NEW g, g = GapAt(b, i, d)
        PROVE  /\ IsGap(c, i, d) = IsGap(b, i, d) /\ GapAt(c, i, d) = g
               /\ \/ First(Fills(c, g)) = First(Fills(b, g))
                  \/ First(Fills(b, g)) = 0 /\ First(Fills(c, g)) = n + 1
    <2>1. /\ IsGap(c, i, d) = IsGap(b, i, d) /\ GapAt(c, i, d) = g
          /\ Fills(b, g) \in SUBSET (1 .. n)
          /\ Fills(c, g) = Fills(b, g) \/ Fills(c, g) = Fills(b, g) \cup {n + 1}
      BY <1>1, <1>2, GapOfPrefix
    <2> QED
      BY <1>1, <2>1, FirstGrows
  <1>3. \A i \in 2 .. n - 1 : i \in 2 .. (n + 1) - 1
    BY <1>1
  <1>4. \A i \in 2 .. (n + 1) - 1 : i \in 2 .. n - 1 \/ i = n
    BY <1>1
  <1>5. ASSUME NEW x \in Gaps(b)
        PROVE  \E y \in Gaps(c) : y.gap = x.gap /\ (\/ y.filledAt = x.filledAt
                                                    \/ x.filledAt = 0 /\ y.filledAt = n + 1)
    <2>1. PICK i \in 2 .. n - 1, d \in Directions :
            /\ IsGap(b, i, d)
            /\ x = [gap |-> GapAt(b, i, d), filledAt |-> First(Fills(b, GapAt(b, i, d)))]
      BY <1>1, GapMembers
    <2>2. PICK g : g = GapAt(b, i, d)
      OBVIOUS
    <2>3. PICK y : y = [gap |-> g, filledAt |-> First(Fills(c, g))]
      OBVIOUS
    <2>4. y \in Gaps(c)
      BY <1>1, <1>2, <1>3, <2>1, <2>2, <2>3, GapMembers
    <2> QED
      BY <1>2, <2>1, <2>2, <2>3, <2>4
  <1>6. ASSUME NEW y \in Gaps(c)
        PROVE  (\E x \in Gaps(b) : x.gap = y.gap) \/ (y.gap.index = n /\ y.filledAt = 0)
    <2>1. PICK i \in 2 .. (n + 1) - 1, d \in Directions :
            /\ IsGap(c, i, d)
            /\ y = [gap |-> GapAt(c, i, d), filledAt |-> First(Fills(c, GapAt(c, i, d)))]
      BY <1>1, GapMembers
    <2>2. CASE i \in 2 .. n - 1
      <3>1. PICK g : g = GapAt(b, i, d)
        OBVIOUS
      <3>2. PICK x : x = [gap |-> g, filledAt |-> First(Fills(b, g))]
        OBVIOUS
      <3>3. x \in Gaps(b) /\ x.gap = y.gap
        BY <1>1, <1>2, <2>1, <2>2, <3>1, <3>2, GapMembers
      <3> QED
        BY <3>3
    <2>3. CASE i = n
      <3>0. PICK g : g = GapAt(c, i, d)
        OBVIOUS
      <3>1. g = GapAt(c, i, d) /\ g.index = n
        BY <2>3, <3>0 DEF GapAt
      <3>2. (n + 2) .. (n + 1) = {}
        OBVIOUS
      <3>3. Fills(c, g) = {}
        BY <1>1, <3>1, <3>2 DEF Fills
      <3>4. First(Fills(c, g)) = 0
        BY <3>3 DEF First
      <3> QED
        BY <2>1, <3>1, <3>4
    <2> QED
      BY <1>4, <2>2, <2>3
  <1> QED
    BY <1>1, <1>5, <1>6

\* What it takes to be a block of the analysis.
LEMMA BlockMembers ==
    ASSUME NEW b, NEW events
    PROVE  \A x : x \in Blocks(b, events) <=>
             \E k \in DOMAIN events :
               /\ BacksBlock(b, events[k])
               /\ x = [block |-> BlockOf(b, events[k]),
                       mitigatedAt |-> First(Touches(b, BlockOf(b, events[k])))]
  <1> DEFINE blocks == {BlockOf(b, events[n]) :
                          n \in {m \in DOMAIN events : BacksBlock(b, events[m])}}
  <1>1. \A o : o \in blocks <=>
          \E k \in DOMAIN events : BacksBlock(b, events[k]) /\ o = BlockOf(b, events[k])
    OBVIOUS
  <1> HIDE DEF blocks
  <1>2. \A x : x \in Blocks(b, events) <=>
          \E o \in blocks : x = [block |-> o, mitigatedAt |-> First(Touches(b, o))]
    BY DEF Blocks, blocks
  <1> QED
    BY <1>1, <1>2

LEMMA BlockOfPrefix ==
    ASSUME NEW b \in Seq(BarShapes), NEW c \in Seq(BarShapes), Extends(c, b),
           Len(c) = Len(b) + 1, NEW e \in EventType, EventHolds(b, e)
    PROVE  /\ BacksBlock(c, e) = BacksBlock(b, e)
           /\ BacksBlock(b, e) =>
                /\ BlockOf(c, e) = BlockOf(b, e)
                /\ Touches(b, BlockOf(b, e)) \in SUBSET (1 .. Len(b))
                /\ \/ Touches(c, BlockOf(b, e)) = Touches(b, BlockOf(b, e))
                   \/ Touches(c, BlockOf(b, e)) = Touches(b, BlockOf(b, e)) \cup {Len(c)}
  <1>1. PICK n \in Nat : n = Len(b) /\ Len(c) = n + 1 /\ \A k \in 1 .. n : c[k] = b[k]
    BY DEF Extends
  <1>2. PICK i \in Nat : i = e.index /\ i \in 1 .. n
    BY <1>1 DEF EventType, EventHolds
  <1>3. IsDisplacement(c, i) = IsDisplacement(b, i)
    BY <1>1, <1>2, DisplacementOfPrefix
  <1>4. \A k \in 1 .. i - 1 : k \in 1 .. n /\ k \in 0 .. n
    BY <1>1, <1>2
  <1>5. Against(c, e) = Against(b, e)
    BY <1>1, <1>2, <1>4 DEF Against
  <1>6. BacksBlock(c, e) = BacksBlock(b, e)
    BY <1>2, <1>3, <1>5 DEF BacksBlock
  <1>7. Against(b, e) \in SUBSET (0 .. n) /\ Against(b, e) \in SUBSET (1 .. n)
    BY <1>2, <1>4 DEF Against
  <1>8. ASSUME BacksBlock(b, e)
        PROVE  /\ BlockOf(c, e) = BlockOf(b, e)
               /\ Touches(b, BlockOf(b, e)) \in SUBSET (1 .. n)
               /\ \/ Touches(c, BlockOf(b, e)) = Touches(b, BlockOf(b, e))
                  \/ Touches(c, BlockOf(b, e)) = Touches(b, BlockOf(b, e)) \cup {n + 1}
    <2>1. Max(Against(b, e)) \in 1 .. n
      BY <1>1, <1>7, <1>8, GreatestNatural DEF BacksBlock
    <2>2. BlockOf(c, e) = BlockOf(b, e)
      BY <1>1, <1>5, <2>1 DEF BlockOf
    <2>3. PICK o : o = BlockOf(b, e)
      OBVIOUS
    <2>4. o.breakIndex = i
      BY <1>2, <2>3 DEF BlockOf
    <2>5. /\ \A k \in i + 1 .. n : k \in 1 .. n /\ k \in i + 1 .. n + 1
          /\ \A k \in i + 1 .. n + 1 : k \in i + 1 .. n \/ k = n + 1
          /\ n + 1 \in i + 1 .. n + 1
      BY <1>2
    <2> DEFINE touches(x, k) == x[k].low <= o.top /\ x[k].high >= o.bottom
    <2>6. \A k \in 1 .. n : touches(c, k) = touches(b, k)
      BY <1>1
    <2>7. /\ Touches(b, o) = {k \in i + 1 .. n : touches(b, k)}
          /\ Touches(c, o) = {k \in i + 1 .. n + 1 : touches(c, k)}
      BY <1>1, <2>4 DEF Touches
    <2> HIDE DEF touches
    <2>8. Touches(b, o) \in SUBSET (1 .. n)
      BY <2>5, <2>7
    <2>9. Touches(c, o) = Touches(b, o) \/ Touches(c, o) = Touches(b, o) \cup {n + 1}
      BY <2>5, <2>6, <2>7
    <2> QED
      BY <2>2, <2>3, <2>8, <2>9
  <1> QED
    BY <1>1, <1>6, <1>8

\* The events of the longer series: at most one more, at the new bar.
LEMMA EventsGrow ==
    ASSUME NEW b \in Seq(BarShapes), NEW c \in Seq(BarShapes), Extends(c, b),
           Len(c) = Len(b) + 1, HasWalk(b), WalkHolds(b, Walk(b))
    PROVE  /\ Walk(b).events \in Seq(EventType) /\ Walk(c).events \in Seq(EventType)
           /\ \A k \in 1 .. Len(Walk(b).events) :
                /\ k \in 1 .. Len(Walk(c).events)
                /\ Walk(c).events[k] = Walk(b).events[k]
                /\ EventHolds(b, Walk(b).events[k])
           /\ \A k \in 1 .. Len(Walk(c).events) :
                \/ k \in 1 .. Len(Walk(b).events)
                \/ Walk(c).events[k].index = Len(c)
  <1>1. PICK w : w = Walk(b) /\ w \in WalkType /\ WalkHolds(b, w)
    BY DEF WalkHolds
  <1>2. PICK t : t = Walk(c) /\ t \in WalkType
    <2>1. WalkHolds(c, Walk(c))
      BY WalkGrows, TurnHolds
    <2> QED
      BY <2>1 DEF WalkHolds
  <1>3. PICK old \in Seq(EventType), new \in Seq(EventType) :
          old = w.events /\ new = t.events
    BY <1>1, <1>2 DEF WalkType
  <1>4. t = Turn(c, Highs(c), Lows(c), w, Len(c))
    BY <1>1, <1>2, WalkGrows
  <1>5. new = old \/ \E e : new = Append(old, e) /\ e.index = Len(c)
    <2>1. /\ EventNow(c, w, "bullish", HighNow(c, w.high)).index = Len(c)
          /\ EventNow(c, w, "bearish", LowNow(c, w.low)).index = Len(c)
      BY DEF EventNow
    <2>2. CASE UpNow(c, w)
      <3>1. t = Settle(w, "bullish", HighNow(c, w.high), LowNow(c, w.low),
                       EventNow(c, w, "bullish", HighNow(c, w.high)))
        BY <1>1, <1>4, <2>2, TurnNow
      <3>2. new = Append(old, EventNow(c, w, "bullish", HighNow(c, w.high)))
        BY <1>3, <3>1 DEF Settle
      <3> QED
        BY <2>1, <3>2
    <2>3. CASE ~UpNow(c, w) /\ DownNow(c, w)
      <3>1. t = Settle(w, "bearish", HighNow(c, w.high), LowNow(c, w.low),
                       EventNow(c, w, "bearish", LowNow(c, w.low)))
        BY <1>1, <1>4, <2>3, TurnNow
      <3>2. new = Append(old, EventNow(c, w, "bearish", LowNow(c, w.low)))
        BY <1>3, <3>1 DEF Settle
      <3> QED
        BY <2>1, <3>2
    <2>4. CASE ~UpNow(c, w) /\ ~DownNow(c, w)
      <3>0. Turn(c, Highs(c), Lows(c), w, Len(c))
              = [w EXCEPT !.high = HighNow(c, w.high), !.low = LowNow(c, w.low)]
        <4>1. WalkHolds(b, w)
          BY <1>1
        <4> QED
          BY <2>4, <4>1, TurnNow
      <3>1. t = [w EXCEPT !.high = HighNow(c, w.high), !.low = LowNow(c, w.low)]
        BY <1>4, <3>0
      <3>2. new = old
        BY <1>1, <1>3, <3>1 DEF WalkType
      <3> QED
        BY <3>2
    <2> QED
      BY <2>2, <2>3, <2>4
  <1>6. \A k \in 1 .. Len(old) : EventHolds(b, old[k])
    BY <1>1, <1>3 DEF WalkHolds
  <1>7. /\ \A k \in 1 .. Len(old) : k \in 1 .. Len(new) /\ new[k] = old[k]
        /\ \A k \in 1 .. Len(new) : k \in 1 .. Len(old) \/ new[k].index = Len(c)
    <2>1. ASSUME NEW e, new = Append(old, e), e.index = Len(c)
          PROVE  /\ \A k \in 1 .. Len(old) : k \in 1 .. Len(new) /\ new[k] = old[k]
                 /\ \A k \in 1 .. Len(new) : k \in 1 .. Len(old) \/ new[k].index = Len(c)
      <3>1. PICK m \in Nat : m = Len(old)
        OBVIOUS
      <3>2. /\ Len(new) = m + 1 /\ new[m + 1] = e
            /\ \A k \in 1 .. m : new[k] = old[k]
        BY <2>1, <3>1
      <3>3. /\ \A k \in 1 .. m : k \in 1 .. m + 1
            /\ \A k \in 1 .. m + 1 : k \in 1 .. m \/ k = m + 1
        OBVIOUS
      <3> QED
        BY <2>1, <3>1, <3>2, <3>3
    <2> QED
      BY <1>5, <2>1
  <1> QED
    BY <1>1, <1>2, <1>3, <1>6, <1>7

LEMMA BlocksGrow ==
    ASSUME NEW b \in Seq(BarShapes), NEW c \in Seq(BarShapes), Extends(c, b),
           Len(c) = Len(b) + 1, HasWalk(b), WalkHolds(b, Walk(b))
    PROVE  /\ \A x \in Blocks(b, Walk(b).events) : \E y \in Blocks(c, Walk(c).events) :
                y.block = x.block /\ (\/ y.mitigatedAt = x.mitigatedAt
                                      \/ x.mitigatedAt = 0 /\ y.mitigatedAt = Len(c))
           /\ \A y \in Blocks(c, Walk(c).events) :
                \/ \E x \in Blocks(b, Walk(b).events) : x.block = y.block
                \/ y.block.breakIndex = Len(c) /\ y.mitigatedAt = 0
  <1>1. PICK n \in Nat : n = Len(b) /\ Len(c) = n + 1
    OBVIOUS
  <1>2. PICK old \in Seq(EventType), new \in Seq(EventType) :
          /\ old = Walk(b).events /\ new = Walk(c).events
          /\ \A k \in 1 .. Len(old) : /\ k \in 1 .. Len(new) /\ new[k] = old[k]
                                      /\ EventHolds(b, old[k])
          /\ \A k \in 1 .. Len(new) : k \in 1 .. Len(old) \/ new[k].index = n + 1
    BY <1>1, EventsGrow
  <1>3. DOMAIN old = 1 .. Len(old) /\ DOMAIN new = 1 .. Len(new)
    OBVIOUS
  <1>4. ASSUME NEW k \in 1 .. Len(old), NEW e, e = old[k], BacksBlock(b, e) \/ BacksBlock(c, e)
        PROVE  /\ new[k] = e /\ BacksBlock(b, e) /\ BacksBlock(c, e)
               /\ BlockOf(c, e) = BlockOf(b, e)
               /\ \/ First(Touches(c, BlockOf(b, e))) = First(Touches(b, BlockOf(b, e)))
                  \/ /\ First(Touches(b, BlockOf(b, e))) = 0
                     /\ First(Touches(c, BlockOf(b, e))) = n + 1
    <2>1. e \in EventType /\ EventHolds(b, e) /\ new[k] = e
      BY <1>2, <1>4
    <2>2. BacksBlock(b, e) /\ BacksBlock(c, e)
      BY <1>1, <1>4, <2>1, BlockOfPrefix
    <2>3. PICK o : o = BlockOf(b, e)
      OBVIOUS
    <2>4. /\ BlockOf(c, e) = o
          /\ Touches(b, o) \in SUBSET (1 .. n)
          /\ Touches(c, o) = Touches(b, o) \/ Touches(c, o) = Touches(b, o) \cup {n + 1}
      BY <1>1, <2>1, <2>2, <2>3, BlockOfPrefix
    <2>5. \/ First(Touches(c, o)) = First(Touches(b, o))
          \/ First(Touches(b, o)) = 0 /\ First(Touches(c, o)) = n + 1
      BY <2>4, FirstGrows
    <2> QED
      BY <2>1, <2>2, <2>3, <2>4, <2>5
  <1>5. ASSUME NEW x \in Blocks(b, old)
        PROVE  \E y \in Blocks(c, new) :
                 y.block = x.block /\ (\/ y.mitigatedAt = x.mitigatedAt
                                       \/ x.mitigatedAt = 0 /\ y.mitigatedAt = n + 1)
    <2>1. PICK k \in 1 .. Len(old) :
            /\ BacksBlock(b, old[k])
            /\ x = [block |-> BlockOf(b, old[k]),
                    mitigatedAt |-> First(Touches(b, BlockOf(b, old[k])))]
      <3>1. \E k \in DOMAIN old :
              /\ BacksBlock(b, old[k])
              /\ x = [block |-> BlockOf(b, old[k]),
                      mitigatedAt |-> First(Touches(b, BlockOf(b, old[k])))]
        BY ONLY x \in Blocks(b, old), BlockMembers
      <3> QED
        BY <1>3, <3>1
    <2>2. PICK e : e = old[k]
      OBVIOUS
    <2>3. PICK o : o = BlockOf(b, e)
      OBVIOUS
    <2>4. PICK y : y = [block |-> o, mitigatedAt |-> First(Touches(c, o))]
      OBVIOUS
    <2>5. /\ new[k] = e /\ BacksBlock(c, e) /\ BlockOf(c, e) = o
          /\ \/ First(Touches(c, o)) = First(Touches(b, o))
             \/ First(Touches(b, o)) = 0 /\ First(Touches(c, o)) = n + 1
      BY <1>4, <2>1, <2>2, <2>3
    <2>6. k \in DOMAIN new
      BY <1>2, <1>3
    <2>7. y \in Blocks(c, new)
      BY <2>4, <2>5, <2>6, BlockMembers
    <2> QED
      BY <2>1, <2>2, <2>3, <2>4, <2>5, <2>7
  <1>6. ASSUME NEW y \in Blocks(c, new)
        PROVE  \/ \E x \in Blocks(b, old) : x.block = y.block
               \/ y.block.breakIndex = n + 1 /\ y.mitigatedAt = 0
    <2>1. PICK k \in 1 .. Len(new) :
            /\ BacksBlock(c, new[k])
            /\ y = [block |-> BlockOf(c, new[k]),
                    mitigatedAt |-> First(Touches(c, BlockOf(c, new[k])))]
      BY <1>3, BlockMembers
    <2>2. CASE k \in 1 .. Len(old)
      <3>1. PICK e : e = old[k] /\ e = new[k]
        BY <1>2, <2>2
      <3>2. PICK x : x = [block |-> BlockOf(b, e),
                          mitigatedAt |-> First(Touches(b, BlockOf(b, e)))]
        OBVIOUS
      <3>3. BacksBlock(b, e) /\ BlockOf(c, e) = BlockOf(b, e)
        BY <1>4, <2>1, <2>2, <3>1
      <3>4. x \in Blocks(b, old) /\ x.block = y.block
        BY <1>3, <2>1, <2>2, <3>1, <3>2, <3>3, BlockMembers
      <3> QED
        BY <3>4
    <2>3. CASE new[k].index = n + 1
      <3>1. PICK o : o = BlockOf(c, new[k])
        OBVIOUS
      <3>2. o.breakIndex = n + 1
        BY <2>3, <3>1 DEF BlockOf
      <3>3. (n + 1) + 1 .. n + 1 = {}
        OBVIOUS
      <3>4. Touches(c, o) = {}
        BY <1>1, <3>2, <3>3 DEF Touches
      <3> QED
        BY <2>1, <3>1, <3>2, <3>4 DEF First
    <2> QED
      BY <1>2, <2>2, <2>3
  <1> QED
    BY <1>1, <1>2, <1>5, <1>6

\* A later analysis says of the past what the earlier one said: of the past, only
\* fills and mitigations are added, dated to the new bar (fvg.py:27-35,
\* order_blocks.py:47-52, liquidity.py:4-6).
THEOREM NoRepainting == Spec => NothingIsRepainted
  <1> DEFINE Grows ==
        /\ analysis.highs \subseteq analysis'.highs
        /\ analysis.lows \subseteq analysis'.lows
        /\ analysis.displacements \subseteq analysis'.displacements
        /\ analysis.sweeps \subseteq analysis'.sweeps
        /\ \A s \in analysis'.sweeps \ analysis.sweeps : s.index = Now'
        /\ \A x \in analysis.gaps : \E y \in analysis'.gaps :
             y.gap = x.gap
               /\ y.filledAt \in {x.filledAt} \cup (IF x.filledAt = 0 THEN {Now'} ELSE {})
        /\ \A y \in analysis'.gaps :
             (\A x \in analysis.gaps : x.gap # y.gap)
               => y.gap.index = Now /\ y.filledAt = 0
        /\ \A x \in analysis.blocks : \E y \in analysis'.blocks :
             y.block = x.block
               /\ y.mitigatedAt \in {x.mitigatedAt} \cup (IF x.mitigatedAt = 0 THEN {Now'} ELSE {})
        /\ \A y \in analysis'.blocks :
             (\A x \in analysis.blocks : x.block # y.block)
               => y.block.breakIndex = Now' /\ y.mitigatedAt = 0
  <1>1. ASSUME IInv, Next PROVE Grows
    <2>1. PICK n \in Nat : n = Len(bars)
      BY <1>1 DEF IInv
    <2>2. PICK b \in Seq(BarShapes), c \in Seq(BarShapes) :
            /\ b = bars /\ c = bars' /\ Extends(c, b) /\ Len(c) = Len(b) + 1
      BY <1>1, StepIsBar DEF IInv
    <2>3. Now = Len(b) /\ Now' = Len(c)
      BY <2>2 DEF Now
    <2>4. HasWalk(b) /\ WalkHolds(b, Walk(b)) /\ WalkHolds(c, Walk(c))
      BY <1>1, <2>2, NextIInv DEF IInv
    <2>5. /\ analysis.highs = Highs(b) /\ analysis.lows = Lows(b)
          /\ analysis.gaps = Gaps(b) /\ analysis.sweeps = Sweeps(b)
          /\ analysis.blocks = Blocks(b, Walk(b).events)
          /\ analysis.displacements = {i \in 1 .. Len(b) : IsDisplacement(b, i)}
      BY <1>1, <2>2, <2>4, Parts DEF IInv
    <2>6. /\ analysis'.highs = Highs(c) /\ analysis'.lows = Lows(c)
          /\ analysis'.gaps = Gaps(c) /\ analysis'.sweeps = Sweeps(c)
          /\ analysis'.blocks = Blocks(c, Walk(c).events)
          /\ analysis'.displacements = {i \in 1 .. Len(c) : IsDisplacement(c, i)}
      BY <1>1, <2>2, <2>4, StepIsBar, Parts
    <2>7. Highs(b) \subseteq Highs(c) /\ Lows(b) \subseteq Lows(c)
      BY <2>2, SwingsOfPrefix
    <2>8. analysis.displacements \subseteq analysis'.displacements
      <3>1. \A i \in 1 .. n : i \in 1 .. n + 1
        OBVIOUS
      <3> QED
        BY <2>1, <2>2, <2>5, <2>6, <3>1, DisplacementOfPrefix
    <2>9. /\ Sweeps(b) \subseteq Sweeps(c)
          /\ \A s \in Sweeps(c) \ Sweeps(b) : s.index = Len(c)
      BY <2>2, SweepsGrow
    <2>10. /\ \A x \in Gaps(b) : \E y \in Gaps(c) :
                y.gap = x.gap /\ (\/ y.filledAt = x.filledAt
                                  \/ x.filledAt = 0 /\ y.filledAt = Len(c))
           /\ \A y \in Gaps(c) :
                \/ \E x \in Gaps(b) : x.gap = y.gap
                \/ y.gap.index = Len(b) /\ y.filledAt = 0
      BY <2>2, GapsGrow
    <2>11. /\ \A x \in Blocks(b, Walk(b).events) : \E y \in Blocks(c, Walk(c).events) :
                y.block = x.block /\ (\/ y.mitigatedAt = x.mitigatedAt
                                      \/ x.mitigatedAt = 0 /\ y.mitigatedAt = Len(c))
           /\ \A y \in Blocks(c, Walk(c).events) :
                \/ \E x \in Blocks(b, Walk(b).events) : x.block = y.block
                \/ y.block.breakIndex = Len(c) /\ y.mitigatedAt = 0
      BY <2>2, <2>4, BlocksGrow
    <2>12. \A p, q, m : (p = q \/ (q = 0 /\ p = m))
                          => p \in {q} \cup (IF q = 0 THEN {m} ELSE {})
      OBVIOUS
    <2>13. \A x \in analysis.gaps : \E y \in analysis'.gaps :
             y.gap = x.gap
               /\ y.filledAt \in {x.filledAt} \cup (IF x.filledAt = 0 THEN {Now'} ELSE {})
      BY <2>3, <2>5, <2>6, <2>10, <2>12
    <2>14. \A y \in analysis'.gaps :
             (\A x \in analysis.gaps : x.gap # y.gap)
               => y.gap.index = Now /\ y.filledAt = 0
      BY <2>3, <2>5, <2>6, <2>10
    <2>15. \A x \in analysis.blocks : \E y \in analysis'.blocks :
             y.block = x.block
               /\ y.mitigatedAt \in {x.mitigatedAt} \cup (IF x.mitigatedAt = 0 THEN {Now'} ELSE {})
      BY <2>3, <2>5, <2>6, <2>11, <2>12
    <2>16. \A y \in analysis'.blocks :
             (\A x \in analysis.blocks : x.block # y.block)
               => y.block.breakIndex = Now' /\ y.mitigatedAt = 0
      BY <2>3, <2>5, <2>6, <2>11
    <2>17. /\ analysis.highs \subseteq analysis'.highs
           /\ analysis.lows \subseteq analysis'.lows
           /\ analysis.sweeps \subseteq analysis'.sweeps
           /\ \A s \in analysis'.sweeps \ analysis.sweeps : s.index = Now'
      BY <2>3, <2>5, <2>6, <2>7, <2>9
    <2> QED
      BY <2>8, <2>13, <2>14, <2>15, <2>16, <2>17
  <1>2. ASSUME IInv, [Next]_vars PROVE [Grows]_vars
    BY <1>1, <1>2
  <1> QED
    BY <1>2, Invariant, PTL DEF Spec, NothingIsRepainted
-----------------------------------------------------------------------------
(* A series without its oldest bar.                                        *)

\* Series c is series b without its first bar.
Lacks(c, b) ==
    /\ Len(b) = Len(c) + 1
    /\ \A i \in 1 .. Len(c) : c[i] = b[i + 1]

LEMMA TailLacks ==
    ASSUME NEW b \in Seq(BarShapes), Len(b) > 0
    PROVE  Tail(b) \in Seq(BarShapes) /\ Lacks(Tail(b), b)
  <1>1. b # <<>>
    OBVIOUS
  <1>2. /\ Tail(b) \in Seq(BarShapes) /\ Len(Tail(b)) = Len(b) - 1
        /\ \A i \in 1 .. Len(Tail(b)) : Tail(b)[i] = b[i + 1]
    BY <1>1, HeadTailProperties
  <1>3. PICK n \in Nat : n = Len(b) /\ (n - 1) + 1 = n
    OBVIOUS
  <1> QED
    BY <1>2, <1>3 DEF Lacks

LEMMA SwingsShift ==
    ASSUME NEW b \in Seq(BarShapes), NEW c \in Seq(BarShapes), Lacks(c, b)
    PROVE  {Shift(s.index) : s \in {t \in Highs(b) : t.index > Lookback + 1}}
             = {s.index : s \in Highs(c)}
  <1>1. PICK n \in Nat : n = Len(c) /\ Len(b) = n + 1 /\ \A i \in 1 .. n : c[i] = b[i + 1]
    BY DEF Lacks
  <1>2. PICK l \in Nat : l = Lookback /\ l >= 1
    BY LookbackType
  <1>3. \A j : j \in Inner(c) <=> j \in Int /\ j + 1 \in Inner(b) /\ j + 1 > l + 1
    BY <1>1, <1>2 DEF Inner
  <1>4. ASSUME NEW j \in Inner(c) PROVE IsHigh(c, j) <=> IsHigh(b, j + 1)
    <2>1. j \in Nat /\ l + 1 <= j /\ j + l <= n
      BY <1>1, <1>2 DEF Inner
    <2>2. /\ j \in 1 .. n
          /\ \A k \in 1 .. l : /\ j - k \in 1 .. n /\ j + k \in 1 .. n
                               /\ (j - k) + 1 = (j + 1) - k /\ (j + k) + 1 = (j + 1) + k
      BY <2>1
    <2>3. /\ c[j] = b[j + 1]
          /\ \A k \in 1 .. l : c[j - k] = b[(j + 1) - k] /\ c[j + k] = b[(j + 1) + k]
      BY <1>1, <2>2
    <2> QED
      BY <1>2, <2>3 DEF IsHigh
  <1>5. ASSUME NEW s \in Highs(b), s.index > Lookback + 1
        PROVE  \E t \in Highs(c) : Shift(s.index) = t.index
    <2>1. PICK i \in Inner(b) : IsHigh(b, i) /\ s = [index |-> i, price |-> b[i].high]
      BY SwingMembers
    <2>2. PICK j \in Inner(c) : i = j + 1 /\ j = Shift(i)
      <3>1. i \in Int /\ i > l + 1
        BY <1>1, <1>2, <1>5, <2>1 DEF Inner
      <3>2. i - 1 \in Inner(c) /\ i = (i - 1) + 1
        BY <1>3, <2>1, <3>1
      <3> QED
        BY <3>2 DEF Shift
    <2>3. IsHigh(c, j)
      BY <1>4, <2>1, <2>2
    <2>4. PICK t : t = [index |-> j, price |-> c[j].high]
      OBVIOUS
    <2>5. t \in Highs(c) /\ t.index = j /\ s.index = i
      BY <2>1, <2>3, <2>4, SwingMembers
    <2> QED
      BY <2>2, <2>5
  <1>6. ASSUME NEW t \in Highs(c)
        PROVE  \E s \in Highs(b) : s.index > Lookback + 1 /\ Shift(s.index) = t.index
    <2>1. PICK j \in Inner(c) : IsHigh(c, j) /\ t = [index |-> j, price |-> c[j].high]
      BY SwingMembers
    <2>2. PICK i \in Inner(b) : i = j + 1 /\ i > l + 1 /\ Shift(i) = j
      <3>1. j \in Int /\ j + 1 \in Inner(b) /\ j + 1 > l + 1
        BY <1>3
      <3>2. (j + 1) - 1 = j
        BY <3>1
      <3> QED
        BY <3>1, <3>2 DEF Shift
    <2>3. IsHigh(b, i)
      BY <1>4, <2>1, <2>2
    <2>4. PICK s : s = [index |-> i, price |-> b[i].high]
      OBVIOUS
    <2>5. s \in Highs(b) /\ s.index = i /\ t.index = j
      BY <2>1, <2>3, <2>4, SwingMembers
    <2> QED
      BY <1>2, <2>2, <2>5
  <1> QED
    BY <1>5, <1>6

\* A full window before the bar makes the average.
LEMMA DisplacementShift ==
    ASSUME NEW b \in Seq(BarShapes), NEW c \in Seq(BarShapes), Lacks(c, b),
           NEW i \in 1 .. Len(c), i > RangeWindow
    PROVE  IsDisplacement(c, i) <=> IsDisplacement(b, i + 1)
  <1>1. PICK n \in Nat : n = Len(c) /\ Len(b) = n + 1 /\ \A k \in 1 .. n : c[k] = b[k + 1]
    BY DEF Lacks
  <1>2. PICK w \in Nat : w = RangeWindow /\ w >= 1
    BY ConstantsAssumption
  <1>3. i \in 1 .. n /\ i > w /\ c[i] = b[i + 1]
    BY <1>1, <1>2
  <1>4. PICK p \in Nat, q \in Nat : /\ p = i - w /\ q = i - 1 /\ 1 <= p /\ p <= q + 1 /\ q <= n
                                    /\ p + 1 = (i + 1) - w /\ q + 1 = (i + 1) - 1
                                    /\ p + 1 <= (q + 1) + 1 /\ q + 1 <= n + 1
    <2>1. /\ i - w \in Nat /\ i - 1 \in Nat /\ 1 <= i - w /\ i - w <= (i - 1) + 1 /\ i - 1 <= n
          /\ (i - w) + 1 = (i + 1) - w /\ (i - 1) + 1 = (i + 1) - 1
          /\ (i - w) + 1 <= ((i - 1) + 1) + 1 /\ (i - 1) + 1 <= n + 1
      BY <1>2, <1>3
    <2> QED
      BY <2>1
  <1>5. Before(c, i) = SubSeq(c, p, q)
    BY <1>2, <1>3, <1>4 DEF Before
  <1>6. Before(b, i + 1) = SubSeq(b, p + 1, q + 1)
    <2>1. i + 1 > w
      BY <1>2, <1>3
    <2> QED
      BY <1>2, <1>4, <2>1 DEF Before
  <1>7. PICK m \in Nat : m = q - p + 1 /\ m = (q + 1) - (p + 1) + 1
    <2>1. q - p + 1 \in Nat /\ q - p + 1 = (q + 1) - (p + 1) + 1
      BY <1>4
    <2> QED
      BY <2>1
  <1>8. PICK s \in Seq(BarShapes) :
          s = SubSeq(c, p, q) /\ Len(s) = m /\ \A k \in 1 .. m : s[k] = c[p + k - 1]
    <2>1. q <= Len(c)
      BY <1>1, <1>4
    <2>2. /\ SubSeq(c, p, q) \in Seq(BarShapes)
          /\ Len(SubSeq(c, p, q)) = q - p + 1
          /\ \A k \in 1 .. q - p + 1 : SubSeq(c, p, q)[k] = c[p + k - 1]
      BY <1>4, <2>1, SliceOf
    <2> QED
      BY <1>7, <2>2
  <1>9. PICK t \in Seq(BarShapes) :
          /\ t = SubSeq(b, p + 1, q + 1) /\ Len(t) = m
          /\ \A k \in 1 .. m : t[k] = b[(p + 1) + k - 1]
    <2>1. PICK pp \in Nat, qq \in Nat :
            /\ pp = p + 1 /\ qq = q + 1 /\ 1 <= pp /\ pp <= qq + 1
            /\ qq <= Len(b) /\ m = qq - pp + 1
      <3>1. /\ p + 1 \in Nat /\ q + 1 \in Nat /\ 1 <= p + 1
        BY <1>4
      <3> QED
        BY <1>1, <1>4, <1>7, <3>1
    <2>2. /\ SubSeq(b, pp, qq) \in Seq(BarShapes)
          /\ Len(SubSeq(b, pp, qq)) = m
          /\ \A k \in 1 .. m : SubSeq(b, pp, qq)[k] = b[pp + k - 1]
      BY <2>1, SliceOf
    <2> QED
      BY <2>1, <2>2
  <1>10. \A k \in 1 .. m : p + k - 1 \in 1 .. n /\ (p + k - 1) + 1 = (p + 1) + k - 1
    BY <1>4, <1>7
  <1>11. \A k \in 1 .. m : s[k] = t[k]
    BY <1>1, <1>8, <1>9, <1>10
  <1>12. s = t
    BY <1>8, <1>9, <1>11, SeqEqual
  <1>13. Before(c, i) = Before(b, i + 1)
    BY <1>5, <1>6, <1>8, <1>9, <1>12
  <1> QED
    BY <1>3, <1>13 DEF IsDisplacement

\* The displacements D of bars b are those of c past the left edge.
AgreePastEdge(D, c) ==
    {Shift(i) : i \in {j \in D : j > RangeWindow + 1}}
      = {i \in {j \in DOMAIN c : IsDisplacement(c, j)} : i > RangeWindow}

LEMMA DisplacementsShift ==
    ASSUME NEW b \in Seq(BarShapes), NEW c \in Seq(BarShapes), Lacks(c, b),
           NEW D, D = {i \in 1 .. Len(b) : IsDisplacement(b, i)}
    PROVE  AgreePastEdge(D, c)
  <1>1. PICK n \in Nat : n = Len(c) /\ Len(b) = n + 1
    BY DEF Lacks
  <1>2. PICK w \in Nat : w = RangeWindow /\ w >= 1
    BY ConstantsAssumption
  <1>3. DOMAIN c = 1 .. n
    BY <1>1
  <1>4. \A i \in 1 .. n : i > w => (IsDisplacement(c, i) <=> IsDisplacement(b, i + 1))
    BY <1>1, <1>2, DisplacementShift
  <1>5. \A i \in 1 .. n + 1 : i > w + 1 => i - 1 \in 1 .. n /\ i - 1 > w /\ (i - 1) + 1 = i
    BY <1>2
  <1>6. \A i \in 1 .. n : i > w => i + 1 \in 1 .. n + 1 /\ i + 1 > w + 1 /\ (i + 1) - 1 = i
    BY <1>2
  <1>7. \A i \in D : i > w + 1 => Shift(i) \in 1 .. n /\ Shift(i) > w /\ IsDisplacement(c, Shift(i))
    BY <1>1, <1>4, <1>5 DEF Shift
  <1>8. \A i \in 1 .. n : i > w /\ IsDisplacement(c, i)
          => i + 1 \in D /\ i + 1 > w + 1 /\ Shift(i + 1) = i
    BY <1>1, <1>4, <1>6 DEF Shift
  <1> QED
    BY <1>2, <1>3, <1>7, <1>8 DEF AgreePastEdge

LEMMA GapShift ==
    ASSUME NEW b \in Seq(BarShapes), NEW c \in Seq(BarShapes), Lacks(c, b),
           NEW i \in 2 .. Len(c) - 1, i > RangeWindow, NEW d \in Directions
    PROVE  /\ IsGap(c, i, d) <=> IsGap(b, i + 1, d)
           /\ First(Fills(c, GapAt(c, i, d))) # 0
                <=> First(Fills(b, GapAt(b, i + 1, d))) # 0
  <1>1. PICK n \in Nat : n = Len(c) /\ Len(b) = n + 1 /\ \A k \in 1 .. n : c[k] = b[k + 1]
    BY DEF Lacks
  <1>2. /\ i \in 1 .. n /\ i + 1 \in 1 .. n /\ i - 1 \in 1 .. n
        /\ (i - 1) + 1 = (i + 1) - 1
    BY <1>1
  <1>3. c[i] = b[i + 1] /\ c[i + 1] = b[(i + 1) + 1] /\ c[i - 1] = b[(i + 1) - 1]
    BY <1>1, <1>2
  <1>4. IsDisplacement(c, i) <=> IsDisplacement(b, i + 1)
    BY <1>1, <1>2, DisplacementShift
  <1>5. IsGap(c, i, d) <=> IsGap(b, i + 1, d)
    BY <1>3, <1>4 DEF IsGap
  <1>6. PICK g : g = GapAt(c, i, d)
    OBVIOUS
  <1>7. PICK h : h = GapAt(b, i + 1, d)
    OBVIOUS
  <1>8. /\ g.index = i /\ h.index = i + 1 /\ g.direction = h.direction
        /\ g.top = h.top /\ g.bottom = h.bottom
    BY <1>3, <1>6, <1>7 DEF GapAt
  <1> DEFINE fills(x, k) == IF g.direction = "bullish" THEN x[k].low <= g.bottom
                                                       ELSE x[k].high >= g.top
  <1>9. \A k \in 1 .. n : fills(c, k) <=> fills(b, k + 1)
    BY <1>1
  <1>10. /\ Fills(c, g) = {k \in i + 2 .. n : fills(c, k)}
         /\ Fills(b, h) = {k \in (i + 1) + 2 .. n + 1 : fills(b, k)}
    BY <1>1, <1>8 DEF Fills
  <1>11. /\ \A k \in i + 2 .. n : k \in 1 .. n /\ k + 1 \in (i + 1) + 2 .. n + 1 /\ k # 0
         /\ \A k \in (i + 1) + 2 .. n + 1 :
              k - 1 \in i + 2 .. n /\ k - 1 \in 1 .. n /\ (k - 1) + 1 = k /\ k \in Nat /\ k # 0
    BY <1>1, <1>2
  <1> HIDE DEF fills
  <1>12. Fills(c, g) # {} <=> Fills(b, h) # {}
    <2>1. ASSUME NEW k \in Fills(c, g) PROVE Fills(b, h) # {}
      <3>1. k + 1 \in Fills(b, h)
        BY <1>9, <1>10, <1>11
      <3> QED
        BY <3>1
    <2>2. ASSUME NEW k \in Fills(b, h) PROVE Fills(c, g) # {}
      <3>1. k - 1 \in Fills(c, g)
        BY <1>9, <1>10, <1>11
      <3> QED
        BY <3>1
    <2> QED
      BY <2>1, <2>2
  <1>13. /\ Fills(c, g) \in SUBSET Nat /\ 0 \notin Fills(c, g)
         /\ Fills(b, h) \in SUBSET Nat /\ 0 \notin Fills(b, h)
    BY <1>10, <1>11
  <1>14. /\ First(Fills(c, g)) # 0 <=> Fills(c, g) # {}
         /\ First(Fills(b, h)) # 0 <=> Fills(b, h) # {}
    BY <1>13, FirstOf
  <1> QED
    BY <1>5, <1>6, <1>7, <1>12, <1>14

LEMMA GapsShift ==
    ASSUME NEW b \in Seq(BarShapes), NEW c \in Seq(BarShapes), Lacks(c, b)
    PROVE  {<<Shift(x.gap.index), x.gap.direction, x.filledAt # 0>> :
              x \in {y \in Gaps(b) : y.gap.index > RangeWindow + 1}}
             = {<<x.gap.index, x.gap.direction, x.filledAt # 0>> :
                  x \in {y \in Gaps(c) : y.gap.index > RangeWindow}}
  <1>1. PICK n \in Nat : n = Len(c) /\ Len(b) = n + 1
    BY DEF Lacks
  <1>2. PICK w \in Nat : w = RangeWindow /\ w >= 1
    BY ConstantsAssumption
  <1>3. ASSUME NEW x, NEW i, NEW d, NEW r,
               x = [gap |-> GapAt(r, i, d), filledAt |-> First(Fills(r, GapAt(r, i, d)))]
        PROVE  x.gap.index = i /\ x.gap.direction = d
    BY <1>3 DEF GapAt
  <1>4. ASSUME NEW x \in Gaps(b), x.gap.index > w + 1
        PROVE  \E y \in Gaps(c) :
                 /\ y.gap.index > w /\ y.gap.index = Shift(x.gap.index)
                 /\ y.gap.direction = x.gap.direction
                 /\ (y.filledAt # 0) = (x.filledAt # 0)
    <2>1. PICK k \in 2 .. (n + 1) - 1, d \in Directions :
            /\ IsGap(b, k, d)
            /\ x = [gap |-> GapAt(b, k, d), filledAt |-> First(Fills(b, GapAt(b, k, d)))]
      BY <1>1, GapMembers
    <2>2. x.gap.index = k /\ x.gap.direction = d
      BY <1>3, <2>1
    <2>3. PICK i \in 2 .. n - 1 : k = i + 1 /\ i > w /\ i = Shift(k)
      <3>1. k - 1 \in 2 .. n - 1 /\ k = (k - 1) + 1 /\ k - 1 > w
        BY <1>2, <1>4, <2>2
      <3> QED
        BY <3>1 DEF Shift
    <2>4. /\ IsGap(c, i, d)
          /\ First(Fills(c, GapAt(c, i, d))) # 0 <=> First(Fills(b, GapAt(b, k, d))) # 0
      BY <1>1, <1>2, <2>1, <2>3, GapShift
    <2>5. PICK y : y = [gap |-> GapAt(c, i, d), filledAt |-> First(Fills(c, GapAt(c, i, d)))]
      OBVIOUS
    <2>6. y \in Gaps(c)
      BY <1>1, <2>4, <2>5, GapMembers
    <2>7. y.gap.index = i /\ y.gap.direction = d
      BY <1>3, <2>5
    <2> QED
      BY <2>1, <2>2, <2>3, <2>4, <2>5, <2>6, <2>7
  <1>5. ASSUME NEW y \in Gaps(c), y.gap.index > w
        PROVE  \E x \in Gaps(b) :
                 /\ x.gap.index > w + 1 /\ y.gap.index = Shift(x.gap.index)
                 /\ y.gap.direction = x.gap.direction
                 /\ (y.filledAt # 0) = (x.filledAt # 0)
    <2>1. PICK i \in 2 .. n - 1, d \in Directions :
            /\ IsGap(c, i, d)
            /\ y = [gap |-> GapAt(c, i, d), filledAt |-> First(Fills(c, GapAt(c, i, d)))]
      BY <1>1, GapMembers
    <2>2. y.gap.index = i /\ y.gap.direction = d
      BY <1>3, <2>1
    <2>3. PICK k \in 2 .. (n + 1) - 1 : k = i + 1 /\ k > w + 1 /\ i = Shift(k)
      <3>1. i + 1 \in 2 .. (n + 1) - 1 /\ i = (i + 1) - 1 /\ i + 1 > w + 1
        BY <1>2, <1>5, <2>2
      <3> QED
        BY <3>1 DEF Shift
    <2>4. /\ IsGap(b, k, d)
          /\ First(Fills(c, GapAt(c, i, d))) # 0 <=> First(Fills(b, GapAt(b, k, d))) # 0
      BY <1>1, <1>2, <1>5, <2>1, <2>2, <2>3, GapShift
    <2>5. PICK x : x = [gap |-> GapAt(b, k, d), filledAt |-> First(Fills(b, GapAt(b, k, d)))]
      OBVIOUS
    <2>6. x \in Gaps(b)
      BY <1>1, <2>4, <2>5, GapMembers
    <2>7. x.gap.index = k /\ x.gap.direction = d
      BY <1>3, <2>5
    <2> QED
      BY <2>1, <2>2, <2>3, <2>4, <2>5, <2>6, <2>7
  <1> QED
    BY <1>2, <1>4, <1>5

\* What an analysis says does not depend on how far back its window reaches,
\* except at the left edge (analysis.py:72-88).
THEOREM WindowForgets == Spec => []WindowForgetsOnlyItsEdge
  <1>1. ASSUME IInv PROVE WindowForgetsOnlyItsEdge
    <2> SUFFICES ASSUME Len(bars) > 0
                 PROVE  WindowForgetsOnlyItsEdge
      BY DEF WindowForgetsOnlyItsEdge
    <2>1. PICK b \in Seq(BarShapes) : b = bars
      BY <1>1 DEF IInv
    <2>2. PICK c \in Seq(BarShapes) : c = Tail(bars) /\ Lacks(c, b)
      BY <2>1, TailLacks
    <2>3. /\ analysis.highs = Highs(b) /\ analysis.gaps = Gaps(b)
          /\ analysis.displacements = {i \in 1 .. Len(b) : IsDisplacement(b, i)}
      BY <1>1, <2>1, Parts DEF IInv
    <2>4. {Shift(s.index) : s \in {t \in analysis.highs : t.index > Lookback + 1}}
            = {s.index : s \in Highs(c)}
      BY <2>2, <2>3, SwingsShift
    <2>5. {Shift(i) : i \in {j \in analysis.displacements : j > RangeWindow + 1}}
            = {i \in {j \in DOMAIN c : IsDisplacement(c, j)} : i > RangeWindow}
      <3>1. PICK D : D = {i \in 1 .. Len(b) : IsDisplacement(b, i)} /\ D = analysis.displacements
        BY <2>3
      <3>2. AgreePastEdge(D, c)
        BY <2>2, <3>1, DisplacementsShift
      <3> QED
        BY <3>1, <3>2 DEF AgreePastEdge
    <2>6. {<<Shift(x.gap.index), x.gap.direction, x.filledAt # 0>> :
             x \in {y \in analysis.gaps : y.gap.index > RangeWindow + 1}}
            = {<<x.gap.index, x.gap.direction, x.filledAt # 0>> :
                 x \in {y \in Gaps(c) : y.gap.index > RangeWindow}}
      BY <2>2, <2>3, GapsShift
    <2> QED
      BY <2>2, <2>4, <2>5, <2>6 DEF WindowForgetsOnlyItsEdge
  <1> QED
    BY <1>1, Invariant, PTL
-----------------------------------------------------------------------------
(* The pipeline.                                                           *)

\* The invariant of Detectors, and what the pipeline makes of the analysis.
PipelineIInv ==
    /\ IInv
    /\ market \in CorrelatedMarkets
    /\ evidence = EvidenceOf(bars, analysis, Printed(bars))
    /\ result = ResultOf(bars, analysis, evidence)

LEMMA PipelineStep ==
    ASSUME [PipelineNext]_pipelineVars
    PROVE  [Next]_vars
  BY DEF PipelineNext, pipelineVars, vars

LEMMA PipelineInitInvariant == ASSUME PipelineInit PROVE PipelineIInv
  <1>1. IInv
    BY InitIInv DEF PipelineInit
  <1>2. bars = <<>> /\ Len(bars) = 0
    BY DEF PipelineInit, Init
  <1>3. Printed(bars) = <<>>
    BY <1>2, SubSeqEmpty DEF Printed
  <1>4. 0 < 2 * Lookback + 3
    BY LookbackType
  <1>5. ResultOf(bars, analysis, evidence) = TooShort
    BY <1>2, <1>4 DEF ResultOf
  <1> QED
    BY <1>1, <1>2, <1>3, <1>5 DEF PipelineInit, PipelineIInv

LEMMA PipelineNextInvariant ==
    ASSUME PipelineIInv, [PipelineNext]_pipelineVars
    PROVE  PipelineIInv'
  <1>1. IInv'
    BY PipelineStep, NextIInv DEF PipelineIInv
  <1>2. CASE PipelineNext
    <2>1. /\ market' = market
          /\ evidence' = EvidenceOf(bars', analysis', SubSeq(market, 1, Len(bars')))
          /\ result' = ResultOf(bars', analysis', evidence')
      BY <1>2 DEF PipelineNext, Printed
    <2> QED
      BY <1>1, <2>1 DEF PipelineIInv, Printed
  <1>3. CASE UNCHANGED pipelineVars
    BY <1>1, <1>3 DEF pipelineVars, PipelineIInv, Printed
  <1> QED
    BY <1>2, <1>3

\* The pipeline's evidence is that of its bars, its result that of its evidence.
THEOREM PipelineInvariant == PipelineSpec => []PipelineIInv
  BY PipelineInitInvariant, PipelineNextInvariant, PTL DEF PipelineSpec

\* What holds of the analyses of a growing market holds in the pipeline.
THEOREM PipelineIsDetectors == PipelineSpec => Spec
  <1>1. ASSUME PipelineInit PROVE Init
    BY <1>1 DEF PipelineInit
  <1> QED
    BY <1>1, PipelineStep, PTL DEF PipelineSpec, Spec

\* A block or a gap comes with a displacement, a block with an event as well.
LEMMA ZonesAreBacked ==
    ASSUME NEW b \in Seq(BarShapes), WalkHolds(b, Walk(b)), NEW a, a = Analyse(b)
    PROVE  /\ a.blocks # {} => a.events # <<>> /\ a.displacements # {}
           /\ a.gaps # {} => a.displacements # {}
           /\ IF a.events = <<>> THEN a.trend = "none"
              ELSE /\ a.trend = a.events[Len(a.events)].direction
                   /\ a.trend \in Directions
  <1>1. PICK n \in Nat : n = Len(b)
    OBVIOUS
  <1>2. PICK events \in Seq(EventType) :
          /\ events = a.events /\ a.trend = Walk(b).trend
          /\ \A k \in 1 .. Len(events) : EventHolds(b, events[k])
          /\ IF events = <<>> THEN a.trend = "none"
                              ELSE a.trend = events[Len(events)].direction
    BY Parts DEF WalkHolds, WalkType
  <1>3. /\ a.blocks = Blocks(b, events) /\ a.gaps = Gaps(b)
        /\ a.displacements = {i \in 1 .. n : IsDisplacement(b, i)}
    BY <1>1, <1>2, Parts
  <1>4. ASSUME NEW x \in Blocks(b, events)
        PROVE  events # <<>> /\ a.displacements # {}
    <2>1. PICK k \in DOMAIN events : BacksBlock(b, events[k])
      BY BlockMembers
    <2>2. k \in 1 .. Len(events)
      OBVIOUS
    <2>3. PICK i \in 1 .. n : i = events[k].index
      BY <1>1, <1>2, <2>2 DEF EventHolds
    <2>4. i \in a.displacements
      BY <1>3, <2>1, <2>3 DEF BacksBlock
    <2>5. events # <<>>
      BY <2>2
    <2> QED
      BY <2>4, <2>5
  <1>5. ASSUME NEW x \in Gaps(b) PROVE a.displacements # {}
    <2>1. PICK i \in 2 .. n - 1, d \in Directions : IsGap(b, i, d)
      BY <1>1, GapMembers
    <2>2. i \in 1 .. n /\ IsDisplacement(b, i)
      BY <2>1 DEF IsGap
    <2> QED
      BY <1>3, <2>2
  <1>6. events # <<>> => events[Len(events)] \in EventType
    <2>1. events # <<>> => Len(events) \in 1 .. Len(events)
      OBVIOUS
    <2> QED
      BY <2>1
  <1>7. events # <<>> => events[Len(events)].direction \in Directions
    BY <1>6 DEF EventType
  <1> QED
    BY <1>2, <1>3, <1>4, <1>5, <1>7

\* What Confluence assumes of its evidence is true of what the detectors produce,
\* and the trend, which votes, is the last event's direction, which scores
\* (order_blocks.py:31-32, fvg.py:21-22, pipeline.py:200-232).
THEOREM PossibleEvidence == PipelineSpec => []EvidenceIsPossible
  <1>1. ASSUME PipelineIInv PROVE EvidenceIsPossible
    <2>1. /\ analysis.blocks # {} => analysis.events # <<>> /\ analysis.displacements # {}
          /\ analysis.gaps # {} => analysis.displacements # {}
          /\ IF analysis.events = <<>> THEN analysis.trend = "none"
             ELSE /\ analysis.trend = analysis.events[Len(analysis.events)].direction
                  /\ analysis.trend \in Directions
      BY <1>1, ZonesAreBacked DEF PipelineIInv, IInv
    <2>2. /\ evidence.trend = [tf \in {"M15"} |-> analysis.trend]
          /\ evidence.obs = DirectionsOf(ActiveBlocks(analysis))
          /\ evidence.primaryObs = DirectionsOf(ActiveBlocks(analysis))
          /\ evidence.fvgs = DirectionsOf(ActiveGaps(analysis))
          /\ evidence.primaryFvgs = DirectionsOf(ActiveGaps(analysis))
          /\ evidence.displaced = (analysis.displacements # {})
      BY <1>1 DEF PipelineIInv, EvidenceOf
    <2>3. DirectionsOf(ActiveBlocks(analysis)) # {} => analysis.blocks # {}
      BY DEF DirectionsOf, ActiveBlocks
    <2>4. DirectionsOf(ActiveGaps(analysis)) # {} => analysis.gaps # {}
      BY DEF DirectionsOf, ActiveGaps
    <2>5. analysis.events # <<>> => analysis.trend # "none"
      BY <2>1 DEF Directions
    <2>6. C!Possible(evidence)
      BY <2>1, <2>2, <2>3, <2>4, <2>5 DEF C!Possible
    <2> QED
      BY <2>1, <2>6 DEF EvidenceIsPossible
  <1> QED
    BY <1>1, PipelineInvariant, PTL

\* The swings are finitely many, at different bars.
LEMMA SwingsFinite ==
    ASSUME NEW b \in Seq(BarShapes)
    PROVE  IsFiniteSet(Highs(b)) /\ IsFiniteSet(Lows(b))
  <1>1. PICK n \in Nat : n = Len(b)
    OBVIOUS
  <1>2. IsFiniteSet(1 .. n)
    <2>1. 1 \in Int /\ n \in Int
      OBVIOUS
    <2> QED
      BY <2>1, FS_Interval
  <1>3. ASSUME NEW S, \A s \in S : s.index \in 1 .. n,
               \A s, t \in S : s.index = t.index => s = t
        PROVE  IsFiniteSet(S)
    <2> DEFINE f == [s \in S |-> s.index]
    <2>1. f \in Injection(S, 1 .. n)
      BY <1>3 DEF Injection, IsInjective
    <2> HIDE DEF f
    <2> QED
      BY <1>2, <2>1, FS_Injection
  <1>4. \A s \in Highs(b) \cup Lows(b) : s.index \in 1 .. n
    <2>1. ASSUME NEW s \in Highs(b) \cup Lows(b) PROVE s.index \in 1 .. n
      <3>1. PICK i \in Nat : i = s.index /\ Lookback + 1 <= i /\ i + Lookback <= n
        BY <1>1, SwingTypes
      <3> QED
        BY <3>1, LookbackType
    <2> QED
      BY <2>1
  <1>5. /\ \A s, t \in Highs(b) : s.index = t.index => s = t
        /\ \A s, t \in Lows(b) : s.index = t.index => s = t
    BY SwingMembers
  <1> QED
    BY <1>3, <1>4, <1>5

\* The latest of some swings is one of them.
LEMMA LatestIsOne ==
    ASSUME NEW b \in Seq(BarShapes), NEW S, S \subseteq Highs(b) \/ S \subseteq Lows(b), S # {}
    PROVE  Latest(S) \in S /\ \A t \in S : t.index <= Latest(S).index
  <1>1. PICK n \in Nat : n = Len(b)
    OBVIOUS
  <1>2. \A s \in S : s.index \in 0 .. n
    <2>1. ASSUME NEW s \in Highs(b) \cup Lows(b) PROVE s.index \in 0 .. n
      <3>1. PICK i \in Nat : i = s.index /\ Lookback + 1 <= i /\ i + Lookback <= n
        BY <1>1, SwingTypes
      <3> QED
        BY <3>1, LookbackType
    <2> QED
      BY <2>1
  <1> DEFINE indices == {s.index : s \in S}
  <1>3. indices \in SUBSET (0 .. n) /\ indices # {}
    BY <1>2
  <1>4. Max(indices) \in indices /\ \A i \in indices : i <= Max(indices)
    <2> HIDE DEF indices
    <2> QED
      BY <1>3, GreatestNatural
  <1>5. PICK s \in S : s.index = Max(indices)
    BY <1>4
  <1>6. \A t \in S : t.index <= s.index
    BY <1>4, <1>5
  <1> QED
    BY <1>6 DEF Latest

\* The series of the other market has bars for as long as this one.
LEMMA PrintedBars ==
    ASSUME NEW m \in CorrelatedMarkets, NEW k \in Nat, k <= MaxBars
    PROVE  /\ SubSeq(m, 1, k) \in Seq(BarShapes) /\ Len(SubSeq(m, 1, k)) = k
           /\ \A i \in 1 .. k : SubSeq(m, 1, k)[i] = m[i]
  <1>1. m \in Seq(BarShapes) /\ Len(m) = MaxBars
    BY PipelineAssumption
  <1>2. PICK n \in Nat : n = Len(m) /\ k <= n
    BY <1>1
  <1>3. \A i \in 1 .. k : i \in 1 .. n /\ m[i] \in BarShapes
    BY <1>1, <1>2
  <1> QED
    BY <1>1, <1>2, <1>3

\* Up to a swing of the first series, the other market's swings are settled.
LEMMA UpToIsSettled ==
    ASSUME NEW c \in Seq(BarShapes), NEW e \in Seq(BarShapes), Extends(e, c),
           NEW i \in Nat, i + Lookback <= Len(c)
    PROVE  /\ UpTo(Highs(e), i) = UpTo(Highs(c), i)
           /\ UpTo(Lows(e), i) = UpTo(Lows(c), i)
  <1>1. PICK n \in Nat : n = Len(c) /\ i + Lookback <= n
    OBVIOUS
  <1>2. PICK l \in Nat : l = Lookback /\ i + l <= n
    BY <1>1, LookbackType
  <1>3. \A s \in Highs(e) \cup Lows(e) : s.index \in Nat
    BY SwingTypes
  <1>4. \A x \in Nat : x <= i => x + l <= n
    BY <1>2
  <1> QED
    BY <1>1, <1>2, <1>3, <1>4, SwingsOfPrefix DEF UpTo

LEMMA SameDivergence ==
    ASSUME NEW b \in Seq(BarShapes), NEW S, S = Highs(b) \/ S = Lows(b),
           NEW P, NEW Q, NEW d,
           \A i \in Nat : i + Lookback <= Len(b) => UpTo(Q, i) = UpTo(P, i)
    PROVE  Diverges(d, S, Q) <=> Diverges(d, S, P)
  <1>1. CASE Cardinality(S) >= 2
    <2>1. S # {}
      <3>1. S = {} => Cardinality(S) = 0
        BY FS_EmptySet
      <3>2. ~(0 >= 2)
        OBVIOUS
      <3> QED
        BY <1>1, <3>1, <3>2
    <2>2. Latest(S) \in S
      BY <2>1, LatestIsOne
    <2>3. Latest(S).index \in Nat /\ Latest(S).index + Lookback <= Len(b)
      BY <2>2, SwingTypes
    <2>4. UpTo(Q, Latest(S).index) = UpTo(P, Latest(S).index)
      BY <2>3
    <2> QED
      BY <2>4 DEF Diverges
  <1>2. CASE ~(Cardinality(S) >= 2)
    BY <1>2 DEF Diverges
  <1> QED
    BY <1>1, <1>2

\* Once two swings of the other market are known, they remain.
LEMMA ComparableStays ==
    ASSUME NEW c \in Seq(BarShapes), NEW e \in Seq(BarShapes), Extends(e, c), Comparable(c)
    PROVE  Comparable(e)
  <1>1. /\ IsFiniteSet(Highs(c)) /\ IsFiniteSet(Lows(c))
        /\ IsFiniteSet(Highs(e)) /\ IsFiniteSet(Lows(e))
    BY SwingsFinite
  <1>2. Highs(c) \in SUBSET Highs(e) /\ Lows(c) \in SUBSET Lows(e)
    BY SwingsOfPrefix
  <1>3. PICK p \in Nat, q \in Nat : p = Cardinality(Highs(c)) /\ q = Cardinality(Highs(e))
    BY <1>1, FS_CardinalityType
  <1>4. PICK r \in Nat, s \in Nat : r = Cardinality(Lows(c)) /\ s = Cardinality(Lows(e))
    BY <1>1, FS_CardinalityType
  <1>5. p <= q /\ r <= s
    BY <1>1, <1>2, <1>3, <1>4, FS_Subset
  <1>6. p + r >= 2
    BY <1>3, <1>4 DEF Comparable
  <1>7. q + s >= 2
    BY <1>5, <1>6
  <1> QED
    BY <1>3, <1>4, <1>7 DEF Comparable

\* Later bars do not matter to a divergence: once the other market has two swings
\* it is settled until the primary has a new swing (smt.py:10-11).
THEOREM DivergenceSettled == PipelineSpec => DivergenceIsSettled
  <1> DEFINE Settled ==
        (/\ analysis'.highs = analysis.highs
         /\ analysis'.lows = analysis.lows
         /\ Comparable(Printed(bars)))
          => evidence'.smt = evidence.smt
  <1>1. ASSUME PipelineIInv, PipelineNext PROVE Settled
    <2> SUFFICES ASSUME analysis'.highs = analysis.highs,
                        analysis'.lows = analysis.lows,
                        Comparable(Printed(bars))
                 PROVE  evidence'.smt = evidence.smt
      OBVIOUS
    <2>1. IInv /\ Next
      BY <1>1 DEF PipelineIInv, PipelineNext
    <2>2. PICK n \in Nat : n = Len(bars) /\ n + 1 = Len(bars') /\ n + 1 <= MaxBars
      BY <2>1, StepIsBar DEF IInv
    <2>3. PICK b \in Seq(BarShapes) : b = bars
      BY <2>1 DEF IInv
    <2>4. PICK c \in Seq(BarShapes) : c = SubSeq(market, 1, n) /\ Len(c) = n
                                      /\ \A i \in 1 .. n : c[i] = market[i]
      <3>1. n <= MaxBars
        BY <2>2, ConstantsAssumption
      <3> QED
        BY <1>1, <2>2, <3>1, PrintedBars DEF PipelineIInv
    <2>5. PICK e \in Seq(BarShapes) : e = SubSeq(market, 1, n + 1) /\ Len(e) = n + 1
                                      /\ \A i \in 1 .. n + 1 : e[i] = market[i]
      <3>1. PICK k \in Nat : k = n + 1
        OBVIOUS
      <3>2. /\ SubSeq(market, 1, k) \in Seq(BarShapes) /\ Len(SubSeq(market, 1, k)) = k
            /\ \A i \in 1 .. k : SubSeq(market, 1, k)[i] = market[i]
        BY <1>1, <2>2, <3>1, PrintedBars DEF PipelineIInv
      <3> QED
        BY <3>1, <3>2
    <2>6. Extends(e, c)
      <3>1. n <= n + 1 /\ \A i \in 1 .. n : i \in 1 .. n + 1
        OBVIOUS
      <3> QED
        BY <2>4, <2>5, <3>1 DEF Extends
    <2>7. /\ evidence.smt = SmtDirections(analysis, c)
          /\ evidence'.smt = SmtDirections(analysis', e)
          /\ Comparable(c)
      BY <1>1, <2>2, <2>4, <2>5 DEF PipelineIInv, PipelineNext, Printed, EvidenceOf
    <2>8. Comparable(e)
      BY <2>6, <2>7, ComparableStays
    <2>9. analysis.highs = Highs(b) /\ analysis.lows = Lows(b)
      BY <2>1, <2>3, Parts DEF IInv
    <2>10. \A i \in Nat : i + Lookback <= Len(b)
             => UpTo(Highs(e), i) = UpTo(Highs(c), i) /\ UpTo(Lows(e), i) = UpTo(Lows(c), i)
      <3>1. Len(b) = Len(c)
        BY <2>2, <2>3, <2>4
      <3> QED
        BY <2>6, <3>1, UpToIsSettled
    <2>11. \A d : /\ Diverges(d, Lows(b), Highs(e)) <=> Diverges(d, Lows(b), Highs(c))
                  /\ Diverges(d, Highs(b), Lows(e)) <=> Diverges(d, Highs(b), Lows(c))
      BY <2>10, SameDivergence
    <2> QED
      BY <2>7, <2>8, <2>9, <2>11 DEF SmtDirections
  <1>2. ASSUME PipelineIInv, [PipelineNext]_pipelineVars PROVE [Settled]_pipelineVars
    BY <1>1, <1>2
  <1> QED
    BY <1>2, PipelineInvariant, PTL DEF PipelineSpec, DivergenceIsSettled

-----------------------------------------------------------------------------
(* Stops.                                                                  *)

LEMMA BarAt ==
    ASSUME NEW b \in Seq(BarShapes), NEW k \in 1 .. Len(b)
    PROVE  /\ b[k].high \in Nat /\ b[k].low \in Nat /\ b[k].close \in Nat
           /\ b[k].low <= b[k].close /\ b[k].close <= b[k].high
  BY SeriesBars, BarPrices

\* An unfilled gap has not been closed through.
LEMMA GapHolds ==
    ASSUME NEW b \in Seq(BarShapes), NEW i \in 2 .. Len(b) - 1, NEW d \in Directions,
           IsGap(b, i, d), First(Fills(b, GapAt(b, i, d))) = 0
    PROVE  IF d = "bullish" THEN b[Len(b)].close > GapAt(b, i, d).bottom
                            ELSE b[Len(b)].close < GapAt(b, i, d).top
  <1>1. PICK n \in Nat : n = Len(b) /\ i \in 2 .. n - 1
    OBVIOUS
  <1>2. PICK g : g = GapAt(b, i, d)
    OBVIOUS
  <1>3. g.index = i /\ g.direction = d
    BY <1>2 DEF GapAt
  <1>4. /\ i + 1 \in 1 .. n /\ i - 1 \in 1 .. n /\ n \in 1 .. n
        /\ n = i + 1 \/ n \in i + 2 .. n
        /\ \A k \in i + 2 .. n : k \in Nat /\ k # 0
    BY <1>1
  <1>5. Fills(b, g) \in SUBSET Nat /\ 0 \notin Fills(b, g)
    BY <1>1, <1>3, <1>4 DEF Fills
  <1>6. Fills(b, g) = {}
    BY <1>2, <1>5, FirstOf
  <1>7. /\ b[n].high \in Nat /\ b[n].low \in Nat /\ b[n].close \in Nat
        /\ b[n].low <= b[n].close /\ b[n].close <= b[n].high
        /\ b[i - 1].high \in Nat /\ b[i - 1].low \in Nat
    BY <1>1, <1>4, BarAt
  <1>8. CASE d = "bullish"
    <2>1. g.bottom = b[i - 1].high
      BY <1>2, <1>8 DEF GapAt
    <2>2. n = i + 1 => b[n].low > b[i - 1].high
      BY <1>8 DEF IsGap
    <2>3. n \in i + 2 .. n => ~(b[n].low <= g.bottom)
      BY <1>1, <1>3, <1>6, <1>8 DEF Fills
    <2>4. b[n].low > g.bottom
      BY <1>4, <1>7, <2>1, <2>2, <2>3
    <2>5. b[n].close > g.bottom
      BY <1>7, <2>1, <2>4
    <2> QED
      BY <1>1, <1>2, <1>8, <2>5
  <1>9. CASE d # "bullish"
    <2>1. g.top = b[i - 1].low
      BY <1>2, <1>9 DEF GapAt
    <2>2. n = i + 1 => b[n].high < b[i - 1].low
      BY <1>9 DEF IsGap
    <2>3. n \in i + 2 .. n => ~(b[n].high >= g.top)
      BY <1>1, <1>3, <1>6, <1>9 DEF Fills
    <2>4. b[n].high < g.top
      BY <1>4, <1>7, <2>1, <2>2, <2>3
    <2>5. b[n].close < g.top
      BY <1>7, <2>1, <2>4
    <2> QED
      BY <1>1, <1>2, <1>9, <2>5
  <1> QED
    BY <1>8, <1>9

\* A block made of a candle since the broken swing is on the right side of the
\* breaking close; an untouched one is passed by a jump only.
LEMMA BlockIsJumped ==
    ASSUME NEW b \in Seq(BarShapes), NEW e \in EventType, EventHolds(b, e),
           BacksBlock(b, e), NEW o, o = BlockOf(b, e), First(Touches(b, o)) = 0,
           ~(o.index < e.swing.index)
    PROVE  /\ e.direction = "bullish" /\ b[Len(b)].close < o.bottom =>
                \E k \in o.breakIndex + 1 .. Len(b) :
                  b[k].high < o.bottom /\ b[k - 1].close >= o.bottom
           /\ e.direction = "bearish" /\ b[Len(b)].close > o.top =>
                \E k \in o.breakIndex + 1 .. Len(b) :
                  b[k].low > o.top /\ b[k - 1].close <= o.top
  <1>1. PICK n \in Nat : n = Len(b)
    OBVIOUS
  <1>2. PICK t \in Nat : t = e.index /\ t \in 1 .. n
    BY <1>1 DEF EventType, EventHolds
  <1>3. PICK f \in Nat, p \in Nat : f = e.swing.index /\ p = e.swing.price /\ f \in 1 .. t - 1
    BY <1>2 DEF EventType, SwingType, EventHolds
  <1>4. PICK j \in 1 .. t - 1 : j = Max(Against(b, e))
    <2>1. Against(b, e) \in SUBSET (0 .. n) /\ Against(b, e) \in SUBSET (1 .. t - 1)
      BY <1>2 DEF Against
    <2>2. Against(b, e) # {}
      BY DEF BacksBlock
    <2> QED
      BY <2>1, <2>2, GreatestNatural
  <1>5. /\ o.index = j /\ o.top = b[j].high /\ o.bottom = b[j].low
        /\ o.breakIndex = t
    BY <1>2, <1>4 DEF BlockOf
  <1>6. j \in f .. t - 1 /\ j \in 1 .. n
    BY <1>2, <1>3, <1>4, <1>5
  <1>7. \A k \in 1 .. n : /\ b[k].high \in Nat /\ b[k].low \in Nat /\ b[k].close \in Nat
                          /\ b[k].low <= b[k].close /\ b[k].close <= b[k].high
    BY <1>1, BarAt
  <1>8. PICK top \in Nat, bottom \in Nat :
          top = o.top /\ bottom = o.bottom /\ bottom <= b[j].close /\ b[j].close <= top
    BY <1>5, <1>6, <1>7
  <1>9. \A k \in t + 1 .. n : /\ k \in 1 .. n /\ k \in Nat /\ k # 0
                              /\ k - 1 \in t .. n /\ k - 1 \in 1 .. n
                              /\ k - 1 = t \/ k - 1 \in t + 1 .. n
    BY <1>2
  <1>10. \A k \in t + 1 .. n : ~(b[k].low <= top /\ b[k].high >= bottom)
    <2>1. Touches(b, o) = {k \in t + 1 .. n : b[k].low <= top /\ b[k].high >= bottom}
      BY <1>1, <1>5, <1>8 DEF Touches
    <2>2. Touches(b, o) \in SUBSET Nat /\ 0 \notin Touches(b, o)
      BY <1>9, <2>1
    <2>3. Touches(b, o) = {}
      BY <2>2, FirstOf
    <2> QED
      BY <2>1, <2>3
  <1>11. bottom <= top
    BY <1>6, <1>7, <1>8
  <1>12. ASSUME e.direction = "bullish", b[n].close < bottom
         PROVE  \E k \in t + 1 .. n : b[k].high < bottom /\ b[k - 1].close >= bottom
    <2>1. b[t].close > p /\ b[j].close <= p
      BY <1>2, <1>3, <1>6, <1>12 DEF EventHolds
    <2>2. b[t].close >= bottom
      <3>1. PICK x \in Nat, y \in Nat : x = b[t].close /\ y = b[j].close
        BY <1>2, <1>6, <1>7
      <3>2. x > p /\ y <= p /\ bottom <= y
        BY <1>8, <2>1, <3>1
      <3>3. x >= bottom
        BY <3>2
      <3> QED
        BY <3>1, <3>3
    <2> DEFINE under == {k \in t + 1 .. n : b[k].close < bottom}
    <2>3. n \in under
      <3>1. n # t
        BY <1>2, <1>7, <1>12, <2>2
      <3>2. n \in t + 1 .. n
        BY <1>2, <3>1
      <3> QED
        BY <1>12, <3>2
    <2>4. PICK k \in under : \A i \in under : k <= i
      <3>1. under \in SUBSET Nat /\ under # {}
        BY <1>9, <2>3
      <3> HIDE DEF under
      <3> QED
        BY <3>1, LeastNatural
    <2>5. k \in t + 1 .. n /\ b[k].close < bottom
      OBVIOUS
    <2>6. b[k - 1].close >= bottom
      <3>1. CASE k - 1 = t
        BY <2>2, <3>1
      <3>2. CASE k - 1 \in t + 1 .. n
        <4>1. k - 1 \notin under
          <5>1. k \in Nat /\ ~(k <= k - 1)
            BY <1>9, <2>5
          <5> QED
            BY <2>4, <5>1
        <4>2. ~(b[k - 1].close < bottom)
          BY <3>2, <4>1
        <4> QED
          BY <1>7, <1>9, <2>5, <4>2
      <3> QED
        BY <1>9, <2>5, <3>1, <3>2
    <2>7. b[k].high < bottom
      <3>1. b[k].low <= top
        BY <1>7, <1>9, <1>11, <2>5
      <3>2. ~(b[k].high >= bottom)
        BY <1>10, <2>5, <3>1
      <3> QED
        BY <1>7, <1>9, <2>5, <3>2
    <2> QED
      BY <2>5, <2>6, <2>7
  <1>13. ASSUME e.direction = "bearish", b[n].close > top
         PROVE  \E k \in t + 1 .. n : b[k].low > top /\ b[k - 1].close <= top
    <2>1. b[t].close < p /\ b[j].close >= p
      BY <1>2, <1>3, <1>6, <1>13 DEF EventHolds
    <2>2. b[t].close <= top
      <3>1. PICK x \in Nat, y \in Nat : x = b[t].close /\ y = b[j].close
        BY <1>2, <1>6, <1>7
      <3>2. x < p /\ y >= p /\ y <= top
        BY <1>8, <2>1, <3>1
      <3>3. x <= top
        BY <3>2
      <3> QED
        BY <3>1, <3>3
    <2> DEFINE over == {k \in t + 1 .. n : b[k].close > top}
    <2>3. n \in over
      <3>1. n # t
        BY <1>2, <1>7, <1>13, <2>2
      <3>2. n \in t + 1 .. n
        BY <1>2, <3>1
      <3> QED
        BY <1>13, <3>2
    <2>4. PICK k \in over : \A i \in over : k <= i
      <3>1. over \in SUBSET Nat /\ over # {}
        BY <1>9, <2>3
      <3> HIDE DEF over
      <3> QED
        BY <3>1, LeastNatural
    <2>5. k \in t + 1 .. n /\ b[k].close > top
      OBVIOUS
    <2>6. b[k - 1].close <= top
      <3>1. CASE k - 1 = t
        BY <2>2, <3>1
      <3>2. CASE k - 1 \in t + 1 .. n
        <4>1. k - 1 \notin over
          <5>1. k \in Nat /\ ~(k <= k - 1)
            BY <1>9, <2>5
          <5> QED
            BY <2>4, <5>1
        <4>2. ~(b[k - 1].close > top)
          BY <3>2, <4>1
        <4> QED
          BY <1>7, <1>9, <2>5, <4>2
      <3> QED
        BY <1>9, <2>5, <3>1, <3>2
    <2>7. b[k].low > top
      <3>1. b[k].high >= bottom
        BY <1>7, <1>9, <1>11, <2>5
      <3>2. ~(b[k].low <= top)
        BY <1>10, <2>5, <3>1
      <3> QED
        BY <1>7, <1>9, <2>5, <3>2
    <2> QED
      BY <2>5, <2>6, <2>7
  <1> QED
    BY <1>1, <1>5, <1>8, <1>12, <1>13

\* What it takes to be an active block or gap.
LEMMA ActiveAre ==
    ASSUME NEW b \in Seq(BarShapes), WalkHolds(b, Walk(b)), NEW a, a = Analyse(b)
    PROVE  /\ \A o \in ActiveBlocks(a) : \E k \in 1 .. Len(a.events) :
                /\ a.events[k] \in EventType /\ EventHolds(b, a.events[k])
                /\ BacksBlock(b, a.events[k])
                /\ o = BlockOf(b, a.events[k])
                /\ First(Touches(b, o)) = 0
           /\ \A g \in ActiveGaps(a) : \E i \in 2 .. Len(b) - 1, d \in Directions :
                IsGap(b, i, d) /\ g = GapAt(b, i, d) /\ First(Fills(b, g)) = 0
  <1>1. PICK events \in Seq(EventType) :
          /\ events = a.events
          /\ \A k \in 1 .. Len(events) : EventHolds(b, events[k])
    BY Parts DEF WalkHolds, WalkType
  <1>2. a.blocks = Blocks(b, events) /\ a.gaps = Gaps(b)
    BY <1>1, Parts
  <1>3. DOMAIN events = 1 .. Len(events) /\ \A k \in 1 .. Len(events) : events[k] \in EventType
    OBVIOUS
  <1>4. ASSUME NEW o \in ActiveBlocks(a)
        PROVE  \E k \in 1 .. Len(events) :
                 BacksBlock(b, events[k]) /\ o = BlockOf(b, events[k]) /\ First(Touches(b, o)) = 0
    <2>1. PICK x \in Blocks(b, events) : x.mitigatedAt = 0 /\ o = x.block
      BY <1>2 DEF ActiveBlocks
    <2>2. PICK k \in DOMAIN events :
            /\ BacksBlock(b, events[k])
            /\ x = [block |-> BlockOf(b, events[k]),
                    mitigatedAt |-> First(Touches(b, BlockOf(b, events[k])))]
      BY BlockMembers
    <2> QED
      BY <1>3, <2>1, <2>2
  <1>5. ASSUME NEW g \in ActiveGaps(a)
        PROVE  \E i \in 2 .. Len(b) - 1, d \in Directions :
                 IsGap(b, i, d) /\ g = GapAt(b, i, d) /\ First(Fills(b, g)) = 0
    <2>1. PICK x \in Gaps(b) : x.filledAt = 0 /\ g = x.gap
      BY <1>2 DEF ActiveGaps
    <2>2. PICK i \in 2 .. Len(b) - 1, d \in Directions :
            /\ IsGap(b, i, d)
            /\ x = [gap |-> GapAt(b, i, d), filledAt |-> First(Fills(b, GapAt(b, i, d)))]
      BY GapMembers
    <2> QED
      BY <2>1, <2>2
  <1> QED
    BY <1>1, <1>3, <1>4, <1>5

\* The prices of an active zone are its bars'.
LEMMA ActivePrices ==
    ASSUME NEW b \in Seq(BarShapes), WalkHolds(b, Walk(b)), NEW a, a = Analyse(b),
           NEW zone \in ActiveBlocks(a) \cup ActiveGaps(a)
    PROVE  zone.top \in Nat /\ zone.bottom \in Nat /\ zone.bottom <= zone.top
  <1>1. PICK n \in Nat : n = Len(b)
    OBVIOUS
  <1>2. CASE zone \in ActiveBlocks(a)
    <2>1. PICK k \in 1 .. Len(a.events) :
            /\ EventHolds(b, a.events[k]) /\ BacksBlock(b, a.events[k])
            /\ zone = BlockOf(b, a.events[k])
      BY <1>2, ActiveAre
    <2>2. PICK e : e = a.events[k]
      OBVIOUS
    <2>3. e.index \in 1 .. n
      BY <1>1, <2>1, <2>2 DEF EventHolds
    <2>4. PICK j \in 1 .. n : j = Max(Against(b, e))
      <3>1. Against(b, e) \in SUBSET (0 .. n) /\ Against(b, e) \in SUBSET (1 .. n)
        BY <2>3 DEF Against
      <3>2. Against(b, e) # {}
        BY <2>1, <2>2 DEF BacksBlock
      <3> QED
        BY <3>1, <3>2, GreatestNatural
    <2>5. zone.top = b[j].high /\ zone.bottom = b[j].low
      BY <2>1, <2>2, <2>4 DEF BlockOf
    <2>6. /\ b[j].high \in Nat /\ b[j].low \in Nat /\ b[j].close \in Nat
          /\ b[j].low <= b[j].close /\ b[j].close <= b[j].high
      BY <1>1, BarAt
    <2> QED
      BY <2>5, <2>6
  <1>3. CASE zone \in ActiveGaps(a)
    <2>1. PICK i \in 2 .. n - 1, d \in Directions : IsGap(b, i, d) /\ zone = GapAt(b, i, d)
      BY <1>1, <1>3, ActiveAre
    <2>2. i + 1 \in 1 .. n /\ i - 1 \in 1 .. n
      BY <1>1
    <2>3. /\ b[i + 1].high \in Nat /\ b[i + 1].low \in Nat
          /\ b[i - 1].high \in Nat /\ b[i - 1].low \in Nat
      BY <1>1, <2>2, BarAt
    <2>4. CASE d = "bullish"
      <3>1. zone.top = b[i + 1].low /\ zone.bottom = b[i - 1].high
        BY <2>1, <2>4 DEF GapAt
      <3>2. b[i + 1].low > b[i - 1].high
        BY <2>1, <2>4 DEF IsGap
      <3> QED
        BY <2>3, <3>1, <3>2
    <2>5. CASE d = "bearish"
      <3>1. zone.top = b[i - 1].low /\ zone.bottom = b[i + 1].high
        BY <2>1, <2>5 DEF GapAt
      <3>2. b[i + 1].high < b[i - 1].low
        BY <2>1, <2>5 DEF IsGap
      <3> QED
        BY <2>3, <3>1, <3>2
    <2> QED
      BY <2>4, <2>5 DEF Directions
  <1> QED
    BY <1>2, <1>3

\* Among things with a natural number there is a last one.
LEMMA LastOne ==
    ASSUME NEW n \in Nat, NEW S, NEW f, \A x \in S : f[x] \in 0 .. n, S # {}
    PROVE  \E x \in S : \A y \in S : f[y] <= f[x]
  <1> DEFINE images == {f[x] : x \in S}
  <1>1. images \in SUBSET (0 .. n) /\ images # {}
    OBVIOUS
  <1>2. Max(images) \in images /\ \A i \in images : i <= Max(images)
    <2> HIDE DEF images
    <2> QED
      BY <1>1, GreatestNatural
  <1>3. PICK x \in S : f[x] = Max(images)
    BY <1>2
  <1> QED
    BY <1>2, <1>3

\* A direction with an active block or gap has an entry zone.
LEMMA ZoneIs ==
    ASSUME NEW b \in Seq(BarShapes), WalkHolds(b, Walk(b)), NEW a, a = Analyse(b),
           NEW d, d \in DirectionsOf(ActiveBlocks(a)) \cup DirectionsOf(ActiveGaps(a))
    PROVE  /\ EntryZone(a, d) \in ActiveBlocks(a) \cup ActiveGaps(a)
           /\ EntryZone(a, d).direction = d
  <1>1. PICK n \in Nat : n = Len(b)
    OBVIOUS
  <1>2. \A o \in ActiveBlocks(a) : o.breakIndex \in 0 .. n
    <2>1. ASSUME NEW o \in ActiveBlocks(a) PROVE o.breakIndex \in 0 .. n
      <3>1. PICK k \in 1 .. Len(a.events) :
              EventHolds(b, a.events[k]) /\ o = BlockOf(b, a.events[k])
        BY ActiveAre
      <3>2. o.breakIndex = a.events[k].index
        BY <3>1 DEF BlockOf
      <3> QED
        BY <1>1, <3>1, <3>2 DEF EventHolds
    <2> QED
      BY <2>1
  <1>3. \A g \in ActiveGaps(a) : g.index \in 0 .. n
    <2>1. ASSUME NEW g \in ActiveGaps(a) PROVE g.index \in 0 .. n
      <3>1. PICK i \in 2 .. n - 1, e \in Directions : g = GapAt(b, i, e)
        BY <1>1, ActiveAre
      <3>2. g.index = i
        BY <3>1 DEF GapAt
      <3> QED
        BY <3>2
    <2> QED
      BY <2>1
  <1> DEFINE blocks == {o \in ActiveBlocks(a) : o.direction = d}
             gaps   == {g \in ActiveGaps(a) : g.direction = d}
  <1>4. CASE blocks # {}
    <2>1. \E o \in blocks : \A p \in blocks : p.breakIndex <= o.breakIndex
      <3> DEFINE f == [o \in blocks |-> o.breakIndex]
      <3>1. \A o \in blocks : f[o] \in 0 .. n
        BY <1>2
      <3>2. \E o \in blocks : \A p \in blocks : f[p] <= f[o]
        <4> HIDE DEF f, blocks
        <4> QED
          BY <1>4, <3>1, LastOne
      <3> QED
        BY <3>2
    <2>2. EntryZone(a, d) = CHOOSE o \in blocks : \A p \in blocks : p.breakIndex <= o.breakIndex
      BY <1>4 DEF EntryZone
    <2>3. EntryZone(a, d) \in blocks
      BY <2>1, <2>2
    <2> QED
      BY <2>3
  <1>5. CASE blocks = {}
    <2>1. gaps # {}
      BY <1>5 DEF DirectionsOf
    <2>2. \E g \in gaps : \A h \in gaps : h.index <= g.index
      <3> DEFINE f == [g \in gaps |-> g.index]
      <3>1. \A g \in gaps : f[g] \in 0 .. n
        BY <1>3
      <3>2. \E g \in gaps : \A h \in gaps : f[h] <= f[g]
        <4> HIDE DEF f, gaps
        <4> QED
          BY <2>1, <3>1, LastOne
      <3> QED
        BY <3>2
    <2>3. EntryZone(a, d) = CHOOSE g \in gaps : \A h \in gaps : h.index <= g.index
      BY <1>5 DEF EntryZone
    <2>4. EntryZone(a, d) \in gaps
      BY <2>2, <2>3
    <2> QED
      BY <2>4
  <1> QED
    BY <1>4, <1>5

LEMMA WidthType ==
    ASSUME NEW x \in Int
    PROVE  Max({x, MinWidth}) \in Nat
  <1>1. MinWidth \in Nat
    BY PipelineAssumption
  <1>2. CASE x >= MinWidth
    <2>1. x \in {x, MinWidth} /\ \A y \in {x, MinWidth} : x >= y
      BY <1>1, <1>2
    <2>2. \A z \in {x, MinWidth} : z >= MinWidth => z \in Nat
      BY <1>1
    <2> QED
      BY <2>1, <2>2 DEF Max
  <1>3. CASE ~(x >= MinWidth)
    <2>1. MinWidth \in {x, MinWidth} /\ \A y \in {x, MinWidth} : MinWidth >= y
      BY <1>1, <1>3
    <2>2. \A z \in {x, MinWidth} : z >= MinWidth => z \in Nat
      BY <1>1
    <2> QED
      BY <2>1, <2>2 DEF Max
  <1> QED
    BY <1>2, <1>3

\* The stop is on the losing side of the zone.
LEMMA StopIsBeyond ==
    ASSUME NEW a, NEW d \in Directions, NEW zone, zone = EntryZone(a, d),
           zone.top \in Nat, zone.bottom \in Nat, NEW close \in Nat
    PROVE  /\ d = "bullish" /\ 20 * close < LevelsOf(a, d).stop => close < zone.bottom
           /\ d = "bearish" /\ 20 * close > LevelsOf(a, d).stop => close > zone.top
  <1>1. PICK top \in Nat, bottom \in Nat : top = zone.top /\ bottom = zone.bottom
    OBVIOUS
  <1>2. PICK width \in Nat : width = Max({zone.top - zone.bottom, MinWidth})
    <2>1. zone.top - zone.bottom \in Int
      BY <1>1
    <2> QED
      BY <2>1, WidthType
  <1>3. LevelsOf(a, d).stop =
          Towards(Opposite(d), 20 * (IF d = "bullish" THEN bottom ELSE top), 2 * width)
    BY <1>1, <1>2 DEF LevelsOf
  <1>4. CASE d = "bullish"
    <2>1. LevelsOf(a, d).stop = 20 * bottom - 2 * width
      BY <1>3, <1>4 DEF Towards, Opposite
    <2>2. 20 * close < 20 * bottom - 2 * width => close < bottom
      OBVIOUS
    <2> QED
      BY <1>1, <1>4, <2>1, <2>2
  <1>5. CASE d = "bearish"
    <2>1. LevelsOf(a, d).stop = 20 * top + 2 * width
      BY <1>3, <1>5 DEF Towards, Opposite
    <2>2. 20 * close > 20 * top + 2 * width => close > top
      OBVIOUS
    <2> QED
      BY <1>1, <1>5, <2>1, <2>2
  <1> QED
    BY <1>4, <1>5 DEF Directions

\* Where the levels of a setup come from.
LEMMA LevelsAre ==
    ASSUME PipelineIInv, HasLevels
    PROVE  \E d \in Directions :
             /\ result.direction = d
             /\ result.levels = LevelsOf(analysis, d)
             /\ d \in evidence.primaryObs \cup evidence.primaryFvgs
             /\ Len(bars) >= 1
  <1>1. result = ResultOf(bars, analysis, evidence)
    BY DEF PipelineIInv
  <1>2. ~(Len(bars) < 2 * Lookback + 3)
    BY <1>1 DEF ResultOf, TooShort, HasLevels
  <1>3. PICK c : c = C!Analysis(evidence)
    OBVIOUS
  <1>4. result = [c EXCEPT !.levels = IF @ THEN LevelsOf(analysis, c.direction) ELSE NoLevels]
    BY <1>1, <1>2, <1>3 DEF ResultOf
  <1>5. PICK d : d = C!Best(evidence)
    OBVIOUS
  <1>6. d \in Directions
    BY <1>5 DEF C!Best, Directions
  <1>7. ~C!Raises(evidence)
    <2>1. C!Raises(evidence) => c = [status |-> "raised"]
      BY <1>3 DEF C!Analysis
    <2>2. c = [status |-> "raised"] => result.status = "raised"
      BY <1>4
    <2> QED
      BY <2>1, <2>2 DEF HasLevels
  <1>8. PICK status, direction, bias, levels :
          /\ c = [status |-> status, direction |-> direction, bias |-> bias, levels |-> levels]
          /\ direction = IF status = "SETUP" THEN d ELSE "no_trade"
          /\ levels = (status = "SETUP" /\ C!HasZone(evidence))
    BY <1>3, <1>5, <1>7 DEF C!Analysis
  <1>9. /\ result.status = status /\ result.direction = direction
        /\ result.levels = IF levels THEN LevelsOf(analysis, direction) ELSE NoLevels
    BY <1>4, <1>8
  <1>10. status = "SETUP" /\ levels
    BY <1>9 DEF HasLevels
  <1>11. C!HasZone(evidence)
    BY <1>8, <1>10
  <1>12. d \in evidence.primaryObs \cup evidence.primaryFvgs
    BY <1>5, <1>11 DEF C!HasZone
  <1>13. Len(bars) >= 1
    <2>1. Len(bars) \in Nat
      BY DEF PipelineIInv, IInv
    <2> QED
      BY <1>2, <2>1, LookbackType
  <1> QED
    BY <1>6, <1>8, <1>9, <1>10, <1>12, <1>13

\* The market passes the stop of a setup by a jump only, unless its block is
\* older than the swing (order_blocks.py:33-52, fvg.py:27-35,
\* pipeline.py:280-302).
THEOREM StoppedByJump == PipelineSpec => []StoppedByJumpOnly
  <1>1. ASSUME PipelineIInv, Stopped
        PROVE  /\ result.levels.zone \in ActiveBlocks(analysis)
               /\ \/ IsOld(result.levels.zone)
                  \/ \E k \in result.levels.zone.breakIndex + 1 .. Now :
                       JumpedOver(k, result.levels.zone)
    <2>1. PICK b \in Seq(BarShapes) : b = bars /\ WalkHolds(b, Walk(b)) /\ analysis = Analyse(b)
      BY <1>1 DEF PipelineIInv, IInv
    <2>2. PICK d \in Directions :
             /\ result.direction = d
             /\ result.levels = LevelsOf(analysis, d)
             /\ d \in evidence.primaryObs \cup evidence.primaryFvgs
             /\ Len(b) >= 1
      BY <1>1, <2>1, LevelsAre DEF Stopped
    <2>3. PICK n \in Nat : n = Len(b) /\ n = Now /\ n \in 1 .. n
      BY <2>1, <2>2 DEF Now
    <2>4. PICK zone : zone = EntryZone(analysis, d) /\ zone = result.levels.zone
      BY <2>2 DEF LevelsOf
    <2>5. zone \in ActiveBlocks(analysis) \cup ActiveGaps(analysis) /\ zone.direction = d
      <3>1. d \in DirectionsOf(ActiveBlocks(analysis)) \cup DirectionsOf(ActiveGaps(analysis))
        BY <1>1, <2>2 DEF PipelineIInv, EvidenceOf
      <3> QED
        <4>1. PICK a : a = analysis
          OBVIOUS
        <4>2. /\ WalkHolds(b, Walk(b)) /\ a = Analyse(b)
              /\ d \in DirectionsOf(ActiveBlocks(a)) \cup DirectionsOf(ActiveGaps(a))
          BY <2>1, <3>1, <4>1
        <4>3. /\ EntryZone(a, d) \in ActiveBlocks(a) \cup ActiveGaps(a)
              /\ EntryZone(a, d).direction = d
          BY ONLY <4>2, ZoneIs, b \in Seq(BarShapes)
        <4> QED
          BY <2>4, <4>1, <4>3
    <2>6. b[n].close \in Nat
      BY <2>3, BarAt
    <2>7. /\ d = "bullish" => 20 * b[n].close < LevelsOf(analysis, d).stop
          /\ d = "bearish" => 20 * b[n].close > LevelsOf(analysis, d).stop
      BY <1>1, <2>1, <2>2, <2>3 DEF Stopped, Loses
    <2>8. ASSUME zone.top \in Nat, zone.bottom \in Nat
          PROVE  /\ d = "bullish" => b[n].close < zone.bottom
                 /\ d = "bearish" => b[n].close > zone.top
      BY <2>4, <2>6, <2>7, <2>8, StopIsBeyond
    <2>13. zone.top \in Nat /\ zone.bottom \in Nat
      <3>1. PICK a : a = analysis
        OBVIOUS
      <3>2. /\ WalkHolds(b, Walk(b)) /\ a = Analyse(b)
            /\ zone \in ActiveBlocks(a) \cup ActiveGaps(a)
        BY <2>1, <2>5, <3>1
      <3> QED
        BY ONLY <3>2, ActivePrices, b \in Seq(BarShapes)
    <2>9. zone \in ActiveBlocks(analysis)
      <3> SUFFICES ASSUME zone \in ActiveGaps(analysis) PROVE FALSE
        BY <2>5
      <3>1. PICK i \in 2 .. n - 1, dd \in Directions :
              IsGap(b, i, dd) /\ zone = GapAt(b, i, dd) /\ First(Fills(b, zone)) = 0
        BY <2>1, <2>3, ActiveAre
      <3>2. dd = d
        BY <2>5, <3>1 DEF GapAt
      <3>4. IF d = "bullish" THEN b[n].close > zone.bottom ELSE b[n].close < zone.top
        BY <2>3, <3>1, <3>2, GapHolds
      <3> QED
        BY <2>6, <2>8, <2>13, <3>4 DEF Directions
    <2>10. PICK m \in 1 .. Len(analysis.events) :
             /\ analysis.events[m] \in EventType /\ EventHolds(b, analysis.events[m])
             /\ BacksBlock(b, analysis.events[m])
             /\ zone = BlockOf(b, analysis.events[m])
             /\ First(Touches(b, zone)) = 0
      BY <2>1, <2>9, ActiveAre
    <2>11. PICK e \in EventType : e = analysis.events[m]
      BY <2>10
    <2>12. zone.breakIndex = e.index /\ zone.direction = e.direction
      BY <2>10, <2>11 DEF BlockOf
    <2>14. CASE zone.index < e.swing.index
      <3>1. m \in DOMAIN analysis.events
        <4>1. analysis.events \in Seq(EventType)
          BY <2>1, Parts DEF WalkHolds, WalkType
        <4> QED
          BY <4>1
      <3>2. IsOld(zone)
        BY <2>11, <2>12, <2>14, <3>1 DEF IsOld
      <3> QED
        BY <2>4, <2>9, <3>2
    <2>15. CASE ~(zone.index < e.swing.index)
      <3>1. /\ d = "bullish" => \E k \in zone.breakIndex + 1 .. n :
                                  b[k].high < zone.bottom /\ b[k - 1].close >= zone.bottom
            /\ d = "bearish" => \E k \in zone.breakIndex + 1 .. n :
                                  b[k].low > zone.top /\ b[k - 1].close <= zone.top
        <4>1. /\ EventHolds(b, e) /\ BacksBlock(b, e) /\ zone = BlockOf(b, e)
              /\ First(Touches(b, zone)) = 0 /\ ~(zone.index < e.swing.index)
          BY <2>10, <2>11, <2>15
        <4>2. /\ e.direction = "bullish" /\ b[Len(b)].close < zone.bottom =>
                   \E k \in zone.breakIndex + 1 .. Len(b) :
                     b[k].high < zone.bottom /\ b[k - 1].close >= zone.bottom
              /\ e.direction = "bearish" /\ b[Len(b)].close > zone.top =>
                   \E k \in zone.breakIndex + 1 .. Len(b) :
                     b[k].low > zone.top /\ b[k - 1].close <= zone.top
          BY <4>1, BlockIsJumped
        <4> QED
          BY <2>3, <2>5, <2>8, <2>12, <2>13, <4>2
      <3>2. \E k \in zone.breakIndex + 1 .. n : JumpedOver(k, zone)
        BY <2>1, <2>2, <3>1 DEF JumpedOver, Directions
      <3> QED
        BY <2>3, <2>4, <2>9, <3>2
    <2> QED
      BY <2>14, <2>15
  <1>2. ASSUME PipelineIInv PROVE StoppedByJumpOnly
    BY <1>1, <1>2 DEF StoppedByJumpOnly
  <1> QED
    BY <1>2, PipelineInvariant, PTL

\* What the properties of Detectors say of every analysis they say of the
\* pipeline's (pipeline.py:194-196).
THEOREM PipelineAnalyses ==
    PipelineSpec => /\ []ClosesStayBetweenLevels
                    /\ []WindowForgetsOnlyItsEdge
                    /\ NothingIsRepainted
                    /\ ImplementsLiveStructure
  BY PipelineIsDetectors, ClosesBetween, WindowForgets, NoRepainting, NoLookAhead, PTL
-----------------------------------------------------------------------------
(* Types, and what the events are about.                                   *)

\* The levels and the broken swings are swings of the series.
WalkOfSwings(b, w) ==
    /\ w.high # NoSwing => w.high \in Highs(b)
    /\ w.low # NoSwing => w.low \in Lows(b)
    /\ \A n \in 1 .. Len(w.events) :
         w.events[n].swing \in
           IF w.events[n].direction = "bullish" THEN Highs(b) ELSE Lows(b)

LEMMA LevelsAreSwings ==
    ASSUME NEW b \in Seq(BarShapes), NEW c \in Seq(BarShapes), Extends(c, b),
           Len(c) = Len(b) + 1, NEW w, WalkOfSwings(b, w)
    PROVE  /\ HighNow(c, w.high) # NoSwing => HighNow(c, w.high) \in Highs(c)
           /\ LowNow(c, w.low) # NoSwing => LowNow(c, w.low) \in Lows(c)
  <1>1. PICK n \in Nat : n = Len(c)
    OBVIOUS
  <1>2. PICK l \in Nat : l = Lookback /\ l >= 1
    BY LookbackType
  <1>3. Highs(b) \subseteq Highs(c) /\ Lows(b) \subseteq Lows(c)
    BY SwingsOfPrefix
  <1>4. n >= 2 * l + 1 => n - l \in Inner(c)
    BY <1>1, <1>2 DEF Inner
  <1>5. NewHigh(c) => [index |-> n - l, price |-> c[n - l].high] \in Highs(c)
    BY <1>1, <1>2, <1>4, SwingMembers DEF NewHigh
  <1>6. NewLow(c) => [index |-> n - l, price |-> c[n - l].low] \in Lows(c)
    BY <1>1, <1>2, <1>4, SwingMembers DEF NewLow
  <1> QED
    BY <1>1, <1>2, <1>3, <1>5, <1>6 DEF HighNow, LowNow, WalkOfSwings

LEMMA TurnOfSwings ==
    ASSUME NEW b \in Seq(BarShapes), NEW c \in Seq(BarShapes), Extends(c, b),
           Len(c) = Len(b) + 1, NEW w, WalkHolds(b, w), WalkOfSwings(b, w)
    PROVE  WalkOfSwings(c, Turn(c, Highs(c), Lows(c), w, Len(c)))
  <1>1. PICK high : high = HighNow(c, w.high) /\ (high # NoSwing => high \in Highs(c))
    BY LevelsAreSwings
  <1>2. PICK low : low = LowNow(c, w.low) /\ (low # NoSwing => low \in Lows(c))
    BY LevelsAreSwings
  <1>3. PICK old \in Seq(EventType) : old = w.events
    BY DEF WalkHolds, WalkType
  <1> DEFINE Of(e) == e.swing \in IF e.direction = "bullish" THEN Highs(c) ELSE Lows(c)
  <1>4. \A k \in 1 .. Len(old) : Of(old[k])
    <2>1. Highs(b) \subseteq Highs(c) /\ Lows(b) \subseteq Lows(c)
      BY SwingsOfPrefix
    <2> QED
      BY <1>3, <2>1 DEF WalkOfSwings
  <1>5. ASSUME NEW e, Of(e), NEW new, new = Append(old, e)
        PROVE  \A k \in 1 .. Len(new) : Of(new[k])
    <2>1. PICK m \in Nat : m = Len(old)
      OBVIOUS
    <2>2. /\ Len(new) = m + 1 /\ new[m + 1] = e
          /\ \A k \in 1 .. m : new[k] = old[k]
      BY <1>5, <2>1
    <2>3. \A k \in 1 .. m + 1 : k \in 1 .. m \/ k = m + 1
      OBVIOUS
    <2> HIDE DEF Of
    <2> QED
      BY <1>4, <1>5, <2>1, <2>2, <2>3
  <1>6. CASE UpNow(c, w)
    <2>1. PICK e : e = EventNow(c, w, "bullish", high)
      OBVIOUS
    <2>2. e.direction = "bullish" /\ e.swing = high
      BY <2>1 DEF EventNow
    <2>3. Of(e)
      BY <1>1, <1>6, <2>2 DEF UpNow
    <2>4. PICK t : t = Turn(c, Highs(c), Lows(c), w, Len(c))
      OBVIOUS
    <2>5. t = Settle(w, "bullish", high, low, e)
      BY <1>1, <1>2, <1>6, <2>1, <2>4, TurnNow
    <2>6. t.high = NoSwing /\ t.low = low /\ t.events = Append(old, e)
      BY <1>3, <2>5 DEF Settle
    <2>7. \A k \in 1 .. Len(t.events) : Of(t.events[k])
      BY <1>5, <2>3, <2>6
    <2> QED
      BY <1>2, <2>4, <2>6, <2>7 DEF WalkOfSwings
  <1>7. CASE ~UpNow(c, w) /\ DownNow(c, w)
    <2>1. PICK e : e = EventNow(c, w, "bearish", low)
      OBVIOUS
    <2>2. e.direction = "bearish" /\ e.swing = low
      BY <2>1 DEF EventNow
    <2>3. Of(e)
      BY <1>2, <1>7, <2>2 DEF DownNow
    <2>4. PICK t : t = Turn(c, Highs(c), Lows(c), w, Len(c))
      OBVIOUS
    <2>5. t = Settle(w, "bearish", high, low, e)
      BY <1>1, <1>2, <1>7, <2>1, <2>4, TurnNow
    <2>6. t.high = high /\ t.low = NoSwing /\ t.events = Append(old, e)
      BY <1>3, <2>5 DEF Settle
    <2>7. \A k \in 1 .. Len(t.events) : Of(t.events[k])
      BY <1>5, <2>3, <2>6
    <2> QED
      BY <1>1, <2>4, <2>6, <2>7 DEF WalkOfSwings
  <1>8. CASE ~UpNow(c, w) /\ ~DownNow(c, w)
    <2>1. Turn(c, Highs(c), Lows(c), w, Len(c))
            = [w EXCEPT !.high = HighNow(c, w.high), !.low = LowNow(c, w.low)]
      BY <1>8, TurnNow
    <2>2. PICK t : t = [w EXCEPT !.high = high, !.low = low]
      OBVIOUS
    <2>3. t = Turn(c, Highs(c), Lows(c), w, Len(c))
      BY <1>1, <1>2, <2>1, <2>2
    <2>4. t.high = high /\ t.low = low /\ t.events = old
      <3>1. w \in WalkType
        BY DEF WalkHolds
      <3> QED
        BY <1>3, <2>2, <3>1 DEF WalkType
    <2> QED
      BY <1>1, <1>2, <1>4, <2>3, <2>4 DEF WalkOfSwings
  <1> QED
    BY <1>6, <1>7, <1>8

\* Every break is of a swing that the same analysis reports, a high upwards and a
\* low downwards (structure.py:72-93).
BreaksAreOfSwings ==
    \A n \in 1 .. Len(analysis.events) :
        analysis.events[n].swing \in
          IF analysis.events[n].direction = "bullish" THEN analysis.highs ELSE analysis.lows

\* An event of the structure is about a swing that is in the evidence too
\* (structure.py:72-93).
THEOREM BreaksOfSwings == Spec => []BreaksAreOfSwings
  <1> DEFINE Real == WalkOfSwings(bars, Walk(bars))
  <1>1. ASSUME Init PROVE Real
    <2>1. bars = <<>> /\ Walk(bars) = Start
      BY <1>1, FirstWalk DEF Init
    <2>2. Len(<<>>) = 0
      OBVIOUS
    <2> QED
      BY <2>1, <2>2 DEF WalkOfSwings, Start
  <1>2. ASSUME IInv, Real, [Next]_vars PROVE Real'
    <2>1. CASE Next
      <3>1. /\ bars \in Seq(BarShapes) /\ HasWalk(bars) /\ WalkHolds(bars, Walk(bars))
        BY <1>2 DEF IInv
      <3>2. /\ bars' \in Seq(BarShapes) /\ Extends(bars', bars)
            /\ Len(bars') = Len(bars) + 1
        BY <1>2, <2>1, StepIsBar
      <3>3. PICK w : w = Walk(bars) /\ WalkHolds(bars, w) /\ WalkOfSwings(bars, w)
        BY <1>2, <3>1
      <3>4. Walk(bars') = Turn(bars', Highs(bars'), Lows(bars'), w, Len(bars'))
        BY <3>1, <3>2, <3>3, WalkGrows
      <3>5. WalkOfSwings(bars', Turn(bars', Highs(bars'), Lows(bars'), w, Len(bars')))
        BY <3>1, <3>2, <3>3, TurnOfSwings
      <3> QED
        BY <3>4, <3>5
    <2>2. CASE UNCHANGED vars
      BY <1>2, <2>2 DEF vars
    <2> QED
      BY <1>2, <2>1, <2>2
  <1>3. ASSUME IInv, Real PROVE BreaksAreOfSwings
    <2>1. /\ analysis.highs = Highs(bars) /\ analysis.lows = Lows(bars)
          /\ analysis.events = Walk(bars).events
      BY <1>3, Parts DEF IInv
    <2> QED
      BY <1>3, <2>1 DEF BreaksAreOfSwings, WalkOfSwings
  <1> QED
    BY <1>1, <1>2, <1>3, Invariant, PTL DEF Spec

LEMMA ZoneTypes ==
    ASSUME NEW b \in Seq(BarShapes), NEW events \in Seq(EventType),
           \A k \in 1 .. Len(events) : EventHolds(b, events[k])
    PROVE  /\ \A x \in Gaps(b) : /\ x.gap.bottom < x.gap.top
                                 /\ x.filledAt \in {0} \cup 1 .. Len(b)
           /\ \A x \in Blocks(b, events) : /\ x.block.bottom <= x.block.top
                                           /\ x.mitigatedAt \in {0} \cup 1 .. Len(b)
  <1>1. PICK n \in Nat : n = Len(b)
    OBVIOUS
  <1>2. ASSUME NEW S \in SUBSET (1 .. n) PROVE First(S) \in {0} \cup 1 .. n
    <2>1. S \in SUBSET Nat
      OBVIOUS
    <2> QED
      BY <2>1, FirstOf
  <1>3. ASSUME NEW x \in Gaps(b)
        PROVE  x.gap.bottom < x.gap.top /\ x.filledAt \in {0} \cup 1 .. n
    <2>1. PICK i \in 2 .. n - 1, d \in Directions :
            /\ IsGap(b, i, d)
            /\ x = [gap |-> GapAt(b, i, d), filledAt |-> First(Fills(b, GapAt(b, i, d)))]
      BY <1>1, GapMembers
    <2>2. PICK g : g = GapAt(b, i, d)
      OBVIOUS
    <2>3. /\ i - 1 \in 1 .. n /\ i + 1 \in 1 .. n
          /\ \A k \in i + 2 .. n : k \in 1 .. n
      BY <1>1
    <2>4. /\ b[i - 1].high \in Nat /\ b[i - 1].low \in Nat
          /\ b[i + 1].high \in Nat /\ b[i + 1].low \in Nat
      BY <1>1, <2>3, BarAt
    <2>5. g.index = i /\ g.bottom < g.top
      BY <2>1, <2>2, <2>4 DEF GapAt, IsGap
    <2>6. Fills(b, g) \in SUBSET (1 .. n)
      BY <1>1, <2>3, <2>5 DEF Fills
    <2> QED
      BY <1>2, <2>1, <2>2, <2>5, <2>6
  <1>4. ASSUME NEW x \in Blocks(b, events)
        PROVE  x.block.bottom <= x.block.top /\ x.mitigatedAt \in {0} \cup 1 .. n
    <2>1. PICK k \in DOMAIN events :
            /\ BacksBlock(b, events[k])
            /\ x = [block |-> BlockOf(b, events[k]),
                    mitigatedAt |-> First(Touches(b, BlockOf(b, events[k])))]
      BY BlockMembers
    <2>2. PICK e \in EventType : e = events[k] /\ EventHolds(b, e)
      OBVIOUS
    <2>3. PICK t \in 1 .. n : t = e.index
      BY <1>1, <2>2 DEF EventHolds
    <2>4. PICK j \in 1 .. n : j = Max(Against(b, e))
      <3>1. Against(b, e) \in SUBSET (0 .. n) /\ Against(b, e) \in SUBSET (1 .. n)
        BY <2>3 DEF Against
      <3>2. Against(b, e) # {}
        BY <2>1, <2>2 DEF BacksBlock
      <3> QED
        BY <3>1, <3>2, GreatestNatural
    <2>5. PICK o : o = BlockOf(b, e)
      OBVIOUS
    <2>6. o.breakIndex = t /\ o.top = b[j].high /\ o.bottom = b[j].low
      BY <2>3, <2>4, <2>5 DEF BlockOf
    <2>7. o.bottom <= o.top
      BY <1>1, <2>6, BarAt
    <2>8. Touches(b, o) \in SUBSET (1 .. n)
      <3>1. \A i \in t + 1 .. n : i \in 1 .. n
        OBVIOUS
      <3> QED
        BY <1>1, <2>6, <3>1 DEF Touches
    <2> QED
      BY <1>2, <2>1, <2>2, <2>5, <2>7, <2>8
  <1> QED
    BY <1>1, <1>3, <1>4

\* A sweep is of the price of a known swing.
LEMMA SweepTypes ==
    ASSUME NEW b \in Seq(BarShapes), NEW s \in Sweeps(b)
    PROVE  s.index \in 1 .. Len(b) /\ s.swing \in 1 .. Len(b)
  <1>1. PICK n \in Nat : n = Len(b)
    OBVIOUS
  <1>2. \A t \in Highs(b) \cup Lows(b) : t.index \in 1 .. n
    <2>1. ASSUME NEW t \in Highs(b) \cup Lows(b) PROVE t.index \in 1 .. n
      <3>1. PICK i \in Nat : i = t.index /\ Lookback + 1 <= i /\ i + Lookback <= n
        BY <1>1, SwingTypes
      <3> QED
        BY <3>1, LookbackType
    <2> QED
      BY <2>1
  <1>3. PICK i \in 1 .. n, side \in {"buy_side", "sell_side"},
             swings \in SUBSET (Highs(b) \cup Lows(b)) : s \in SweepsAt(b, i, side, swings)
    BY <1>1 DEF Sweeps
  <1>4. PICK v : /\ v \in Levels({t.price : t \in Known(swings, i)})
                 /\ s = [index |-> i, side |-> side, level |-> v,
                         swing |-> SweptSwing(Known(swings, i), v)]
    BY <1>3 DEF SweepsAt
  <1>5. PICK t \in Known(swings, i) : t.price = v
    BY <1>4 DEF Levels
  <1> DEFINE indices == {u.index : u \in {x \in Known(swings, i) : x.price = v}}
  <1>6. indices \in SUBSET (1 .. n) /\ indices # {}
    BY <1>2, <1>3, <1>5 DEF Known
  <1>7. Min(indices) \in indices
    <2> HIDE DEF indices
    <2>1. indices \in SUBSET Nat
      BY <1>6
    <2> QED
      BY <1>6, <2>1, LeastNatural
  <1>8. SweptSwing(Known(swings, i), v) \in 1 .. n
    BY <1>6, <1>7 DEF SweptSwing
  <1> QED
    BY <1>1, <1>4, <1>8

\* An analysis is well typed: its events, swings, fills, mitigations and sweeps
\* name bars of the series, and no zone is upside down (fvg.py:18-35,
\* order_blocks.py:33-52, liquidity.py:40-58).
THEOREM AnalysisTypes == Spec => []TypeOK
  <1>1. ASSUME IInv, BreaksAreOfSwings PROVE TypeOK
    <2>1. PICK b \in Seq(BarShapes) : b = bars /\ WalkHolds(b, Walk(b))
      BY <1>1 DEF IInv
    <2>2. PICK n \in Nat : n = Len(b) /\ DOMAIN b = 1 .. n
      OBVIOUS
    <2>3. PICK a : a = analysis /\ a = Analyse(b)
      BY <1>1, <2>1 DEF IInv
    <2>4. /\ a.highs = Highs(b) /\ a.lows = Lows(b)
          /\ a.gaps = Gaps(b) /\ a.blocks = Blocks(b, a.events) /\ a.sweeps = Sweeps(b)
          /\ a.displacements = {i \in 1 .. n : IsDisplacement(b, i)}
      BY <2>1, <2>2, <2>3, Parts
    <2>5. PICK events \in Seq(EventType) :
            /\ events = a.events
            /\ \A k \in 1 .. Len(events) : EventHolds(b, events[k])
            /\ a.trend \in Directions \cup {"none"}
      BY <2>1, <2>3, Parts DEF WalkHolds, WalkType
    <2>6. \A s \in Highs(b) \cup Lows(b) : SwingOK(s)
      <3>1. ASSUME NEW s \in Highs(b) \cup Lows(b) PROVE SwingOK(s)
        <4>1. PICK i \in Nat : i = s.index /\ Lookback + 1 <= i /\ i + Lookback <= n
          BY <2>2, SwingTypes
        <4>2. PICK l \in Nat : l = Lookback
          BY LookbackType
        <4>3. i \in l + 1 .. n - l
          BY <4>1, <4>2
        <4>4. s.price \in Nat \ {0}
          BY SwingTypes
        <4> QED
          BY <2>1, <2>2, <4>1, <4>2, <4>3, <4>4 DEF SwingOK, Inner
      <3> QED
        BY <3>1
    <2>7. ASSUME NEW k \in DOMAIN events
          PROVE  /\ events[k].kind \in {"BOS", "CHoCH"} /\ events[k].direction \in Directions
                 /\ events[k].index \in 1 .. n /\ SwingOK(events[k].swing)
      <3>1. k \in 1 .. Len(events) /\ events[k] \in EventType
        OBVIOUS
      <3>2. events[k].swing \in Highs(b) \cup Lows(b)
        BY <1>1, <2>3, <2>4, <2>5, <3>1 DEF BreaksAreOfSwings
      <3>3. events[k].index \in 1 .. n
        BY <2>2, <2>5, <3>1 DEF EventHolds
      <3> QED
        BY <2>6, <3>1, <3>2, <3>3 DEF EventType
    <2>8. /\ \A x \in Gaps(b) : /\ x.gap.bottom < x.gap.top
                                /\ x.filledAt \in {0} \cup 1 .. n
          /\ \A x \in Blocks(b, events) : /\ x.block.bottom <= x.block.top
                                          /\ x.mitigatedAt \in {0} \cup 1 .. n
      BY <2>2, <2>5, ZoneTypes
    <2>9. \A s \in Sweeps(b) : s.index \in 1 .. n /\ s.swing \in 1 .. n
      BY <2>2, SweepTypes
    <2>10. Len(bars) <= MaxBars /\ bars \in Seq(BarShapes)
      BY <1>1 DEF IInv
    <2> QED
      BY <2>1, <2>2, <2>3, <2>4, <2>5, <2>6, <2>7, <2>8, <2>9, <2>10 DEF TypeOK
  <1> QED
    BY <1>1, Invariant, BreaksOfSwings, PTL
-----------------------------------------------------------------------------
(* With one timeframe.                                                     *)

LEMMA SameCardinality == ASSUME NEW S PROVE C!Cardinality(S) = Cardinality(S)
  BY DEF C!Cardinality, Cardinality

\* The votes of the one timeframe.
LEMMA VotesOfOne ==
    ASSUME NEW e, NEW d
    PROVE  C!Votes(e, d) = IF e.trend["M15"] = d THEN 1 ELSE 0
  <1>1. CASE e.trend["M15"] = d
    <2>1. {tf \in {"M15"} : e.trend[tf] = d} = {"M15"}
      BY <1>1
    <2>2. Cardinality({"M15"}) = 1
      BY FS_Singleton
    <2> QED
      BY <1>1, <2>1, <2>2, SameCardinality DEF C!Votes
  <1>2. CASE e.trend["M15"] # d
    <2>1. {tf \in {"M15"} : e.trend[tf] = d} = {}
      BY <1>2
    <2>2. Cardinality({}) = 0
      BY FS_EmptySet
    <2> QED
      BY <1>2, <2>1, <2>2, SameCardinality DEF C!Votes
  <1> QED
    BY <1>1, <1>2

\* What README.md:39 and pipeline.py:4-5 say and what several timeframes break
\* (Confluence) is true of an analysis of the primary timeframe alone: it ends in
\* a classification, and a setup's direction is the bias.
THEOREM OneTimeframeAgrees ==
    PipelineSpec => [](C!AlwaysClassified /\ C!BiasAgrees)
  <1>1. ASSUME PipelineIInv PROVE C!AlwaysClassified /\ C!BiasAgrees
    <2>1. result = ResultOf(bars, analysis, evidence)
      BY <1>1 DEF PipelineIInv
    <2>2. CASE Len(bars) < 2 * Lookback + 3
      BY <2>1, <2>2 DEF ResultOf, TooShort, C!AlwaysClassified, C!BiasAgrees
    <2>3. CASE ~(Len(bars) < 2 * Lookback + 3)
      <3>1. PICK c : c = C!Analysis(evidence)
        OBVIOUS
      <3>2. result = [c EXCEPT !.levels = IF @ THEN LevelsOf(analysis, c.direction) ELSE NoLevels]
        BY <2>1, <2>3, <3>1 DEF ResultOf
      <3>3. PICK d : d = C!Best(evidence) /\ d \in Directions
        BY DEF C!Best, Directions
      <3>4. C!Factors(evidence, d).structure <=> evidence.trend["M15"] = d
        BY DEF C!Factors
      <3>5. ~C!Raises(evidence)
        BY <3>3, <3>4 DEF C!Raises, Directions
      <3>6. PICK status, direction, bias, levels :
              /\ c = [status |-> status, direction |-> direction, bias |-> bias,
                      levels |-> levels]
              /\ status = C!Status(evidence) /\ bias = C!Bias(evidence)
              /\ direction = IF status = "SETUP" THEN d ELSE "no_trade"
        BY <3>1, <3>3, <3>5 DEF C!Analysis
      <3>7. /\ result.status = status /\ result.direction = direction
            /\ result.bias = bias
        BY <3>2, <3>6
      <3>8. status \in {"SETUP", "NO_SETUP", "INSUFFICIENT_CONFIRMATION"}
        BY <3>6 DEF C!Status
      <3>9. ASSUME status = "SETUP" PROVE bias = d
        <4>1. C!IsSetup(evidence, d)
          BY <3>3, <3>6, <3>9 DEF C!Status
        <4>2. evidence.trend["M15"] = d
          BY <3>4, <4>1 DEF C!IsSetup
        <4>3. /\ C!Votes(evidence, d) = 1
              /\ \A o \in Directions : o # d => C!Votes(evidence, o) = 0
          BY <4>2, VotesOfOne
        <4> QED
          BY <3>3, <3>6, <4>3 DEF C!Bias, Directions
      <3>10. Opposite(d) # d
        BY <3>3 DEF Opposite, Directions
      <3>11. C!Opposite(d) = Opposite(d)
        BY DEF C!Opposite, Opposite
      <3>12. C!AlwaysClassified
        BY <3>7, <3>8 DEF C!AlwaysClassified
      <3>13. C!BiasAgrees
        BY <3>6, <3>7, <3>9, <3>10, <3>11 DEF C!BiasAgrees
      <3> QED
        BY <3>12, <3>13
    <2> QED
      BY <2>2, <2>3
  <1> QED
    BY <1>1, PipelineInvariant, PTL

\* The distance between entry and stop: a tenth of the zone's width at least.
LEMMA RiskOf ==
    ASSUME NEW a, NEW d \in Directions, NEW zone, zone = EntryZone(a, d),
           zone.top \in Nat, zone.bottom \in Nat, zone.bottom <= zone.top, MinWidth >= 1
    PROVE  \E risk \in Nat : \E entry \in Int :
             /\ risk >= 1 /\ entry = LevelsOf(a, d).entry
             /\ \A k \in 1 .. 3 :
                  LevelsOf(a, d).targets[k] = Towards(d, entry, risk * (RiskReward + k - 1))
  <1>1. PICK top \in Nat, bottom \in Nat : top = zone.top /\ bottom = zone.bottom /\ bottom <= top
    OBVIOUS
  <1>2. PICK width \in Nat : width = Max({zone.top - zone.bottom, MinWidth})
    <2>1. zone.top - zone.bottom \in Int
      BY <1>1
    <2> QED
      BY <2>1, WidthType
  <1>3. width >= 1
    <2>1. MinWidth \in Nat /\ zone.top - zone.bottom \in Int
      BY <1>1, PipelineAssumption
    <2>2. width \in {zone.top - zone.bottom, MinWidth} /\ width >= MinWidth
      <3>1. \E x \in {zone.top - zone.bottom, MinWidth} :
              \A y \in {zone.top - zone.bottom, MinWidth} : x >= y
        BY <2>1
      <3> QED
        BY <1>2, <3>1 DEF Max
    <2> QED
      BY <2>1, <2>2
  <1>4. PICK entry \in Int : entry = 10 * (top + bottom)
    OBVIOUS
  <1>5. PICK stop \in Int :
          stop = Towards(Opposite(d), 20 * (IF d = "bullish" THEN bottom ELSE top), 2 * width)
    <2>1. PICK edge \in Nat : edge = IF d = "bullish" THEN bottom ELSE top
      BY <1>1
    <2>2. 20 * edge + 2 * width \in Int /\ 20 * edge - 2 * width \in Int
      BY <1>2, <2>1
    <2> QED
      BY <2>1, <2>2 DEF Towards
  <1>6. PICK risk \in Nat : risk = Abs(entry - stop) /\ risk >= 1
    <2>1. CASE d = "bullish"
      <3>1. stop = 20 * bottom - 2 * width
        BY <1>5, <2>1 DEF Towards, Opposite
      <3>2. entry - stop \in Nat /\ entry - stop >= 1
        BY <1>1, <1>3, <1>4, <3>1
      <3> QED
        BY <3>2 DEF Abs
    <2>2. CASE d = "bearish"
      <3>1. stop = 20 * top + 2 * width
        BY <1>5, <2>2 DEF Towards, Opposite
      <3>2. /\ entry - stop \in Int /\ ~(entry - stop >= 0)
            /\ 0 - (entry - stop) \in Nat /\ 0 - (entry - stop) >= 1
            /\ -(entry - stop) = 0 - (entry - stop)
        BY <1>1, <1>2, <1>3, <1>4, <1>5, <3>1
      <3>3. PICK x \in Int : x = entry - stop /\ x < 0 /\ -x \in Nat /\ -x >= 1
        BY <3>2
      <3>4. Abs(x) = -x
        BY <3>3 DEF Abs
      <3> QED
        BY <3>3, <3>4
    <2> QED
      BY <2>1, <2>2 DEF Directions
  <1>7. /\ LevelsOf(a, d).entry = entry
        /\ LevelsOf(a, d).targets =
             [k \in 1 .. 3 |-> Towards(d, entry, risk * (RiskReward + k - 1))]
    BY <1>1, <1>2, <1>4, <1>5, <1>6 DEF LevelsOf
  <1> QED
    BY <1>6, <1>7

\* With a risk/reward target of one or more (schemas/signal.py:31 does not ask for
\* it) the targets of a setup are on the profitable side of its entry.
THEOREM ProfitableTargets ==
    ASSUME RiskReward >= 1, MinWidth >= 1
    PROVE  PipelineSpec => []TargetsAreProfits
  <1>1. ASSUME PipelineIInv, HasLevels, NEW k \in 1 .. 3
        PROVE  Loses(result.levels.entry, result.levels.targets[k])
    <2>1. PICK b \in Seq(BarShapes) : b = bars /\ WalkHolds(b, Walk(b)) /\ analysis = Analyse(b)
      BY <1>1 DEF PipelineIInv, IInv
    <2>2. PICK d \in Directions :
             /\ result.direction = d
             /\ result.levels = LevelsOf(analysis, d)
             /\ d \in evidence.primaryObs \cup evidence.primaryFvgs
      BY <1>1, LevelsAre
    <2>3. PICK a, zone : a = analysis /\ zone = EntryZone(a, d)
      OBVIOUS
    <2>4. zone \in ActiveBlocks(a) \cup ActiveGaps(a)
      <3>1. d \in DirectionsOf(ActiveBlocks(a)) \cup DirectionsOf(ActiveGaps(a))
        BY <1>1, <2>2, <2>3 DEF PipelineIInv, EvidenceOf
      <3>2. WalkHolds(b, Walk(b)) /\ a = Analyse(b)
        BY <2>1, <2>3
      <3> QED
        BY ONLY <2>3, <3>1, <3>2, ZoneIs, b \in Seq(BarShapes)
    <2>5. zone.top \in Nat /\ zone.bottom \in Nat /\ zone.bottom <= zone.top
      <3>1. WalkHolds(b, Walk(b)) /\ a = Analyse(b)
        BY <2>1, <2>3
      <3> QED
        BY ONLY <2>4, <3>1, ActivePrices, b \in Seq(BarShapes)
    <2>6. PICK risk \in Nat, entry \in Int :
             /\ risk >= 1 /\ entry = LevelsOf(a, d).entry
             /\ \A j \in 1 .. 3 :
                  LevelsOf(a, d).targets[j] = Towards(d, entry, risk * (RiskReward + j - 1))
      BY <2>3, <2>5, RiskOf
    <2>7. PICK gain \in Int : gain = risk * (RiskReward + k - 1) /\ gain >= 1
      <3>1. PICK times \in Int : times = RiskReward + k - 1 /\ times >= 1
        BY PipelineAssumption
      <3>2. risk * times \in Int /\ risk * times >= 1
        BY <2>6, <3>1
      <3> QED
        BY <3>1, <3>2
    <2>8. /\ result.levels.entry = entry
          /\ result.levels.targets[k] = Towards(d, entry, gain)
      BY <2>2, <2>3, <2>6, <2>7
    <2> QED
      <3>1. CASE d = "bullish"
        BY <2>2, <2>7, <2>8, <3>1 DEF Loses, Towards
      <3>2. CASE d = "bearish"
        BY <2>2, <2>7, <2>8, <3>2 DEF Loses, Towards
      <3> QED
        BY <3>1, <3>2 DEF Directions
  <1>2. ASSUME PipelineIInv PROVE TargetsAreProfits
    BY <1>1, <1>2 DEF TargetsAreProfits
  <1> QED
    BY <1>2, PipelineInvariant, PTL
=============================================================================
