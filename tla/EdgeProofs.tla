----------------------------- MODULE EdgeProofs -----------------------------
(***************************************************************************)
(* Proofs about the two ends of the server: what RateLimit lets in and     *)
(* what Delivery sends out.                                                *)
(*                                                                         *)
(* RateLimit, for any clients, limit, window and bound on the clock.  The  *)
(* deque is the end of the list of admitted requests: what it has          *)
(* forgotten is older than the window (Faithful).  Hence a request let     *)
(* through is more than a window away from the one max_requests before it  *)
(* (Spaced), wherever the window is laid.                                  *)
(*                                                                         *)
(* Delivery, for any number of codes and crashes: a reported success is    *)
(* true, and the two channels implement Courier.                           *)
(***************************************************************************)
EXTENDS RateLimit, Delivery, FiniteSetTheorems, SequenceTheorems, TLAPS

-----------------------------------------------------------------------------
(* RateLimit.                                                              *)

\* The requests that got through are listed in the order of their times.
Sorted(adm) ==
    /\ \A i \in 1 .. Len(adm) : adm[i] <= now
    /\ \A i, j \in 1 .. Len(adm) : i <= j => adm[i] <= adm[j]

\* The deque is the end of the list, and what precedes it is old.
Faithful(adm, window) ==
    /\ Len(window) <= Len(adm)
    /\ \A i \in 1 .. Len(window) :
         window[i] = adm[Len(adm) - Len(window) + i]
    /\ \A i \in 1 .. Len(adm) - Len(window) : now - adm[i] > window_seconds

\* The max_requests-th request after another is more than a window later.
Spaced(adm) ==
    \A i \in 1 .. Len(adm) - max_requests :
        adm[i + max_requests] - adm[i] > window_seconds

LimiterIInv ==
    /\ LimiterTypeOK
    /\ \A c \in Clients :
         /\ Sorted(admitted[c])
         /\ Faithful(admitted[c], hits[c])
         /\ Spaced(admitted[c])
    /\ RefusedOnlyWhenFull

-----------------------------------------------------------------------------
(* Facts about numbers and sequences.                                      *)

\* A nonempty set of naturals has a least element: of the intervals from 0 to
\* its members one includes no other.
LEMMA LeastNatural ==
    ASSUME NEW S \in SUBSET Nat, S # {}
    PROVE  Min(S) \in S /\ \A k \in S : Min(S) <= k
  <1> DEFINE Below == {0 .. k : k \in S}
  <1>1. IsWellFoundedOn(StrictSubsetOrdering(Nat), FiniteSubsetsOf(Nat))
    BY FS_StrictSubsetOrderingWellFounded
  <1>2. Below \subseteq FiniteSubsetsOf(Nat)
    <2> SUFFICES ASSUME NEW k \in S PROVE 0 .. k \in FiniteSubsetsOf(Nat)
      OBVIOUS
    <2>1. k \in Nat /\ 0 \in Int /\ k \in Int
      OBVIOUS
    <2>2. IsFiniteSet(0 .. k)
      BY <2>1, FS_Interval
    <2>3. 0 .. k \in SUBSET Nat
      BY <2>1
    <2> QED
      BY <2>2, <2>3 DEF FiniteSubsetsOf
  <1>3. Below # {}
    OBVIOUS
  <1>4. \E T \in Below : \A U \in Below : <<U, T>> \notin StrictSubsetOrdering(Nat)
    <2> HIDE DEF Below
    <2> QED
      BY <1>1, <1>2, <1>3, WFMin
  <1>5. PICK m \in S : \A k \in S : <<0 .. k, 0 .. m>> \notin StrictSubsetOrdering(Nat)
    BY <1>4
  <1>6. ASSUME NEW k \in S PROVE m <= k
    <2>1. k \in Nat /\ m \in Nat
      OBVIOUS
    <2> SUFFICES ASSUME k < m PROVE FALSE
      BY <2>1
    <2>2. 0 .. k \in SUBSET Nat /\ 0 .. m \in SUBSET Nat /\ 0 .. k \subseteq 0 .. m
      BY <2>1
    <2>3. m \in 0 .. m /\ m \notin 0 .. k
      BY <2>1
    <2>4. <<0 .. k, 0 .. m>> \in StrictSubsetOrdering(Nat)
      BY <2>2, <2>3 DEF StrictSubsetOrdering
    <2> QED
      BY <1>5, <2>4
  <1> QED
    BY <1>6 DEF Min

\* Prune drops a beginning of the window that is old, and nothing else if the
\* window is empty or begins with a request that is not.
LEMMA PruneDropsOld ==
    ASSUME NEW window \in Seq(Nat), now \in Nat, window_seconds \in Nat
    PROVE  \E d \in 0 .. Len(window) :
             /\ Prune(window) = SubSeq(window, d + 1, Len(window))
             /\ Prune(window) \in Seq(Nat)
             /\ Len(Prune(window)) = Len(window) - d
             /\ \A i \in 1 .. Len(window) - d : Prune(window)[i] = window[d + i]
             /\ \A i \in 1 .. d : now - window[i] > window_seconds
             /\ d < Len(window) => now - window[d + 1] <= window_seconds
  <1> DEFINE young == {i \in DOMAIN window : now - window[i] <= window_seconds}
             S == young \cup {Len(window) + 1}
             first == Min(S)
  <1>1. PICK n \in Nat : n = Len(window) /\ DOMAIN window = 1 .. n
    OBVIOUS
  <1>2. S \in SUBSET Nat /\ S # {}
    BY <1>1
  <1>3. first \in S /\ \A k \in S : first <= k
    <2> HIDE DEF S
    <2> QED
      BY <1>2, LeastNatural
  <1> HIDE DEF first
  <1>4. PICK d \in 0 .. n : first = d + 1
    <2>1. first \in 1 .. n + 1
      BY <1>1, <1>3
    <2>2. first - 1 \in 0 .. n /\ first = (first - 1) + 1
      BY <2>1
    <2> QED
      BY <2>2
  <1>5. Prune(window) = SubSeq(window, d + 1, n)
    BY <1>1, <1>4 DEF Prune, first
  <1>6. \A i \in 1 .. d : now - window[i] > window_seconds
    <2> SUFFICES ASSUME NEW i \in 1 .. d PROVE now - window[i] > window_seconds
      OBVIOUS
    <2>1. i \in 1 .. n /\ ~ (first <= i) /\ window[i] \in Nat
      BY <1>1, <1>4
    <2>2. i \notin young
      BY <1>3, <2>1
    <2> QED
      BY <1>1, <2>1, <2>2
  <1>7. d < n => now - window[d + 1] <= window_seconds
    BY <1>1, <1>3, <1>4
  <1>8. /\ SubSeq(window, d + 1, n) \in Seq(Nat)
        /\ Len(SubSeq(window, d + 1, n)) = n - d
        /\ \A i \in 1 .. n - d : SubSeq(window, d + 1, n)[i] = window[d + i]
    <2>1. d + 1 \in Int /\ n \in Int /\ \A i \in d + 1 .. n : window[i] \in Nat
      BY <1>1
    <2>2. /\ SubSeq(window, d + 1, n) \in Seq(Nat)
          /\ Len(SubSeq(window, d + 1, n)) = IF d + 1 <= n THEN n - (d + 1) + 1 ELSE 0
          /\ \A i \in 1 .. n - (d + 1) + 1 :
               SubSeq(window, d + 1, n)[i] = window[(d + 1) + i - 1]
      BY <2>1, SubSeqProperties
    <2>3. \A i \in 1 .. n - d : (d + 1) + i - 1 = d + i
      OBVIOUS
    <2>4. n - (d + 1) + 1 = n - d /\ (~ (d + 1 <= n) => n - d = 0)
      OBVIOUS
    <2> QED
      BY <2>2, <2>3, <2>4
  <1> QED
    BY <1>1, <1>5, <1>6, <1>7, <1>8

\* A sequence with an element more.
LEMMA Appended ==
    ASSUME NEW s \in Seq(Nat), NEW t \in Nat, NEW n \in Nat, n = Len(s)
    PROVE  /\ Append(s, t) \in Seq(Nat) /\ Len(Append(s, t)) = n + 1
           /\ Append(s, t)[n + 1] = t
           /\ \A i \in 1 .. n : Append(s, t)[i] = s[i]
  OBVIOUS

\* A sequence whose elements are all in a set.
LEMMA SeqIn ==
    ASSUME NEW T, NEW s \in Seq(Nat), \A i \in 1 .. Len(s) : s[i] \in T
    PROVE  s \in Seq(T)
  <1>1. Len(s) \in Nat /\ s = [i \in 1 .. Len(s) |-> s[i]]
    OBVIOUS
  <1>2. s \in [1 .. Len(s) -> T]
    BY <1>1
  <1> QED
    BY <1>1, <1>2

\* Indices that lie less than n apart are at most n.
LEMMA CloseIndices ==
    ASSUME NEW n \in Nat, NEW S \in SUBSET Nat,
           \A i, j \in S : j < i + n
    PROVE  IsFiniteSet(S) /\ Cardinality(S) <= n
  <1>1. CASE S = {}
    BY <1>1, FS_EmptySet
  <1>2. CASE S # {}
    <2>1. PICK m \in S : \A k \in S : m <= k
      BY <1>2, LeastNatural
    <2>2. m \in Nat /\ m \in Int /\ m + n - 1 \in Int
      OBVIOUS
    <2>3. S \subseteq m .. m + n - 1
      BY <2>1, <2>2
    <2>4. m < m + n
      OBVIOUS
    <2>5. IsFiniteSet(m .. m + n - 1) /\ Cardinality(m .. m + n - 1) = n
      BY <2>2, <2>4, FS_Interval
    <2> QED
      BY <2>3, <2>5, FS_Subset
  <1> QED
    BY <1>1, <1>2

-----------------------------------------------------------------------------
(* One request.                                                            *)

\* What a client's request finds: its window is the end of the list still, all
\* young, and what precedes it is old.
LEMMA Pruned ==
    ASSUME LimiterIInv, NEW c \in Clients
    PROVE  /\ Prune(hits[c]) \in Seq(Nat)
           /\ Len(Prune(hits[c])) <= max_requests
           /\ Faithful(admitted[c], Prune(hits[c]))
           /\ \A i \in 1 .. Len(Prune(hits[c])) :
                Prune(hits[c])[i] \in 0 .. now /\ now - Prune(hits[c])[i] <= window_seconds
  <1>1. /\ now \in Nat /\ window_seconds \in Nat /\ max_requests \in Nat /\ MaxTime \in Nat
        /\ hits[c] \in Seq(Nat) /\ admitted[c] \in Seq(Nat) /\ Len(hits[c]) <= max_requests
    <2>1. 0 .. MaxTime \subseteq Nat
      OBVIOUS
    <2>2. hits[c] \in Seq(0 .. MaxTime) /\ admitted[c] \in Seq(0 .. MaxTime)
      BY DEF LimiterIInv, LimiterTypeOK
    <2> QED
      BY <2>1, <2>2, LimiterAssumption DEF LimiterIInv, LimiterTypeOK
  <1>2. Sorted(admitted[c]) /\ Faithful(admitted[c], hits[c])
    BY DEF LimiterIInv
  <1> DEFINE h == hits[c]
             p == Prune(h)
             adm == admitted[c]
  <1>3. PICK d \in 0 .. Len(h) :
             /\ p = SubSeq(h, d + 1, Len(h))
             /\ p \in Seq(Nat)
             /\ Len(p) = Len(h) - d
             /\ \A i \in 1 .. Len(h) - d : p[i] = h[d + i]
             /\ \A i \in 1 .. d : now - h[i] > window_seconds
             /\ d < Len(h) => now - h[d + 1] <= window_seconds
    BY <1>1, PruneDropsOld
  <1> HIDE DEF p
  <1>4. PICK k \in Nat : k = Len(h)
    BY <1>1
  <1>5. PICK n \in Nat : n = Len(adm) /\ k <= n
    BY <1>1, <1>2, <1>4 DEF Faithful
  <1>51. d \in Nat /\ d <= k /\ n - k \in Nat /\ \A i \in 1 .. n : adm[i] \in Nat
    <2>1. d \in 0 .. k
      BY <1>4
    <2>2. \A i \in 1 .. Len(adm) : adm[i] \in Nat
      <3>1. adm \in Seq(Nat)
        BY <1>1
      <3> HIDE DEF adm
      <3> QED
        BY <3>1
    <2> QED
      BY <1>5, <2>1, <2>2
  <1>6. \A i \in 1 .. k : h[i] = adm[n - k + i]
    BY <1>2, <1>4, <1>5 DEF Faithful
  <1>7. \A i \in 1 .. n - k : now - adm[i] > window_seconds
    BY <1>2, <1>4, <1>5 DEF Faithful
  <1>8. \A i \in 1 .. k - d : p[i] = adm[n - (k - d) + i]
    <2> SUFFICES ASSUME NEW i \in 1 .. k - d PROVE p[i] = adm[n - (k - d) + i]
      OBVIOUS
    <2>1. d + i \in 1 .. k /\ n - k + (d + i) = n - (k - d) + i
      BY <1>3, <1>4
    <2> QED
      BY <1>3, <1>4, <1>6, <2>1
  <1>9. \A i \in 1 .. n - (k - d) : now - adm[i] > window_seconds
    <2> SUFFICES ASSUME NEW i \in 1 .. n - (k - d) PROVE now - adm[i] > window_seconds
      OBVIOUS
    <2>1. CASE i <= n - k
      BY <1>7, <2>1
    <2>2. CASE i > n - k
      <3>1. i - (n - k) \in 1 .. d /\ i - (n - k) \in 1 .. k /\ n - k + (i - (n - k)) = i
        BY <1>51, <2>2
      <3>2. now - h[i - (n - k)] > window_seconds /\ h[i - (n - k)] = adm[n - k + (i - (n - k))]
        BY <1>3, <1>6, <3>1
      <3> QED
        BY <3>1, <3>2
    <2> QED
      BY <1>51, <2>1, <2>2
  <1>10. Faithful(adm, p)
    <2>1. Len(p) = k - d /\ Len(p) <= n
      BY <1>3, <1>4, <1>5
    <2> QED
      BY <1>5, <1>8, <1>9, <2>1 DEF Faithful
  <1>11. ASSUME NEW i \in 1 .. Len(p) PROVE p[i] \in 0 .. now /\ now - p[i] <= window_seconds
    <2>1. i \in 1 .. k - d /\ d < k /\ 1 \in 1 .. k - d
      BY <1>3, <1>4, <1>11
    <2>2. p[1] = h[d + 1] /\ now - p[1] <= window_seconds
      BY <1>3, <1>4, <2>1
    <2>3. n - (k - d) + 1 \in 1 .. n /\ n - (k - d) + i \in 1 .. n
          /\ n - (k - d) + 1 <= n - (k - d) + i
      BY <1>5, <2>1
    <2>4. adm[n - (k - d) + 1] <= adm[n - (k - d) + i] /\ adm[n - (k - d) + i] <= now
      BY <1>2, <1>5, <2>3 DEF Sorted
    <2>5. adm[n - (k - d) + 1] \in Nat /\ adm[n - (k - d) + i] \in Nat
      BY <1>51, <2>3
    <2>6. p[1] = adm[n - (k - d) + 1] /\ p[i] = adm[n - (k - d) + i]
      BY <1>8, <2>1
    <2>7. p[i] \in Nat /\ p[1] \in Nat /\ p[1] <= p[i] /\ p[i] <= now
      BY <2>4, <2>5, <2>6
    <2>8. PICK old \in Nat, young \in Nat : old = p[1] /\ young = p[i]
      BY <2>7
    <2>9. now \in Nat /\ window_seconds \in Nat
      BY <1>1
    <2>10. young \in 0 .. now /\ now - young <= window_seconds
      BY <2>2, <2>7, <2>8, <2>9
    <2> QED
      BY <2>8, <2>10
  <1>12. Len(p) <= max_requests
    BY <1>1, <1>3, <1>4
  <1> QED
    BY <1>3, <1>10, <1>11, <1>12 DEF p

\* A request let through: the list grows by a request that is not old, whose
\* max_requests-th predecessor the window has dropped.
LEMMA AdmitKeeps ==
    ASSUME LimiterIInv, NEW c \in Clients, Admit(c)
    PROVE  (Sorted(admitted[c]) /\ Faithful(admitted[c], hits[c]) /\ Spaced(admitted[c]))'
  <1> DEFINE p == Prune(hits[c])
             adm == admitted[c]
  <1>1. /\ now \in Nat /\ window_seconds \in Nat /\ max_requests \in Nat
        /\ adm \in Seq(Nat) /\ max_requests > 0
    <2>1. 0 .. MaxTime \subseteq Nat
      BY LimiterAssumption
    <2>2. admitted[c] \in Seq(0 .. MaxTime)
      BY DEF LimiterIInv, LimiterTypeOK
    <2> QED
      BY <2>1, <2>2, LimiterAssumption DEF LimiterIInv, LimiterTypeOK
  <1>2. /\ p \in Seq(Nat) /\ Len(p) < max_requests
        /\ Faithful(adm, p)
    BY Pruned DEF Admit
  <1>3. Sorted(adm) /\ Spaced(adm)
    BY DEF LimiterIInv
  <1>4. hits'[c] = Append(p, now) /\ admitted'[c] = Append(adm, now) /\ now' = now
    BY DEF Admit, LimiterIInv, LimiterTypeOK
  <1> HIDE DEF p, adm
  <1>5. PICK k \in Nat : k = Len(p)
    BY <1>2
  <1>6. PICK n \in Nat : n = Len(adm) /\ k <= n /\ \A i \in 1 .. n : adm[i] \in Nat
    <2>1. PICK n \in Nat : n = Len(adm) /\ \A i \in 1 .. n : adm[i] \in Nat
      BY <1>1
    <2>2. k <= n
      BY <1>2, <1>5, <2>1 DEF Faithful
    <2> QED
      BY <2>1, <2>2
  <1>7. /\ \A i \in 1 .. k : p[i] = adm[n - k + i]
        /\ \A i \in 1 .. n - k : now - adm[i] > window_seconds
    BY <1>2, <1>5, <1>6 DEF Faithful
  <1> DEFINE new == Append(adm, now)
             win == Append(p, now)
  <1>8. /\ Len(new) = n + 1 /\ new[n + 1] = now
        /\ \A i \in 1 .. n : new[i] = adm[i]
    BY <1>1, <1>6, Appended
  <1>9. /\ Len(win) = k + 1 /\ win[k + 1] = now
        /\ \A i \in 1 .. k : win[i] = p[i]
    BY <1>1, <1>2, <1>5, Appended
  <1> HIDE DEF new, win
  <1>10. Sorted(new)
    <2>1. \A i \in 1 .. n : adm[i] <= now
      BY <1>3, <1>6 DEF Sorted
    <2>2. \A i, j \in 1 .. n : i <= j => adm[i] <= adm[j]
      BY <1>3, <1>6 DEF Sorted
    <2>3. \A i \in 1 .. n + 1 : new[i] <= now
      BY <1>1, <1>8, <2>1
    <2>4. ASSUME NEW i \in 1 .. n + 1, NEW j \in 1 .. n + 1, i <= j PROVE new[i] <= new[j]
      <3>1. CASE j = n + 1
        BY <1>8, <2>3, <3>1
      <3>2. CASE j # n + 1
        BY <1>6, <1>8, <2>2, <2>4, <3>2
      <3> QED
        BY <3>1, <3>2
    <2> QED
      BY <1>8, <2>3, <2>4 DEF Sorted
  <1>11. Faithful(new, win)
    <2>1. Len(win) <= Len(new) /\ Len(new) - Len(win) = n - k
      BY <1>6, <1>8, <1>9
    <2>2. ASSUME NEW i \in 1 .. k + 1 PROVE win[i] = new[n - k + i]
      <3>1. CASE i = k + 1
        BY <1>6, <1>8, <1>9, <3>1
      <3>2. CASE i # k + 1
        <4>1. i \in 1 .. k /\ n - k + i \in 1 .. n
          BY <1>6, <3>2
        <4> QED
          BY <1>7, <1>8, <1>9, <4>1
      <3> QED
        BY <3>1, <3>2
    <2>3. ASSUME NEW i \in 1 .. n - k PROVE now - new[i] > window_seconds
      <3>1. i \in 1 .. n
        BY <1>6
      <3> QED
        BY <1>7, <1>8, <3>1
    <2> QED
      BY <1>9, <2>1, <2>2, <2>3 DEF Faithful
  <1>12. Spaced(new)
    <2>0. Len(new) = n + 1
      BY <1>8
    <2> SUFFICES ASSUME NEW i \in 1 .. n + 1 - max_requests
                 PROVE  new[i + max_requests] - new[i] > window_seconds
      BY <1>1, <2>0 DEF Spaced
    <2>1. i \in 1 .. n /\ i + max_requests \in 1 .. n + 1
      BY <1>1
    <2>2. CASE i + max_requests = n + 1
      <3>1. i \in 1 .. n - k
        BY <1>1, <1>2, <1>5, <1>6, <2>1, <2>2
      <3> QED
        BY <1>7, <1>8, <2>1, <2>2, <3>1
    <2>3. CASE i + max_requests # n + 1
      <3>1. i \in 1 .. n - max_requests /\ i + max_requests \in 1 .. n
        BY <1>1, <2>1, <2>3
      <3>2. adm[i + max_requests] - adm[i] > window_seconds
        BY <1>3, <1>6, <3>1 DEF Spaced
      <3> QED
        BY <1>8, <2>1, <3>1, <3>2
    <2> QED
      BY <2>2, <2>3
  <1> QED
    BY <1>4, <1>10, <1>11, <1>12 DEF new, win, Sorted, Faithful, Spaced

\* A refusal only prunes.
LEMMA RefuseKeeps ==
    ASSUME LimiterIInv, NEW c \in Clients, Refuse(c)
    PROVE  (Sorted(admitted[c]) /\ Faithful(admitted[c], hits[c]) /\ Spaced(admitted[c]))'
  <1>1. hits'[c] = Prune(hits[c]) /\ admitted' = admitted /\ now' = now
    BY DEF Refuse, LimiterIInv, LimiterTypeOK
  <1>2. Sorted(admitted[c]) /\ Faithful(admitted[c], Prune(hits[c])) /\ Spaced(admitted[c])
    BY Pruned DEF LimiterIInv
  <1> QED
    BY <1>1, <1>2 DEF Sorted, Faithful, Spaced

\* Time makes what is forgotten older.
LEMMA TickKeeps ==
    ASSUME LimiterIInv, NEW c \in Clients, Tick
    PROVE  (Sorted(admitted[c]) /\ Faithful(admitted[c], hits[c]) /\ Spaced(admitted[c]))'
  <1>1. hits' = hits /\ admitted' = admitted /\ now' = now + 1 /\ now \in Nat
        /\ window_seconds \in Nat
    BY LimiterAssumption DEF Tick, LimiterIInv, LimiterTypeOK
  <1>2. Sorted(admitted[c]) /\ Faithful(admitted[c], hits[c]) /\ Spaced(admitted[c])
    BY DEF LimiterIInv
  <1>3. PICK n \in Nat : n = Len(admitted[c]) /\ \A i \in 1 .. n : admitted[c][i] \in Nat
    <2>1. admitted[c] \in Seq(0 .. MaxTime) /\ MaxTime \in Nat
      BY LimiterAssumption DEF LimiterIInv, LimiterTypeOK
    <2> QED
      BY <2>1
  <1>4. PICK k \in Nat : k = Len(hits[c])
    <2>1. hits[c] \in Seq(0 .. MaxTime)
      BY DEF LimiterIInv, LimiterTypeOK
    <2> QED
      BY <2>1
  <1>41. k <= n /\ \A i \in 1 .. n - k : now - admitted[c][i] > window_seconds
    BY <1>2, <1>3, <1>4 DEF Faithful
  <1>5. \A i \in 1 .. n : admitted[c][i] <= now + 1
    BY <1>1, <1>2, <1>3 DEF Sorted
  <1>6. \A i \in 1 .. n - k : now' - admitted'[c][i] > window_seconds
    <2> SUFFICES ASSUME NEW i \in 1 .. n - k PROVE now' - admitted'[c][i] > window_seconds
      OBVIOUS
    <2>1. i \in 1 .. n /\ now - admitted[c][i] > window_seconds
      BY <1>3, <1>4, <1>41
    <2>2. admitted[c][i] \in Nat
      BY <1>3, <2>1
    <2> QED
      BY <1>1, <2>1, <2>2
  <1>7. Sorted(admitted[c])'
    BY <1>1, <1>2, <1>3, <1>5 DEF Sorted
  <1>8. Faithful(admitted[c], hits[c])'
    <2>1. \A i \in 1 .. Len(hits[c]) :
            hits[c][i] = admitted[c][Len(admitted[c]) - Len(hits[c]) + i]
      BY <1>2 DEF Faithful
    <2>2. Len(hits[c]) <= Len(admitted[c])
      BY <1>2 DEF Faithful
    <2>4. hits'[c] = hits[c] /\ admitted'[c] = admitted[c]
      BY <1>1
    <2>5. \A i \in 1 .. Len(admitted'[c]) - Len(hits'[c]) :
            now' - admitted'[c][i] > window_seconds
      <3>1. Len(admitted'[c]) = n /\ Len(hits'[c]) = k
        BY <1>3, <1>4, <2>4
      <3> QED
        BY <1>6, <3>1
    <2>6. \A i \in 1 .. Len(hits'[c]) :
            hits'[c][i] = admitted'[c][Len(admitted'[c]) - Len(hits'[c]) + i]
      BY <2>1, <2>4
    <2>7. Len(hits'[c]) <= Len(admitted'[c])
      BY <2>2, <2>4
    <2> QED
      BY <2>5, <2>6, <2>7 DEF Faithful
  <1>9. Spaced(admitted[c])'
    BY <1>1, <1>2 DEF Spaced
  <1> QED
    BY <1>7, <1>8, <1>9

-----------------------------------------------------------------------------
(* The invariant.                                                          *)

LEMMA LimiterInitIInv == LimiterInit => LimiterIInv
  <1> SUFFICES ASSUME LimiterInit PROVE LimiterIInv
    OBVIOUS
  <1>1. LimiterTypeOK
    BY LimiterAssumption DEF LimiterInit, LimiterTypeOK, NoResponse
  <1>2. RefusedOnlyWhenFull
    BY DEF LimiterInit, RefusedOnlyWhenFull, NoResponse
  <1>3. ASSUME NEW c \in Clients
        PROVE  Sorted(admitted[c]) /\ Faithful(admitted[c], hits[c]) /\ Spaced(admitted[c])
    <2>1. hits[c] = <<>> /\ admitted[c] = <<>> /\ Len(<<>>) = 0
      BY DEF LimiterInit
    <2>2. max_requests \in Nat
      BY LimiterAssumption
    <2> QED
      BY <2>1, <2>2 DEF Sorted, Faithful, Spaced
  <1> QED
    BY <1>1, <1>2, <1>3 DEF LimiterIInv

LEMMA TypesStep == ASSUME LimiterIInv, [LimiterNext]_limiterVars PROVE LimiterTypeOK'
  <1>1. /\ now \in 0 .. MaxTime /\ max_requests \in Nat /\ MaxTime \in Nat
        /\ hits \in [Clients -> Seq(0 .. MaxTime)]
        /\ admitted \in [Clients -> Seq(0 .. MaxTime)]
        /\ response \in {NoResponse}
             \cup [status : {200, 429}, client : Clients, time : 0..MaxTime]
        /\ \A c \in Clients : Len(hits[c]) <= max_requests
    BY LimiterAssumption DEF LimiterIInv, LimiterTypeOK
  <1>2. ASSUME NEW c \in Clients
        PROVE  /\ Prune(hits[c]) \in Seq(0 .. MaxTime)
               /\ Len(Prune(hits[c])) <= max_requests
    <2> DEFINE p == Prune(hits[c])
    <2>1. /\ p \in Seq(Nat) /\ Len(p) <= max_requests
          /\ \A i \in 1 .. Len(p) : p[i] \in 0 .. now
      BY Pruned
    <2> HIDE DEF p
    <2>2. \A i \in 1 .. Len(p) : p[i] \in 0 .. MaxTime
      BY <1>1, <2>1
    <2>3. p \in Seq(0 .. MaxTime)
      BY <2>1, <2>2, SeqIn
    <2> QED
      BY <2>1, <2>3 DEF p
  <1>3. ASSUME NEW c \in Clients, Admit(c) PROVE LimiterTypeOK'
    <2> DEFINE p == Prune(hits[c])
    <2>1. /\ p \in Seq(0 .. MaxTime) /\ Len(p) < max_requests
          /\ hits' = [hits EXCEPT ![c] = Append(p, now)]
          /\ admitted' = [admitted EXCEPT ![c] = Append(admitted[c], now)]
          /\ now' = now
      BY <1>2, <1>3 DEF Admit
    <2> HIDE DEF p
    <2>2. Append(p, now) \in Seq(0 .. MaxTime) /\ Len(Append(p, now)) <= max_requests
      BY <1>1, <2>1
    <2>3. Append(admitted[c], now) \in Seq(0 .. MaxTime)
      BY <1>1
    <2>4. response' \in [status : {200, 429}, client : Clients, time : 0..MaxTime]
      BY <1>1, <1>3 DEF Admit
    <2>5. hits' \in [Clients -> Seq(0 .. MaxTime)] /\ \A d \in Clients : Len(hits'[d]) <= max_requests
      <3> DEFINE q == Append(p, now)
      <3> HIDE DEF q
      <3> QED
        BY <1>1, <2>1, <2>2 DEF q
    <2>6. admitted' \in [Clients -> Seq(0 .. MaxTime)]
      BY <1>1, <2>1, <2>3
    <2> QED
      BY <1>1, <2>1, <2>4, <2>5, <2>6 DEF LimiterTypeOK
  <1>4. ASSUME NEW c \in Clients, Refuse(c) PROVE LimiterTypeOK'
    <2> DEFINE p == Prune(hits[c])
    <2>1. /\ p \in Seq(0 .. MaxTime) /\ Len(p) <= max_requests
          /\ hits' = [hits EXCEPT ![c] = p]
          /\ admitted' = admitted /\ now' = now
      BY <1>2, <1>4 DEF Refuse
    <2> HIDE DEF p
    <2>2. response' \in [status : {200, 429}, client : Clients, time : 0..MaxTime]
      BY <1>1, <1>4 DEF Refuse
    <2>3. hits' \in [Clients -> Seq(0 .. MaxTime)] /\ \A d \in Clients : Len(hits'[d]) <= max_requests
      BY <1>1, <2>1
    <2> QED
      BY <1>1, <2>1, <2>2, <2>3 DEF LimiterTypeOK
  <1>5. CASE Tick
    BY <1>1, <1>5 DEF Tick, LimiterTypeOK, NoResponse
  <1>6. CASE UNCHANGED limiterVars
    BY <1>1, <1>6 DEF limiterVars, LimiterTypeOK, NoResponse
  <1> QED
    BY <1>3, <1>4, <1>5, <1>6 DEF LimiterNext

LEMMA ListsStep ==
    ASSUME LimiterIInv, [LimiterNext]_limiterVars, NEW c \in Clients
    PROVE  (Sorted(admitted[c]) /\ Faithful(admitted[c], hits[c]) /\ Spaced(admitted[c]))'
  <1>1. CASE Admit(c)
    BY <1>1, AdmitKeeps
  <1>2. CASE Refuse(c)
    BY <1>2, RefuseKeeps
  <1>3. CASE Tick
    BY <1>3, TickKeeps
  <1>4. CASE hits'[c] = hits[c] /\ admitted'[c] = admitted[c] /\ now' = now
    BY <1>4 DEF LimiterIInv, Sorted, Faithful, Spaced
  <1>5. ASSUME NEW d \in Clients, d # c, Admit(d) \/ Refuse(d)
        PROVE  hits'[c] = hits[c] /\ admitted'[c] = admitted[c] /\ now' = now
    BY <1>5 DEF Admit, Refuse, LimiterIInv, LimiterTypeOK
  <1>6. UNCHANGED limiterVars => hits'[c] = hits[c] /\ admitted'[c] = admitted[c] /\ now' = now
    BY DEF limiterVars
  <1> QED
    BY <1>1, <1>2, <1>3, <1>4, <1>5, <1>6 DEF LimiterNext

\* A client is refused when the last max_requests of its list are young; those
\* before them are more than a window older than one of these.
LEMMA RefusedStep == ASSUME LimiterIInv, [LimiterNext]_limiterVars PROVE RefusedOnlyWhenFull'
  <1>1. ASSUME NEW c \in Clients, Refuse(c) PROVE RefusedOnlyWhenFull'
    <2> DEFINE p == Prune(hits[c])
               adm == admitted[c]
    <2>1. /\ p \in Seq(Nat) /\ Len(p) <= max_requests /\ Faithful(adm, p)
          /\ \A i \in 1 .. Len(p) : p[i] \in 0 .. now /\ now - p[i] <= window_seconds
      BY <1>1, Pruned
    <2>2. /\ Len(p) >= max_requests
          /\ admitted' = admitted /\ response' = [status |-> 429, client |-> c, time |-> now]
      BY <1>1 DEF Refuse
    <2>3. now \in Nat /\ window_seconds \in Nat /\ max_requests \in Nat /\ max_requests > 0
      BY LimiterAssumption DEF LimiterIInv, LimiterTypeOK
    <2>4. PICK n \in Nat : n = Len(adm) /\ DOMAIN adm = 1 .. n /\ \A i \in 1 .. n : adm[i] \in Nat
      <3>1. adm \in Seq(0 .. MaxTime) /\ MaxTime \in Nat
        BY LimiterAssumption DEF LimiterIInv, LimiterTypeOK
      <3> QED
        BY <3>1
    <2> HIDE DEF p, adm
    <2>5. Len(p) = max_requests
      BY <2>1, <2>2, <2>3
    <2>6. /\ max_requests <= n
          /\ \A i \in 1 .. max_requests : p[i] = adm[n - max_requests + i]
          /\ \A i \in 1 .. n - max_requests : now - adm[i] > window_seconds
      BY <2>1, <2>4, <2>5 DEF Faithful
    <2>7. ASSUME NEW i \in 1 .. n
          PROVE  (now - window_seconds <= adm[i] /\ adm[i] <= now) <=> i > n - max_requests
      <3>1. CASE i > n - max_requests
        <4>1. i - (n - max_requests) \in 1 .. max_requests
              /\ n - max_requests + (i - (n - max_requests)) = i
          BY <2>3, <2>6, <3>1
        <4>2. adm[i] = p[i - (n - max_requests)]
          BY <2>6, <4>1
        <4>3. adm[i] \in 0 .. now /\ now - adm[i] <= window_seconds
          BY <2>1, <2>5, <4>1, <4>2
        <4> QED
          BY <2>3, <3>1, <4>3
      <3>2. CASE ~ (i > n - max_requests)
        <4>1. i \in 1 .. n - max_requests /\ adm[i] \in Nat
          BY <2>3, <2>4, <2>6, <3>2
        <4> QED
          BY <2>3, <2>6, <3>2, <4>1
      <3> QED
        BY <3>1, <3>2
    <2>8. Between(adm, now - window_seconds, now) = n - max_requests + 1 .. n
      <3>1. \A i \in 1 .. n : i > n - max_requests <=> i \in n - max_requests + 1 .. n
        BY <2>3, <2>6
      <3>2. n - max_requests + 1 .. n \subseteq 1 .. n
        BY <2>3, <2>6
      <3> QED
        BY <2>4, <2>7, <3>1, <3>2 DEF Between
    <2>9. Cardinality(n - max_requests + 1 .. n) = max_requests
      <3>1. n - max_requests + 1 \in Int /\ n \in Int /\ ~ (n - max_requests + 1 > n)
        BY <2>3, <2>6
      <3>2. Cardinality(n - max_requests + 1 .. n) = n - (n - max_requests + 1) + 1
        BY <3>1, FS_Interval
      <3> QED
        BY <2>3, <2>6, <3>2
    <2>10. /\ response'.client = c /\ response'.time = now /\ admitted'[c] = adm
      BY <2>2 DEF adm
    <2> QED
      BY <2>8, <2>9, <2>10 DEF RefusedOnlyWhenFull, Between
  <1>2. ASSUME NEW c \in Clients, Admit(c) PROVE RefusedOnlyWhenFull'
    BY <1>2 DEF Admit, RefusedOnlyWhenFull
  <1>3. CASE Tick \/ UNCHANGED limiterVars
    BY <1>3 DEF Tick, limiterVars, LimiterIInv, RefusedOnlyWhenFull, Between
  <1> QED
    BY <1>1, <1>2, <1>3 DEF LimiterNext

LEMMA LimiterNextIInv == LimiterIInv /\ [LimiterNext]_limiterVars => LimiterIInv'
  <1> SUFFICES ASSUME LimiterIInv, [LimiterNext]_limiterVars PROVE LimiterIInv'
    OBVIOUS
  <1>1. LimiterTypeOK' /\ RefusedOnlyWhenFull'
    BY TypesStep, RefusedStep
  <1>2. \A c \in Clients :
          (Sorted(admitted[c]) /\ Faithful(admitted[c], hits[c]) /\ Spaced(admitted[c]))'
    BY ListsStep
  <1> QED
    BY <1>1, <1>2 DEF LimiterIInv

\* The deque of a client is the end of the list of its admitted requests.
THEOREM LimiterInvariant == LimiterSpec => []LimiterIInv
  BY LimiterInitIInv, LimiterNextIInv, PTL DEF LimiterSpec

-----------------------------------------------------------------------------
(* The properties.                                                         *)

\* For any limit and window: no interval of window_seconds, wherever it begins,
\* has more than max_requests requests of a client that got through.
THEOREM Bounded == LimiterSpec => []WindowIsBounded
  <1>1. LimiterIInv => WindowIsBounded
    <2> SUFFICES ASSUME LimiterIInv, NEW c \in Clients, NEW t \in 0 .. now
                 PROVE  Cardinality(Between(admitted[c], t, t + window_seconds)) <= max_requests
      BY DEF WindowIsBounded
    <2>1. now \in Nat /\ t \in Nat /\ window_seconds \in Nat /\ max_requests \in Nat
      BY LimiterAssumption DEF LimiterIInv, LimiterTypeOK
    <2> DEFINE adm == admitted[c]
               S == Between(adm, t, t + window_seconds)
    <2>2. PICK n \in Nat : n = Len(adm) /\ DOMAIN adm = 1 .. n /\ \A i \in 1 .. n : adm[i] \in Nat
      <3>1. adm \in Seq(0 .. MaxTime) /\ MaxTime \in Nat
        BY LimiterAssumption DEF LimiterIInv, LimiterTypeOK
      <3> QED
        BY <3>1
    <2>3. Sorted(adm) /\ Spaced(adm)
      BY DEF LimiterIInv
    <2> HIDE DEF adm
    <2>4. S \in SUBSET Nat
      BY <2>2 DEF Between
    <2>5. ASSUME NEW i \in S, NEW j \in S PROVE j < i + max_requests
      <3>1. /\ i \in 1 .. n /\ j \in 1 .. n
            /\ t <= adm[i] /\ adm[j] <= t + window_seconds
        BY <2>2 DEF Between
      <3> SUFFICES ASSUME i + max_requests <= j PROVE FALSE
        BY <2>1, <3>1
      <3>2. i \in 1 .. n - max_requests /\ i + max_requests \in 1 .. n
        BY <2>1, <3>1
      <3>3. adm[i + max_requests] - adm[i] > window_seconds
        BY <2>2, <2>3, <3>2 DEF Spaced
      <3>4. adm[i + max_requests] <= adm[j]
        BY <2>2, <2>3, <3>1, <3>2 DEF Sorted
      <3>5. adm[i] \in Nat /\ adm[j] \in Nat /\ adm[i + max_requests] \in Nat
        BY <2>2, <3>1, <3>2
      <3> QED
        BY <2>1, <3>1, <3>3, <3>4, <3>5
    <2> HIDE DEF S
    <2>6. Cardinality(S) <= max_requests
      BY <2>1, <2>4, <2>5, CloseIndices
    <2> QED
      BY <2>6 DEF S, adm
  <1> QED
    BY <1>1, LimiterInvariant, PTL

\* For any number of clients: one is refused only for max_requests requests of
\* its own that got through within the last window_seconds.
THEOREM RefusedWhenFull == LimiterSpec => []RefusedOnlyWhenFull
  <1>1. LimiterIInv => RefusedOnlyWhenFull
    BY DEF LimiterIInv
  <1> QED
    BY <1>1, LimiterInvariant, PTL

-----------------------------------------------------------------------------
(* Delivery: the inductive invariant.                                      *)

\* Nothing left the server before the task posted it.
UnpostedIsNowhere ==
    \A c \in Codes : task[c] \in {"none", "queued"} =>
        /\ c \notin wire \cup Read
        /\ reply[c] = "none"

\* A post is in one place, and Telegram confirms only what it took.
WireIsUnanswered == \A c \in wire : c \notin ToSet(chat) /\ reply[c] = "none"

OkIsInChat == \A c \in Codes : reply[c] = "ok" => c \in ToSet(chat)

\* The e-mail is the last thing a task does.
MailedHasEnded == \A c \in inbox : task[c] \in {"emailed", "failed"}

IInv ==
    /\ TypeOK
    /\ UnpostedIsNowhere
    /\ WireIsUnanswered
    /\ OkIsInChat
    /\ MailedHasEnded
    /\ SuccessIsTrue

-----------------------------------------------------------------------------
(* The chat grows by what Telegram takes.                                  *)

LEMMA ChatGrows ==
  ASSUME NEW s \in Seq(Codes), NEW c \in Codes
  PROVE  /\ Append(s, c) \in Seq(Codes)
         /\ ToSet(Append(s, c)) = ToSet(s) \cup {c}
  <1>1. /\ Append(s, c) \in Seq(Codes)
        /\ Len(s) \in Nat
        /\ Len(Append(s, c)) = Len(s) + 1
        /\ \A i \in 1 .. Len(s) + 1 :
             Append(s, c)[i] = IF i <= Len(s) THEN s[i] ELSE c
    OBVIOUS
  <1>2. DOMAIN s = 1 .. Len(s) /\ DOMAIN Append(s, c) = 1 .. Len(s) + 1
    BY <1>1
  <1>3. \A x \in ToSet(Append(s, c)) : x \in ToSet(s) \cup {c}
    BY <1>1, <1>2 DEF ToSet
  <1>4. \A x \in ToSet(s) : x \in ToSet(Append(s, c))
    BY <1>1, <1>2 DEF ToSet
  <1>5. Append(s, c)[Len(s) + 1] = c /\ Len(s) + 1 \in DOMAIN Append(s, c)
    BY <1>1, <1>2
  <1>6. c \in ToSet(Append(s, c))
    BY <1>5 DEF ToSet
  <1> QED
    BY <1>1, <1>3, <1>4, <1>6

-----------------------------------------------------------------------------
(* IInv is inductive.                                                      *)

LEMMA InitIInv == ASSUME Init PROVE IInv
  <1>1. ToSet(chat) = {}
    BY DEF Init, ToSet
  <1>2. TypeOK
    BY ConstantsAssumption DEF Init, TypeOK
  <1> QED
    BY <1>1, <1>2 DEF Init, IInv, UnpostedIsNowhere, WireIsUnanswered, OkIsInChat,
                      MailedHasEnded, SuccessIsTrue, Read

\* A step of one task or of Telegram, and a crash, preserve the invariant.
LEMMA NextIInv == ASSUME IInv, [Next]_vars PROVE IInv'
  <1> USE DEF IInv, TypeOK, UnpostedIsNowhere, WireIsUnanswered, OkIsInChat,
              MailedHasEnded, SuccessIsTrue, Read, Becomes
  <1>1. ASSUME NEW c \in Codes, Schedule(c) PROVE IInv'
    BY <1>1 DEF Schedule, Active
  <1>2. ASSUME NEW c \in Codes, TelegramUnavailable(c) PROVE IInv'
    BY <1>2 DEF TelegramUnavailable, Active
  <1>3. ASSUME NEW c \in Codes, TelegramPost(c) PROVE IInv'
    BY <1>3 DEF TelegramPost, Active
  <1>4. ASSUME NEW c \in Codes, Confirm(c) PROVE IInv'
    BY <1>4 DEF Confirm, Ended
  <1>5. ASSUME NEW c \in Codes, NotConfirmed(c) PROVE IInv'
    BY <1>5 DEF NotConfirmed, Active
  <1>6. ASSUME NEW c \in Codes, EmailSent(c) PROVE IInv'
    BY <1>6 DEF EmailSent, Email, Ended
  <1>7. ASSUME NEW c \in Codes, EmailFails(c) PROVE IInv'
    BY <1>7 DEF EmailFails, Email, Ended
  <1>8. ASSUME NEW c \in Codes, EmailUnconfirmed(c) PROVE IInv'
    BY <1>8 DEF EmailUnconfirmed, Email, Ended
  <1>9. ASSUME NEW c \in Codes, TelegramTakes(c) PROVE IInv'
    <2>1. chat' \in Seq(Codes) /\ ToSet(chat') = ToSet(chat) \cup {c}
      BY <1>9, ChatGrows DEF TelegramTakes
    <2> QED
      BY <1>9, <2>1 DEF TelegramTakes
  <1>10. ASSUME NEW c \in Codes, TelegramRefuses(c) PROVE IInv'
    BY <1>10 DEF TelegramRefuses
  <1>11. ASSUME Crash PROVE IInv'
    BY <1>11, ConstantsAssumption DEF Crash, Active, Ended
  <1>12. ASSUME UNCHANGED vars PROVE IInv'
    BY <1>12 DEF vars
  <1> QED
    BY <1>1, <1>2, <1>3, <1>4, <1>5, <1>6, <1>7, <1>8, <1>9, <1>10, <1>11, <1>12
       DEF Next, TaskStep, TelegramStep

LEMMA Invariant == Spec => []IInv
  BY InitIInv, NextIInv, PTL DEF Spec

\* A task that reports success is right about the channel, and one that reports
\* Telegram sent no e-mail (dispatch.py:4-7, telegram.py:43-45).
THEOREM SuccessTrue == Spec => []SuccessIsTrue
  <1>1. IInv => SuccessIsTrue
    BY DEF IInv
  <1> QED
    BY <1>1, Invariant, PTL

-----------------------------------------------------------------------------
(* Refinement.                                                             *)

\* The variables of Courier.
Posted == {c \in Codes : task[c] # "none"}
Outbox == {c \in Codes \ Read : task[c] \in Active \/ c \in wire}

LEMMA InitRefines == ASSUME Init PROVE Abstract!Init
  <1>1. ToSet(chat) = {}
    BY DEF Init, ToSet
  <1> QED
    BY <1>1 DEF Init, Abstract!Init, Read, Active

\* Each step of Delivery is one of Courier or leaves its variables alone.
LEMMA StepRefines == ASSUME IInv, [Next]_vars PROVE [Abstract!Next]_Abstract!vars
  <1> USE DEF IInv, TypeOK, UnpostedIsNowhere, WireIsUnanswered, OkIsInChat,
              MailedHasEnded, SuccessIsTrue, Becomes, Read
  <1> DEFINE Stutter == UNCHANGED <<Posted, Outbox, Read>>
  <1>0. ASSUME Stutter PROVE UNCHANGED Abstract!vars
    BY <1>0 DEF Abstract!vars, Posted, Outbox
  <1>1. ASSUME NEW c \in Codes, Schedule(c) PROVE Abstract!Post(c)
    BY <1>1 DEF Schedule, Abstract!Post, Active
  <1>2. ASSUME NEW c \in Codes, TelegramUnavailable(c) PROVE Stutter
    BY <1>2 DEF TelegramUnavailable, Active, Posted, Outbox
  <1>3. ASSUME NEW c \in Codes, TelegramPost(c) PROVE Stutter
    BY <1>3 DEF TelegramPost, Active, Posted, Outbox
  <1>4. ASSUME NEW c \in Codes, Confirm(c) PROVE Stutter
    BY <1>4 DEF Confirm, Active, Posted, Outbox
  <1>5. ASSUME NEW c \in Codes, NotConfirmed(c) PROVE Stutter
    BY <1>5 DEF NotConfirmed, Active, Posted, Outbox
  <1>6. ASSUME NEW c \in Codes, NEW state \in {"emailed", "failed"}, Email(c, TRUE, state)
        PROVE  Stutter \/ Abstract!Deliver(c)
    <2>1. CASE c \in Read
      BY <1>6, <2>1 DEF Email, Active, Posted, Outbox
    <2>2. CASE c \notin Read
      BY <1>6, <2>2 DEF Email, Active, Abstract!Deliver
    <2> QED
      BY <2>1, <2>2
  <1>7. ASSUME NEW c \in Codes, EmailFails(c)
        PROVE  Stutter \/ Abstract!Fail({c})
    <2>1. CASE c \in Read \/ c \in wire
      BY <1>7, <2>1 DEF EmailFails, Email, Active, Posted, Outbox
    <2>2. CASE c \notin Read /\ c \notin wire
      BY <1>7, <2>2 DEF EmailFails, Email, Active, Abstract!Fail
    <2> QED
      BY <2>1, <2>2
  <1>8. ASSUME NEW c \in Codes, TelegramTakes(c)
        PROVE  Stutter \/ Abstract!Deliver(c)
    <2>1. ToSet(chat') = ToSet(chat) \cup {c}
      BY <1>8, ChatGrows DEF TelegramTakes
    <2>2. CASE c \in inbox
      BY <1>8, <2>1, <2>2 DEF TelegramTakes, Posted, Outbox
    <2>3. CASE c \notin inbox
      BY <1>8, <2>1, <2>3 DEF TelegramTakes, Abstract!Deliver
    <2> QED
      BY <2>2, <2>3
  <1>9. ASSUME NEW c \in Codes, TelegramRefuses(c)
        PROVE  Stutter \/ Abstract!Fail({c})
    <2>1. CASE c \in Read \/ task[c] \in Active
      BY <1>9, <2>1 DEF TelegramRefuses, Posted, Outbox
    <2>2. CASE c \notin Read /\ task[c] \notin Active
      BY <1>9, <2>2 DEF TelegramRefuses, Abstract!Fail
    <2> QED
      BY <2>1, <2>2
  <1>10. ASSUME Crash PROVE \E cs \in SUBSET Codes : Abstract!Fail(cs)
    <2> DEFINE given == {c \in Codes \ Read : task[c] \in Active /\ c \notin wire}
    <2>1. Abstract!Fail(given)
      BY <1>10 DEF Crash, Active, Abstract!Fail
    <2>2. given \in SUBSET Codes
      OBVIOUS
    <2> HIDE DEF given
    <2> QED
      BY <2>1, <2>2 DEF Abstract!Fail
  <1>11. ASSUME UNCHANGED vars PROVE Stutter
    BY <1>11 DEF vars, Posted, Outbox
  <1> QED
    BY <1>0, <1>1, <1>2, <1>3, <1>4, <1>5, <1>6, <1>7, <1>8, <1>9, <1>10, <1>11
       DEF Next, TaskStep, TelegramStep, EmailSent, EmailUnconfirmed, Abstract!Next

\* Two channels, timeouts and crashes are one delivery that may fail: what is
\* given up does not arrive later, and only committed codes are read
\* (auth.py:123-128, 264, dispatch.py:45-74).
THEOREM DeliveryImplementsCourier == Spec => ImplementsCourier
  BY Invariant, InitRefines, StepRefines, PTL DEF Spec, ImplementsCourier, Abstract!Spec
=============================================================================
