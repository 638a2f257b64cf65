---------------------------- MODULE TimelineProofs --------------------------
(***************************************************************************)
(* Proofs about the slider of a window and about a window of observations, *)
(* for any listings, step lengths, moments, edits, levels and number of    *)
(* operations.                                                             *)
(*                                                                         *)
(* What the slider's chips are chosen by is filters of a listing, searches *)
(* in a set of places and arithmetic on the clock: the first lemmas say of *)
(* each that what it returns is of the listing, in order (PartOf), or a    *)
(* place in it.  TInv then says what a rest of the slider leaves: the      *)
(* period or the file that is highlighted is the one asked for, the loop   *)
(* lies in the chips, and the ticker runs while the slider plays and only  *)
(* then.                                                                   *)
(*                                                                         *)
(* A window of observations is at rest with the files listed for it; what  *)
(* its layer was given may be older, and ObInv says of what: of the same   *)
(* directory unless the level or the day is another's, and with every file *)
(* of the timeline unless the listing was behind, or the layer was given.  *)
(***************************************************************************)
EXTENDS Timeline, Observations, LoadsProofs

-----------------------------------------------------------------------------
(* The least and the greatest member of a set of places.                   *)
LEMMA EarliestIsIn ==
    ASSUME NEW S \in SUBSET Nat, S # {}
    PROVE  Earliest(S) \in S /\ \A y \in S : Earliest(S) <= y
<1>1. PICK x \in S : \A y \in S : x <= y
  BY LeastMember
<1> QED BY <1>1 DEF Earliest

LEMMA LatestIsIn ==
    ASSUME NEW n \in Nat, NEW S \in SUBSET (0 .. n), S # {}
    PROVE  Latest(S) \in S /\ \A y \in S : y <= Latest(S)
<1> DEFINE T == {n - x : x \in S}
<1>1. T \subseteq Nat /\ T # {}
  <2>1. \A x \in S : n - x \in Nat
    OBVIOUS
  <2> QED BY <2>1
<1>2. PICK t \in T : \A u \in T : t <= u
  <2> HIDE DEF T
  <2> QED BY <1>1, LeastMember
<1>3. PICK x \in S : t = n - x
  BY <1>2
<1>4. \A y \in S : y <= x
  <2> TAKE y \in S
  <2>1. n - y \in T
    OBVIOUS
  <2>2. n - x <= n - y
    BY <1>2, <1>3, <2>1
  <2> QED BY <2>2
<1> QED BY <1>4 DEF Latest

-----------------------------------------------------------------------------
(* Lists of times.                                                         *)
RisingTimes(s) == \A i, j \in DOMAIN s : i < j => s[i] < s[j]
TimesOK(s) == s \in Seq(Nat) /\ RisingTimes(s)

(* What is left of a list of times is one, with the times at the places    *)
(* kept.                                                                   *)
LEMMA LeftInOrder ==
    ASSUME NEW s, TimesOK(s), NEW K \in SUBSET DOMAIN s
    PROVE  /\ TimesOK(OnlyAt(s, K))
           /\ Elements(OnlyAt(s, K)) = {s[i] : i \in K}
           /\ Len(OnlyAt(s, K)) = Cardinality(K)
<1> DEFINE place(n) == CHOOSE i \in K : Cardinality({j \in K : j <= i}) = n
           d == OnlyAt(s, K)
<1>1. DOMAIN s = 1 .. Len(s) /\ Len(s) \in Nat /\ s \in Seq(Nat)
  BY DEF TimesOK
<1>2. IsFiniteSet(K) /\ Cardinality(K) \in Nat /\ K \in SUBSET Nat
  <2>1. IsFiniteSet(1 .. Len(s))
    BY <1>1, FS_Interval
  <2>2. IsFiniteSet(K)
    BY <2>1, <1>1, FS_Subset
  <2> QED BY <2>2, <1>1, FS_CardinalityType
<1>3. \A n \in 1 .. Cardinality(K) : place(n) \in K /\ RankIn(K, place(n)) = n
  BY <1>2, RanksFound DEF RankIn
<1>4. d = [n \in 1 .. Cardinality(K) |-> s[place(n)]]
  BY DEF OnlyAt
<1>5. d \in Seq(Nat) /\ Elements(d) = {s[i] : i \in K}
  <2>1. d \in Seq(Nat) /\ MembersOf(d) = {s[i] : i \in K}
    BY <1>1, LeftOf
  <2> HIDE DEF d
  <2> QED BY <2>1 DEF Elements, MembersOf
<1> HIDE DEF d, place
<1>6. DOMAIN d = 1 .. Cardinality(K) /\ \A n \in DOMAIN d : d[n] = s[place(n)]
  BY <1>4
<1>7. ASSUME NEW i \in K, NEW j \in K, i <= j PROVE RankIn(K, i) <= RankIn(K, j)
  <2>1. {k \in K : k <= i} \in SUBSET {k \in K : k <= j}
    BY <1>2, <1>7
  <2>2. {k \in K : k <= j} \in SUBSET K
    OBVIOUS
  <2>3. IsFiniteSet({k \in K : k <= j})
    BY <1>2, <2>2, FS_Subset
  <2>4. Cardinality({k \in K : k <= i}) <= Cardinality({k \in K : k <= j})
    BY <2>1, <2>3, FS_Subset
  <2> QED BY <2>4 DEF RankIn
<1>8. RisingTimes(d)
  <2> SUFFICES ASSUME NEW m \in DOMAIN d, NEW n \in DOMAIN d, m < n PROVE d[m] < d[n]
    BY DEF RisingTimes
  <2>1. /\ place(m) \in K /\ place(n) \in K /\ RankIn(K, place(m)) = m /\ RankIn(K, place(n)) = n
        /\ m \in Nat /\ n \in Nat
    BY <1>3, <1>6, <1>2
  <2>2. ~(place(n) <= place(m))
    BY <2>1, <1>7
  <2>3. place(m) < place(n) /\ place(m) \in DOMAIN s /\ place(n) \in DOMAIN s
    BY <1>1, <2>1, <2>2
  <2> QED BY <1>6, <2>3 DEF TimesOK, RisingTimes
<1>9. Len(d) = Cardinality(K)
  BY <1>2, <1>5, <1>6
<1> QED BY <1>5, <1>8, <1>9 DEF d, TimesOK

(* Stretches of a list of times, and the place of a time in it.            *)
LEMMA StretchInOrder ==
    ASSUME NEW s, TimesOK(s), NEW m \in 1 .. Len(s), NEW n \in m .. Len(s)
    PROVE  TimesOK(SubSeq(s, m, n)) /\ SubSeq(s, m, n) # <<>>
<1>1. s \in Seq(Nat) /\ Len(s) \in Nat /\ m \in Nat /\ n \in Nat
  BY DEF TimesOK
<1> DEFINE d == SubSeq(s, m, n)
<1>2. d \in Seq(Nat) /\ Len(d) = n - m + 1 /\ \A i \in 1 .. n - m + 1 : d[i] = s[m + i - 1]
  BY <1>1
<1> HIDE DEF d
<1>3. RisingTimes(d)
  <2> SUFFICES ASSUME NEW i \in DOMAIN d, NEW j \in DOMAIN d, i < j PROVE d[i] < d[j]
    BY DEF RisingTimes
  <2>1. /\ i \in Nat /\ j \in Nat /\ d[i] = s[m + i - 1] /\ d[j] = s[m + j - 1]
        /\ m + i - 1 \in DOMAIN s /\ m + j - 1 \in DOMAIN s /\ m + i - 1 < m + j - 1
    <3>1. DOMAIN d = 1 .. n - m + 1 /\ DOMAIN s = 1 .. Len(s)
      BY <1>1, <1>2
    <3>2. i \in 1 .. n - m + 1 /\ j \in 1 .. n - m + 1
      BY <3>1
    <3>3. d[i] = s[m + i - 1] /\ d[j] = s[m + j - 1]
      BY <1>2, <3>2
    <3>4. i \in Nat /\ j \in Nat /\ i >= 1 /\ j >= 1 /\ i <= n - m + 1 /\ j <= n - m + 1
      BY <1>1, <3>2
    <3>5. m + i - 1 \in 1 .. Len(s) /\ m + j - 1 \in 1 .. Len(s) /\ m + i - 1 < m + j - 1
      <4> DEFINE len == Len(s)
      <4>1. len \in Nat /\ m \in 1 .. len /\ n \in m .. len
        BY <1>1
      <4> HIDE DEF len
      <4>2. m + i - 1 \in 1 .. len /\ m + j - 1 \in 1 .. len /\ m + i - 1 < m + j - 1
        BY ONLY <3>4, <4>1, i < j
      <4> QED BY <4>2 DEF len
    <3> QED BY <3>1, <3>3, <3>4, <3>5
  <2> QED BY <2>1 DEF TimesOK, RisingTimes
<1>4. TimesOK(d) /\ d # <<>>
  <2>1. Len(d) # 0
    BY <1>1, <1>2
  <2> QED BY <1>2, <1>3, <2>1 DEF TimesOK
<1> QED BY <1>4 DEF d

LEMMA IndexIsIn ==
    ASSUME NEW S, NEW s \in Seq(S), NEW x, x \in Elements(s)
    PROVE  IndexOf(s, x) \in DOMAIN s /\ s[IndexOf(s, x)] = x
  BY DEF IndexOf, Elements

LEMMA ClosestIsIn ==
    ASSUME NEW s \in Seq(Int), s # <<>>, NEW target \in Int, NEW off
    PROVE  /\ ClosestIndex(s, target, off) \in DOMAIN s
           /\ (\E i \in DOMAIN s : s[i] \notin off) => s[ClosestIndex(s, target, off)] \notin off
           /\ \A i \in DOMAIN s : s[i] = target /\ target \notin off => s[ClosestIndex(s, target, off)] = target
<1> DEFINE cand == {i \in DOMAIN s : s[i] \notin off}
<1>1. CASE cand = {}
  BY <1>1 DEF ClosestIndex
<1>2. CASE cand # {}
  <2> DEFINE dist(i) == Abs(s[i] - target)
             far == {dist(i) : i \in cand}
  <2>1. \A i \in cand : i \in Nat /\ dist(i) \in Nat
    BY DEF Abs
  <2>2. PICK d \in far : \A e \in far : d <= e
    <3> HIDE DEF cand, dist
    <3>1. far \subseteq Nat /\ far # {}
      BY <1>2, <2>1
    <3> QED BY <3>1, LeastMember
  <2> DEFINE near == {i \in cand : dist(i) = d}
  <2>3. PICK i \in near : \A j \in near : i <= j
    <3> HIDE DEF cand, dist
    <3>1. near \subseteq Nat /\ near # {}
      BY <2>1, <2>2
    <3> HIDE DEF near
    <3> QED BY <3>1, LeastMember
  <2>4. \A j \in cand : dist(i) < dist(j) \/ (dist(i) = dist(j) /\ i <= j)
    <3> TAKE j \in cand
    <3> HIDE DEF cand, dist
    <3>1. i \in cand /\ dist(i) = d /\ d <= dist(j) /\ d \in Nat /\ dist(j) \in Nat
      BY <2>1, <2>2, <2>3
    <3>2. dist(j) = d => i <= j
      BY <2>3
    <3> QED BY <3>1, <3>2
  <2>5. ClosestIndex(s, target, off) = CHOOSE x \in cand : \A j \in cand :
                 dist(x) < dist(j) \/ (dist(x) = dist(j) /\ x <= j)
    BY <1>2 DEF ClosestIndex
  <2>6. i \in cand
    BY <2>3
  <2> DEFINE c == ClosestIndex(s, target, off)
  <2>7. c \in cand /\ \A j \in cand : dist(c) < dist(j) \/ (dist(c) = dist(j) /\ c <= j)
    <3> HIDE DEF cand, dist
    <3> QED BY <2>4, <2>5, <2>6
  <2> HIDE DEF c
  <2>8. ASSUME NEW j \in cand, s[j] = target PROVE s[c] = target
    <3>1. dist(j) = 0
      BY <2>8 DEF Abs
    <3>2. dist(c) \in Nat /\ dist(c) <= 0
      <4> HIDE DEF dist, cand
      <4> QED BY <2>1, <2>7, <2>8, <3>1
    <3>3. s[c] \in Int
      BY <2>7
    <3> QED BY <3>2, <3>3 DEF Abs
  <2> QED BY <2>7, <2>8 DEF c
<1> QED BY <1>1, <1>2

(* Progressions, and one list of times after another.                      *)
LEMMA UptoInOrder ==
    ASSUME NEW a \in Nat, NEW b \in Nat, a <= b, NEW by \in Nat \ {0}
    PROVE  /\ TimesOK(Upto(a, b, by)) /\ Len(Upto(a, b, by)) >= 1 /\ Upto(a, b, by)[1] = a
           /\ \A i \in DOMAIN Upto(a, b, by) : a <= Upto(a, b, by)[i] /\ Upto(a, b, by)[i] <= b
<1> DEFINE n == (b - a) \div by + 1
           d == Upto(a, b, by)
<1>1. n \in Nat /\ n >= 1 /\ (n - 1) * by <= b - a
  <2>1. (b - a) \div by \in Nat /\ by * ((b - a) \div by) <= b - a
    OBVIOUS
  <2> QED BY <2>1
<1> HIDE DEF n
<1>2. d = [i \in 1 .. n |-> a + (i - 1) * by]
  BY DEF Upto, n
<1>3. ASSUME NEW i \in 1 .. n PROVE /\ a + (i - 1) * by \in Nat /\ a <= a + (i - 1) * by /\ a + (i - 1) * by <= b
  <2>1. i \in Nat /\ i - 1 \in Nat /\ i - 1 <= n - 1 /\ by \in Nat /\ n - 1 \in Nat
    BY <1>1
  <2>2. (i - 1) * by \in Nat /\ (i - 1) * by <= (n - 1) * by /\ (n - 1) * by \in Nat
    BY <2>1
  <2> QED BY <1>1, <2>2
<1>4. d \in Seq(Nat) /\ Len(d) = n /\ DOMAIN d = 1 .. n
  BY <1>1, <1>2, <1>3
<1>5. RisingTimes(d)
  <2> SUFFICES ASSUME NEW i \in 1 .. n, NEW j \in 1 .. n, i < j PROVE d[i] < d[j]
    BY <1>4 DEF RisingTimes
  <2>1. i - 1 \in Nat /\ j - 1 \in Nat /\ i - 1 < j - 1 /\ by \in Nat /\ by > 0
    OBVIOUS
  <2>2. (i - 1) * by < (j - 1) * by /\ (i - 1) * by \in Nat /\ (j - 1) * by \in Nat
    BY <2>1
  <2> QED BY <1>2, <2>2
<1>6. d[1] = a
  <2>1. (1 - 1) * by = 0
    OBVIOUS
  <2> QED BY <1>1, <1>2, <2>1
<1>7. \A i \in DOMAIN d : a <= d[i] /\ d[i] <= b
  BY <1>2, <1>3, <1>4
<1> QED BY <1>1, <1>4, <1>5, <1>6, <1>7 DEF TimesOK

LEMMA JoinInOrder ==
    ASSUME NEW s, TimesOK(s), NEW t, TimesOK(t), \A i \in DOMAIN s : \A j \in DOMAIN t : s[i] < t[j]
    PROVE  TimesOK(s \o t)
<1> DEFINE d == s \o t
<1>1. /\ s \in Seq(Nat) /\ t \in Seq(Nat) /\ Len(s) \in Nat /\ Len(t) \in Nat
      /\ d \in Seq(Nat) /\ Len(d) = Len(s) + Len(t)
      /\ \A i \in 1 .. Len(s) : d[i] = s[i]
      /\ \A i \in Len(s) + 1 .. Len(s) + Len(t) : d[i] = t[i - Len(s)]
      /\ DOMAIN d = 1 .. Len(s) + Len(t) /\ DOMAIN s = 1 .. Len(s) /\ DOMAIN t = 1 .. Len(t)
  BY DEF TimesOK
<1> HIDE DEF d
<1>2. RisingTimes(d)
  <2> SUFFICES ASSUME NEW i \in DOMAIN d, NEW j \in DOMAIN d, i < j PROVE d[i] < d[j]
    BY DEF RisingTimes
  <2>0. i \in Nat /\ j \in Nat /\ i >= 1 /\ j <= Len(s) + Len(t) /\ Len(s) \in Nat /\ Len(t) \in Nat /\ i < j
    BY <1>1
  <2>1. CASE j <= Len(s)
    <3>1. i \in DOMAIN s /\ j \in DOMAIN s /\ d[i] = s[i] /\ d[j] = s[j]
      BY <1>1, <2>0, <2>1
    <3> QED BY <3>1 DEF TimesOK, RisingTimes
  <2>2. CASE i <= Len(s) /\ j > Len(s)
    <3>1. i \in 1 .. Len(s) /\ j \in Len(s) + 1 .. Len(s) + Len(t) /\ j - Len(s) \in 1 .. Len(t)
      BY <1>1, <2>0, <2>2
    <3>2. d[i] = s[i] /\ d[j] = t[j - Len(s)]
      BY <1>1, <3>1
    <3> QED BY <1>1, <3>1, <3>2
  <2>3. CASE i > Len(s)
    <3>1. /\ i \in Len(s) + 1 .. Len(s) + Len(t) /\ j \in Len(s) + 1 .. Len(s) + Len(t)
          /\ i - Len(s) \in 1 .. Len(t) /\ j - Len(s) \in 1 .. Len(t) /\ i - Len(s) < j - Len(s)
      BY <2>0, <2>3
    <3>2. d[i] = t[i - Len(s)] /\ d[j] = t[j - Len(s)]
      BY <1>1, <3>1
    <3> QED BY <1>1, <3>1, <3>2 DEF TimesOK, RisingTimes
  <2> QED BY <1>1, <2>0, <2>1, <2>2, <2>3
<1> QED BY <1>1, <1>2 DEF d, TimesOK

(* Two progressions, one after the other.                                  *)
LEMMA TwoInOrder ==
    ASSUME NEW a \in Nat, NEW b \in Nat, a <= b, NEW by \in Nat \ {0},
           NEW c \in Nat, NEW e \in Nat, c <= e, b < c, NEW ey \in Nat \ {0}
    PROVE  TimesOK(Upto(a, b, by) \o Upto(c, e, ey))
<1> DEFINE u == Upto(a, b, by)
           v == Upto(c, e, ey)
<1>1. TimesOK(u) /\ \A i \in DOMAIN u : u[i] <= b
  BY UptoInOrder
<1>2. TimesOK(v) /\ \A j \in DOMAIN v : c <= v[j]
  BY UptoInOrder
<1> HIDE DEF u, v
<1>3. (\A i \in DOMAIN u : u[i] \in Nat) /\ (\A j \in DOMAIN v : v[j] \in Nat)
  BY <1>1, <1>2 DEF TimesOK
<1>4. \A i \in DOMAIN u : \A j \in DOMAIN v : u[i] < v[j]
  BY <1>1, <1>2, <1>3
<1>5. TimesOK(u \o v)
  BY <1>1, <1>2, <1>4, JoinInOrder
<1> QED BY <1>5 DEF u, v

(* The lead times offered for a step length: from nought on, to the horizon, *)
(* and the first five of those every six hours.                            *)
LEMMA AllInOrder ==
    ASSUME NEW step \in Nat \ {0}
    PROVE  TimesOK(AllPeriods(step)) /\ Len(AllPeriods(step)) >= 1 /\ AllPeriods(step)[1] = 0
<1> DEFINE all == AllPeriods(step)
           goes(s) == TimesOK(s) /\ Len(s) >= 1 /\ s[1] = 0
<1>1. ASSUME NEW b \in Nat, NEW by \in Nat \ {0} PROVE goes(Upto(0, b, by))
  <2> DEFINE u == Upto(0, b, by)
  <2>1. TimesOK(u) /\ Len(u) >= 1 /\ u[1] = 0
    <3>1. 0 \in Nat /\ 0 <= b
      OBVIOUS
    <3> QED BY <3>1, UptoInOrder
  <2> QED BY <2>1
<1>2. ASSUME NEW b \in Nat, NEW by \in Nat \ {0}, NEW c \in Nat, NEW e \in Nat, c <= e, b < c, NEW ey \in Nat \ {0}
      PROVE  goes(Upto(0, b, by) \o Upto(c, e, ey))
  <2> DEFINE u == Upto(0, b, by)
             v == Upto(c, e, ey)
  <2>1. goes(u)
    BY <1>1
  <2>2. TimesOK(u \o v)
    BY <1>2, TwoInOrder
  <2>3. TimesOK(v)
    BY <1>2, UptoInOrder
  <2> HIDE DEF u, v
  <2>4. Len(u \o v) >= 1 /\ (u \o v)[1] = u[1]
    BY <2>1, <2>3 DEF TimesOK
  <2> QED BY <2>1, <2>2, <2>4 DEF u, v
<1> HIDE DEF goes
<1>3. goes(all)
  <2>0. /\ goes(Upto(0, 36, 1) \o Upto(39, 72, 3))
        /\ goes(Upto(0, 72, 3) \o Upto(78, 120, 6))
        /\ goes(Upto(0, 120, 6) \o Upto(132, 240, 12))
    <3>1. /\ 36 \in Nat /\ 1 \in Nat \ {0} /\ 39 \in Nat /\ 72 \in Nat /\ 39 <= 72 /\ 36 < 39 /\ 3 \in Nat \ {0}
      OBVIOUS
    <3>2. /\ 72 \in Nat /\ 3 \in Nat \ {0} /\ 78 \in Nat /\ 120 \in Nat /\ 78 <= 120 /\ 72 < 78 /\ 6 \in Nat \ {0}
      OBVIOUS
    <3>3. goes(Upto(0, 36, 1) \o Upto(39, 72, 3))
      BY ONLY <1>2, <3>1, Zenon
    <3>4. goes(Upto(0, 72, 3) \o Upto(78, 120, 6))
      BY ONLY <1>2, <3>2, Zenon
    <3>5. goes(Upto(0, 120, 6) \o Upto(132, 240, 12))
      <4> DEFINE b == 120
                 c == 132
                 e == 240
      <4>1. /\ b \in Nat /\ 6 \in Nat \ {0} /\ c \in Nat /\ e \in Nat /\ c <= e /\ b < c /\ 12 \in Nat \ {0}
        OBVIOUS
      <4> HIDE DEF b, c, e
      <4>2. goes(Upto(0, b, 6) \o Upto(c, e, 12))
        BY ONLY <1>2, <4>1, Zenon
      <4> QED BY <4>2 DEF b, c, e
    <3> QED BY <3>3, <3>4, <3>5
  <2>1. CASE step = 1
    BY <2>0, <2>1 DEF AllPeriods
  <2>2. CASE step = 3
    BY <2>0, <2>2 DEF AllPeriods
  <2>3. CASE step = 6
    BY <2>0, <2>3 DEF AllPeriods
  <2>4. CASE step = 12
    BY <1>1, <2>4 DEF AllPeriods
  <2>5. CASE step = 24
    BY <1>1, <2>5 DEF AllPeriods
  <2>6. CASE step \notin {1, 3, 6, 12, 24}
    BY <1>1, <2>6 DEF AllPeriods
  <2> QED BY <2>1, <2>2, <2>3, <2>4, <2>5, <2>6
<1> QED BY <1>3 DEF goes

LeadsOK(periods) ==
    /\ TimesOK(periods) /\ periods # <<>>
    /\ \A p \in Elements(periods) : p \in 0 .. Horizon

LEMMA PeriodsInOrder == ASSUME NEW step \in NwpSteps \cup {6} PROVE LeadsOK(Periods[step])
<1> DEFINE all == AllPeriods(step)
           K == {i \in DOMAIN all : all[i] <= Horizon}
           p == OnlyAt(all, K)
<1>1. step \in Nat \ {0} /\ Horizon \in Nat
  BY TimelineAssumption
<1>2. TimesOK(all) /\ Len(all) >= 1 /\ all[1] = 0
  BY <1>1, AllInOrder
<1>3. Periods[step] = p
  BY DEF Periods, PeriodsForStep
<1> HIDE DEF all
<1>4. all \in Seq(Nat) /\ 1 \in K /\ K \in SUBSET DOMAIN all
  BY <1>1, <1>2 DEF TimesOK
<1>5. TimesOK(p) /\ Elements(p) = {all[i] : i \in K}
  BY <1>2, <1>4, LeftInOrder
<1>6. p # <<>>
  <2>1. Elements(p) # {}
    BY <1>4, <1>5
  <2> HIDE DEF p
  <2> QED BY <2>1 DEF Elements
<1>7. \A x \in Elements(p) : x \in 0 .. Horizon
  BY <1>1, <1>4, <1>5
<1> QED BY <1>3, <1>5, <1>6, <1>7 DEF LeadsOK

LEMMA FirstPeriods == 5 \in DOMAIN Periods[6]
<1> DEFINE all == AllPeriods(6)
           u == Upto(0, 120, 6)
           v == Upto(132, 240, 12)
           K == {i \in DOMAIN all : all[i] <= Horizon}
<1>1. TimesOK(all)
  BY AllInOrder
<1>2. all = u \o v
  BY DEF AllPeriods
<1>3. TimesOK(v) /\ TimesOK(u)
  <2>2. TimesOK(v)
    <3> DEFINE c == 132
               e == 240
    <3>1. c \in Nat /\ e \in Nat /\ c <= e /\ 12 \in Nat \ {0}
      OBVIOUS
    <3> HIDE DEF c, e
    <3>2. TimesOK(Upto(c, e, 12))
      BY ONLY <3>1, UptoInOrder, Zenon
    <3> QED BY <3>2 DEF c, e
  <2>3. TimesOK(u)
    <3> DEFINE c == 0
               e == 120
               by == 6
    <3>1. c \in Nat /\ e \in Nat /\ c <= e /\ by \in Nat \ {0}
      OBVIOUS
    <3> HIDE DEF c, e, by
    <3>2. TimesOK(Upto(c, e, by))
      BY ONLY <3>1, UptoInOrder, Zenon
    <3> QED BY <3>2 DEF c, e, by
  <2> QED BY <2>2, <2>3
<1>4. Len(u) = 21 /\ \A i \in 1 .. 5 : u[i] = (i - 1) * 6
  <2>1. (120 - 0) \div 6 + 1 = 21
    OBVIOUS
  <2>2. u = [i \in 1 .. 21 |-> 0 + (i - 1) * 6]
    BY <2>1 DEF Upto
  <2>3. DOMAIN u = 1 .. 21 /\ \A i \in 1 .. 21 : u[i] = (i - 1) * 6
    BY <2>2
  <2> HIDE DEF u
  <2> QED BY <1>3, <2>3 DEF TimesOK
<1> HIDE DEF u, v
<1>5. \A i \in 1 .. 5 : i \in DOMAIN all /\ all[i] = (i - 1) * 6
  <2>1. u \in Seq(Nat) /\ v \in Seq(Nat)
    BY <1>3 DEF TimesOK
  <2>2. \A i \in 1 .. 5 : i \in DOMAIN (u \o v) /\ (u \o v)[i] = u[i]
    <3>1. Len(u) \in Nat /\ Len(v) \in Nat /\ Len(u) = 21
      BY <2>1, <1>4
    <3>2. Len(u \o v) = Len(u) + Len(v) /\ \A i \in 1 .. Len(u) : (u \o v)[i] = u[i]
      BY <2>1
    <3>3. DOMAIN (u \o v) = 1 .. 21 + Len(v)
      BY <2>1, <3>1, <3>2
    <3> QED BY <3>1, <3>2, <3>3
  <2> HIDE DEF all
  <2> QED BY <1>2, <1>4, <2>2
<1>6. Periods[6] = OnlyAt(all, K)
  BY DEF Periods, PeriodsForStep
<1> HIDE DEF all
<1>7. 1 .. 5 \in SUBSET K /\ K \in SUBSET DOMAIN all
  <2>1. Horizon \in Nat /\ Horizon >= 24
    BY TimelineAssumption
  <2> QED BY <1>5, <2>1
<1>8. Cardinality(K) >= 5
  <2>1. IsFiniteSet(DOMAIN all)
    <3>1. DOMAIN all = 1 .. Len(all) /\ Len(all) \in Nat
      BY <1>1 DEF TimesOK
    <3> QED BY <3>1, FS_Interval
  <2>2. IsFiniteSet(K)
    BY <1>7, <2>1, FS_Subset
  <2>3. Cardinality(1 .. 5) = 5
    <3>1. 1 \in Int /\ 5 \in Int /\ ~(1 > 5) /\ 5 - 1 + 1 = 5
      OBVIOUS
    <3>2. Cardinality(1 .. 5) = IF 1 > 5 THEN 0 ELSE 5 - 1 + 1
      BY <3>1, FS_Interval, Zenon
    <3> QED BY <3>1, <3>2
  <2> HIDE DEF K
  <2> QED BY <1>7, <2>2, <2>3, FS_Subset, FS_CardinalityType
<1>9. Len(OnlyAt(all, K)) = Cardinality(K) /\ OnlyAt(all, K) \in Seq(Nat)
  BY <1>1, <1>7, LeftInOrder DEF TimesOK
<1> HIDE DEF K
<1> QED BY <1>6, <1>8, <1>9

-----------------------------------------------------------------------------
(* The files chosen for a step length, and the chips.                      *)
(* A list of some of the files.                                            *)
PartOf(s, files) == TimesOK(s) /\ Elements(s) \subseteq Elements(files)

LEMMA GoodOneChosen ==
    ASSUME NEW cands, NEW n \in Nat, NEW files, DOMAIN cands = 1 .. n,
           \A i \in 1 .. n : PartOf(cands[i], files),
           NEW good \in SUBSET (1 .. n), NEW default, PartOf(default, files)
    PROVE  PartOf(FirstGood(cands, good, default), files)
<1>1. good # {} => Earliest(good) \in 1 .. n
  <2>1. good \in SUBSET Nat
    OBVIOUS
  <2> QED BY <2>1, EarliestIsIn
<1> QED BY <1>1 DEF FirstGood

LEMMA KeptIsPart == ASSUME NEW files, TimesOK(files), NEW K \in SUBSET DOMAIN files PROVE PartOf(OnlyAt(files, K), files)
<1>1. Elements(OnlyAt(files, K)) \subseteq Elements(files)
  <2>1. Elements(OnlyAt(files, K)) = {files[i] : i \in K}
    BY LeftInOrder
  <2> QED BY <2>1 DEF Elements
<1> QED BY <1>1, LeftInOrder DEF PartOf

LEMMA HoursInOrder ==
    ASSUME NEW files, TimesOK(files), NEW H
    PROVE  PartOf(AtHours(files, H), files) /\ PartOf(OnHours(files, H), files)
<1>1. PartOf(OnlyAt(files, {i \in DOMAIN files : Hour(files[i]) \in H}), files)
  BY KeptIsPart
<1>2. PartOf(OnlyAt(files, {i \in DOMAIN files : Minute(files[i]) = 0 /\ Hour(files[i]) \in H}), files)
  BY KeptIsPart
<1> QED BY <1>1, <1>2 DEF AtHours, OnHours

LEMMA BackwardInOrder == ASSUME NEW files, TimesOK(files), NEW step PROVE PartOf(StepBackward(files, step), files)
<1>1. DOMAIN files \cap PickedBack(files, step) \in SUBSET DOMAIN files
  OBVIOUS
<1> QED BY <1>1, KeptIsPart DEF StepBackward

LEMMA UpperInOrder ==
    ASSUME NEW files, TimesOK(files), NEW step \in {360, 720, 1440}
    PROVE  PartOf(FilterUpper(files, step), files)
<1> DEFINE morning == AtHours(files, {8})
           synoptic == AtHours(files, {8, 20})
           every6 == AtHours(files, {2, 8, 14, 20})
           rest == AtHours(files, 0..23 \ {2, 14})
<1>1. PartOf(morning, files) /\ PartOf(synoptic, files) /\ PartOf(every6, files) /\ PartOf(rest, files)
  BY HoursInOrder
<1>0. PartOf(files, files)
  BY DEF PartOf
<1>2. FilterUpper(files, step) \in {morning, synoptic, every6, rest, files}
  BY DEF FilterUpper
<1> HIDE DEF morning, synoptic, every6, rest
<1> QED BY <1>0, <1>1, <1>2

LEMMA FilterInOrder ==
    ASSUME NEW files, TimesOK(files), NEW step, NEW upper
    PROVE  PartOf(FilterObsFiles(files, step, upper), files)
<1> DEFINE hourly == OnHours(files, 0..23)
           aligned == OnlyAt(files, {i \in DOMAIN files : Minute(files[i]) % step = 0})
           stepped == StepBackward(IF Len(hourly) >= 2 THEN hourly ELSE files, step)
           grids == <<OnClock(files, step), OnShifted(files, step)>>
           all == <<stepped, OnClock(files, step), OnShifted(files, step)>>
           third == FirstGood(all, {i \in DOMAIN all : all[i] # <<>>}, files)
           second == FirstGood(all, OfTwo(all), third)
           first == FirstGood(grids, {i \in OfTwo(grids) : Len(grids[i]) >= Len(stepped)}, second)
           plain == FirstGood(grids, OfTwo(grids), stepped)
<1>0. PartOf(files, files)
  BY DEF PartOf
<1>1. PartOf(hourly, files) /\ PartOf(aligned, files) /\ PartOf(OnClock(files, step), files) /\ PartOf(OnShifted(files, step), files)
  BY HoursInOrder, KeptIsPart DEF OnClock, OnShifted
<1>2. PartOf(stepped, files)
  <2> DEFINE these == IF Len(hourly) >= 2 THEN hourly ELSE files
  <2>1. PartOf(these, files)
    BY <1>0, <1>1
  <2> HIDE DEF these
  <2>2. PartOf(StepBackward(these, step), files)
    BY <2>1, BackwardInOrder DEF PartOf
  <2> QED BY <2>2 DEF these
<1> HIDE DEF hourly, aligned, stepped
<1>3. DOMAIN grids = 1 .. 2 /\ \A i \in 1 .. 2 : PartOf(grids[i], files)
  BY <1>1
<1>4. DOMAIN all = 1 .. 3 /\ \A i \in 1 .. 3 : PartOf(all[i], files)
  BY <1>1, <1>2
<1> HIDE DEF grids, all
<1>5. OfTwo(grids) \in SUBSET (1 .. 2) /\ OfTwo(all) \in SUBSET (1 .. 3)
  BY <1>3, <1>4 DEF OfTwo
<1>6. PartOf(third, files)
  <2>1. {i \in DOMAIN all : all[i] # <<>>} \in SUBSET (1 .. 3)
    BY <1>4
  <2> QED BY <1>0, <1>4, <2>1, GoodOneChosen
<1> HIDE DEF third
<1>7. PartOf(second, files)
  BY <1>4, <1>5, <1>6, GoodOneChosen
<1> HIDE DEF second
<1>8. PartOf(first, files)
  <2>1. {i \in OfTwo(grids) : Len(grids[i]) >= Len(stepped)} \in SUBSET (1 .. 2)
    BY <1>5
  <2> QED BY <1>3, <1>7, <2>1, GoodOneChosen
<1> HIDE DEF first
<1>9. PartOf(plain, files)
  BY <1>2, <1>3, <1>5, GoodOneChosen
<1> HIDE DEF plain
<1>10. upper /\ step \in {360, 720, 1440} => PartOf(FilterUpper(files, step), files)
  BY UpperInOrder
<1>11. \/ FilterObsFiles(files, step, upper) \in {<<>>, files, aligned, hourly, stepped, plain, first}
       \/ upper /\ step \in {360, 720, 1440} /\ FilterObsFiles(files, step, upper) = FilterUpper(files, step)
  BY DEF FilterObsFiles, first, second, third, plain, hourly, aligned, stepped, grids, all
<1>12. PartOf(<<>>, files)
  BY DEF PartOf, TimesOK, RisingTimes, Elements
<1> QED BY <1>0, <1>1, <1>2, <1>8, <1>9, <1>10, <1>11, <1>12

ListingOK(raw) == raw \in Listings \cup {<<>>}
LEMMA FilteredInOrder ==
    ASSUME NEW raw, ListingOK(raw), NEW step \in ObsSteps \cup NwpSteps \cup {6}, NEW upper \in BOOLEAN
    PROVE  TimesOK(Filtered[<<raw, step, upper>>])
<1>1. TimesOK(raw)
  <2>1. CASE raw \in Listings
    BY <2>1, TimelineAssumption DEF TimesOK, RisingTimes
  <2>2. CASE raw = <<>>
    BY <2>2 DEF TimesOK, RisingTimes
  <2> QED BY <2>1, <2>2 DEF ListingOK
<1>2. raw \in Listings \cup {<<>>}
  BY DEF ListingOK
<1>3. Filtered[<<raw, step, upper>>] = FilterObsFiles(raw, step, upper)
  BY <1>2 DEF Filtered
<1> QED BY <1>1, <1>3, FilterInOrder DEF PartOf

LEMMA ChipsInOrder ==
    ASSUME NEW files, TimesOK(files), NEW target, NEW max \in Nat \ {0}
    PROVE  TimesOK(ObsChips(files, target, max)) /\ (files # <<>> => ObsChips(files, target, max) # <<>>)
<1> DEFINE n == Len(files)
           idx == IndexOf(files, target)
           s == Latest({1, idx - max \div 2})
           lo == Earliest({s, n - max + 1})
<1>1. n \in Nat /\ files \in Seq(Nat)
  BY DEF TimesOK
<1>2. CASE n <= max
  BY <1>2 DEF ObsChips
<1>3. CASE n > max /\ idx = Nil
  <2>1. n - max + 1 \in 1 .. n /\ n \in (n - max + 1) .. n
    BY <1>1, <1>3
  <2>2. ObsChips(files, target, max) = SubSeq(files, n - max + 1, n)
    BY <1>1, <1>3 DEF ObsChips
  <2> QED BY <2>1, <2>2, StretchInOrder
<1>4. CASE n > max /\ idx # Nil
  <2>1. idx \in DOMAIN files
    BY <1>1, <1>4, IndexIsIn DEF IndexOf
  <2>2. idx \in 1 .. n
    BY <1>1, <2>1
  <2>3. max \div 2 \in Nat /\ idx - max \div 2 <= n
    BY <1>1, <2>2
  <2>4. s \in 1 .. n
    <3>1. s = IF 1 >= idx - max \div 2 THEN 1 ELSE idx - max \div 2
      <4> HIDE DEF idx
      <4> QED BY <2>2, <2>3 DEF Latest
    <3> QED BY <1>1, <1>3, <2>2, <2>3, <3>1
  <2>5. lo \in 1 .. n - max + 1
    <3>1. lo = IF s <= n - max + 1 THEN s ELSE n - max + 1
      <4> HIDE DEF s
      <4> QED BY <1>1, <2>4 DEF Earliest
    <3> QED BY <1>1, <1>4, <2>4, <3>1
  <2>6. lo \in 1 .. n /\ lo + max - 1 \in lo .. n
    BY <1>1, <1>4, <2>5
  <2>7. ObsChips(files, target, max) = SubSeq(files, lo, lo + max - 1)
    <3>1. ~(n <= max) /\ ~(idx = Nil)
      BY <1>1, <1>4
    <3> QED BY ONLY <3>1, Zenon DEF ObsChips
  <2> HIDE DEF lo
  <2> QED BY <2>6, <2>7, StretchInOrder
<1> QED BY <1>1, <1>2, <1>3, <1>4

-----------------------------------------------------------------------------
(* The timeline is whole: lists in order, and positions that exist.        *)
LoopType == [on : BOOLEAN, a : Int, b : Int]
LineType == [mode : {"nwp", "obs"}, step : ObsSteps \cup NwpSteps \cup {6}, periods : Seq(Nat), pidx : Nat,
             raw : Listings \cup {<<>>}, obs : Seq(Nat), oidx : Nat, upper : BOOLEAN,
             disabled : SUBSET (0 .. Horizon), cursor : Int, live : BOOLEAN, loop : LoopType]
LineOK(t) ==
    /\ t \in LineType /\ LeadsOK(t.periods) /\ TimesOK(t.obs)
    /\ t.pidx \in DOMAIN t.periods
    /\ t.oidx \in DOMAIN t.obs \/ (t.obs = <<>> /\ t.oidx = 1)
Steady(t, rain) == t.mode = "nwp" => t.disabled = RainDisabled(rain, t.periods)

(* What a timeline shows, and a period without accumulation only for want  *)
(* of another.                                                             *)
ShownBy(t) == IF t.mode = "obs" THEN IF t.obs = <<>> THEN Nil ELSE t.obs[t.oidx] ELSE t.periods[t.pidx]
ShowsGood(t) == t.mode = "nwp" /\ Elements(t.periods) \ t.disabled # {} => ShownBy(t) \notin t.disabled

TInv ==
    /\ LineOK(tl) /\ Steady(tl, tlRain) /\ tlRain \in Accumulations
    /\ AskedIsShown
    /\ playing \in BOOLEAN /\ playTimer = playing /\ sliderShown \in BOOLEAN /\ OneTicker

LEMMA LineFields ==
    ASSUME NEW t, LineOK(t)
    PROVE  /\ t.mode \in {"nwp", "obs"} /\ t.step \in ObsSteps \cup NwpSteps \cup {6} /\ t.periods \in Seq(Nat)
           /\ t.pidx \in Nat /\ t.raw \in Listings \cup {<<>>} /\ t.obs \in Seq(Nat) /\ t.oidx \in Nat
           /\ t.upper \in BOOLEAN /\ t.disabled \in SUBSET (0 .. Horizon) /\ t.cursor \in Int /\ t.live \in BOOLEAN
           /\ t.loop \in LoopType /\ t.loop.on \in BOOLEAN /\ t.loop.a \in Int /\ t.loop.b \in Int
           /\ t.pidx \in 1 .. Len(t.periods) /\ Len(t.periods) \in Nat /\ Len(t.periods) >= 1
           /\ t.periods[t.pidx] \in 0 .. Horizon
           /\ t.obs # <<>> => t.oidx \in 1 .. Len(t.obs) /\ t.obs[t.oidx] \in Nat
<1>1. t.loop \in LoopType /\ t \in LineType
  BY DEF LineOK, LineType
<1>2. t.pidx \in DOMAIN t.periods /\ t.periods \in Seq(Nat)
  BY DEF LineOK, LineType
<1>3. t.periods[t.pidx] \in 0 .. Horizon
  BY <1>2 DEF LineOK, LeadsOK, Elements
<1>4. t.obs # <<>> => t.oidx \in DOMAIN t.obs /\ t.obs \in Seq(Nat)
  BY DEF LineOK, LineType
<1>5. t.loop.on \in BOOLEAN /\ t.loop.a \in Int /\ t.loop.b \in Int
  BY <1>1 DEF LoopType
<1> QED BY <1>1, <1>2, <1>3, <1>4, <1>5 DEF LineType

(* The rain effect keeps the timeline whole and moves to a period that     *)
(* exists.                                                                 *)
LEMMA RainSettles ==
    ASSUME NEW t, LineOK(t), NEW rain \in Accumulations
    PROVE  LET s == RainEffect(t, rain)
           IN  /\ LineOK(s.tl) /\ Steady(s.tl, rain) /\ ShowsGood(s.tl)
               /\ s.asks # Nil => s.asks = ShownBy(s.tl) /\ t.mode = "nwp"
               /\ s.asks = Nil => ShownBy(s.tl) = ShownBy(t)
               /\ s.tl.mode = t.mode /\ s.tl.obs = t.obs /\ s.tl.oidx = t.oidx /\ s.tl.periods = t.periods
<1> DEFINE off == IF rain > 0 /\ t.mode = "nwp" THEN Disabled(t, rain)
                  ELSE IF rain > 0 THEN t.disabled ELSE {}
           good == {i \in DOMAIN t.periods : t.periods[i] \notin off}
           jump == t.mode = "nwp" /\ t.periods[t.pidx] \in off /\ good # {}
           first == Earliest(good)
           idx == IF jump THEN first ELSE t.pidx
           s == RainEffect(t, rain)
           u == [t EXCEPT !.disabled = off, !.pidx = idx]
<1>0. s = [tl |-> u, asks |-> IF jump THEN t.periods[first] ELSE Nil]
  BY DEF RainEffect
<1>1. rain \in Nat /\ Horizon \in Nat
  BY TimelineAssumption
<1>2. \A i \in DOMAIN t.periods : t.periods[i] \in 0 .. Horizon
  BY DEF LineOK, LeadsOK, Elements
<1>3. off \in SUBSET (0 .. Horizon) /\ (t.mode = "nwp" => off = RainDisabled(rain, t.periods))
  <2>1. RainDisabled(rain, t.periods) \in SUBSET (0 .. Horizon)
    BY <1>2 DEF RainDisabled, Elements
  <2>2. rain = 0 => RainDisabled(rain, t.periods) = {}
    BY <1>2 DEF RainDisabled, Elements
  <2>3. t.disabled \in SUBSET (0 .. Horizon)
    BY LineFields
  <2> QED BY <1>1, <2>1, <2>2, <2>3 DEF Disabled
<1> HIDE DEF off
<1>4. good # {} => first \in good
  <2>1. good \subseteq Nat
    <3>1. DOMAIN t.periods = 1 .. Len(t.periods)
      BY LineFields
    <3> QED BY <3>1
  <2> HIDE DEF good
  <2> QED BY <2>1, EarliestIsIn
<1>5. idx \in DOMAIN t.periods /\ idx \in Nat
  <2>1. t.pidx \in DOMAIN t.periods
    BY DEF LineOK
  <2>2. jump => first \in DOMAIN t.periods
    BY <1>4
  <2>3. DOMAIN t.periods = 1 .. Len(t.periods)
    BY LineFields
  <2> QED BY <2>1, <2>2, <2>3
<1>6. good # {} => t.mode # "nwp" \/ t.periods[idx] \notin off
  BY <1>4
<1>7. jump => first = idx /\ t.mode = "nwp"
  OBVIOUS
<1>8. ~jump => idx = t.pidx
  OBVIOUS
<1> HIDE DEF idx, first
<1>9. /\ u.disabled = off /\ u.pidx = idx /\ u.mode = t.mode /\ u.periods = t.periods /\ u.obs = t.obs
      /\ u.oidx = t.oidx /\ u \in LineType
  BY <1>3, <1>5 DEF LineOK, LineType
<1> HIDE DEF u
<1>10. LineOK(u)
  BY <1>5, <1>9 DEF LineOK
<1>11. Steady(u, rain)
  BY <1>3, <1>9 DEF Steady
<1>12. ShowsGood(u)
  <2>1. Elements(t.periods) \ off # {} => good # {}
    BY DEF Elements
  <2> QED BY <1>6, <1>9, <2>1 DEF ShowsGood, ShownBy
<1>13. CASE jump
  <2>1. s.tl = u /\ s.asks = t.periods[idx] /\ s.asks = ShownBy(u)
    BY <1>0, <1>7, <1>9, <1>13 DEF ShownBy
  <2>2. s.asks # Nil
    <3>1. t.periods[idx] \in 0 .. Horizon
      BY <1>2, <1>5
    <3> QED BY <1>1, <2>1, <3>1 DEF Nil
  <2> QED BY <1>7, <1>9, <1>10, <1>11, <1>12, <1>13, <2>1, <2>2
<1>14. CASE ~jump
  <2>1. s.tl = u /\ s.asks = Nil /\ ShownBy(u) = ShownBy(t)
    BY <1>0, <1>8, <1>9, <1>14 DEF ShownBy
  <2> QED BY <1>9, <1>10, <1>11, <1>12, <2>1
<1> QED BY <1>13, <1>14

(* An action that ends with the effects.                                   *)
LEMMA SettleKeeps ==
    ASSUME NEW t, LineOK(t), NEW rain \in Accumulations, NEW asks,
           asks = ShownBy(t), Settle(t, rain, asks)
    PROVE  LineOK(tl') /\ Steady(tl, tlRain)' /\ tlRain' \in Accumulations /\ AskedIsShown'
<1> DEFINE s == RainEffect(t, rain)
<1>1. /\ LineOK(s.tl) /\ Steady(s.tl, rain) /\ ShowsGood(s.tl)
      /\ s.asks # Nil => s.asks = ShownBy(s.tl) /\ t.mode = "nwp"
      /\ s.asks = Nil => ShownBy(s.tl) = ShownBy(t)
  BY RainSettles
<1> HIDE DEF s
<1>2. tl' = s.tl /\ tlRain' = rain /\ tlAsked' = IF s.asks # Nil THEN s.asks ELSE IF asks # Nil THEN asks ELSE tlAsked
  BY DEF Settle, s
<1>3. Shown' = ShownBy(tl')
  BY DEF Shown, ShownBy
<1> QED BY <1>1, <1>2, <1>3 DEF AskedIsShown, ShowsGood, Steady, ShownBy

-----------------------------------------------------------------------------
(* Stepping stays on the timeline.                                         *)
LEMMA LoopEnds ==
    ASSUME NEW n \in Nat, NEW in \in SUBSET (1 .. n), in # {}
    PROVE  /\ Earliest(in) \in in /\ Latest(in) \in in
           /\ \A k \in in : Earliest(in) <= k /\ k <= Latest(in)
<1>1. in \in SUBSET Nat /\ in \in SUBSET (0 .. n)
  OBVIOUS
<1>2. Earliest(in) \in in /\ \A y \in in : Earliest(in) <= y
  BY <1>1, EarliestIsIn
<1>3. Latest(in) \in in /\ \A y \in in : y <= Latest(in)
  BY <1>1, LatestIsIn
<1> QED BY <1>2, <1>3

LEMMA LoopNextIn ==
    ASSUME NEW idx \in Nat, NEW lo \in Nat, NEW hi \in Nat, lo <= hi, NEW dir \in {1, -1}
    PROVE  LoopNext(idx, lo, hi, dir) \in lo .. hi
<1>1. CASE dir = 1
  BY <1>1 DEF LoopNext
<1>2. CASE dir = -1
  BY <1>2 DEF LoopNext
<1> QED BY <1>1, <1>2

LEMMA WrapIn == ASSUME NEW x \in Int, NEW len \in Nat, len >= 1 PROVE Wrap(x, len) \in 1 .. len
<1>1. (x - 1) % len \in 0 .. len - 1
  OBVIOUS
<1> QED BY <1>1 DEF Wrap

LEMMA NextIsIn ==
    ASSUME NEW s \in Seq(Nat), Len(s) >= 1, NEW off, NEW idx \in Nat, NEW dir \in {1, -1}
    PROVE  NextEnabled(s, off, idx, dir) \in 1 .. Len(s)
<1> DEFINE tries == {k \in 1..Len(s) : s[Wrap(idx + dir * k, Len(s))] \notin off}
           far == IF tries = {} THEN 1 ELSE Earliest(tries)
<1>1. far \in Nat
  <2>1. tries \in SUBSET Nat
    OBVIOUS
  <2> HIDE DEF tries
  <2> QED BY <2>1, EarliestIsIn
<1>2. idx + dir * far \in Int
  <2> HIDE DEF far
  <2>1. dir \in Int
    OBVIOUS
  <2> QED BY <1>1, <2>1
<1>3. NextEnabled(s, off, idx, dir) = Wrap(idx + dir * far, Len(s))
  BY DEF NextEnabled
<1> HIDE DEF far
<1> QED BY <1>2, <1>3, WrapIn

LEMMA SteppedWhole ==
    ASSUME NEW t, LineOK(t), t.mode = "obs" => t.obs # <<>>, NEW dir \in {1, -1}
    PROVE  LineOK(Stepped(t, dir)) /\ ShownIn(Stepped(t, dir)) = ShownBy(Stepped(t, dir))
<1> DEFINE in == InLoop(t)
           lo == Earliest(in)
           hi == Latest(in)
           oidx == IF in # {} THEN LoopNext(t.oidx, lo, hi, dir)
                   ELSE Wrap(t.oidx + dir + Len(t.obs), Len(t.obs))
           pidx == IF in # {} THEN LoopNext(t.pidx, lo, hi, dir)
                   ELSE NextEnabled(t.periods, t.disabled, t.pidx, dir)
           n == IF t.mode = "obs" THEN Len(t.obs) ELSE Len(t.periods)
           u == Stepped(t, dir)
<1>0. /\ t.mode \in {"nwp", "obs"} /\ Len(t.periods) \in Nat /\ Len(t.periods) >= 1 /\ t.periods \in Seq(Nat)
      /\ t.pidx \in Nat /\ t.obs \in Seq(Nat) /\ t.oidx \in Nat /\ t \in LineType
  BY LineFields DEF LineOK
<1>1. n \in Nat /\ (t.mode = "obs" => Len(t.obs) \in Nat /\ Len(t.obs) >= 1)
  BY <1>0
<1>2. in \in SUBSET (1 .. n)
  <2>1. DOMAIN t.obs = 1 .. Len(t.obs) /\ DOMAIN t.periods = 1 .. Len(t.periods)
    BY <1>0
  <2>2. in \subseteq DOMAIN (IF t.mode = "obs" THEN t.obs ELSE t.periods)
    BY DEF InLoop
  <2> QED BY <2>1, <2>2
<1>10. (t.mode = "obs" => n = Len(t.obs)) /\ (t.mode # "obs" => n = Len(t.periods))
  OBVIOUS
<1> HIDE DEF in
<1>3. in # {} => lo \in 1 .. n /\ hi \in 1 .. n /\ lo <= hi
  <2> SUFFICES ASSUME in # {} PROVE lo \in 1 .. n /\ hi \in 1 .. n /\ lo <= hi
    OBVIOUS
  <2>1. lo \in in /\ hi \in in /\ \A k \in in : lo <= k
    <3> HIDE DEF n
    <3> QED BY <1>1, <1>2, LoopEnds
  <2> HIDE DEF lo, hi, n
  <2> QED BY <1>2, <2>1
<1> HIDE DEF lo, hi, n
<1>4. ASSUME in # {}, NEW idx \in Nat PROVE LoopNext(idx, lo, hi, dir) \in 1 .. n
  <2>1. LoopNext(idx, lo, hi, dir) \in lo .. hi
    <3>1. lo \in Nat /\ hi \in Nat /\ lo <= hi /\ idx \in Nat
      BY <1>1, <1>3, <1>4
    <3> QED BY ONLY <3>1, LoopNextIn, dir \in {1, -1}
  <2> QED BY <1>1, <1>3, <1>4, <2>1
<1>5. t.mode = "obs" => oidx \in 1 .. Len(t.obs)
  <2>1. in = {} /\ t.mode = "obs" => Wrap(t.oidx + dir + Len(t.obs), Len(t.obs)) \in 1 .. Len(t.obs)
    <3>1. t.mode = "obs" => t.oidx + dir + Len(t.obs) \in Int
      BY <1>0, <1>1
    <3> QED BY <1>1, <3>1, WrapIn
  <2>2. in # {} => LoopNext(t.oidx, lo, hi, dir) \in 1 .. n
    BY <1>0, <1>4
  <2> QED BY <1>10, <2>1, <2>2
<1>6. t.mode # "obs" => pidx \in 1 .. Len(t.periods)
  <2>1. NextEnabled(t.periods, t.disabled, t.pidx, dir) \in 1 .. Len(t.periods)
    BY <1>0, NextIsIn
  <2>2. in # {} => LoopNext(t.pidx, lo, hi, dir) \in 1 .. n
    BY <1>0, <1>4
  <2> QED BY <1>10, <2>1, <2>2
<1> HIDE DEF oidx, pidx
<1>7. u = IF t.mode = "obs" THEN [t EXCEPT !.oidx = oidx, !.cursor = t.obs[oidx]]
          ELSE [t EXCEPT !.pidx = pidx, !.cursor = Cycle + t.periods[pidx] * 60]
  BY DEF Stepped, oidx, pidx, lo, hi, in
<1> HIDE DEF u
<1>8. CASE t.mode = "obs"
  <2>1. t.obs[oidx] \in Int /\ oidx \in Nat /\ oidx \in DOMAIN t.obs
    BY <1>0, <1>1, <1>5, <1>8
  <2>2. u = [t EXCEPT !.oidx = oidx, !.cursor = t.obs[oidx]]
    BY <1>7, <1>8
  <2>3. u \in LineType
    BY <1>0, <2>1, <2>2 DEF LineType
  <2>4. u.oidx = oidx /\ u.obs = t.obs /\ u.mode = t.mode /\ u.periods = t.periods /\ u.pidx = t.pidx
    BY <1>0, <2>2 DEF LineType
  <2>5. LineOK(u)
    BY <2>1, <2>3, <2>4 DEF LineOK
  <2>6. ShownIn(u) = ShownBy(u)
    BY <1>8, <2>4 DEF ShownIn, ShownBy
  <2> QED BY <2>5, <2>6 DEF u
<1>9. CASE t.mode # "obs"
  <2>1. Cycle + t.periods[pidx] * 60 \in Int /\ pidx \in DOMAIN t.periods /\ pidx \in Nat
    BY <1>0, <1>6, <1>9, TimelineAssumption
  <2>2. u = [t EXCEPT !.pidx = pidx, !.cursor = Cycle + t.periods[pidx] * 60]
    BY <1>7, <1>9
  <2>3. u \in LineType
    BY <1>0, <2>1, <2>2 DEF LineType
  <2>4. u.oidx = t.oidx /\ u.obs = t.obs /\ u.mode = t.mode /\ u.periods = t.periods /\ u.pidx = pidx
    BY <1>0, <2>2 DEF LineType
  <2>5. LineOK(u)
    BY <2>1, <2>3, <2>4 DEF LineOK
  <2>6. ShownIn(u) = ShownBy(u)
    BY <1>9, <2>4 DEF ShownIn, ShownBy
  <2> QED BY <2>5, <2>6 DEF u
<1> QED BY <1>8, <1>9

-----------------------------------------------------------------------------
(* The steps of the slider.                                                *)
LineKept == LineOK(tl') /\ Steady(tl, tlRain)' /\ tlRain' \in Accumulations /\ AskedIsShown'
PlayKept == playing' \in BOOLEAN /\ playTimer' = playing' /\ OneTicker'

LEMMA KeptTogether == ASSUME LineKept, PlayKept, sliderShown' \in BOOLEAN PROVE TInv'
  BY DEF LineKept, PlayKept, TInv, LineOK, Steady

LEMMA PlaybackKeeps ==
    ASSUME TInv
    PROVE  /\ Stop => PlayKept
           /\ Run => PlayKept
           /\ UNCHANGED <<playing, playTimer, intervals>> => PlayKept
<1>1. intervals = IF playing THEN 1 ELSE 0
  BY DEF TInv, OneTicker
<1>2. playing \in BOOLEAN /\ (playTimer <=> playing)
  BY DEF TInv
<1>3. Cleared = 0
  BY <1>1, <1>2 DEF Cleared
<1>4. Stop => PlayKept
  BY <1>3 DEF Stop, PlayKept, OneTicker
<1>5. Run => PlayKept
  BY <1>3 DEF Run, PlayKept, OneTicker
<1>6. UNCHANGED <<playing, playTimer, intervals>> => PlayKept
  BY <1>1, <1>2 DEF PlayKept, OneTicker, TInv
<1> QED BY <1>4, <1>5, <1>6

LEMMA SettledKept ==
    ASSUME TInv, NEW t, LineOK(t), NEW asks, asks = ShownBy(t), Settle(t, tlRain, asks)
    PROVE  LineKept
  BY SettleKeeps DEF TInv, LineKept

LEMMA SameLineKept ==
    ASSUME TInv, UNCHANGED <<tl, tlRain, tlAsked>>
    PROVE  LineKept
  BY DEF TInv, LineKept, AskedIsShown, Shown

LEMMA StepAsksKept == ASSUME TInv, NEW dir \in {1, -1}, CanStep, StepAsks(dir) PROVE LineKept
<1>1. LineOK(tl) /\ (tl.mode = "obs" => tl.obs # <<>>)
  BY DEF TInv, CanStep
<1>2. LineOK(Stepped(tl, dir)) /\ ShownIn(Stepped(tl, dir)) = ShownBy(Stepped(tl, dir))
  BY <1>1, SteppedWhole
<1>3. Settle(Stepped(tl, dir), tlRain, ShownIn(Stepped(tl, dir)))
  BY DEF StepAsks
<1> QED BY <1>2, <1>3, SettledKept

LEMMA SliderStepKeeps == ASSUME TInv, NEW dir \in {1, -1}, SliderStep(dir) PROVE TInv'
<1>1. LineKept
  BY StepAsksKept DEF SliderStep
<1>2. PlayKept
  BY PlaybackKeeps DEF SliderStep
<1>3. sliderShown' \in BOOLEAN
  BY DEF TInv, SliderStep
<1> QED BY <1>1, <1>2, <1>3, KeptTogether

LEMMA PlaybackTickKeeps == ASSUME TInv, PlaybackTick PROVE TInv'
<1>1. LineKept
  BY StepAsksKept, SameLineKept DEF PlaybackTick
<1>2. PlayKept
  BY PlaybackKeeps DEF PlaybackTick
<1>3. sliderShown' \in BOOLEAN
  BY DEF TInv, PlaybackTick
<1> QED BY <1>1, <1>2, <1>3, KeptTogether

(* A timeline at another chip, with another cursor, or reviewed or live.   *)
LEMMA ElsewhereOK ==
    ASSUME NEW t, LineOK(t), NEW cursor \in Int, NEW live \in BOOLEAN
    PROVE  /\ LineOK([t EXCEPT !.cursor = cursor]) /\ LineOK([t EXCEPT !.live = live])
           /\ \A i \in DOMAIN t.obs : LineOK([t EXCEPT !.oidx = i])
           /\ \A i \in DOMAIN t.periods : LineOK([t EXCEPT !.pidx = i])
<1> USE DEF LineOK
<1>0. DOMAIN t.obs \subseteq Nat /\ DOMAIN t.periods \subseteq Nat
  BY LineFields
<1>1. LineOK([t EXCEPT !.cursor = cursor])
  BY DEF LineType
<1>2. LineOK([t EXCEPT !.live = live])
  BY DEF LineType
<1>3. ASSUME NEW i \in DOMAIN t.obs PROVE LineOK([t EXCEPT !.oidx = i])
  BY <1>0 DEF LineType
<1>4. ASSUME NEW i \in DOMAIN t.periods PROVE LineOK([t EXCEPT !.pidx = i])
  BY <1>0 DEF LineType
<1> QED BY <1>1, <1>2, <1>3, <1>4

LEMMA ChipClickKeeps == ASSUME TInv, NEW i, ChipClick(i) PROVE TInv'
<1>0. LineOK(tl) /\ tl \in LineType /\ sliderShown' \in BOOLEAN
  BY DEF TInv, LineOK, ChipClick
<1>1. CASE tl.mode = "obs" /\ i \in DOMAIN tl.obs /\ Settle([tl EXCEPT !.oidx = i], tlRain, tl.obs[i])
  <2> DEFINE t == [tl EXCEPT !.oidx = i]
  <2>1. LineOK(t)
    <3>1. 0 \in Int /\ TRUE \in BOOLEAN
      OBVIOUS
    <3> QED BY <1>0, <1>1, <3>1, ElsewhereOK
  <2>2. t.mode = "obs" /\ t.oidx = i /\ t.obs = tl.obs
    BY <1>0, <1>1 DEF LineType
  <2>3. tl.obs[i] = ShownBy(t)
    BY <1>1, <2>2 DEF ShownBy
  <2> HIDE DEF t
  <2>4. Settle(t, tlRain, tl.obs[i])
    BY <1>1 DEF t
  <2> QED BY <2>1, <2>3, <2>4, SettledKept, PlaybackKeeps, KeptTogether, <1>0 DEF ChipClick
<1>2. CASE tl.mode = "nwp" /\ i \in DOMAIN tl.periods /\ Settle([tl EXCEPT !.pidx = i], tlRain, tl.periods[i])
  <2> DEFINE t == [tl EXCEPT !.pidx = i]
  <2>1. LineOK(t)
    <3>1. 0 \in Int /\ TRUE \in BOOLEAN
      OBVIOUS
    <3> QED BY <1>0, <1>2, <3>1, ElsewhereOK
  <2>2. t.mode = "nwp" /\ t.pidx = i /\ t.periods = tl.periods
    BY <1>0, <1>2 DEF LineType
  <2>3. tl.periods[i] = ShownBy(t)
    BY <1>2, <2>2 DEF ShownBy
  <2> HIDE DEF t
  <2>4. Settle(t, tlRain, tl.periods[i])
    BY <1>2 DEF t
  <2> QED BY <2>1, <2>3, <2>4, SettledKept, PlaybackKeeps, KeptTogether, <1>0 DEF ChipClick
<1> QED BY <1>1, <1>2 DEF ChipClick

LEMMA NwpStepLengthKeeps == ASSUME TInv, NEW step \in NwpSteps, NwpStepLength(step) PROVE TInv'
<1> DEFINE periods == Periods[step]
           off == RainDisabled(tlRain, periods)
           idx == ClosestIndex(periods, tl.periods[tl.pidx], off)
           t == [tl EXCEPT !.step = step, !.periods = periods, !.pidx = idx, !.disabled = off]
<1>0. LineOK(tl) /\ tl \in LineType /\ tl.mode = "nwp" /\ tlRain \in Accumulations /\ sliderShown' \in BOOLEAN
  BY DEF TInv, LineOK, NwpStepLength
<1>1. LeadsOK(periods)
  BY PeriodsInOrder
<1>2. periods \in Seq(Nat) /\ periods # <<>> /\ periods \in Seq(Int)
  BY <1>1 DEF LeadsOK, TimesOK
<1>3. off \in SUBSET (0 .. Horizon)
  BY <1>1 DEF LeadsOK, RainDisabled
<1>4. idx \in DOMAIN periods
  <2>1. tl.periods[tl.pidx] \in Int
    BY <1>0, LineFields, TimelineAssumption
  <2> HIDE DEF periods, off
  <2> QED BY <1>2, <2>1, ClosestIsIn
<1>5. idx \in Nat
  <2>1. DOMAIN periods \subseteq Nat
    <3> HIDE DEF periods
    <3> QED BY <1>2
  <2> QED BY <1>4, <2>1
<1>6. Settle(t, tlRain, periods[idx]) /\ Stop
  BY DEF NwpStepLength
<1> HIDE DEF periods, off, idx
<1>7. /\ t \in LineType /\ t.periods = periods /\ t.pidx = idx /\ t.obs = tl.obs /\ t.oidx = tl.oidx
      /\ t.mode = "nwp"
  BY <1>0, <1>2, <1>3, <1>5 DEF LineType
<1> HIDE DEF t
<1>8. LineOK(t)
  BY <1>0, <1>1, <1>4, <1>7 DEF LineOK
<1>9. periods[idx] = ShownBy(t)
  BY <1>7 DEF ShownBy
<1> QED BY <1>0, <1>6, <1>8, <1>9, SettledKept, PlaybackKeeps, KeptTogether

LEMMA ObsStepLengthKeeps == ASSUME TInv, NEW step \in ObsSteps, ObsStepLength(step) PROVE TInv'
<1> DEFINE all == Filtered[<<tl.raw, step, tl.upper>>]
           chips == ObsChips(all, Nil, MaxChips)
           atLatest == tl.obs = <<>> \/ tl.oidx >= Len(tl.obs)
           keep == IF tl.obs = <<>> THEN Nil
                   ELSE IF all # <<>> /\ tl.obs[tl.oidx] \notin Elements(all)
                   THEN FindClosestFile(all, tl.obs[tl.oidx]) ELSE tl.obs[tl.oidx]
           idx == IF ~atLatest /\ keep \in Elements(chips) THEN IndexOf(chips, keep)
                  ELSE IF chips = <<>> THEN 1 ELSE Len(chips)
           t == [tl EXCEPT !.step = step, !.obs = chips, !.oidx = idx]
<1>0. LineOK(tl) /\ tl \in LineType /\ tl.mode = "obs" /\ tlRain \in Accumulations /\ sliderShown' \in BOOLEAN
  BY DEF TInv, LineOK, ObsStepLength
<1>1. TimesOK(all)
  <2>1. ListingOK(tl.raw) /\ step \in ObsSteps \cup NwpSteps \cup {6} /\ tl.upper \in BOOLEAN
    BY <1>0, LineFields DEF ListingOK
  <2> QED BY <2>1, FilteredInOrder
<1>2. TimesOK(chips)
  <2>1. MaxChips \in Nat \ {0}
    BY TimelineAssumption
  <2> HIDE DEF all
  <2> QED BY <1>1, <2>1, ChipsInOrder
<1>3. chips \in Seq(Nat) /\ Len(chips) \in Nat /\ DOMAIN chips = 1 .. Len(chips)
  BY <1>2 DEF TimesOK
<1> HIDE DEF chips, keep
<1>4. idx \in DOMAIN chips \/ (chips = <<>> /\ idx = 1)
  <2>1. keep \in Elements(chips) => IndexOf(chips, keep) \in DOMAIN chips
    BY <1>3, IndexIsIn
  <2> QED BY <1>3, <2>1
<1>5. idx \in Nat
  BY <1>3, <1>4
<1>6. Settle(t, tlRain, IF chips = <<>> THEN Nil ELSE chips[idx]) /\ Stop
  BY DEF ObsStepLength, chips, keep
<1> HIDE DEF idx
<1>7. /\ t \in LineType /\ t.periods = tl.periods /\ t.pidx = tl.pidx /\ t.obs = chips /\ t.oidx = idx
      /\ t.mode = "obs"
  BY <1>0, <1>3, <1>5 DEF LineType
<1> HIDE DEF t
<1>8. LineOK(t)
  BY <1>0, <1>2, <1>4, <1>7 DEF LineOK
<1>9. (IF chips = <<>> THEN Nil ELSE chips[idx]) = ShownBy(t)
  BY <1>7 DEF ShownBy
<1> QED BY <1>0, <1>6, <1>8, <1>9, SettledKept, PlaybackKeeps, KeptTogether

-----------------------------------------------------------------------------
(* The steps of the ruler.                                                 *)
LEMMA ScrubKept == ASSUME TInv, NEW t, LineOK(t), NEW moment \in Int, ScrubTo(t, moment) PROVE LineKept
<1> DEFINE o == ClosestIndex(t.obs, moment, {})
           times == [i \in DOMAIN t.periods |-> Cycle + t.periods[i] * 60]
           p == ClosestIndex(times, moment, {})
           u == [t EXCEPT !.cursor = moment]
<1>0. t \in LineType /\ t.obs \in Seq(Int) /\ t.periods \in Seq(Nat) /\ t.periods # <<>> /\ t.mode \in {"nwp", "obs"}
  BY LineFields DEF LineOK
<1>1. u.mode = t.mode /\ u.obs = t.obs /\ u.oidx = t.oidx /\ u.periods = t.periods /\ u.pidx = t.pidx
  BY <1>0 DEF LineType
<1>2. LineOK(u)
  <2>1. TRUE \in BOOLEAN
    OBVIOUS
  <2> QED BY <2>1, ElsewhereOK
<1>3. times \in Seq(Int) /\ times # <<>> /\ DOMAIN times = DOMAIN t.periods
  <2>1. \A i \in DOMAIN t.periods : t.periods[i] \in Nat
    BY <1>0
  <2>2. \A i \in DOMAIN t.periods : times[i] \in Int
    BY <2>1, TimelineAssumption
  <2>3. DOMAIN t.periods = 1 .. Len(t.periods) /\ Len(t.periods) \in Nat /\ Len(t.periods) # 0
    BY <1>0
  <2>4. times \in [1 .. Len(t.periods) -> Int]
    BY <2>2, <2>3
  <2> HIDE DEF times
  <2> QED BY <2>3, <2>4
<1>4. p \in DOMAIN t.periods
  <2> HIDE DEF times
  <2> QED BY <1>3, ClosestIsIn
<1>5. t.obs # <<>> => o \in DOMAIN t.obs
  BY <1>0, ClosestIsIn
<1>6. IF t.mode = "obs"
      THEN IF t.obs = <<>> THEN Settle(u, tlRain, Nil) ELSE Settle([u EXCEPT !.oidx = o], tlRain, t.obs[o])
      ELSE Settle([u EXCEPT !.pidx = p], tlRain, t.periods[p])
  BY DEF ScrubTo
<1>9. u \in LineType
  BY <1>2 DEF LineOK
<1> HIDE DEF o, p, u
<1>7. \A i \in DOMAIN t.obs : LineOK([u EXCEPT !.oidx = i])
  <2>1. TRUE \in BOOLEAN /\ 0 \in Int
    OBVIOUS
  <2> QED BY <1>1, <1>2, <2>1, ElsewhereOK
<1>8. \A i \in DOMAIN t.periods : LineOK([u EXCEPT !.pidx = i])
  <2>1. TRUE \in BOOLEAN /\ 0 \in Int
    OBVIOUS
  <2> QED BY <1>1, <1>2, <2>1, ElsewhereOK
<1>10. CASE t.mode = "obs" /\ t.obs = <<>>
  <2>1. Nil = ShownBy(u)
    BY <1>1, <1>10 DEF ShownBy
  <2> QED BY <1>2, <1>6, <1>10, <2>1, SettledKept
<1>11. CASE t.mode = "obs" /\ t.obs # <<>>
  <2> DEFINE v == [u EXCEPT !.oidx = o]
  <2>1. v.mode = "obs" /\ v.obs = t.obs /\ v.oidx = o
    BY <1>1, <1>9, <1>11 DEF LineType
  <2>2. t.obs[o] = ShownBy(v)
    BY <1>11, <2>1 DEF ShownBy
  <2>3. LineOK(v) /\ Settle(v, tlRain, t.obs[o])
    BY <1>5, <1>6, <1>7, <1>11
  <2> HIDE DEF v
  <2> QED BY <2>2, <2>3, SettledKept
<1>12. CASE t.mode # "obs"
  <2> DEFINE v == [u EXCEPT !.pidx = p]
  <2>1. v.mode # "obs" /\ v.periods = t.periods /\ v.pidx = p
    BY <1>1, <1>9, <1>12 DEF LineType
  <2>2. t.periods[p] = ShownBy(v)
    BY <1>12, <2>1 DEF ShownBy
  <2>3. LineOK(v) /\ Settle(v, tlRain, t.periods[p])
    BY <1>4, <1>6, <1>8, <1>12
  <2> HIDE DEF v
  <2> QED BY <2>2, <2>3, SettledKept
<1> QED BY <1>10, <1>11, <1>12

LEMMA ScrubKeeps == ASSUME TInv, NEW moment, Scrub(moment) PROVE TInv'
<1>1. LineKept
  <2>1. LineOK(tl) /\ ScrubTo(tl, moment) /\ moment \in Int
    BY TimelineAssumption DEF TInv, Scrub
  <2> QED BY <2>1, ScrubKept
<1>2. PlayKept
  BY PlaybackKeeps DEF Scrub
<1>3. sliderShown' \in BOOLEAN
  BY DEF TInv, Scrub
<1> QED BY <1>1, <1>2, <1>3, KeptTogether

LEMMA PacemakerStepKeeps == ASSUME TInv, NEW dir \in {1, -1}, PacemakerStep(dir) PROVE TInv'
<1> DEFINE t == IF CanStep THEN Stepped(tl, dir) ELSE tl
<1>1. LineOK(t)
  <2>1. LineOK(tl)
    BY DEF TInv
  <2>2. CanStep => LineOK(Stepped(tl, dir))
    BY <2>1, SteppedWhole DEF CanStep
  <2> QED BY <2>1, <2>2
<1>2. PICK target \in Moments : ScrubTo(t, target)
  BY DEF PacemakerStep
<1>3. target \in Int
  BY <1>2, TimelineAssumption
<1> HIDE DEF t
<1>4. LineKept
  BY <1>1, <1>2, <1>3, ScrubKept
<1>5. PlayKept
  BY PlaybackKeeps DEF PacemakerStep
<1>6. sliderShown' \in BOOLEAN
  BY DEF TInv, PacemakerStep
<1> QED BY <1>4, <1>5, <1>6, KeptTogether

LEMMA LiveModeKeeps == ASSUME TInv, NEW now, LiveMode(now) PROVE TInv'
<1>1. LineKept
  <2> DEFINE t == [tl EXCEPT !.live = TRUE]
  <2>1. LineOK(tl) /\ ScrubTo(t, now) /\ now \in Int
    BY TimelineAssumption DEF TInv, LiveMode
  <2>2. LineOK(t)
    <3>1. TRUE \in BOOLEAN /\ 0 \in Int
      OBVIOUS
    <3> QED BY <2>1, <3>1, ElsewhereOK
  <2> HIDE DEF t
  <2> QED BY <2>1, <2>2, ScrubKept
<1>2. PlayKept
  BY PlaybackKeeps DEF LiveMode
<1>3. sliderShown' \in BOOLEAN
  BY DEF TInv, LiveMode
<1> QED BY <1>1, <1>2, <1>3, KeptTogether

LEMMA ReviewModeKeeps == ASSUME TInv, ReviewMode PROVE TInv'
<1>1. LineKept
  <2> DEFINE t == [tl EXCEPT !.live = FALSE]
  <2>1. LineOK(tl) /\ ScrubTo(t, tl.cursor)
    BY DEF TInv, ReviewMode
  <2>2. LineOK(t)
    <3>1. FALSE \in BOOLEAN /\ 0 \in Int
      OBVIOUS
    <3> QED BY <2>1, <3>1, ElsewhereOK
  <2>3. tl.cursor \in Int
    BY <2>1, LineFields
  <2> HIDE DEF t
  <2> QED BY <2>1, <2>2, <2>3, ScrubKept
<1>2. PlayKept
  BY PlaybackKeeps DEF ReviewMode
<1>3. sliderShown' \in BOOLEAN
  BY DEF TInv, ReviewMode
<1> QED BY <1>1, <1>2, <1>3, KeptTogether

-----------------------------------------------------------------------------
(* The loop and the playback.                                              *)
LEMMA LoopEdited ==
    ASSUME TInv, NEW loop \in LoopType, tl' = [tl EXCEPT !.loop = loop], UNCHANGED <<tlRain, tlAsked>>
    PROVE  LineKept
<1>0. LineOK(tl) /\ tl \in LineType
  BY DEF TInv, LineOK
<1>1. /\ tl'.mode = tl.mode /\ tl'.periods = tl.periods /\ tl'.pidx = tl.pidx /\ tl'.obs = tl.obs
      /\ tl'.oidx = tl.oidx /\ tl'.disabled = tl.disabled
  BY <1>0 DEF LineType
<1>2. tl' \in LineType
  BY <1>0 DEF LineType
<1>3. LineOK(tl')
  BY <1>0, <1>1, <1>2 DEF LineOK
<1>4. Shown' = Shown
  BY <1>1 DEF Shown
<1>5. AskedIsShown'
  BY <1>1, <1>4 DEF TInv, AskedIsShown
<1> QED BY <1>1, <1>3, <1>5 DEF TInv, LineKept, Steady

LEMMA WholeRangeOK == ASSUME NEW t, LineOK(t) PROVE WholeRange(t) \in LoopType
<1>1. t.loop \in LoopType /\ t.periods \in Seq(Nat) /\ Len(t.periods) \in Nat /\ Len(t.periods) >= 1 /\ t.obs \in Seq(Nat)
  BY LineFields
<1>2. t.periods[1] \in Int /\ LastOf(t.periods) \in Int /\ Len(t.obs) \in Nat
  BY <1>1 DEF LastOf
<1>3. [t.loop EXCEPT !.on = TRUE] \in LoopType
  BY <1>1 DEF LoopType
<1> QED BY <1>2, <1>3 DEF WholeRange, LoopType

LEMMA LoopOK == ASSUME TInv PROVE tl.loop \in LoopType /\ tl.loop.a \in Int /\ tl.loop.b \in Int /\ WholeRange(tl) \in LoopType
  BY LineFields, WholeRangeOK DEF TInv

LEMMA PlayKeeps == ASSUME TInv, Play \/ SpeedChange PROVE TInv'
<1>1. tl' = [tl EXCEPT !.loop = WholeRange(tl)] /\ UNCHANGED <<tlRain, tlAsked, sliderShown>> /\ Run
  BY DEF Play, SpeedChange
<1>2. LineKept
  BY <1>1, LoopOK, LoopEdited
<1> QED BY <1>1, <1>2, PlaybackKeeps, KeptTogether DEF TInv

LEMMA PauseKeeps == ASSUME TInv, Pause \/ HideSlider PROVE TInv'
<1>1. UNCHANGED <<tl, tlRain, tlAsked>> /\ Stop /\ sliderShown' \in BOOLEAN
  BY DEF Pause, HideSlider, TInv
<1> QED BY <1>1, SameLineKept, PlaybackKeeps, KeptTogether

LEMMA ToggleLoopKeeps == ASSUME TInv, ToggleLoop PROVE TInv'
<1> DEFINE loop == IF tl.loop.on THEN [tl.loop EXCEPT !.on = FALSE] ELSE WholeRange(tl)
<1>1. tl' = [tl EXCEPT !.loop = loop] /\ UNCHANGED <<tlRain, tlAsked, sliderShown, playing, playTimer, intervals>>
  BY DEF ToggleLoop
<1>2. loop \in LoopType
  <2>1. [tl.loop EXCEPT !.on = FALSE] \in LoopType
    BY LoopOK DEF LoopType
  <2> QED BY <2>1, LoopOK
<1> HIDE DEF loop
<1>3. LineKept
  BY <1>1, <1>2, LoopEdited
<1> QED BY <1>1, <1>3, PlaybackKeeps, KeptTogether DEF TInv

LEMMA RulerKeeps ==
    ASSUME TInv, (\E end \in {"A", "B"}, m \in Moments : RulerHandle(end, m)) \/ \E m, n \in Moments : RulerLoop(m, n)
    PROVE  TInv'
<1>1. PICK loop \in LoopType : tl' = [tl EXCEPT !.loop = loop]
  <2>0. Moments \subseteq Int
    BY TimelineAssumption
  <2>1. CASE \E end \in {"A", "B"}, m \in Moments : RulerHandle(end, m)
    <3>1. PICK end \in {"A", "B"}, m \in Moments : RulerHandle(end, m)
      BY <2>1
    <3>2. [tl.loop EXCEPT !.a = m] \in LoopType /\ [tl.loop EXCEPT !.b = m] \in LoopType
      BY <2>0, LoopOK DEF LoopType
    <3> QED BY <3>1, <3>2 DEF RulerHandle
  <2>2. CASE \E m, n \in Moments : RulerLoop(m, n)
    <3>1. PICK m \in Moments, n \in Moments : RulerLoop(m, n)
      BY <2>2
    <3>2. [tl.loop EXCEPT !.on = FALSE] \in LoopType /\ [on |-> TRUE, a |-> m, b |-> n] \in LoopType
      BY <2>0, LoopOK DEF LoopType
    <3> QED BY <3>1, <3>2 DEF RulerLoop
  <2> QED BY <2>1, <2>2
<1>2. UNCHANGED <<tlRain, tlAsked, sliderShown, playing, playTimer, intervals>>
  BY DEF RulerHandle, RulerLoop
<1>3. LineKept
  BY <1>1, <1>2, LoopEdited
<1> QED BY <1>2, <1>3, PlaybackKeeps, KeptTogether DEF TInv

LEMMA DragMarkerKeeps == ASSUME TInv, NEW end \in {"A", "B"}, NEW i, DragMarker(end, i) PROVE TInv'
<1> DEFINE n == IF tl.mode = "obs" THEN Len(tl.obs) ELSE Len(tl.periods)
           At(x, default) == LET j == IF tl.mode = "obs"
                                      THEN IF x \in 0..n - 1 THEN x + 1 ELSE Nil
                                      ELSE IndexOf(tl.periods, x)
                             IN  IF j = Nil THEN default ELSE j
           Bound(j) == IF tl.mode = "obs" THEN j - 1 ELSE tl.periods[j]
           a == At(tl.loop.a, 1)
           b == At(tl.loop.b, n)
           a2 == IF end = "A" THEN IF i <= b THEN i ELSE b ELSE a
           b2 == IF end = "B" THEN IF i >= a THEN i ELSE a ELSE b
           loop == [tl.loop EXCEPT !.a = Bound(a2), !.b = Bound(b2)]
<1>0. LineOK(tl) /\ tl \in LineType
  BY DEF TInv, LineOK
<1>1. /\ tl' = [tl EXCEPT !.loop = loop] /\ i \in 1 .. n
      /\ UNCHANGED <<tlRain, tlAsked, sliderShown, playing, playTimer, intervals>>
  BY DEF DragMarker
<1>2. n \in Nat /\ n >= 1 /\ i \in 1 .. n /\ (tl.mode # "obs" => n = Len(tl.periods) /\ tl.periods \in Seq(Nat))
  BY <1>0, <1>1, LineFields
<1> HIDE DEF n
<1>3. ASSUME NEW x \in Int, NEW default \in 1 .. n PROVE At(x, default) \in 1 .. n
  <2>1. CASE tl.mode = "obs"
    BY <1>2, <1>3, <2>1
  <2>2. CASE tl.mode # "obs"
    <3>1. IndexOf(tl.periods, x) \in 1 .. n \/ IndexOf(tl.periods, x) = Nil
      <4>1. CASE x \in Elements(tl.periods)
        BY <1>2, <2>2, <4>1, IndexIsIn
      <4>2. CASE x \notin Elements(tl.periods)
        BY <4>2 DEF IndexOf
      <4> QED BY <4>1, <4>2
    <3> QED BY <1>3, <2>2, <3>1
  <2> QED BY <2>1, <2>2
<1>4. a \in 1 .. n /\ b \in 1 .. n
  <2>1. 1 \in 1 .. n /\ n \in 1 .. n
    BY <1>2
  <2> HIDE DEF At
  <2> QED BY <1>3, <2>1, LoopOK
<1> HIDE DEF a, b
<1>5. a2 \in 1 .. n /\ b2 \in 1 .. n
  BY <1>2, <1>4
<1> HIDE DEF a2, b2
<1>6. ASSUME NEW j \in 1 .. n PROVE Bound(j) \in Int
  <2>1. tl.mode # "obs" => j \in DOMAIN tl.periods /\ tl.periods[j] \in Nat
    BY <1>2
  <2> QED BY <1>2, <2>1
<1>7. loop \in LoopType
  <2>1. Bound(a2) \in Int /\ Bound(b2) \in Int
    BY <1>5, <1>6
  <2> HIDE DEF Bound
  <2> QED BY <2>1, LoopOK DEF LoopType
<1> HIDE DEF loop
<1>8. LineKept
  BY <1>1, <1>7, LoopEdited
<1> QED BY <1>1, <1>8, PlaybackKeeps, KeptTogether DEF TInv

-----------------------------------------------------------------------------
(* Loads.                                                                  *)
LEMMA LoadNwpKeeps == ASSUME TInv, NEW step \in NwpSteps, NEW rain, LoadNwp(step, rain) PROVE TInv'
<1> DEFINE periods == Periods[step]
           off == RainDisabled(rain, periods)
           good == SelectSeq(periods, LAMBDA p : p >= rain)
           win == IF tlWinPeriod >= rain THEN tlWinPeriod
                  ELSE IF good = <<>> THEN rain ELSE good[1]
           idx == IF IndexOf(periods, win) # Nil THEN IndexOf(periods, win)
                  ELSE IF Len(periods) < 5 THEN Len(periods) ELSE 5
           t == [tl EXCEPT !.mode = "nwp", !.step = step, !.periods = periods,
                           !.pidx = idx, !.disabled = off]
           s == RainEffect(t, rain)
<1>0. LineOK(tl) /\ tl \in LineType /\ rain \in Accumulations /\ sliderShown' \in BOOLEAN
  BY DEF TInv, LineOK, LoadNwp
<1>1. LeadsOK(periods)
  BY PeriodsInOrder
<1>2. periods \in Seq(Nat) /\ Len(periods) \in Nat /\ Len(periods) >= 1 /\ DOMAIN periods = 1 .. Len(periods)
  <2>1. periods \in Seq(Nat) /\ periods # <<>>
    BY <1>1 DEF LeadsOK, TimesOK
  <2> HIDE DEF periods
  <2> QED BY <2>1
<1>3. off \in SUBSET (0 .. Horizon)
  BY <1>1 DEF LeadsOK, RainDisabled
<1> HIDE DEF periods, off, good, win
<1>4. idx \in DOMAIN periods
  <2>1. IndexOf(periods, win) # Nil => IndexOf(periods, win) \in DOMAIN periods
    <3>1. CASE win \in Elements(periods)
      BY <1>2, <3>1, IndexIsIn
    <3>2. CASE win \notin Elements(periods)
      BY <3>2 DEF IndexOf
    <3> QED BY <3>1, <3>2
  <2> QED BY <1>2, <2>1
<1>5. idx \in Nat
  BY <1>2, <1>4
<1>6. tl' = s.tl /\ tlRain' = rain /\ tlAsked' = s.asks /\ UNCHANGED <<playing, playTimer, intervals>>
  BY DEF LoadNwp, periods, off, good, win
<1> HIDE DEF idx
<1>7. /\ t \in LineType /\ t.periods = periods /\ t.pidx = idx /\ t.obs = tl.obs /\ t.oidx = tl.oidx
      /\ t.mode = "nwp"
  BY <1>0, <1>2, <1>3, <1>5 DEF LineType
<1> HIDE DEF t
<1>8. LineOK(t)
  BY <1>0, <1>1, <1>4, <1>7 DEF LineOK
<1>9. /\ LineOK(s.tl) /\ Steady(s.tl, rain) /\ ShowsGood(s.tl)
      /\ s.asks # Nil => s.asks = ShownBy(s.tl)
  BY <1>0, <1>8, RainSettles
<1> HIDE DEF s
<1>10. LineKept
  <2>1. Shown' = ShownBy(tl')
    BY DEF Shown, ShownBy
  <2> QED BY <1>0, <1>6, <1>9, <2>1 DEF LineKept, AskedIsShown, ShowsGood, Steady
<1> QED BY <1>0, <1>6, <1>10, PlaybackKeeps, KeptTogether

LEMMA LoadObsKeeps == ASSUME TInv, NEW step \in ObsSteps, NEW upper \in BOOLEAN, LoadObs(step, upper) PROVE TInv'
<1>0. LineOK(tl) /\ tl \in LineType
  BY DEF TInv, LineOK
<1>1. /\ tl' = [tl EXCEPT !.mode = "obs", !.step = step, !.upper = upper] /\ tlRain' = 0 /\ tlAsked' = Nil
      /\ sliderShown' = TRUE /\ UNCHANGED <<playing, playTimer, intervals>>
  BY DEF LoadObs
<1>2. /\ tl' \in LineType /\ tl'.periods = tl.periods /\ tl'.pidx = tl.pidx /\ tl'.obs = tl.obs
      /\ tl'.oidx = tl.oidx /\ tl'.mode = "obs"
  BY <1>0, <1>1 DEF LineType
<1>3. LineOK(tl')
  BY <1>0, <1>2 DEF LineOK
<1>4. LineKept
  BY <1>1, <1>2, <1>3, TimelineAssumption DEF LineKept, AskedIsShown, Steady
<1> QED BY <1>1, <1>4, PlaybackKeeps, KeptTogether

LEMMA BridgeObsKeeps == ASSUME TInv, NEW raw \in Listings, BridgeObs(raw) PROVE TInv'
<1> DEFINE all == Filtered[<<raw, tl.step, tl.upper>>]
           loaded == IF all = <<>> THEN {LastOf(raw)}
                     ELSE {LastOf(all)} \cup (Elements(tl.obs) \cap Elements(all) \cap {Shown})
           Chips(file) == ObsChips(all, file, MaxChips)
           Obs(file) == IF Chips(file) = <<>> THEN all ELSE Chips(file)
           Idx(file) == IF file \in Elements(Obs(file)) THEN IndexOf(Obs(file), file)
                        ELSE IF Obs(file) = <<>> THEN 1 ELSE Len(Obs(file))
           After(file) == [tl EXCEPT !.raw = raw, !.obs = Obs(file), !.oidx = Idx(file)]
<1>0. LineOK(tl) /\ tl \in LineType /\ tl.mode = "obs"
  BY DEF TInv, LineOK, BridgeObs
<1>1. TimesOK(all)
  <2>1. ListingOK(raw) /\ tl.step \in ObsSteps \cup NwpSteps \cup {6} /\ tl.upper \in BOOLEAN
    BY <1>0, LineFields DEF ListingOK
  <2> QED BY <2>1, FilteredInOrder
<1>2. PICK file \in loaded : tl' = After(file)
  BY DEF BridgeObs
<1>3. tlAsked' = Nil /\ UNCHANGED <<tlRain, playing, playTimer, intervals, sliderShown>>
  BY DEF BridgeObs
<1> DEFINE obs == Obs(file)
           idx == Idx(file)
<1>4. TimesOK(obs)
  <2>1. MaxChips \in Nat \ {0}
    BY TimelineAssumption
  <2> HIDE DEF all
  <2>2. TimesOK(Chips(file))
    BY <1>1, <2>1, ChipsInOrder
  <2> QED BY <1>1, <2>2
<1>5. obs \in Seq(Nat) /\ Len(obs) \in Nat /\ DOMAIN obs = 1 .. Len(obs)
  BY <1>4 DEF TimesOK
<1> HIDE DEF Obs
<1>6. idx \in DOMAIN obs \/ (obs = <<>> /\ idx = 1)
  <2>1. file \in Elements(obs) => IndexOf(obs, file) \in DOMAIN obs
    BY <1>5, IndexIsIn
  <2> QED BY <1>5, <2>1
<1>7. idx \in Nat
  BY <1>5, <1>6
<1>8. tl' = [tl EXCEPT !.raw = raw, !.obs = obs, !.oidx = idx]
  BY <1>2
<1> HIDE DEF Idx, obs, idx
<1>9. /\ tl' \in LineType /\ tl'.periods = tl.periods /\ tl'.pidx = tl.pidx /\ tl'.obs = obs
      /\ tl'.oidx = idx /\ tl'.mode = "obs"
  BY <1>0, <1>5, <1>7, <1>8 DEF LineType
<1>10. LineOK(tl')
  BY <1>0, <1>4, <1>6, <1>9 DEF LineOK
<1>11. LineKept
  BY <1>3, <1>9, <1>10 DEF LineKept, AskedIsShown, Steady, TInv
<1> QED BY <1>3, <1>11, PlaybackKeeps, KeptTogether DEF TInv

-----------------------------------------------------------------------------
LEMMA TInvInit == TlInit => TInv
<1> SUFFICES ASSUME TlInit PROVE TInv
  OBVIOUS
<1>1. LeadsOK(Periods[6])
  BY PeriodsInOrder
<1>2. Periods[6] \in Seq(Nat) /\ 5 \in DOMAIN Periods[6] /\ Cycle + 24 * 60 \in Int
  BY <1>1, FirstPeriods, TimelineAssumption DEF LeadsOK, TimesOK
<1>3. \A p \in Elements(Periods[6]) : p \in 0 .. Horizon
  BY <1>1 DEF LeadsOK
<1> DEFINE c == Cycle + 24 * 60
           periods == Periods[6]
           t == [mode |-> "nwp", step |-> 6, periods |-> periods,
                 pidx |-> 5, raw |-> <<>>, obs |-> <<>>, oidx |-> 1, upper |-> FALSE,
                 disabled |-> {}, cursor |-> c, live |-> FALSE,
                 loop |-> [on |-> FALSE, a |-> Nil, b |-> Nil]]
<1>4. tl = t
  BY DEF TlInit
<1> HIDE DEF c, periods
<1>5. t \in LineType
  <2>1. [on |-> FALSE, a |-> Nil, b |-> Nil] \in LoopType
    BY DEF LoopType, Nil
  <2>2. c \in Int /\ periods \in Seq(Nat)
    BY <1>2 DEF c, periods
  <2> QED BY <2>1, <2>2 DEF LineType
<1>6. TimesOK(<<>>)
  BY DEF TimesOK, RisingTimes
<1>7. LineOK(tl)
  BY <1>1, <1>2, <1>4, <1>5, <1>6 DEF LineOK, periods
<1>8. Steady(tl, tlRain)
  <2>1. RainDisabled(0, periods) = {}
    BY <1>3 DEF RainDisabled, periods
  <2> QED BY <1>4, <2>1 DEF Steady, TlInit
<1>9. AskedIsShown
  BY <1>4 DEF AskedIsShown, TlInit
<1> QED BY <1>7, <1>8, <1>9, TimelineAssumption DEF TInv, TlInit, OneTicker

LEMMA TInvStep == TInv /\ [TlNext]_tlVars => TInv'
<1> SUFFICES ASSUME TInv, [TlNext]_tlVars PROVE TInv'
  OBVIOUS
<1>1. CASE \E dir \in {1, -1} : SliderStep(dir) \/ PacemakerStep(dir)
  BY <1>1, SliderStepKeeps, PacemakerStepKeeps
<1>2. CASE \E i \in DOMAIN tl.periods \cup DOMAIN tl.obs : ChipClick(i) \/ DragMarker("A", i) \/ DragMarker("B", i)
  BY <1>2, ChipClickKeeps, DragMarkerKeeps
<1>3. CASE \E s \in NwpSteps : NwpStepLength(s) \/ \E r \in Accumulations : LoadNwp(s, r)
  BY <1>3, NwpStepLengthKeeps, LoadNwpKeeps
<1>4. CASE \E s \in ObsSteps : ObsStepLength(s) \/ \E u \in BOOLEAN : LoadObs(s, u)
  BY <1>4, ObsStepLengthKeeps, LoadObsKeeps
<1>5. CASE \E m \in Moments : Scrub(m) \/ LiveMode(m) \/ RulerHandle("A", m) \/ RulerHandle("B", m)
                              \/ \E n \in Moments : RulerLoop(m, n)
  BY <1>5, ScrubKeeps, LiveModeKeeps, RulerKeeps
<1>6. CASE PlaybackTick \/ ReviewMode \/ Play \/ SpeedChange \/ Pause \/ HideSlider \/ ToggleLoop
  BY <1>6, PlaybackTickKeeps, ReviewModeKeeps, PlayKeeps, PauseKeeps, ToggleLoopKeeps
<1>7. CASE \E raw \in Listings : BridgeObs(raw)
  BY <1>7, BridgeObsKeeps
<1>8. CASE UNCHANGED tlVars
  <2>1. LineKept /\ PlayKept
    BY <1>8, SameLineKept, PlaybackKeeps DEF tlVars
  <2> QED BY <1>8, <2>1, KeptTogether DEF tlVars, TInv
<1> QED BY <1>1, <1>2, <1>3, <1>4, <1>5, <1>6, <1>7, <1>8 DEF TlNext

(* The slider and the map do not drift apart, and one interval fires while *)
(* the playback runs and none while it does not, for every forecast and    *)
(* every listing (TimeSlider.svelte, MultiTrackTimeline.svelte).           *)
THEOREM SliderIsHonest == TlSpec => [](AskedIsShown /\ OneTicker)
<1>1. TInv => AskedIsShown /\ OneTicker
  BY DEF TInv
<1> QED BY <1>1, TInvInit, TInvStep, PTL DEF TlSpec

(* The highlighted chip is one of the timeline, whatever list a load or a  *)
(* change of the step length puts in (TimeSlider.svelte).                  *)
THEOREM TimelineTypeCorrect == TlSpec => []TlTypeOK
<1>1. TInv => TlTypeOK
  <2> SUFFICES ASSUME TInv PROVE TlTypeOK
    OBVIOUS
  <2>1. LineOK(tl)
    BY DEF TInv
  <2>2. intervals \in Nat
    BY DEF TInv, OneTicker
  <2> QED BY <2>1, <2>2, LineFields DEF TInv, TlTypeOK, LineOK
<1> QED BY <1>1, TInvInit, TInvStep, PTL DEF TlSpec

-----------------------------------------------------------------------------
(* Two steps that can be shown are enough for a tick to move on.           *)
LEMMA TwoApart == ASSUME NEW S, Cardinality(S) >= 2 PROVE \E x, y \in S : x # y
<1>1. S # {}
  BY FS_EmptySet
<1>2. PICK x \in S : TRUE
  BY <1>1
<1>3. S # {x}
  BY FS_Singleton
<1> QED BY <1>2, <1>3

LEMMA WrapOnce ==
    ASSUME NEW len \in Nat \ {0}, NEW x \in 1 .. len
    PROVE  Wrap(x, len) = x /\ Wrap(x + len, len) = x /\ Wrap(x + 1 + len, len) = IF x = len THEN 1 ELSE x + 1
<1>1. (x - 1) % len = x - 1
  OBVIOUS
<1>2. (x - 1 + len) % len = x - 1
  OBVIOUS
<1>3. x # len => (x + len) % len = x
  OBVIOUS
<1>4. (len + len) % len = 0
  OBVIOUS
<1>5. x + len - 1 = x - 1 + len /\ x + 1 + len - 1 = x + len
  OBVIOUS
<1> QED BY <1>1, <1>2, <1>3, <1>4, <1>5 DEF Wrap

(* The loop is a stretch of the timeline.                                  *)
LEMMA LoopIsStretch ==
    ASSUME NEW t, LineOK(t), NEW i \in InLoop(t), NEW k \in InLoop(t), NEW j \in i .. k
    PROVE  j \in InLoop(t)
<1> DEFINE lo == IF t.loop.a <= t.loop.b THEN t.loop.a ELSE t.loop.b
           hi == IF t.loop.a <= t.loop.b THEN t.loop.b ELSE t.loop.a
           seq == IF t.mode = "obs" THEN t.obs ELSE t.periods
           At(m) == IF t.mode = "obs" THEN IF lo > Epoch THEN t.obs[m] ELSE m - 1
                    ELSE IF lo > Epoch THEN Cycle + t.periods[m] * 60 ELSE t.periods[m]
           on == ~(~t.loop.on \/ t.loop.a = Nil \/ t.loop.b = Nil)
<1>1. InLoop(t) = IF on THEN {m \in DOMAIN seq : At(m) >= lo /\ At(m) <= hi} ELSE {}
  BY DEF InLoop
<1>2. TimesOK(seq)
  BY DEF LineOK, LeadsOK
<1>3. lo \in Int /\ hi \in Int /\ Epoch \in Int /\ Cycle \in Int
  BY LineFields, TimelineAssumption DEF Epoch
<1>8. seq \in Seq(Nat) /\ RisingTimes(seq)
  BY <1>2 DEF TimesOK
<1>9. (t.mode = "obs" => seq = t.obs) /\ (t.mode # "obs" => seq = t.periods)
  OBVIOUS
<1> HIDE DEF lo, hi, seq
<1>4. DOMAIN seq = 1 .. Len(seq) /\ Len(seq) \in Nat
  BY <1>8
<1>5. i \in DOMAIN seq /\ k \in DOMAIN seq /\ on /\ At(i) >= lo /\ At(k) <= hi
  BY <1>1
<1>6. j \in DOMAIN seq
  BY <1>4, <1>5
<1>7. ASSUME NEW m \in DOMAIN seq, NEW n \in DOMAIN seq, m <= n
      PROVE  At(m) \in Int /\ At(n) \in Int /\ At(m) <= At(n)
  <2>1. m \in Int /\ n \in Int
    BY <1>4
  <2>2. seq[m] \in Nat /\ seq[n] \in Nat
    BY <1>8
  <2>3. seq[m] <= seq[n]
    BY <1>7, <1>8, <2>1, <2>2 DEF RisingTimes
  <2>4. CASE t.mode = "obs"
    <3>1. At(m) = IF lo > Epoch THEN seq[m] ELSE m - 1
      BY <1>9, <2>4
    <3>2. At(n) = IF lo > Epoch THEN seq[n] ELSE n - 1
      BY <1>9, <2>4
    <3> HIDE DEF At
    <3> QED BY <1>7, <2>1, <2>2, <2>3, <3>1, <3>2
  <2>5. CASE t.mode # "obs"
    <3>1. At(m) = IF lo > Epoch THEN Cycle + seq[m] * 60 ELSE seq[m]
      BY <1>9, <2>5
    <3>2. At(n) = IF lo > Epoch THEN Cycle + seq[n] * 60 ELSE seq[n]
      BY <1>9, <2>5
    <3> HIDE DEF At
    <3> QED BY <1>3, <2>2, <2>3, <3>1, <3>2
  <2> QED BY <2>4, <2>5
<1> HIDE DEF At, on
<1>10. At(i) <= At(j) /\ At(j) <= At(k) /\ At(i) \in Int /\ At(j) \in Int /\ At(k) \in Int
  <2>1. i <= j /\ j <= k
    BY <1>4, <1>5
  <2> QED BY <1>5, <1>6, <1>7, <2>1
<1>11. At(j) >= lo /\ At(j) <= hi
  BY <1>3, <1>5, <1>10
<1> QED BY <1>1, <1>5, <1>6, <1>11

(* The next step of a loop with two steps is another one of it.            *)
LEMMA LoopMoves ==
    ASSUME NEW n \in Nat, NEW in \in SUBSET (1 .. n), NEW x \in in, NEW y \in in, x # y,
           \A i, k \in in : \A j \in i .. k : j \in in, NEW idx \in Nat
    PROVE  /\ LoopNext(idx, Earliest(in), Latest(in), 1) \in in
           /\ LoopNext(idx, Earliest(in), Latest(in), 1) # idx
           /\ LoopNext(idx, Earliest(in), Latest(in), 1) > idx \/ idx >= Latest(in)
<1> DEFINE lo == Earliest(in)
           hi == Latest(in)
           next == LoopNext(idx, lo, hi, 1)
<1>1. lo \in in /\ hi \in in /\ \A k \in in : lo <= k /\ k <= hi
  BY LoopEnds
<1> SUFFICES next \in in /\ next # idx /\ (next > idx \/ idx >= hi)
  OBVIOUS
<1> HIDE DEF lo, hi
<1>2. lo \in Nat /\ hi \in Nat /\ lo < hi
  <2>1. \A k \in in : k \in Nat
    OBVIOUS
  <2>2. lo <= x /\ x <= hi /\ lo <= y /\ y <= hi /\ x \in Nat /\ y \in Nat /\ lo \in Nat /\ hi \in Nat
    BY <1>1, <2>1
  <2> QED BY <2>2
<1>3. next = IF idx < lo \/ idx >= hi THEN lo ELSE idx + 1
  BY <1>2 DEF LoopNext
<1> HIDE DEF next
<1>4. CASE idx < lo \/ idx >= hi
  BY <1>1, <1>2, <1>3, <1>4
<1>5. CASE ~(idx < lo \/ idx >= hi)
  <2>1. next = idx + 1 /\ next \in lo .. hi
    BY <1>2, <1>3, <1>5
  <2>2. next \in in
    BY <1>1, <2>1
  <2> QED BY <2>1, <2>2
<1> QED BY <1>4, <1>5

(* The scan for the next period that exists finds another one if there are *)
(* two.                                                                    *)
LEMMA NextMoves ==
    ASSUME NEW s \in Seq(Nat), Len(s) >= 1, NEW off, NEW idx \in 1 .. Len(s),
           NEW x \in DOMAIN s, NEW y \in DOMAIN s, x # y, s[x] \notin off, s[y] \notin off
    PROVE  NextEnabled(s, off, idx, 1) # idx /\ s[NextEnabled(s, off, idx, 1)] \notin off
<1> DEFINE len == Len(s)
           tries == {k \in 1..len : s[Wrap(idx + 1 * k, len)] \notin off}
           m == Earliest(tries)
<1>1. len \in Nat \ {0} /\ DOMAIN s = 1 .. len
  OBVIOUS
<1>2. PICK z \in 1 .. len : z # idx /\ s[z] \notin off
  BY <1>1
<1> DEFINE d == IF z > idx THEN z - idx ELSE z + len - idx
<1> HIDE DEF len
<1>3. d \in 1 .. len - 1 /\ (idx + 1 * d = z \/ idx + 1 * d = z + len)
  BY <1>1, <1>2 DEF len
<1> HIDE DEF d
<1>4. d \in tries
  <2>1. Wrap(idx + 1 * d, len) = z
    <3>1. Wrap(z, len) = z /\ Wrap(z + len, len) = z
      BY <1>1, <1>2, WrapOnce
    <3> QED BY <1>3, <3>1
  <2>2. d \in 1 .. len
    BY <1>1, <1>3
  <2> QED BY <1>2, <2>1, <2>2
<1>5. m \in tries /\ m <= d
  <2>1. tries \in SUBSET Nat
    OBVIOUS
  <2> HIDE DEF tries
  <2> QED BY <1>4, <2>1, EarliestIsIn
<1>6. m \in 1 .. len - 1
  <2>1. m \in 1 .. len
    BY <1>5
  <2> HIDE DEF m
  <2> QED BY <1>1, <1>3, <1>5, <2>1
<1>7. NextEnabled(s, off, idx, 1) = Wrap(idx + 1 * m, len)
  BY <1>4 DEF NextEnabled, len
<1>8. s[Wrap(idx + 1 * m, len)] \notin off
  BY <1>5
<1> HIDE DEF m
<1>9. Wrap(idx + 1 * m, len) # idx
  <2>0. idx \in 1 .. len
    BY DEF len
  <2>1. CASE idx + 1 * m <= len
    <3>1. idx + 1 * m \in 1 .. len /\ idx + 1 * m # idx
      BY <1>1, <1>6, <2>0, <2>1
    <3>2. Wrap(idx + 1 * m, len) = idx + 1 * m
      BY <1>1, <3>1, WrapOnce
    <3> QED BY <3>1, <3>2
  <2>2. CASE ~(idx + 1 * m <= len)
    <3> DEFINE r == idx + 1 * m - len
    <3>1. r \in 1 .. len /\ idx + 1 * m = r + len /\ r # idx
      BY <1>1, <1>6, <2>0, <2>2
    <3> HIDE DEF r
    <3>2. Wrap(r + len, len) = r
      BY <1>1, <3>1, WrapOnce
    <3> QED BY <3>1, <3>2
  <2> QED BY <2>1, <2>2
<1> QED BY <1>7, <1>8, <1>9

(* Of observations every file can be shown.                                *)
LEMMA ObsTickMoves == ASSUME TInv, tl.mode = "obs", PlaybackTick PROVE TickMovesOn
<1> DEFINE in == IF InLoop(tl) = {} THEN DOMAIN tl.obs ELSE InLoop(tl) \cap DOMAIN tl.obs
           n == Len(tl.obs)
           u == Stepped(tl, 1)
<1> SUFFICES ASSUME Cardinality(in) >= 2 PROVE tl'.oidx # tl.oidx /\ tl'.oidx \in in
  BY DEF TickMovesOn
<1>1. LineOK(tl) /\ tlRain \in Accumulations
  BY DEF TInv
<1>2. PICK x \in in, y \in in : x # y
  BY TwoApart
<1>3. tl \in LineType /\ tl.obs \in Seq(Nat) /\ n \in Nat /\ DOMAIN tl.obs = 1 .. n /\ InLoop(tl) \subseteq DOMAIN tl.obs
  <2>1. InLoop(tl) \subseteq DOMAIN tl.obs
    BY DEF InLoop
  <2> QED BY <1>1, <2>1, LineFields DEF LineOK
<1>4. tl.obs # <<>> /\ tl.oidx \in 1 .. n /\ x \in 1 .. n /\ y \in 1 .. n /\ n >= 2
  <2>1. x \in 1 .. n /\ y \in 1 .. n
    BY <1>2, <1>3
  <2> QED BY <1>1, <1>2, <1>3, <2>1 DEF LineOK
<1>5. StepAsks(1)
  BY <1>4 DEF PlaybackTick, CanStep
<1>6. tl'.oidx = u.oidx
  <2>1. LineOK(u)
    BY <1>1, <1>4, SteppedWhole
  <2>2. tl' = RainEffect(u, tlRain).tl
    BY <1>5 DEF StepAsks, Settle
  <2> HIDE DEF u
  <2> QED BY <1>1, <2>1, <2>2, RainSettles
<1> DEFINE next == IF InLoop(tl) # {} THEN LoopNext(tl.oidx, Earliest(InLoop(tl)), Latest(InLoop(tl)), 1)
                   ELSE Wrap(tl.oidx + 1 + n, n)
<1>7. u.oidx = next
  <2>1. u = [tl EXCEPT !.oidx = next, !.cursor = tl.obs[next]]
    BY DEF Stepped
  <2> HIDE DEF next, u
  <2> QED BY <1>3, <2>1 DEF LineType
<1>8. next # tl.oidx /\ next \in in
  <2>1. CASE InLoop(tl) = {}
    <3>1. next = IF tl.oidx = n THEN 1 ELSE tl.oidx + 1
      <4>1. n \in Nat \ {0}
        BY <1>3, <1>4
      <4> HIDE DEF n
      <4> QED BY <1>4, <2>1, <4>1, WrapOnce
    <3>2. next # tl.oidx /\ next \in 1 .. n
      <4> HIDE DEF next, n
      <4> QED BY <1>3, <1>4, <3>1
    <3> QED BY <1>3, <2>1, <3>2
  <2>2. CASE InLoop(tl) # {}
    <3>1. InLoop(tl) \in SUBSET (1 .. n) /\ x \in InLoop(tl) /\ y \in InLoop(tl) /\ tl.oidx \in Nat /\ n \in Nat
      BY <1>2, <1>3, <1>4, <2>2
    <3>2. \A i, k \in InLoop(tl) : \A j \in i .. k : j \in InLoop(tl)
      BY <1>1, LoopIsStretch
    <3>3. next # tl.oidx /\ next \in InLoop(tl)
      <4> HIDE DEF n
      <4> QED BY <1>2, <2>2, <3>1, <3>2, LoopMoves
    <3> QED BY <1>3, <2>2, <3>3
  <2> QED BY <2>1, <2>2
<1> HIDE DEF next, in, u
<1> QED BY <1>6, <1>7, <1>8

(* Where the rain effect leaves a forecast: at the first period that       *)
(* exists, if it was at one that does not.                                 *)
ExistingPeriods(t, rain) == {i \in DOMAIN t.periods : t.periods[i] >= rain}
LEMMA RainLeaves ==
    ASSUME NEW t, LineOK(t), NEW rain \in Accumulations, t.mode = "nwp"
    PROVE  RainEffect(t, rain).tl.pidx = IF t.periods[t.pidx] < rain /\ ExistingPeriods(t, rain) # {}
                                         THEN Earliest(ExistingPeriods(t, rain)) ELSE t.pidx
<1> DEFINE off == IF rain > 0 /\ t.mode = "nwp" THEN Disabled(t, rain)
                  ELSE IF rain > 0 THEN t.disabled ELSE {}
           good == {i \in DOMAIN t.periods : t.periods[i] \notin off}
           jump == t.mode = "nwp" /\ t.periods[t.pidx] \in off /\ good # {}
           idx == IF jump THEN Earliest(good) ELSE t.pidx
           u == [t EXCEPT !.disabled = off, !.pidx = idx]
<1>1. \A i \in DOMAIN t.periods : t.periods[i] \in 0 .. Horizon
  BY DEF LineOK, LeadsOK, Elements
<1>2. rain \in Nat /\ Horizon \in Nat
  BY TimelineAssumption
<1>3. \A i \in DOMAIN t.periods : t.periods[i] \in off <=> t.periods[i] < rain
  <2>1. \A i \in DOMAIN t.periods : t.periods[i] \in Disabled(t, rain) <=> t.periods[i] < rain
    BY DEF Disabled, RainDisabled, Elements
  <2> QED BY <1>1, <1>2, <2>1
<1>4. good = ExistingPeriods(t, rain)
  BY <1>1, <1>2, <1>3 DEF ExistingPeriods
<1>5. t.pidx \in DOMAIN t.periods /\ t \in LineType
  BY DEF LineOK
<1>6. RainEffect(t, rain).tl = u
  BY DEF RainEffect
<1> HIDE DEF off, good
<1>7. idx = IF t.periods[t.pidx] < rain /\ ExistingPeriods(t, rain) # {} THEN Earliest(ExistingPeriods(t, rain)) ELSE t.pidx
  BY <1>3, <1>4, <1>5
<1> HIDE DEF idx
<1> QED BY <1>5, <1>6, <1>7 DEF LineType

(* Of a forecast a period without accumulation cannot be shown: a tick to  *)
(* one is followed by the jump of the rain effect.                         *)
LEMMA NwpTickMoves == ASSUME TInv, tl.mode = "nwp", PlaybackTick PROVE TickMovesOn
<1> DEFINE can == {i \in DOMAIN tl.periods : tl.periods[i] \notin tl.disabled}
           loop == InLoop(tl)
           in == IF loop = {} THEN can ELSE loop \cap can
           n == Len(tl.periods)
           now == tl.pidx
           u == Stepped(tl, 1)
           step == IF loop # {} THEN LoopNext(now, Earliest(loop), Latest(loop), 1)
                   ELSE NextEnabled(tl.periods, tl.disabled, now, 1)
           then == tl'.pidx
<1> SUFFICES ASSUME Cardinality(in) >= 2 PROVE then # now /\ then \in in
  BY DEF TickMovesOn
<1>1. LineOK(tl) /\ tlRain \in Accumulations /\ Steady(tl, tlRain) /\ AskedIsShown
  BY DEF TInv
<1>2. PICK x \in in, y \in in : x # y
  BY TwoApart
<1>3. /\ tl \in LineType /\ tl.periods \in Seq(Nat) /\ n \in Nat /\ n >= 1 /\ DOMAIN tl.periods = 1 .. n
      /\ loop \subseteq DOMAIN tl.periods /\ now \in 1 .. n /\ tlRain \in Nat /\ RisingTimes(tl.periods)
  <2>1. loop \subseteq DOMAIN tl.periods
    BY DEF InLoop
  <2>2. RisingTimes(tl.periods)
    BY <1>1 DEF LineOK, LeadsOK, TimesOK
  <2> QED BY <1>1, <2>1, <2>2, LineFields, TimelineAssumption DEF LineOK
<1>13. \A i \in DOMAIN tl.periods : tl.periods[i] \in Nat
  BY <1>3
<1>4. \A i \in DOMAIN tl.periods : tl.periods[i] \in tl.disabled <=> tl.periods[i] < tlRain
  BY <1>1 DEF Steady, RainDisabled, Elements
<1>5. can = ExistingPeriods(tl, tlRain)
  BY <1>3, <1>4 DEF ExistingPeriods
<1>6. now \in can
  <2>1. Elements(tl.periods) \ tl.disabled # {}
    BY <1>2 DEF Elements
  <2> QED BY <1>1, <1>3, <2>1 DEF AskedIsShown, Shown
<1>7. StepAsks(1)
  BY DEF PlaybackTick, CanStep
<1>8. u.pidx = step /\ u.periods = tl.periods /\ u.mode = "nwp"
  <2>1. u = [tl EXCEPT !.pidx = step, !.cursor = Cycle + tl.periods[step] * 60]
    BY DEF Stepped
  <2> HIDE DEF step, u
  <2> QED BY <1>3, <2>1 DEF LineType
<1>9. step \in 1 .. n
  <2>1. LineOK(u)
    BY <1>1, SteppedWhole
  <2> HIDE DEF u, step
  <2> QED BY <1>8, <2>1, LineFields
<1>10. then = IF tl.periods[step] < tlRain /\ can # {} THEN Earliest(can) ELSE step
  <2>1. LineOK(u)
    BY <1>1, SteppedWhole
  <2>2. tl' = RainEffect(u, tlRain).tl
    BY <1>7 DEF StepAsks, Settle
  <2>3. ExistingPeriods(u, tlRain) = can
    <3> HIDE DEF can, u
    <3> QED BY <1>5, <1>8 DEF ExistingPeriods
  <2> HIDE DEF u, can, step
  <2> QED BY <1>1, <1>8, <2>1, <2>2, <2>3, RainLeaves
<1>11. CASE loop = {}
  <2>1. step # now /\ tl.periods[step] \notin tl.disabled
    <3>1. x \in DOMAIN tl.periods /\ y \in DOMAIN tl.periods /\ tl.periods[x] \notin tl.disabled /\ tl.periods[y] \notin tl.disabled
      BY <1>2, <1>11
    <3> QED BY <1>2, <1>3, <1>11, <3>1, NextMoves
  <2> HIDE DEF step
  <2>2. then = step /\ step \in can
    BY <1>3, <1>4, <1>9, <1>10, <2>1
  <2> QED BY <1>11, <2>1, <2>2
<1>12. CASE loop # {}
  <2>1. loop \in SUBSET (1 .. n) /\ x \in loop /\ y \in loop /\ x \in can /\ y \in can /\ n \in Nat /\ now \in Nat
    BY <1>2, <1>3, <1>12
  <2>2. \A i, k \in loop : \A j \in i .. k : j \in loop
    BY <1>1, LoopIsStretch
  <2> HIDE DEF loop, n
  <2>3. step \in loop /\ step # now /\ (step > now \/ now >= Latest(loop))
    BY <1>2, <1>12, <2>1, <2>2, LoopMoves
  <2>4. x <= Latest(loop) /\ y <= Latest(loop) /\ Latest(loop) \in Nat
    <3>1. Latest(loop) \in loop /\ x <= Latest(loop) /\ y <= Latest(loop)
      BY <2>1, LoopEnds
    <3>2. \A k \in loop : k \in Nat
      BY <2>1
    <3> QED BY <3>1, <3>2
  <2> HIDE DEF step
  <2>5. CASE ~(tl.periods[step] < tlRain)
    <3>1. step \in can
      BY <1>3, <1>4, <1>9, <2>5
    <3>2. then = step
      BY <1>10, <2>5
    <3> QED BY <1>12, <2>3, <3>1, <3>2
  <2>6. CASE tl.periods[step] < tlRain
    <3> DEFINE first == Earliest(can)
    <3>1. first \in can /\ \A k \in can : first <= k
      <4>1. can \in SUBSET Nat /\ can # {}
        <5>1. can \subseteq 1 .. n
          BY <1>3
        <5> QED BY <2>1, <5>1
      <4> HIDE DEF can
      <4> QED BY <4>1, EarliestIsIn
    <3>2. then = first
      BY <1>10, <2>1, <2>6
    <3>3. first \in 1 .. n /\ first <= x /\ first <= y /\ first <= now /\ x \in Nat /\ y \in Nat /\ now \in Nat
      <4>1. first \in DOMAIN tl.periods
        BY <3>1
      <4> HIDE DEF first, can
      <4> QED BY <1>3, <1>6, <2>1, <3>1, <4>1
    <3>4. tlRain <= tl.periods[first]
      <4>1. ~(tl.periods[first] < tlRain) /\ tl.periods[first] \in Nat
        <5>1. first \in DOMAIN tl.periods /\ tl.periods[first] \notin tl.disabled
          BY <3>1
        <5> HIDE DEF first
        <5> QED BY <1>3, <1>4, <5>1
      <4> HIDE DEF first
      <4> QED BY <1>3, <4>1
    <3> HIDE DEF first
    <3>5. step < first
      <4>1. tl.periods[step] \in Nat /\ tl.periods[first] \in Nat /\ tl.periods[step] < tl.periods[first]
        <5>1. tl.periods[step] \in Nat /\ tl.periods[first] \in Nat
          <6>1. step \in DOMAIN tl.periods /\ first \in DOMAIN tl.periods
            BY <1>3, <1>9, <3>3
          <6> QED BY <1>13, <6>1
        <5> QED BY <1>3, <2>6, <3>4, <5>1
      <4>2. ~(first < step) /\ first # step
        <5>1. first < step => tl.periods[first] < tl.periods[step]
          <6>1. step \in DOMAIN tl.periods /\ first \in DOMAIN tl.periods
            BY <1>3, <1>9, <3>3
          <6> QED BY <1>3, <6>1 DEF RisingTimes
        <5> QED BY <4>1, <5>1
      <4> QED BY <1>3, <1>9, <3>3, <4>2
    <3>6. first \in loop
      <4>1. first \in step .. x
        BY <1>3, <1>9, <3>3, <3>5
      <4> QED BY <2>1, <2>2, <2>3, <4>1
    <3>7. first # now
      <4>1. step <= now
        BY <1>3, <1>9, <3>3, <3>5
      <4>2. now >= Latest(loop)
        BY <1>3, <1>9, <2>3, <3>3, <4>1
      <4> QED BY <1>2, <2>4, <3>3, <4>2
    <3> QED BY <1>12, <3>1, <3>2, <3>6, <3>7
  <2> QED BY <2>5, <2>6
<1> QED BY <1>11, <1>12

LEMMA TickKept == ASSUME TInv, PlaybackTick PROVE TickMovesOn
<1>1. tl.mode \in {"nwp", "obs"}
  BY LineFields DEF TInv
<1> QED BY <1>1, ObsTickMoves, NwpTickMoves

(* The playback never sticks nor leaves the loop, as long as there are two *)
(* steps to show (stepWindowTimeline, then the rain effect).               *)
THEOREM PlaybackMovesOn == TlSpec => [][TicksMoveOn]_tlVars
<1>1. TInv /\ [TlNext]_tlVars => [TicksMoveOn]_tlVars
  BY TickKept DEF TicksMoveOn
<1> QED BY <1>1, TInvInit, TInvStep, PTL DEF TlSpec

-----------------------------------------------------------------------------
(* Listings.                                                               *)
FileTimesOK(s) == TimesOK(s) /\ s # <<>> /\ \A f \in Elements(s) : f >= DayOne
Oddly(S) == obOdd \cap S # {}
Dir(w) == InDir(obDirs, w.past, PathOf(w))
DirsOK(dirs) == dirs \in [ObPaths -> Nat] /\ \A p \in ObPaths : dirs[p] \in 1 .. Len(ObArrivals[p[1]])
KeptOK(kept, dirs) == kept \in [KeptKeys -> Nat] /\ \A k \in KeptKeys : kept[k] <= dirs[k[1]]

LEMMA PathsSorted == ASSUME NEW p \in ObPaths PROVE p[1] \in {"upper", "surface", "alone"} /\ p = <<p[1], p[2]>>
  BY DEF ObPaths

LEMMA StretchElements ==
    ASSUME NEW s, TimesOK(s), NEW m \in 1 .. Len(s), NEW n \in m .. Len(s)
    PROVE  Elements(SubSeq(s, 1, m)) \subseteq Elements(SubSeq(s, 1, n)) /\ Elements(SubSeq(s, 1, n)) \subseteq Elements(s)
<1>1. s \in Seq(Nat) /\ Len(s) \in Nat /\ m \in Nat /\ n \in Nat /\ m <= n /\ n <= Len(s) /\ 1 <= m
  BY DEF TimesOK
<1>2. SubSeq(s, 1, m) = [i \in 1 .. m |-> s[i]] /\ SubSeq(s, 1, n) = [i \in 1 .. n |-> s[i]]
  BY <1>1
<1>3. DOMAIN s = 1 .. Len(s)
  BY <1>1
<1> QED BY <1>1, <1>2, <1>3 DEF Elements

LEMMA ArrivalsOK ==
    ASSUME NEW sort \in {"upper", "surface", "alone"}
    PROVE  FileTimesOK(ObArrivals[sort]) /\ FileTimesOK(ObPast[sort])
<1> SUFFICES ASSUME NEW s \in {ObArrivals[sort], ObPast[sort]} PROVE FileTimesOK(s)
  OBVIOUS
<1>1. ListedInOrder(s)
  BY ObAssumption
<1>2. TimesOK(s) /\ s # <<>>
  BY <1>1 DEF ListedInOrder, TimesOK, RisingTimes
<1>3. \A f \in Elements(s) : f >= DayOne
  BY <1>1 DEF ListedInOrder, Elements
<1> QED BY <1>2, <1>3 DEF FileTimesOK

LEMMA PartOfFiles ==
    ASSUME NEW s, FileTimesOK(s), NEW r, TimesOK(r), r # <<>>, Elements(r) \subseteq Elements(s)
    PROVE  FileTimesOK(r)
  BY DEF FileTimesOK

LEMMA DirListed ==
    ASSUME NEW dirs, DirsOK(dirs), NEW past \in BOOLEAN, NEW p \in ObPaths
    PROVE  FileTimesOK(InDir(dirs, past, p))
<1>1. p[1] \in {"upper", "surface", "alone"}
  BY PathsSorted
<1> DEFINE all == ObArrivals[p[1]]
<1>2. FileTimesOK(all) /\ FileTimesOK(ObPast[p[1]])
  BY <1>1, ArrivalsOK
<1>3. dirs[p] \in 1 .. Len(all)
  BY DEF DirsOK
<1> HIDE DEF all
<1>4. TimesOK(all) /\ 1 \in 1 .. Len(all) /\ dirs[p] \in 1 .. Len(all) /\ Len(all) \in Nat
  BY <1>2, <1>3 DEF FileTimesOK, TimesOK
<1>5. TimesOK(SubSeq(all, 1, dirs[p])) /\ SubSeq(all, 1, dirs[p]) # <<>>
  BY <1>4, StretchInOrder
<1>6. Elements(SubSeq(all, 1, dirs[p])) \subseteq Elements(all)
  <2>1. dirs[p] \in dirs[p] .. Len(all)
    BY <1>4
  <2> QED BY <1>4, <2>1, StretchElements
<1>7. FileTimesOK(SubSeq(all, 1, dirs[p]))
  BY <1>2, <1>5, <1>6, PartOfFiles
<1> QED BY <1>2, <1>7 DEF InDir, all

LEMMA TreeListed ==
    ASSUME NEW dirs, DirsOK(dirs), NEW kept, KeptOK(kept, dirs), NEW past \in BOOLEAN, NEW key \in KeptKeys
    PROVE  /\ FileTimesOK(Tree(dirs, kept, past, key))
           /\ Elements(Tree(dirs, kept, past, key)) \subseteq Elements(InDir(dirs, past, key[1]))
           /\ (past \/ kept[key] \in {0, dirs[key[1]]}) => Tree(dirs, kept, past, key) = InDir(dirs, past, key[1])
           /\ KeptOK(KeptAfter(dirs, kept, past, key), dirs)
<1> DEFINE p == key[1]
           all == ObArrivals[p[1]]
<1>1. p \in ObPaths
  BY DEF KeptKeys
<1>2. FileTimesOK(InDir(dirs, past, p))
  BY <1>1, DirListed
<1>3. kept[key] \in Nat /\ kept[key] <= dirs[p] /\ dirs[p] \in 1 .. Len(all)
  BY <1>1 DEF KeptOK, DirsOK
<1>4. KeptOK(KeptAfter(dirs, kept, past, key), dirs)
  <2>1. dirs[p] \in Nat
    BY <1>1 DEF DirsOK
  <2> QED BY <2>1 DEF KeptAfter, KeptOK
<1>5. FileTimesOK(all) /\ TimesOK(all) /\ Len(all) \in Nat
  <2>1. FileTimesOK(all)
    <3>1. p[1] \in {"upper", "surface", "alone"}
      BY <1>1, PathsSorted
    <3> HIDE DEF p
    <3> QED BY <3>1, ArrivalsOK
  <2> HIDE DEF all
  <2> QED BY <2>1 DEF FileTimesOK, TimesOK
<1>6. CASE ~past /\ kept[key] # 0
  <2>1. Tree(dirs, kept, past, key) = SubSeq(all, 1, kept[key]) /\ InDir(dirs, past, p) = SubSeq(all, 1, dirs[p])
    BY <1>6 DEF Tree, InDir
  <2> HIDE DEF p, all
  <2>2. kept[key] \in 1 .. Len(all) /\ dirs[p] \in kept[key] .. Len(all) /\ 1 \in 1 .. Len(all)
    BY <1>3, <1>5, <1>6
  <2>3. TimesOK(SubSeq(all, 1, kept[key])) /\ SubSeq(all, 1, kept[key]) # <<>>
    BY <1>5, <2>2, StretchInOrder
  <2>4. Elements(SubSeq(all, 1, kept[key])) \subseteq Elements(SubSeq(all, 1, dirs[p]))
    BY <1>5, <2>2, StretchElements
  <2>5. FileTimesOK(Tree(dirs, kept, past, key)) /\ Elements(Tree(dirs, kept, past, key)) \subseteq Elements(InDir(dirs, past, p))
    BY <1>2, <2>1, <2>3, <2>4, PartOfFiles
  <2> QED BY <1>4, <1>6, <2>1, <2>5 DEF p
<1>7. CASE ~(~past /\ kept[key] # 0)
  <2>1. Tree(dirs, kept, past, key) = InDir(dirs, past, p)
    BY <1>7 DEF Tree
  <2> QED BY <1>2, <1>4, <2>1
<1> QED BY <1>6, <1>7

(* The file drawn is there, and the one of the time if that is.            *)
LEMMA DrawnThere ==
    ASSUME NEW files, FileTimesOK(files), NEW target \in Int
    PROVE  /\ MatchSample(files, target, "nearest") \in Elements(files)
           /\ target \in Elements(files) => MatchSample(files, target, "nearest") = target
           /\ MatchSample(files, target, "latest-at") \in Elements(files)
<1>1. files \in Seq(Int) /\ files # <<>> /\ files \in Seq(Nat)
  BY DEF FileTimesOK, TimesOK
<1>2. MatchSample(files, target, "nearest") = files[ClosestIndex(files, target, {})]
  BY DEF MatchSample
<1>3. /\ ClosestIndex(files, target, {}) \in DOMAIN files
      /\ \A i \in DOMAIN files : files[i] = target => files[ClosestIndex(files, target, {})] = target
  BY <1>1, ClosestIsIn
<1> DEFINE past == {i \in DOMAIN files : files[i] <= target}
<1>4. MatchSample(files, target, "latest-at") = IF past = {} THEN files[1] ELSE files[Latest(past)]
  BY DEF MatchSample
<1>5. 1 \in DOMAIN files /\ (past # {} => Latest(past) \in DOMAIN files)
  <2>1. DOMAIN files = 1 .. Len(files) /\ Len(files) \in Nat /\ Len(files) # 0
    BY <1>1
  <2>2. past \in SUBSET (0 .. Len(files)) /\ past \subseteq DOMAIN files
    BY <2>1
  <2> HIDE DEF past
  <2>3. past # {} => Latest(past) \in past
    BY <2>1, <2>2, LatestIsIn
  <2> QED BY <2>1, <2>2, <2>3
<1> HIDE DEF past
<1> QED BY <1>2, <1>3, <1>4, <1>5 DEF Elements

(* The time a window is set to is a file listed, and a chip if there is    *)
(* one.                                                                    *)
LEMMA SyncedThere ==
    ASSUME NEW files, FileTimesOK(files), NEW current \in Int, NEW sort \in {"upper", "surface"}, NEW forced \in BOOLEAN
    PROVE  LET chips == FilterObsFiles(files, DefaultStep(sort), sort = "upper")
               file == SyncedFile(files, current, sort, DefaultStep(sort), forced)
           IN  file \in Elements(files) /\ (chips = <<>> \/ file \in Elements(chips))
<1> DEFINE chips == FilterObsFiles(files, DefaultStep(sort), sort = "upper")
           kept == IF forced THEN Nil ELSE MatchCurrent(current, chips, sort = "satellite")
           file == SyncedFile(files, current, sort, DefaultStep(sort), forced)
<1>1. PartOf(chips, files)
  BY FilterInOrder DEF FileTimesOK
<1>2. StepUsed(sort, DefaultStep(sort), forced) = DefaultStep(sort)
  BY DEF StepUsed, DefaultStep
<1>3. file = CASE kept # Nil -> kept [] kept = Nil /\ chips # <<>> -> LastOf(chips) [] OTHER -> LastOf(files)
  BY <1>2 DEF SyncedFile
<1>4. ASSUME NEW s \in Seq(Nat), s # <<>> PROVE LastOf(s) \in Elements(s)
  BY <1>4 DEF LastOf, Elements
<1>5. chips \in Seq(Nat) /\ files \in Seq(Nat) /\ files # <<>> /\ Elements(chips) \subseteq Elements(files)
  BY <1>1 DEF PartOf, FileTimesOK, TimesOK
<1> HIDE DEF chips
<1>6. kept # Nil => kept \in Elements(chips)
  BY DEF MatchCurrent
<1> HIDE DEF kept, file
<1>7. LastOf(files) \in Elements(files) /\ (chips # <<>> => LastOf(chips) \in Elements(chips))
  BY <1>4, <1>5
<1>8. file \in Elements(files) /\ (chips = <<>> \/ file \in Elements(chips))
  BY <1>3, <1>5, <1>6, <1>7
<1> QED BY <1>8 DEF file, chips

-----------------------------------------------------------------------------
(* The window of observations.  What is loaded anew starts bare, or at     *)
(* another level, and while nothing odd has happened from the listing as   *)
(* it is; the files its layer was given include its timeline's but for     *)
(* what may keep them apart.                                               *)
WindowsOfObs == [preset : SortsOfObs \cup {"none"}, level : ObLevels \cup {0}, time : Int, cursor : Int,
                 path : ObPaths \cup {Untold}, files : Seq(Nat), samples : Seq(Nat), shown : Int,
                 past : BOOLEAN, load : {"none", "anew", "step"}]
PathIsKnown(w) == w.preset # "none" => PathOf(w) \in ObPaths
FilesOK(w) ==
    w.files # <<>> => /\ FileTimesOK(w.files) /\ w.path \in ObPaths
                      /\ Elements(w.files) \subseteq Elements(InDir(obDirs, w.past, w.path))
SamplesOK(w) ==
    w.samples # <<>> => /\ FileTimesOK(w.samples)
                        /\ Elements(w.samples) \subseteq Elements(Dir(w)) \/ Oddly({"level", "day"})
CoveredOK(w) == \/ w.load = "anew" \/ w.samples = <<>> \/ Elements(w.files) \subseteq Elements(w.samples)
                \/ Oddly({"kept", "given", "level", "day"})
Bare(w) == w.files = <<>> /\ w.time = Nil /\ w.path = Untold
AnewOK(w) == w.load = "anew" =>
    /\ w.preset # "none" /\ (Bare(w) \/ w.path # PathOf(w))
    /\ w.cursor = Nil \/ Oddly({"returned", "level"})
    /\ \/ Oddly({"given", "level", "day"})
       \/ w.samples = <<>> /\ Bare(w) /\ (Behind(PathOf(w)) => "kept" \in obOdd)
StepOK(w) == w.load = "step" =>
    /\ w.time # Nil /\ w.preset # "none"
    /\ w.time \in Elements(w.files) \/ "swept" \in obOdd
    /\ w.cursor = w.time \/ Oddly({"swept", "dragged"})
RestOK(w) == w.load # "anew" =>
    /\ w.preset = "none" => w.files = <<>> /\ w.shown = Nil /\ w.samples = <<>>
    /\ w.preset # "none" => w.files # <<>> /\ w.path = PathOf(w)
WindowOK(w) ==
    /\ w \in WindowsOfObs /\ PathIsKnown(w)
    /\ FilesOK(w) /\ SamplesOK(w) /\ CoveredOK(w) /\ AnewOK(w) /\ StepOK(w) /\ RestOK(w)
ObInv == DirsOK(obDirs) /\ KeptOK(obKept, obDirs) /\ WindowOK(obWin) /\ ObservationsSound

LEMMA ChipsPart ==
    ASSUME NEW w, w.files = <<>> \/ FileTimesOK(w.files)
    PROVE  Elements(ChipsOf(w)) \subseteq Elements(w.files)
<1>1. TimesOK(<<>>)
  BY DEF TimesOK, RisingTimes
<1>2. TimesOK(w.files)
  BY <1>1 DEF FileTimesOK
<1> QED BY <1>2, FilterInOrder DEF ChipsOf, PartOf

LEMMA ObInvInit == ObInit => ObInv
<1> SUFFICES ASSUME ObInit PROVE ObInv
  OBVIOUS
<1>1. DirsOK(obDirs)
  <2>1. ASSUME NEW p \in ObPaths PROVE obDirs[p] = 1 /\ 1 \in 1 .. Len(ObArrivals[p[1]])
    <3>1. p[1] \in {"upper", "surface", "alone"}
      BY PathsSorted
    <3> DEFINE all == ObArrivals[p[1]]
    <3>2. FileTimesOK(all)
      BY <3>1, ArrivalsOK
    <3> HIDE DEF all
    <3>3. Len(all) \in Nat /\ Len(all) # 0
      BY <3>2 DEF FileTimesOK, TimesOK
    <3>4. 1 \in 1 .. Len(all)
      BY <3>3
    <3> QED BY <3>4 DEF ObInit, all
  <2> QED BY <2>1 DEF ObInit, DirsOK
<1>2. KeptOK(obKept, obDirs)
  <2>1. \A k \in KeptKeys : k[1] \in ObPaths
    BY DEF KeptKeys
  <2> QED BY <2>1 DEF ObInit, KeptOK
<1>3. obWin \in WindowsOfObs
  BY DEF ObInit, WindowsOfObs, Untold, Nil
<1>4. obWin.preset = "none" /\ obWin.files = <<>> /\ obWin.samples = <<>> /\ obWin.load = "none" /\ obWin.shown = Nil
  BY DEF ObInit
<1>5. WindowOK(obWin)
  BY <1>3, <1>4 DEF WindowOK, PathIsKnown, FilesOK, SamplesOK, CoveredOK, AnewOK, StepOK, RestOK
<1>6. ObservationsSound
  BY <1>4 DEF ObservationsSound, MapIsOfTime, ShownExists, LineIsOfWindow
<1> QED BY <1>1, <1>2, <1>5, <1>6 DEF ObInv

-----------------------------------------------------------------------------
(* A load that is done.                                                    *)
LEMMA Settles ==
    ASSUME NEW v \in WindowsOfObs, v.load = "none", v.preset # "none", PathOf(v) \in ObPaths, v.path = PathOf(v),
           FileTimesOK(v.files), Elements(v.files) \subseteq Elements(Dir(v)),
           NEW avail, FileTimesOK(avail), v.samples \in {<<>>, avail},
           Elements(avail) \subseteq Elements(Dir(v)) \/ Oddly({"level", "day"}),
           Elements(v.files) \subseteq Elements(avail) \/ Oddly({"kept", "given", "level", "day"}),
           v.shown \in Elements(avail),
           v.cursor \in {Nil, v.time} /\ v.time \in Elements(avail) => v.shown = v.time,
           v.time \in Elements(v.files) \/ "swept" \in obOdd,
           v.cursor \in {Nil, v.time} \/ Oddly({"returned", "level", "swept", "dragged"}),
           obWin' = v, UNCHANGED <<obOdd, obDirs>>
    PROVE  WindowOK(obWin)' /\ ObservationsSound'
<1>1. Dir(obWin)' = Dir(v) /\ PathOf(obWin)' = PathOf(v)
  BY DEF Dir, PathOf
<1>2. \A S : Oddly(S)' <=> Oddly(S)
  BY DEF Oddly
<1>3. FilesOK(obWin)' /\ PathIsKnown(obWin)'
  BY <1>1 DEF FilesOK, Dir, PathIsKnown
<1>4. SamplesOK(obWin)'
  BY <1>1, <1>2 DEF SamplesOK
<1>5. CoveredOK(obWin)'
  BY <1>2 DEF CoveredOK
<1>6. AnewOK(obWin)' /\ StepOK(obWin)'
  BY DEF AnewOK, StepOK
<1>7. RestOK(obWin)'
  <2>1. v.files # <<>>
    BY DEF FileTimesOK
  <2> QED BY <1>1, <2>1 DEF RestOK
<1>8. WindowOK(obWin)'
  BY <1>3, <1>4, <1>5, <1>6, <1>7 DEF WindowOK
<1>9. MapIsOfTime'
  <2>1. CASE v.shown = v.time
    BY <2>1 DEF MapIsOfTime
  <2>2. CASE v.cursor \notin {Nil, v.time}
    BY <2>2 DEF MapIsOfTime, Oddly
  <2>3. CASE v.time \notin Elements(avail)
    <3>1. v.time \notin Elements(v.samples)
      BY <2>3 DEF Elements
    <3>2. Oddly({"kept", "given", "level", "swept", "day"})
      BY <2>3 DEF Oddly
    <3> QED BY <3>1, <3>2 DEF MapIsOfTime, Oddly
  <2> QED BY <2>1, <2>2, <2>3
<1>10. ShownExists'
  BY <1>1 DEF ShownExists, Dir, Oddly
<1>11. LineIsOfWindow'
  BY <1>1 DEF LineIsOfWindow, Dir
<1> QED BY <1>8, <1>9, <1>10, <1>11 DEF ObservationsSound

LEMMA PassFields ==
    ASSUME NEW set \in WindowsOfObs, NEW files, FileTimesOK(files)
    PROVE  LET r == Pass(set, files)
           IN  /\ r \in WindowsOfObs /\ r.preset = set.preset /\ r.level = set.level /\ r.time = set.time
               /\ r.cursor = set.cursor /\ r.path = set.path /\ r.files = set.files /\ r.past = set.past
               /\ r.load = set.load /\ r.shown \in Elements(files) /\ r.samples \in {set.samples, files}
               /\ set.preset # "alone" => r.samples = files
               /\ set.preset = "alone" => r.samples = set.samples
               /\ set.cursor \in {Nil, set.time} /\ set.time \in Elements(files) => r.shown = set.time
<1> DEFINE drawn == DrawnFile(set, files)
           r == Pass(set, files)
<1>1. set.cursor \in Int /\ set.time \in Int /\ files \in Seq(Nat) /\ set.samples \in Seq(Nat)
  BY DEF WindowsOfObs, FileTimesOK, TimesOK
<1>2. drawn \in Elements(files)
  BY <1>1, DrawnThere DEF DrawnFile
<1>3. set.cursor \in {Nil, set.time} /\ set.time \in Elements(files) => drawn = set.time
  BY <1>1, DrawnThere DEF DrawnFile
<1>4. drawn \in Int
  BY <1>1, <1>2 DEF Elements
<1>5. r = IF set.preset = "alone" THEN [set EXCEPT !.shown = drawn] ELSE [set EXCEPT !.samples = files, !.shown = drawn]
  BY DEF Pass, ContourPass, StationPass
<1> HIDE DEF drawn, r
<1>6. CASE set.preset = "alone"
  <2>1. r = [set EXCEPT !.shown = drawn]
    BY <1>5, <1>6
  <2>2. /\ r \in WindowsOfObs /\ r.preset = set.preset /\ r.level = set.level /\ r.time = set.time
        /\ r.cursor = set.cursor /\ r.path = set.path /\ r.files = set.files /\ r.past = set.past
        /\ r.load = set.load /\ r.shown = drawn /\ r.samples = set.samples
    BY <1>4, <2>1 DEF WindowsOfObs
  <2> QED BY <1>2, <1>3, <1>6, <2>2 DEF r
<1>7. CASE set.preset # "alone"
  <2>1. r = [set EXCEPT !.samples = files, !.shown = drawn]
    BY <1>5, <1>7
  <2>2. /\ r \in WindowsOfObs /\ r.preset = set.preset /\ r.level = set.level /\ r.time = set.time
        /\ r.cursor = set.cursor /\ r.path = set.path /\ r.files = set.files /\ r.past = set.past
        /\ r.load = set.load /\ r.shown = drawn /\ r.samples = files
    BY <1>1, <1>4, <2>1 DEF WindowsOfObs
  <2> QED BY <1>2, <1>3, <1>7, <2>2 DEF r
<1> QED BY <1>6, <1>7

LEMMA StepPassKeeps == ASSUME ObInv, LoadPass, obWin.load = "step" PROVE ObInv'
<1> DEFINE w == [obWin EXCEPT !.load = "none"]
           avail == Available(w)
           v == Pass(w, avail)
<1>1. WindowOK(obWin) /\ obWin \in WindowsOfObs /\ obWin.preset # "none" /\ obWin.time # Nil /\ obWin.time \in Int
  BY DEF ObInv, WindowOK, StepOK, WindowsOfObs
<1>2. /\ w \in WindowsOfObs /\ w.preset = obWin.preset /\ w.level = obWin.level /\ w.time = obWin.time
      /\ w.cursor = obWin.cursor /\ w.path = obWin.path /\ w.files = obWin.files /\ w.past = obWin.past
      /\ w.load = "none" /\ w.samples = obWin.samples /\ PathOf(w) = PathOf(obWin)
  BY <1>1 DEF WindowsOfObs, PathOf
<1>3. /\ obWin.path = PathOf(obWin) /\ FileTimesOK(obWin.files) /\ obWin.files # <<>>
      /\ Elements(obWin.files) \subseteq Elements(Dir(obWin)) /\ PathOf(obWin) \in ObPaths
  BY <1>1 DEF WindowOK, RestOK, FilesOK, Dir, PathIsKnown
<1>4. obWin' = Pass(Resynced(w, TRUE, KeptByPass(obWin)), avail) /\ obKept' = KeptBySync(w, TRUE, KeptByPass(obWin))
      /\ obDirs' = obDirs /\ obOdd' = obOdd
  BY DEF LoadPass, PassOver
<1> HIDE DEF w
<1>5. ~Syncs(w, TRUE)
  BY <1>1, <1>2, <1>3 DEF Syncs, FreshObs
<1>6. obWin' = v /\ obKept' = obKept
  <2>1. Resynced(w, TRUE, KeptByPass(obWin)) = w
    BY <1>5 DEF Resynced
  <2>2. KeptByPass(obWin) = obKept
    BY <1>3 DEF KeptByPass, Asks, LineOf
  <2>3. KeptBySync(w, TRUE, obKept) = obKept
    BY <1>5 DEF KeptBySync
  <2> QED BY <1>4, <2>1, <2>2, <2>3
<1>7. avail = IF obWin.samples # <<>> THEN obWin.samples ELSE obWin.files
  BY <1>2, <1>3 DEF Available, LineOf
<1>8. /\ FileTimesOK(avail) /\ (Elements(avail) \subseteq Elements(Dir(obWin)) \/ Oddly({"level", "day"}))
      /\ Elements(obWin.files) \subseteq Elements(avail) \/ Oddly({"kept", "given", "level", "day"})
  BY <1>1, <1>3, <1>7 DEF WindowOK, SamplesOK, CoveredOK
<1>9. Dir(w) = Dir(obWin)
  BY <1>2 DEF Dir
<1> HIDE DEF avail, v
<1>10. /\ v \in WindowsOfObs /\ v.preset = w.preset /\ v.level = w.level /\ v.time = w.time
       /\ v.cursor = w.cursor /\ v.path = w.path /\ v.files = w.files /\ v.past = w.past
       /\ v.load = w.load /\ v.shown \in Elements(avail) /\ v.samples \in {w.samples, avail}
       /\ w.preset # "alone" => v.samples = avail
       /\ w.preset = "alone" => v.samples = w.samples
       /\ w.cursor \in {Nil, w.time} /\ w.time \in Elements(avail) => v.shown = w.time
  BY <1>2, <1>8, PassFields DEF v
<1>11. v.samples \in {<<>>, avail}
  BY <1>2, <1>7, <1>10
<1>12. Dir(v) = Dir(obWin) /\ PathOf(v) = PathOf(obWin)
  BY <1>2, <1>10 DEF Dir, PathOf
<1>13. /\ obWin.time \in Elements(obWin.files) \/ "swept" \in obOdd
       /\ obWin.cursor = obWin.time \/ Oddly({"swept", "dragged"})
  BY <1>1 DEF WindowOK, StepOK
<1>14. Oddly({"swept", "dragged"}) => Oddly({"returned", "level", "swept", "dragged"})
  BY DEF Oddly
<1>15. /\ v.load = "none" /\ v.preset # "none" /\ PathOf(v) \in ObPaths /\ v.path = PathOf(v)
       /\ FileTimesOK(v.files) /\ Elements(v.files) \subseteq Elements(Dir(v))
       /\ Elements(avail) \subseteq Elements(Dir(v)) \/ Oddly({"level", "day"})
       /\ Elements(v.files) \subseteq Elements(avail) \/ Oddly({"kept", "given", "level", "day"})
       /\ v.cursor \in {Nil, v.time} /\ v.time \in Elements(avail) => v.shown = v.time
       /\ v.time \in Elements(v.files) \/ "swept" \in obOdd
       /\ v.cursor \in {Nil, v.time} \/ Oddly({"returned", "level", "swept", "dragged"})
  BY <1>1, <1>2, <1>3, <1>8, <1>10, <1>12, <1>13, <1>14
<1>16. WindowOK(obWin)' /\ ObservationsSound'
  BY <1>4, <1>6, <1>8, <1>10, <1>11, <1>15, Settles
<1>17. DirsOK(obDirs)' /\ KeptOK(obKept, obDirs)'
  BY <1>4, <1>6 DEF ObInv, DirsOK, KeptOK
<1> QED BY <1>16, <1>17 DEF ObInv

LEMMA KeysOfPaths ==
    ASSUME NEW p \in ObPaths, NEW b \in BOOLEAN PROVE KeyOf(p, b) \in KeptKeys /\ KeyOf(p, b)[1] = p
  BY DEF KeyOf, KeptKeys

(* What a fresh load sets the timeline to.                                 *)
LEMMA SyncedFields ==
    ASSUME NEW w \in WindowsOfObs, w.preset # "none", PathOf(w) \in ObPaths, NEW listing, FileTimesOK(listing),
           NEW fresh \in BOOLEAN
    PROVE  LET r == SyncedLine(w, listing, fresh)
           IN  /\ r \in WindowsOfObs /\ r.preset = w.preset /\ r.level = w.level /\ r.cursor = w.cursor
               /\ r.path = PathOf(w) /\ r.files = listing /\ r.samples = w.samples /\ r.past = w.past
               /\ r.load = w.load /\ r.time \in Elements(listing)
               /\ ChipsOf(r) = <<>> \/ r.time \in Elements(ChipsOf(r))
<1> DEFINE sort == SyncSort(w.preset)
           file == SyncedFile(listing, IF fresh THEN Nil ELSE w.time, sort, DefaultStep(sort), fresh)
           r == SyncedLine(w, listing, fresh)
<1>1. r = [w EXCEPT !.time = file, !.path = PathOf(w), !.files = listing]
  BY DEF SyncedLine
<1>2. sort \in {"upper", "surface"} /\ (OfSoundings(w.preset) <=> sort = "upper") /\ OfSoundings(w.preset) \in BOOLEAN
  BY DEF SyncSort, OfSoundings
<1>3. (IF fresh THEN Nil ELSE w.time) \in Int
  BY DEF WindowsOfObs, Nil
<1>4. LET chips == FilterObsFiles(listing, DefaultStep(sort), sort = "upper")
      IN  file \in Elements(listing) /\ (chips = <<>> \/ file \in Elements(chips))
  <2> HIDE DEF sort
  <2> QED BY <1>2, <1>3, SyncedThere
<1>5. file \in Int /\ listing \in Seq(Nat)
  BY <1>4 DEF FileTimesOK, TimesOK, Elements
<1>6. ChipsOf(r) = FilterObsFiles(r.files, DefaultStep(SyncSort(r.preset)), OfSoundings(r.preset))
  BY DEF ChipsOf
<1> HIDE DEF file, r
<1>7. /\ r \in WindowsOfObs /\ r.preset = w.preset /\ r.level = w.level /\ r.cursor = w.cursor
      /\ r.path = PathOf(w) /\ r.files = listing /\ r.samples = w.samples /\ r.past = w.past
      /\ r.load = w.load /\ r.time = file
  BY <1>1, <1>5 DEF WindowsOfObs
<1>8. ChipsOf(r) = FilterObsFiles(listing, DefaultStep(sort), sort = "upper")
  <2>1. OfSoundings(w.preset) = (sort = "upper")
    BY <1>2
  <2> QED BY <1>6, <1>7, <2>1
<1> QED BY <1>4, <1>7, <1>8 DEF r

LEMMA AnewPassKeeps == ASSUME ObInv, LoadPass, obWin.load = "anew" PROVE ObInv'
<1> DEFINE w == [obWin EXCEPT !.load = "none"]
           p == PathOf(obWin)
           kept == KeptByPass(obWin)
           fresh == FreshObs(w, FALSE)
           listing == IF fresh THEN Dir(obWin) ELSE Tree(obDirs, kept, obWin.past, KeyOf(p, TRUE))
           avail == Available(w)
           set == SyncedLine(w, listing, fresh)
           v == Pass(set, avail)
<1>1. /\ WindowOK(obWin) /\ obWin \in WindowsOfObs /\ obWin.preset # "none"
      /\ DirsOK(obDirs) /\ KeptOK(obKept, obDirs) /\ obWin.past \in BOOLEAN
  BY DEF ObInv, WindowOK, AnewOK, WindowsOfObs
<1>2. /\ w \in WindowsOfObs /\ w.preset = obWin.preset /\ w.level = obWin.level /\ w.time = obWin.time
      /\ w.cursor = obWin.cursor /\ w.path = obWin.path /\ w.files = obWin.files /\ w.past = obWin.past
      /\ w.load = "none" /\ w.samples = obWin.samples /\ PathOf(w) = p
  BY <1>1 DEF WindowsOfObs, PathOf
<1>3. p \in ObPaths
  BY <1>1 DEF WindowOK, PathIsKnown
<1>4. obWin' = Bridged(Pass(Resynced(w, FALSE, kept), avail), ChipsOf(Pass(Resynced(w, FALSE, kept), avail)))
      /\ obKept' = KeptBySync(w, FALSE, kept) /\ obDirs' = obDirs /\ obOdd' = obOdd
  BY DEF LoadPass, PassOver
<1> HIDE DEF w, p
<1>5. Syncs(w, FALSE) /\ ~LineOf(w) /\ (Bare(obWin) => fresh)
  <2>1. Bare(obWin) \/ obWin.path # p
    BY <1>1 DEF WindowOK, AnewOK, p
  <2>2. CASE Bare(obWin)
    BY <1>2, <2>2 DEF Bare, Syncs, LineOf, FreshObs
  <2>3. CASE obWin.path # p /\ ~Bare(obWin)
    BY <1>2, <2>3 DEF Syncs, LineOf
  <2> QED BY <2>1, <2>2, <2>3
<1>6. Dir(w) = Dir(obWin) /\ Dir(obWin) = InDir(obDirs, obWin.past, p) /\ FileTimesOK(Dir(obWin))
  BY <1>1, <1>2, <1>3, DirListed DEF Dir, p
<1>7. /\ KeyOf(p, FALSE) \in KeptKeys /\ KeyOf(p, FALSE)[1] = p
      /\ KeyOf(p, TRUE) \in KeptKeys /\ KeyOf(p, TRUE)[1] = p
  BY <1>3, KeysOfPaths
<1>8. KeptOK(kept, obDirs)
  <2>1. KeptOK(KeptAfter(obDirs, obKept, obWin.past, KeyOf(p, FALSE)), obDirs)
    BY <1>1, <1>7, TreeListed
  <2> QED BY <1>1, <2>1 DEF KeptByPass, p
<1>9. Resynced(w, FALSE, kept) = set
  BY <1>2, <1>5, <1>6 DEF Resynced, Dir
<1>10. KeptOK(obKept', obDirs)
  <2>1. KeptOK(KeptAfter(obDirs, kept, obWin.past, KeyOf(p, TRUE)), obDirs)
    BY <1>1, <1>7, <1>8, TreeListed
  <2> QED BY <1>2, <1>4, <1>8, <2>1 DEF KeptBySync
<1>11. avail = IF obWin.samples # <<>> THEN obWin.samples ELSE Tree(obDirs, obKept, obWin.past, KeyOf(p, FALSE))
  BY <1>2, <1>5 DEF Available
<1>12. fresh \in BOOLEAN
  BY DEF FreshObs
<1> HIDE DEF kept, fresh
<1>13. FileTimesOK(listing) /\ Elements(listing) \subseteq Elements(Dir(obWin))
  <2> DEFINE told == Tree(obDirs, kept, obWin.past, KeyOf(p, TRUE))
  <2>1. FileTimesOK(told) /\ Elements(told) \subseteq Elements(InDir(obDirs, obWin.past, KeyOf(p, TRUE)[1]))
    BY <1>1, <1>7, <1>8, TreeListed
  <2> HIDE DEF told
  <2>2. FileTimesOK(told) /\ Elements(told) \subseteq Elements(Dir(obWin))
    BY <1>6, <1>7, <2>1
  <2>3. listing = IF fresh THEN Dir(obWin) ELSE told
    BY DEF told
  <2> QED BY <1>6, <2>2, <2>3
<1>14. /\ FileTimesOK(avail) /\ (Elements(avail) \subseteq Elements(Dir(obWin)) \/ Oddly({"level", "day"}))
  <2>1. CASE obWin.samples # <<>>
    BY <1>1, <1>11, <2>1 DEF WindowOK, SamplesOK
  <2>2. CASE obWin.samples = <<>>
    BY <1>1, <1>6, <1>7, <1>11, <2>2, TreeListed
  <2> QED BY <2>1, <2>2
<1>15. Elements(listing) \subseteq Elements(avail) \/ Oddly({"kept", "given", "level", "day"})
  <2> SUFFICES ASSUME ~Oddly({"kept", "given", "level", "day"}) PROVE Elements(listing) \subseteq Elements(avail)
    OBVIOUS
  <2>1. ~Oddly({"given", "level", "day"}) /\ "kept" \notin obOdd
    BY DEF Oddly
  <2>2. obWin.samples = <<>> /\ Bare(obWin) /\ ~Behind(p)
    BY <1>1, <2>1 DEF WindowOK, AnewOK, p
  <2>3. listing = Dir(obWin)
    BY <1>5, <2>2
  <2>4. avail = Tree(obDirs, obKept, obWin.past, KeyOf(p, FALSE))
    BY <1>11, <2>2
  <2>5. obWin.past \/ obKept[KeyOf(p, FALSE)] \in {0, obDirs[p]}
    <3> DEFINE k == obKept[KeyOf(p, FALSE)]
               d == obDirs[p]
    <3>1. k \in Nat /\ d \in Nat /\ k <= d
      BY <1>1, <1>3, <1>7 DEF KeptOK, DirsOK
    <3>2. obWin.past \/ k \notin 1 .. d - 1
      BY <2>2 DEF Behind
    <3> HIDE DEF k, d
    <3>3. obWin.past \/ k \in {0, d}
      BY <3>1, <3>2
    <3> QED BY <3>3 DEF k, d
  <2>6. avail = Dir(obWin)
    <3> DEFINE key == KeyOf(p, FALSE)
               told == Tree(obDirs, obKept, obWin.past, key)
    <3> HIDE DEF avail, listing, key
    <3>1. key \in KeptKeys /\ key[1] = p /\ (obWin.past \/ obKept[key] \in {0, obDirs[key[1]]})
      BY <1>7, <2>5 DEF key
    <3>2. told = InDir(obDirs, obWin.past, key[1])
      BY <1>1, <3>1, TreeListed
    <3>3. avail = told
      BY <2>4 DEF key
    <3> HIDE DEF told
    <3> QED BY <1>6, <3>1, <3>2, <3>3
  <2> QED BY <2>3, <2>6
<1> HIDE DEF listing, avail, set, v
<1>16. /\ set \in WindowsOfObs /\ set.preset = w.preset /\ set.level = w.level /\ set.cursor = w.cursor
       /\ set.path = p /\ set.files = listing /\ set.samples = w.samples /\ set.past = w.past
       /\ set.load = w.load /\ set.time \in Elements(listing)
       /\ ChipsOf(set) = <<>> \/ set.time \in Elements(ChipsOf(set))
  BY <1>1, <1>2, <1>3, <1>12, <1>13, SyncedFields DEF set
<1>17. /\ v \in WindowsOfObs /\ v.preset = set.preset /\ v.level = set.level /\ v.time = set.time
       /\ v.cursor = set.cursor /\ v.path = set.path /\ v.files = set.files /\ v.past = set.past
       /\ v.load = set.load /\ v.shown \in Elements(avail) /\ v.samples \in {set.samples, avail}
       /\ set.preset # "alone" => v.samples = avail
       /\ set.preset = "alone" => v.samples = set.samples
       /\ set.cursor \in {Nil, set.time} /\ set.time \in Elements(avail) => v.shown = set.time
  BY <1>14, <1>16, PassFields DEF v
<1>18. obWin' = v
  <2>1. ChipsOf(v) = ChipsOf(set)
    BY <1>17 DEF ChipsOf
  <2> QED BY <1>4, <1>9, <1>16, <1>17, <2>1 DEF Bridged, v
<1>19. v.samples \in {<<>>, avail}
  BY <1>2, <1>11, <1>16, <1>17
<1>20. Dir(v) = Dir(obWin) /\ PathOf(v) = p
  BY <1>2, <1>16, <1>17 DEF Dir, PathOf, p
<1>21. obWin.cursor = Nil \/ Oddly({"returned", "level"})
  BY <1>1 DEF WindowOK, AnewOK
<1>22. Oddly({"returned", "level"}) => Oddly({"returned", "level", "swept", "dragged"})
  BY DEF Oddly
<1>23. /\ v.load = "none" /\ v.preset # "none" /\ PathOf(v) \in ObPaths /\ v.path = PathOf(v)
       /\ FileTimesOK(v.files) /\ Elements(v.files) \subseteq Elements(Dir(v))
       /\ Elements(avail) \subseteq Elements(Dir(v)) \/ Oddly({"level", "day"})
       /\ Elements(v.files) \subseteq Elements(avail) \/ Oddly({"kept", "given", "level", "day"})
       /\ v.cursor \in {Nil, v.time} /\ v.time \in Elements(avail) => v.shown = v.time
       /\ v.time \in Elements(v.files) \/ "swept" \in obOdd
       /\ v.cursor \in {Nil, v.time} \/ Oddly({"returned", "level", "swept", "dragged"})
  BY <1>1, <1>2, <1>3, <1>13, <1>14, <1>15, <1>16, <1>17, <1>20, <1>21, <1>22
<1>24. WindowOK(obWin)' /\ ObservationsSound'
  BY <1>4, <1>14, <1>17, <1>18, <1>19, <1>23, Settles
<1>25. DirsOK(obDirs)' /\ KeptOK(obKept, obDirs)'
  <2>1. KeptOK(obKept', obDirs')
    BY <1>4, <1>10
  <2> QED BY <1>1, <1>4, <2>1 DEF DirsOK
<1> QED BY <1>24, <1>25 DEF ObInv

-----------------------------------------------------------------------------
(* The operations.                                                         *)
LEMMA Unsettled == obWin'.load # "none" => ObservationsSound'
  BY DEF ObservationsSound, MapIsOfTime, ShownExists, LineIsOfWindow

LEMMA ObRest ==
    ASSUME ObInv, obWin.load = "none"
    PROVE  /\ obWin \in WindowsOfObs /\ DirsOK(obDirs) /\ KeptOK(obKept, obDirs)
           /\ PathIsKnown(obWin) /\ FilesOK(obWin) /\ SamplesOK(obWin) /\ CoveredOK(obWin) /\ RestOK(obWin)
           /\ obWin.preset = "none" => obWin.files = <<>>
           /\ obWin.preset # "none" => /\ PathOf(obWin) \in ObPaths /\ obWin.path = PathOf(obWin)
                                       /\ FileTimesOK(obWin.files)
  BY DEF ObInv, WindowOK, RestOK, FilesOK, PathIsKnown

(* A preset applied leaves the window bare.                                *)
LEMMA AppliedFields ==
    ASSUME NEW w \in WindowsOfObs, NEW p \in ObPaths
    PROVE  LET r == Applied(w, p[1], p[2])
           IN  /\ r \in WindowsOfObs /\ Bare(r) /\ PathOf(r) = p /\ r.preset = p[1] /\ r.preset # "none"
               /\ r.samples = w.samples /\ r.past = w.past
               /\ r.cursor # Nil => p[1] = w.preset /\ w.cursor # Nil
<1> DEFINE r == Applied(w, p[1], p[2])
<1>1. p[1] \in SortsOfObs /\ p[1] # "none" /\ p[2] \in ObLevels \cup {0} /\ p = <<p[1], p[2]>>
  BY DEF ObPaths, SortsOfObs
<1>2. /\ r \in WindowsOfObs /\ Bare(r) /\ r.preset = p[1] /\ r.level = p[2] /\ r.samples = w.samples /\ r.past = w.past
      /\ r.cursor # Nil => p[1] = w.preset /\ w.cursor # Nil
  <2> DEFINE cursor == IF p[1] = w.preset THEN w.cursor ELSE Nil
  <2>1. r = [w EXCEPT !.preset = p[1], !.level = p[2], !.time = Nil, !.path = Untold, !.files = <<>>, !.cursor = cursor]
    BY DEF Applied
  <2>2. cursor \in Int /\ Nil \in Int /\ (cursor # Nil => p[1] = w.preset /\ w.cursor # Nil)
    BY DEF WindowsOfObs, Nil
  <2> HIDE DEF cursor, r
  <2>3. r \in WindowsOfObs
    <3> DEFINE sort == p[1]
               level == p[2]
    <3>1. sort \in SortsOfObs \cup {"none"} /\ level \in ObLevels \cup {0} /\ <<>> \in Seq(Nat)
      BY <1>1
    <3>2. r = [w EXCEPT !.preset = sort, !.level = level, !.time = Nil, !.path = Untold, !.files = <<>>, !.cursor = cursor]
      BY <2>1
    <3> HIDE DEF sort, level
    <3> QED BY <2>2, <3>1, <3>2 DEF WindowsOfObs
  <2>4. /\ r.time = Nil /\ r.path = Untold /\ r.files = <<>> /\ r.cursor = cursor
        /\ r.preset = p[1] /\ r.level = p[2] /\ r.samples = w.samples /\ r.past = w.past
    BY <2>1 DEF WindowsOfObs
  <2> QED BY <2>2, <2>3, <2>4 DEF Bare
<1> HIDE DEF r
<1>3. PathOf(r) = p
  BY <1>1, <1>2 DEF PathOf
<1>4. r.preset # "none"
  BY <1>1, <1>2
<1> QED BY <1>2, <1>3, <1>4 DEF r

(* What begins to load a bare window, or a given one.                      *)
LEMMA StartsAnew ==
    ASSUME NEW r \in WindowsOfObs, Bare(r) \/ r.path # PathOf(r), r.preset # "none", PathOf(r) \in ObPaths,
           FilesOK(r), DirsOK(obDirs), KeptOK(obKept, obDirs), UNCHANGED <<obDirs, obKept>>,
           r.samples # <<>> => /\ FileTimesOK(r.samples)
                               /\ Elements(r.samples) \subseteq Elements(Dir(r)) \/ Oddly({"level", "day"})',
           r.cursor = Nil \/ Oddly({"returned", "level"})',
           \/ Oddly({"given", "level", "day"})'
           \/ r.samples = <<>> /\ Bare(r) /\ (Behind(PathOf(r)) => "kept" \in obOdd'),
           Loads(r, "anew"), r.past = obWin.past \/ Oddly({"given", "level", "day"})'
    PROVE  ObInv'
<1>1. obWin' = [r EXCEPT !.load = "anew"]
  BY DEF Loads
<1>2. /\ obWin' \in WindowsOfObs /\ obWin'.preset = r.preset /\ obWin'.level = r.level /\ obWin'.time = r.time
      /\ obWin'.cursor = r.cursor /\ obWin'.path = r.path /\ obWin'.files = r.files /\ obWin'.past = r.past
      /\ obWin'.load = "anew" /\ obWin'.samples = r.samples
  BY <1>1 DEF WindowsOfObs
<1>3. PathOf(obWin)' = PathOf(r) /\ Dir(obWin)' = Dir(r)
  BY <1>2 DEF PathOf, Dir
<1>4. PathIsKnown(obWin)' /\ SamplesOK(obWin)' /\ CoveredOK(obWin)' /\ StepOK(obWin)' /\ RestOK(obWin)'
  BY <1>2, <1>3 DEF PathIsKnown, SamplesOK, CoveredOK, StepOK, RestOK
<1>5. FilesOK(obWin)'
  BY <1>2 DEF FilesOK
<1>6. Behind(PathOf(obWin))' <=> (~r.past /\ obKept[KeyOf(PathOf(r), FALSE)] \in 1 .. obDirs[PathOf(r)] - 1)
  BY <1>2, <1>3 DEF Behind
<1>7. AnewOK(obWin)'
  <2>1. Bare(obWin)' <=> Bare(r)
    BY <1>2 DEF Bare
  <2>2. CASE Oddly({"given", "level", "day"})'
    BY <1>2, <1>3, <2>1, <2>2 DEF AnewOK
  <2>3. CASE ~Oddly({"given", "level", "day"})'
    <3>1. r.samples = <<>> /\ Bare(r) /\ (Behind(PathOf(r)) => "kept" \in obOdd') /\ r.past = obWin.past
      BY <2>3
    <3>2. Behind(PathOf(r)) <=> (~r.past /\ obKept[KeyOf(PathOf(r), FALSE)] \in 1 .. obDirs[PathOf(r)] - 1)
      BY <3>1 DEF Behind
    <3>3. Behind(PathOf(obWin))' => "kept" \in obOdd'
      BY <1>6, <3>1, <3>2
    <3> QED BY <1>2, <1>3, <2>1, <3>1, <3>3 DEF AnewOK
  <2> QED BY <2>2, <2>3
<1>8. DirsOK(obDirs)' /\ KeptOK(obKept, obDirs)'
  BY DEF DirsOK, KeptOK
<1> QED BY <1>2, <1>4, <1>5, <1>7, <1>8, Unsettled DEF ObInv, WindowOK

LEMMA ChooseObsKeeps == ASSUME ObInv, ChooseObs PROVE ObInv'
<1>1. PICK p \in ObPaths :
        /\ Operate
        /\ Loads([Applied(obWin, p[1], p[2]) EXCEPT !.samples = <<>>], "anew")
        /\ obOdd' = (IF Behind(p) THEN {"kept"} ELSE {})
                    \cup (IF p[1] = obWin.preset /\ obWin.cursor # Nil THEN {"returned"} ELSE {})
  BY DEF ChooseObs
<1>2. obWin.load = "none" /\ UNCHANGED <<obDirs, obKept>>
  BY <1>1 DEF Operate
<1>3. obWin \in WindowsOfObs /\ DirsOK(obDirs) /\ KeptOK(obKept, obDirs)
  BY <1>2, ObRest
<1> DEFINE a == Applied(obWin, p[1], p[2])
           r == [a EXCEPT !.samples = <<>>]
<1>4. /\ a \in WindowsOfObs /\ Bare(a) /\ PathOf(a) = p /\ a.preset = p[1] /\ a.preset # "none"
      /\ a.past = obWin.past /\ (a.cursor # Nil => p[1] = obWin.preset /\ obWin.cursor # Nil)
  BY <1>3, AppliedFields
<1> HIDE DEF a
<1>5. /\ r \in WindowsOfObs /\ Bare(r) /\ PathOf(r) = p /\ r.preset # "none" /\ r.samples = <<>> /\ r.past = obWin.past
      /\ r.cursor = a.cursor
  BY <1>4 DEF WindowsOfObs, Bare, PathOf
<1>6. Loads(r, "anew")
  BY <1>1 DEF a
<1> HIDE DEF r
<1>7. r.cursor = Nil \/ Oddly({"returned", "level"})'
  BY <1>1, <1>4, <1>5 DEF Oddly
<1>8. Behind(p) => "kept" \in obOdd'
  BY <1>1
<1>9. FilesOK(r)
  BY <1>5 DEF FilesOK, Bare
<1> QED BY <1>2, <1>3, <1>5, <1>6, <1>7, <1>8, <1>9, StartsAnew

LEMMA ReloadObsKeeps == ASSUME ObInv, ReloadObs PROVE ObInv'
<1> DEFINE p == PathOf(obWin)
           r == Applied(obWin, obWin.preset, obWin.level)
<1>1. /\ obWin.load = "none" /\ obWin.preset # "none" /\ UNCHANGED <<obDirs, obKept>> /\ Loads(r, "anew")
      /\ obOdd' = obOdd \cup {"given"} \cup (IF obWin.cursor # Nil THEN {"returned"} ELSE {})
  BY DEF ReloadObs, Operate
<1>2. obWin \in WindowsOfObs /\ DirsOK(obDirs) /\ KeptOK(obKept, obDirs) /\ SamplesOK(obWin) /\ p \in ObPaths
  BY <1>1, ObRest
<1>3. r = Applied(obWin, p[1], p[2])
  BY DEF PathOf
<1> HIDE DEF p, r
<1>4. /\ r \in WindowsOfObs /\ Bare(r) /\ PathOf(r) = p /\ r.preset # "none" /\ r.samples = obWin.samples
      /\ r.past = obWin.past /\ (r.cursor # Nil => obWin.cursor # Nil)
  BY <1>2, <1>3, AppliedFields
<1>5. r.cursor = Nil \/ Oddly({"returned", "level"})'
  BY <1>1, <1>4 DEF Oddly
<1>6. Oddly({"given", "level", "day"})' /\ (Oddly({"level", "day"}) => Oddly({"level", "day"})')
  BY <1>1 DEF Oddly
<1>7. Dir(r) = Dir(obWin)
  BY <1>4 DEF Dir, p
<1>8. r.samples # <<>> => /\ FileTimesOK(r.samples)
                          /\ Elements(r.samples) \subseteq Elements(Dir(r)) \/ Oddly({"level", "day"})'
  BY <1>2, <1>4, <1>6, <1>7 DEF SamplesOK
<1>9. FilesOK(r)
  BY <1>4 DEF FilesOK, Bare
<1> QED BY <1>1, <1>2, <1>4, <1>5, <1>6, <1>8, <1>9, StartsAnew

LEMMA LookBackKeeps == ASSUME ObInv, LookBack PROVE ObInv'
<1> DEFINE p == PathOf(obWin)
           a == Applied(obWin, obWin.preset, obWin.level)
           r == [a EXCEPT !.cursor = Nil, !.past = ~@]
<1>1. /\ obWin.load = "none" /\ obWin.preset # "none" /\ UNCHANGED <<obDirs, obKept>> /\ Loads(r, "anew")
      /\ obOdd' = {"day"}
  BY DEF LookBack, Operate
<1>2. obWin \in WindowsOfObs /\ DirsOK(obDirs) /\ KeptOK(obKept, obDirs) /\ SamplesOK(obWin) /\ p \in ObPaths
  BY <1>1, ObRest
<1>3. a = Applied(obWin, p[1], p[2])
  BY DEF PathOf
<1> HIDE DEF p, a
<1>4. /\ a \in WindowsOfObs /\ Bare(a) /\ PathOf(a) = p /\ a.preset # "none" /\ a.samples = obWin.samples
  BY <1>2, <1>3, AppliedFields
<1>5. /\ r \in WindowsOfObs /\ Bare(r) /\ PathOf(r) = p /\ r.preset # "none" /\ r.samples = obWin.samples
      /\ r.cursor = Nil
  BY <1>4 DEF WindowsOfObs, Bare, PathOf, Nil
<1>6. Oddly({"given", "level", "day"})' /\ Oddly({"level", "day"})'
  BY <1>1 DEF Oddly
<1>7. r.samples # <<>> => FileTimesOK(r.samples)
  BY <1>2, <1>5 DEF SamplesOK
<1>8. FilesOK(r)
  BY <1>5 DEF FilesOK, Bare
<1> HIDE DEF r
<1> QED BY <1>1, <1>2, <1>5, <1>6, <1>7, <1>8, StartsAnew

LEMMA StepObsLevelKeeps == ASSUME ObInv, StepObsLevel PROVE ObInv'
<1>1. PICK l \in ObLevels \ {obWin.level} :
        /\ obWin.preset = "upper" /\ Operate /\ Loads([obWin EXCEPT !.level = l], "anew")
        /\ obOdd' = obOdd \cup {"level"}
  BY DEF StepObsLevel
<1> DEFINE r == [obWin EXCEPT !.level = l]
<1>2. obWin.load = "none" /\ UNCHANGED <<obDirs, obKept>>
  BY <1>1 DEF Operate
<1>3. /\ obWin \in WindowsOfObs /\ DirsOK(obDirs) /\ KeptOK(obKept, obDirs) /\ SamplesOK(obWin) /\ FilesOK(obWin)
      /\ obWin.path = <<"upper", obWin.level>>
  BY <1>1, <1>2, ObRest DEF PathOf
<1>4. /\ r \in WindowsOfObs /\ r.path = obWin.path /\ PathOf(r) = <<"upper", l>> /\ r.preset = "upper"
      /\ r.files = obWin.files /\ r.past = obWin.past /\ r.samples = obWin.samples
  BY <1>1, <1>3 DEF WindowsOfObs, PathOf
<1>5. r.path # PathOf(r) /\ PathOf(r) \in ObPaths
  BY <1>1, <1>3, <1>4 DEF ObPaths
<1>6. Oddly({"given", "level", "day"})' /\ Oddly({"level", "day"})' /\ Oddly({"returned", "level"})'
  BY <1>1 DEF Oddly
<1>7. r.samples # <<>> => FileTimesOK(r.samples)
  BY <1>3, <1>4 DEF SamplesOK
<1>8. FilesOK(r)
  BY <1>3, <1>4 DEF FilesOK
<1>9. Loads(r, "anew")
  BY <1>1
<1> HIDE DEF r
<1> QED BY <1>2, <1>3, <1>4, <1>5, <1>6, <1>7, <1>8, <1>9, StartsAnew

(* A time or a cursor set in a window that has a timeline.                 *)
LEMMA StartsStep ==
    ASSUME ObInv, obWin.load = "none", obWin.preset # "none", UNCHANGED <<obDirs, obKept>>,
           NEW time \in Int, NEW cursor \in Int,
           obWin' = [obWin EXCEPT !.time = time, !.cursor = cursor, !.load = "step"],
           time # Nil, time \in Elements(obWin.files) \/ "swept" \in obOdd',
           cursor = time \/ Oddly({"swept", "dragged"})',
           \A odd \in {"kept", "given", "level", "day"} : odd \in obOdd => odd \in obOdd'
    PROVE  ObInv'
<1>1. /\ obWin \in WindowsOfObs /\ DirsOK(obDirs) /\ KeptOK(obKept, obDirs)
      /\ PathIsKnown(obWin) /\ FilesOK(obWin) /\ SamplesOK(obWin) /\ CoveredOK(obWin) /\ RestOK(obWin)
  BY ObRest
<1>2. /\ obWin' \in WindowsOfObs /\ obWin'.preset = obWin.preset /\ obWin'.level = obWin.level /\ obWin'.time = time
      /\ obWin'.cursor = cursor /\ obWin'.path = obWin.path /\ obWin'.files = obWin.files /\ obWin'.past = obWin.past
      /\ obWin'.load = "step" /\ obWin'.samples = obWin.samples /\ obWin'.shown = obWin.shown
  BY <1>1 DEF WindowsOfObs
<1>3. PathOf(obWin)' = PathOf(obWin) /\ Dir(obWin)' = Dir(obWin)
  BY <1>2 DEF PathOf, Dir
<1>4. /\ Oddly({"level", "day"}) => Oddly({"level", "day"})'
      /\ Oddly({"kept", "given", "level", "day"}) => Oddly({"kept", "given", "level", "day"})'
  BY DEF Oddly
<1>5. PathIsKnown(obWin)' /\ FilesOK(obWin)' /\ AnewOK(obWin)'
  BY <1>1, <1>2, <1>3 DEF PathIsKnown, FilesOK, AnewOK
<1>6. SamplesOK(obWin)'
  BY <1>1, <1>2, <1>3, <1>4 DEF SamplesOK
<1>7. CoveredOK(obWin)'
  BY <1>1, <1>2, <1>4 DEF CoveredOK
<1>8. RestOK(obWin)'
  BY <1>1, <1>2, <1>3 DEF RestOK
<1>9. StepOK(obWin)'
  BY <1>2 DEF StepOK
<1>10. DirsOK(obDirs)' /\ KeptOK(obKept, obDirs)'
  BY <1>1 DEF DirsOK, KeptOK
<1> QED BY <1>2, <1>5, <1>6, <1>7, <1>8, <1>9, <1>10, Unsettled DEF ObInv, WindowOK

LEMMA FilesAreTimes ==
    ASSUME ObInv, obWin.load = "none", NEW f \in Elements(obWin.files)
    PROVE  f \in Nat /\ f >= 1440 /\ FileTimesOK(obWin.files) /\ obWin.preset # "none"
<1>1. obWin.preset # "none"
  BY ObRest DEF Elements
<1>2. FileTimesOK(obWin.files)
  BY <1>1, ObRest
<1> QED BY <1>1, <1>2 DEF FileTimesOK, TimesOK, Elements, DayOne

LEMMA StepObsTimeKeeps == ASSUME ObInv, StepObsTime PROVE ObInv'
<1>1. PICK f \in Elements(ChipsOf(obWin)) :
        /\ Operate /\ Loads(Timed(obWin, f), "step") /\ obOdd' = obOdd \ {"returned", "swept", "dragged"}
  BY DEF StepObsTime
<1>2. obWin.load = "none" /\ UNCHANGED <<obDirs, obKept>>
  BY <1>1 DEF Operate
<1>3. f \in Elements(obWin.files)
  BY <1>2, ObRest, ChipsPart
<1>4. f \in Nat /\ f >= 1440 /\ obWin.preset # "none"
  BY <1>2, <1>3, FilesAreTimes
<1>5. obWin' = [obWin EXCEPT !.time = f, !.cursor = f, !.load = "step"]
  BY <1>1, <1>2, ObRest DEF Loads, Timed, WindowsOfObs
<1>6. f \in Int /\ f # Nil
  BY <1>4 DEF Nil
<1>7. \A odd \in {"kept", "given", "level", "day"} : odd \in obOdd => odd \in obOdd'
  BY <1>1
<1> QED BY <1>2, <1>3, <1>4, <1>5, <1>6, <1>7, StartsStep

LEMMA SweepObsKeeps == ASSUME ObInv, SweepObs PROVE ObInv'
<1>1. PICK f \in Elements(obWin.files), i \in {-1, 1} :
        /\ Operate
        /\ Loads([obWin EXCEPT !.time = f - i * DefaultStep(SyncSort(obWin.preset))], "step")
        /\ obOdd' = obOdd \cup {"swept"}
  BY DEF SweepObs
<1> DEFINE step == DefaultStep(SyncSort(obWin.preset))
           time == f - i * step
<1>2. obWin.load = "none" /\ UNCHANGED <<obDirs, obKept>>
  BY <1>1 DEF Operate
<1>3. f \in Nat /\ f >= 1440 /\ obWin.preset # "none"
  BY <1>2, FilesAreTimes
<1>4. step \in {180, 720}
  BY DEF DefaultStep
<1>5. Loads([obWin EXCEPT !.time = time], "step")
  BY <1>1
<1> HIDE DEF step
<1>6. time \in Int /\ time # Nil
  BY <1>3, <1>4 DEF Nil
<1> HIDE DEF time
<1>7. obWin \in WindowsOfObs
  BY <1>2, ObRest
<1>8. obWin' = [obWin EXCEPT !.time = time, !.cursor = obWin.cursor, !.load = "step"] /\ obWin.cursor \in Int
  BY <1>5, <1>7 DEF Loads, WindowsOfObs
<1>9. Oddly({"swept", "dragged"})' /\ "swept" \in obOdd' /\ obOdd \subseteq obOdd'
  BY <1>1 DEF Oddly
<1> QED BY <1>2, <1>3, <1>6, <1>8, <1>9, StartsStep

LEMMA DragCursorKeeps == ASSUME ObInv, DragCursor PROVE ObInv'
<1>1. PICK f \in Elements(obWin.files) :
        /\ Operate
        /\ Loads([obWin EXCEPT !.cursor = f + 420, !.time = MatchSample(obWin.files, f + 420, "latest-at")], "step")
        /\ obOdd' = obOdd \cup {"dragged"}
  BY DEF DragCursor
<1> DEFINE cursor == f + 420
           time == MatchSample(obWin.files, cursor, "latest-at")
<1>2. obWin.load = "none" /\ UNCHANGED <<obDirs, obKept>>
  BY <1>1 DEF Operate
<1>3. f \in Nat /\ FileTimesOK(obWin.files) /\ obWin.preset # "none"
  BY <1>2, FilesAreTimes
<1>4. cursor \in Int
  BY <1>3
<1>5. Loads([obWin EXCEPT !.cursor = cursor, !.time = time], "step")
  BY <1>1
<1> HIDE DEF cursor
<1>6. time \in Elements(obWin.files)
  BY <1>3, <1>4, DrawnThere
<1> HIDE DEF time
<1>7. time \in Int /\ time # Nil
  BY <1>2, <1>6, FilesAreTimes DEF Nil
<1>8. obWin' = [obWin EXCEPT !.time = time, !.cursor = cursor, !.load = "step"]
  BY <1>2, <1>5, ObRest DEF Loads, WindowsOfObs
<1>9. Oddly({"swept", "dragged"})' /\ obOdd \subseteq obOdd'
  BY <1>1 DEF Oddly
<1> QED BY <1>2, <1>3, <1>4, <1>6, <1>7, <1>8, <1>9, StartsStep

(* A file more: what was listed is listed still.                           *)
LEMMA DirGrows ==
    ASSUME NEW dirs, DirsOK(dirs), NEW more, DirsOK(more), \A p \in ObPaths : dirs[p] <= more[p],
           NEW past \in BOOLEAN, NEW p \in ObPaths
    PROVE  Elements(InDir(dirs, past, p)) \subseteq Elements(InDir(more, past, p))
<1> DEFINE all == ObArrivals[p[1]]
<1>1. p[1] \in {"upper", "surface", "alone"}
  BY PathsSorted
<1>2. FileTimesOK(all)
  BY <1>1, ArrivalsOK
<1>3. dirs[p] \in 1 .. Len(all) /\ more[p] \in 1 .. Len(all) /\ dirs[p] <= more[p]
  BY DEF DirsOK
<1>4. InDir(dirs, past, p) = (IF past THEN ObPast[p[1]] ELSE SubSeq(all, 1, dirs[p]))
      /\ InDir(more, past, p) = (IF past THEN ObPast[p[1]] ELSE SubSeq(all, 1, more[p]))
  BY DEF InDir
<1> HIDE DEF all
<1> DEFINE d == dirs[p]
           m == more[p]
<1>5. d \in 1 .. Len(all) /\ m \in d .. Len(all) /\ TimesOK(all)
  BY <1>2, <1>3 DEF FileTimesOK, TimesOK
<1>6. Elements(SubSeq(all, 1, d)) \subseteq Elements(SubSeq(all, 1, m))
  <2> HIDE DEF d, m
  <2> QED BY <1>5, StretchElements
<1> QED BY <1>4, <1>6

LEMMA NewFileKeeps == ASSUME ObInv, NewFile PROVE ObInv'
<1>1. PICK q \in ObPaths :
        /\ obWin.load = "none" /\ obDirs[q] < Len(ObArrivals[q[1]]) /\ obDirs' = [obDirs EXCEPT ![q] = @ + 1]
        /\ UNCHANGED <<obWin, obKept, obOdd>>
  BY DEF NewFile
<1>2. /\ obWin \in WindowsOfObs /\ DirsOK(obDirs) /\ KeptOK(obKept, obDirs) /\ PathIsKnown(obWin)
      /\ FilesOK(obWin) /\ SamplesOK(obWin) /\ CoveredOK(obWin) /\ RestOK(obWin) /\ ObservationsSound
      /\ obWin.preset = "none" => obWin.files = <<>> /\ obWin.samples = <<>> /\ obWin.shown = Nil
  BY <1>1, ObRest DEF ObInv, RestOK
<1>3. DirsOK(obDirs')
  <2> SUFFICES ASSUME NEW p \in ObPaths PROVE obDirs'[p] \in 1 .. Len(ObArrivals[p[1]]) /\ obDirs'[p] \in Nat
    BY <1>1, <1>2 DEF DirsOK
  <2>1. CASE p = q
    <3> DEFINE n == Len(ObArrivals[q[1]])
    <3>1. q[1] \in {"upper", "surface", "alone"}
      BY PathsSorted
    <3>2. FileTimesOK(ObArrivals[q[1]])
      BY <3>1, ArrivalsOK
    <3>3. n \in Nat
      BY <3>2 DEF FileTimesOK, TimesOK
    <3>4. obDirs[q] \in 1 .. n /\ obDirs[q] < n /\ obDirs'[q] = obDirs[q] + 1
      BY <1>1, <1>2 DEF DirsOK
    <3> HIDE DEF n
    <3>5. obDirs'[q] \in 1 .. n /\ obDirs'[q] \in Nat
      BY <3>3, <3>4
    <3> QED BY <2>1, <3>5 DEF n
  <2>2. CASE p # q
    BY <1>1, <1>2, <2>2 DEF DirsOK
  <2> QED BY <2>1, <2>2
<1>4. \A p \in ObPaths : obDirs[p] <= obDirs'[p] /\ obDirs[p] \in Nat /\ obDirs'[p] \in Nat
  BY <1>1, <1>2 DEF DirsOK
<1>5. KeptOK(obKept', obDirs')
  <2>1. \A k \in KeptKeys : k[1] \in ObPaths
    BY DEF KeptKeys
  <2> QED BY <1>1, <1>2, <1>4, <2>1 DEF KeptOK
<1>6. \A p \in ObPaths : Elements(InDir(obDirs, obWin.past, p)) \subseteq Elements(InDir(obDirs', obWin.past, p))
  <2>1. obWin.past \in BOOLEAN
    BY <1>2 DEF WindowsOfObs
  <2> QED BY <1>2, <1>3, <1>4, <2>1, DirGrows
<1>7. obWin.preset # "none" => /\ Elements(Dir(obWin)) \subseteq Elements(Dir(obWin)')
                               /\ obWin.path = PathOf(obWin) /\ PathOf(obWin) \in ObPaths
  BY <1>1, <1>2, <1>6 DEF Dir, PathIsKnown, RestOK, PathOf
<1>8. PathOf(obWin)' = PathOf(obWin) /\ \A S : Oddly(S)' <=> Oddly(S)
  BY <1>1 DEF PathOf, Oddly
<1>9. PathIsKnown(obWin)' /\ CoveredOK(obWin)' /\ AnewOK(obWin)' /\ StepOK(obWin)' /\ RestOK(obWin)'
  BY <1>1, <1>2, <1>8 DEF PathIsKnown, CoveredOK, AnewOK, StepOK, RestOK
<1>10. FilesOK(obWin)'
  BY <1>1, <1>2, <1>6 DEF FilesOK
<1>11. SamplesOK(obWin)'
  BY <1>1, <1>2, <1>7, <1>8 DEF SamplesOK
<1>12. MapIsOfTime'
  BY <1>1, <1>2 DEF ObservationsSound, MapIsOfTime
<1>13. ShownExists'
  <2>1. obWin.shown # Nil => obWin.preset # "none"
    BY <1>2
  <2> QED BY <1>1, <1>2, <1>7, <2>1 DEF ObservationsSound, ShownExists, Dir
<1>14. LineIsOfWindow'
  <2>1. obWin.files # <<>> => obWin.preset # "none"
    BY <1>2
  <2> QED BY <1>1, <1>2, <1>6, <1>7, <1>8, <2>1 DEF ObservationsSound, LineIsOfWindow
<1> QED BY <1>1, <1>2, <1>3, <1>5, <1>9, <1>10, <1>11, <1>12, <1>13, <1>14 DEF ObInv, WindowOK, ObservationsSound

LEMMA ListingExpiresKeeps == ASSUME ObInv, ListingExpires PROVE ObInv'
<1>1. PICK k \in KeptKeys :
        obWin.load = "none" /\ obKept' = [obKept EXCEPT ![k] = 0] /\ UNCHANGED <<obWin, obDirs, obOdd>>
  BY DEF ListingExpires
<1>2. KeptOK(obKept', obDirs')
  <2>1. \A j \in KeptKeys : j[1] \in ObPaths
    BY DEF KeptKeys
  <2> QED BY <1>1, <2>1 DEF ObInv, DirsOK, KeptOK
<1>3. DirsOK(obDirs)'
  BY <1>1 DEF ObInv, DirsOK
<1>4. PathOf(obWin)' = PathOf(obWin) /\ Dir(obWin)' = Dir(obWin) /\ \A S : Oddly(S)' <=> Oddly(S)
  BY <1>1 DEF PathOf, Dir, Oddly
<1>5. WindowOK(obWin)'
  <2>1. /\ obWin' \in WindowsOfObs /\ PathIsKnown(obWin)' /\ CoveredOK(obWin)' /\ StepOK(obWin)' /\ RestOK(obWin)'
    BY <1>1, <1>4, ObRest DEF PathIsKnown, CoveredOK, StepOK, RestOK
  <2>2. FilesOK(obWin)' /\ AnewOK(obWin)'
    BY <1>1, ObRest DEF FilesOK, AnewOK
  <2>3. SamplesOK(obWin)'
    BY <1>1, <1>4, ObRest DEF SamplesOK
  <2> QED BY <2>1, <2>2, <2>3 DEF WindowOK
<1>6. ObservationsSound'
  BY <1>1, <1>4 DEF ObInv, ObservationsSound, MapIsOfTime, ShownExists, LineIsOfWindow, Dir
<1> QED BY <1>2, <1>3, <1>5, <1>6 DEF ObInv

LEMMA ObInvStep == ASSUME ObInv, [ObNext]_obVars PROVE ObInv'
<1>1. CASE ObNext
  <2>1. CASE LoadPass
    <3>1. obWin.load \in {"none", "anew", "step"} /\ obWin.load # "none"
      BY <2>1 DEF LoadPass, ObInv, WindowOK, WindowsOfObs
    <3> QED BY <2>1, <3>1, AnewPassKeeps, StepPassKeeps
  <2> QED BY <1>1, <2>1, ChooseObsKeeps, ReloadObsKeeps, StepObsLevelKeeps, StepObsTimeKeeps, SweepObsKeeps,
             DragCursorKeeps, LookBackKeeps, NewFileKeeps, ListingExpiresKeeps DEF ObNext
<1>2. CASE UNCHANGED obVars
  <2>1. DirsOK(obDirs)' /\ KeptOK(obKept, obDirs)'
    BY <1>2 DEF ObInv, DirsOK, KeptOK, obVars
  <2>2. PathOf(obWin)' = PathOf(obWin) /\ Dir(obWin)' = Dir(obWin) /\ \A S : Oddly(S)' <=> Oddly(S)
    BY <1>2 DEF PathOf, Dir, Oddly, obVars
  <2>3. Behind(PathOf(obWin))' <=> Behind(PathOf(obWin))
    BY <1>2, <2>2 DEF Behind, obVars
  <2>4. WindowOK(obWin)'
    <3>1. /\ obWin' \in WindowsOfObs /\ PathIsKnown(obWin)' /\ CoveredOK(obWin)' /\ StepOK(obWin)' /\ RestOK(obWin)'
      BY <1>2, <2>2 DEF ObInv, WindowOK, PathIsKnown, CoveredOK, StepOK, RestOK, obVars
    <3>2. FilesOK(obWin)' /\ SamplesOK(obWin)'
      BY <1>2, <2>2 DEF ObInv, WindowOK, FilesOK, SamplesOK, obVars
    <3>3. AnewOK(obWin)'
      BY <1>2, <2>2, <2>3 DEF ObInv, WindowOK, AnewOK, Bare, obVars
    <3> QED BY <3>1, <3>2, <3>3 DEF WindowOK
  <2>5. ObservationsSound'
    BY <1>2, <2>2 DEF ObInv, ObservationsSound, MapIsOfTime, ShownExists, LineIsOfWindow, Dir, obVars
  <2> QED BY <2>1, <2>4, <2>5 DEF ObInv
<1> QED BY <1>1, <1>2

(* The map of observations shows the file of the window's time, one there  *)
(* is, on a timeline of its own.                                           *)
THEOREM MapOfObservations == ObInit /\ [][ObNext]_obVars => []ObservationsSound
<1>1. ObInv => ObservationsSound
  BY DEF ObInv
<1> QED BY <1>1, ObInvInit, ObInvStep, PTL
=============================================================================
