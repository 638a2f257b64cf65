----------------------------- MODULE ViewProofs -----------------------------
(***************************************************************************)
(* Proofs about the windows and what they share on the screen: the tab     *)
(* that holds them, the cameras of their maps, the sounding panel and the  *)
(* profile panels, for any layouts and any number of windows, operations,  *)
(* moves, loads and changes.                                               *)
(***************************************************************************)
EXTENDS LoadsProofs, Windows, Cameras, Soundings, Profiles

-----------------------------------------------------------------------------
(***************************************************************************)
(* The windows.  OwnIds and NothingLeaks are not inductive: a new id is    *)
(* not one of a window that is gone only because every id there was lies   *)
(* below wnTab.next (Below, GoneOK), and a window that shows something     *)
(* keeps its entries only because each operation makes the windows it      *)
(* leaves out of those it finds (Kin): it brings in none with an old id,   *)
(* and gives none a picture that is not held.                              *)
(***************************************************************************)
WindowType == [uid : Nat, auto : {"unset", "yes", "no"}, pin : BOOLEAN, parent : Nat \cup {Nobody},
               preset : Presets \cup {Empty}]
OwnUids(wins) == \A i, j \in DOMAIN wins : wins[i].uid = wins[j].uid => i = j
Below(wins, next) == \A i \in DOMAIN wins : wins[i].uid < next
WinsOK(wins) == wins \in Seq(WindowType) /\ OwnUids(wins)
TabType == [wins : Seq(WindowType), active : Nat, anchor : Nat \cup {Nobody}, mode : AllocModes \cup {"none"},
            layout : DOMAIN Layouts, last : DOMAIN Layouts, preview : BOOLEAN, next : Nat]
TabOK(tab) ==
    /\ tab \in TabType
    /\ tab.active \in DOMAIN tab.wins
    /\ OwnUids(tab.wins)
    /\ Below(tab.wins, tab.next)

\* The windows `then` come from the windows `wins`: they are among them or new,
\* and those that show something did so before or are given it.
Kin(wins, next, then, held) ==
    \A w \in MembersOf(then) :
        /\ w.uid \in UidsOf(wins) \/ w.uid >= next
        /\ w.preset # Empty => w.uid \in held \/ \E v \in MembersOf(wins) : v.uid = w.uid /\ v.preset # Empty
-----------------------------------------------------------------------------
(* Windows picked from a list, and put behind each other.                  *)
LEMMA UidsOfMembers == ASSUME NEW wins PROVE UidsOf(wins) = {w.uid : w \in MembersOf(wins)}
BY DEF UidsOf, MembersOf

LEMMA PlaceFound ==
    ASSUME NEW wins, NEW uid \in UidsOf(wins)
    PROVE  PlaceOf(wins, uid) \in DOMAIN wins /\ wins[PlaceOf(wins, uid)].uid = uid
BY DEF UidsOf, PlaceOf

LEMMA MembersTyped == ASSUME NEW wins \in Seq(WindowType) PROVE MembersOf(wins) \subseteq WindowType
<1>1. \A i \in DOMAIN wins : wins[i] \in WindowType
  BY ElementOfSeq
<1> QED BY <1>1 DEF MembersOf

LEMMA KinIsTransitive ==
    ASSUME NEW a, NEW m \in Nat, NEW b, NEW n \in Nat, NEW c, NEW held, m <= n, c \in Seq(WindowType),
           Kin(a, m, b, {}), Kin(b, n, c, held)
    PROVE  Kin(a, m, c, held)
<1> SUFFICES ASSUME NEW w \in MembersOf(c)
             PROVE  /\ w.uid \in UidsOf(a) \/ w.uid >= m
                    /\ w.preset # Empty =>
                          w.uid \in held \/ \E v \in MembersOf(a) : v.uid = w.uid /\ v.preset # Empty
  BY DEF Kin
<1>0. w.uid \in Nat
  BY MembersTyped DEF WindowType
<1>1. w.uid \in UidsOf(b) \/ w.uid >= n
  BY DEF Kin
<1>2. w.uid \in UidsOf(b) => w.uid \in UidsOf(a) \/ w.uid >= m
  BY UidsOfMembers DEF Kin
<1>3. w.preset # Empty => w.uid \in held \/ \E v \in MembersOf(b) : v.uid = w.uid /\ v.preset # Empty
  BY DEF Kin
<1>4. ASSUME NEW v \in MembersOf(b), v.uid = w.uid, v.preset # Empty
      PROVE  \E u \in MembersOf(a) : u.uid = w.uid /\ u.preset # Empty
  BY <1>4 DEF Kin
<1> QED BY <1>0, <1>1, <1>2, <1>3, <1>4

\* A part of the windows.
LEMMA PartListed ==
    ASSUME NEW wins, WinsOK(wins), NEW K \in SUBSET DOMAIN wins
    PROVE  /\ WinsOK(OnlyAt(wins, K))
           /\ MembersOf(OnlyAt(wins, K)) = {wins[i] : i \in K}
           /\ UidsOf(OnlyAt(wins, K)) = {wins[i].uid : i \in K}
           /\ K # {} => Len(OnlyAt(wins, K)) >= 1
<1>1. MembersOf(OnlyAt(wins, K)) = {wins[i] : i \in K} /\ OnlyAt(wins, K) \in Seq(WindowType)
      /\ (K # {} => Len(OnlyAt(wins, K)) >= 1)
  BY LeftOf DEF WinsOK
<1>2. \A m, n \in DOMAIN OnlyAt(wins, K) : m # n =>
          \E i, j \in K : i # j /\ OnlyAt(wins, K)[m] = wins[i] /\ OnlyAt(wins, K)[n] = wins[j]
  BY LeftOf DEF WinsOK
<1>3. OwnUids(OnlyAt(wins, K))
  BY <1>2 DEF OwnUids, WinsOK
<1>4. UidsOf(OnlyAt(wins, K)) = {w.uid : w \in {wins[i] : i \in K}}
  BY <1>1, UidsOfMembers
<1> QED BY <1>1, <1>3, <1>4 DEF WinsOK

\* Two lists with no window in common, one after the other.
LEMMA JoinListed ==
    ASSUME NEW s, NEW t, WinsOK(s), WinsOK(t), UidsOf(s) \cap UidsOf(t) = {}
    PROVE  /\ WinsOK(s \o t)
           /\ MembersOf(s \o t) = MembersOf(s) \cup MembersOf(t)
           /\ UidsOf(s \o t) = UidsOf(s) \cup UidsOf(t)
<1>1. /\ s \in Seq(WindowType) /\ t \in Seq(WindowType) /\ s \o t \in Seq(WindowType)
      /\ DOMAIN s = 1 .. Len(s) /\ DOMAIN t = 1 .. Len(t) /\ DOMAIN (s \o t) = 1 .. Len(s) + Len(t)
      /\ Len(s) \in Nat /\ Len(t) \in Nat
  BY ConcatProperties DEF WinsOK
<1>2. \A i \in 1 .. Len(s) + Len(t) : (s \o t)[i] = IF i <= Len(s) THEN s[i] ELSE t[i - Len(s)]
  BY <1>1, ConcatProperties
<1>3. \A i \in DOMAIN s : i \in DOMAIN (s \o t) /\ (s \o t)[i] = s[i]
  BY <1>1, <1>2
<1>4. \A i \in DOMAIN t : i + Len(s) \in DOMAIN (s \o t) /\ (s \o t)[i + Len(s)] = t[i]
  BY <1>1, <1>2
<1>5. \A i \in DOMAIN (s \o t) : \/ i \in DOMAIN s /\ (s \o t)[i] = s[i]
                                 \/ i - Len(s) \in DOMAIN t /\ (s \o t)[i] = t[i - Len(s)]
  BY <1>1, <1>2
<1>6. MembersOf(s \o t) = MembersOf(s) \cup MembersOf(t)
  BY <1>3, <1>4, <1>5 DEF MembersOf
<1>7. UidsOf(s \o t) = UidsOf(s) \cup UidsOf(t)
  BY <1>6, UidsOfMembers
<1>8. ASSUME NEW i \in DOMAIN (s \o t), NEW j \in DOMAIN (s \o t), (s \o t)[i].uid = (s \o t)[j].uid
      PROVE  i = j
  <2>1. ~(i \in DOMAIN s /\ (s \o t)[i] = s[i] /\ j - Len(s) \in DOMAIN t /\ (s \o t)[j] = t[j - Len(s)])
    BY <1>8 DEF UidsOf
  <2>2. ~(j \in DOMAIN s /\ (s \o t)[j] = s[j] /\ i - Len(s) \in DOMAIN t /\ (s \o t)[i] = t[i - Len(s)])
    BY <1>8 DEF UidsOf
  <2>3. i \in DOMAIN s /\ (s \o t)[i] = s[i] /\ j \in DOMAIN s /\ (s \o t)[j] = s[j] => i = j
    BY <1>8 DEF WinsOK, OwnUids
  <2>4. i - Len(s) \in DOMAIN t /\ (s \o t)[i] = t[i - Len(s)] /\ j - Len(s) \in DOMAIN t
        /\ (s \o t)[j] = t[j - Len(s)] => i - Len(s) = j - Len(s)
    BY <1>8 DEF WinsOK, OwnUids
  <2>5. i \in Int /\ j \in Int
    BY <1>1
  <2> QED BY <1>1, <1>5, <2>1, <2>2, <2>3, <2>4, <2>5
<1>9. OwnUids(s \o t)
  BY <1>8 DEF OwnUids
<1> QED BY <1>1, <1>6, <1>7, <1>9 DEF WinsOK

\* A stretch of the windows.
LEMMA StretchListed ==
    ASSUME NEW wins, WinsOK(wins), NEW m \in Nat \ {0}, NEW n \in Nat, n <= Len(wins)
    PROVE  /\ WinsOK(SubSeq(wins, m, n))
           /\ MembersOf(SubSeq(wins, m, n)) = {wins[i] : i \in m .. n}
           /\ UidsOf(SubSeq(wins, m, n)) = {wins[i].uid : i \in m .. n}
<1> DEFINE p == SubSeq(wins, m, n)
<1>1. /\ wins \in Seq(WindowType) /\ p \in Seq(WindowType) /\ DOMAIN p = 1 .. Len(p)
      /\ Len(p) = IF m <= n THEN n - m + 1 ELSE 0
      /\ \A i \in 1 .. n - m + 1 : p[i] = wins[m + i - 1]
  BY SubSeqProperties DEF WinsOK
<1>2. \A i \in DOMAIN p : m + i - 1 \in m .. n /\ m + i - 1 \in DOMAIN wins /\ p[i] = wins[m + i - 1]
  BY <1>1
<1>3. \A i \in m .. n : i - m + 1 \in DOMAIN p /\ p[i - m + 1] = wins[i]
  BY <1>1
<1> HIDE DEF p
<1>4. MembersOf(p) = {wins[i] : i \in m .. n}
  BY <1>2, <1>3 DEF MembersOf
<1>5. ASSUME NEW i \in DOMAIN p, NEW j \in DOMAIN p, p[i].uid = p[j].uid PROVE i = j
  <2>1. m + i - 1 = m + j - 1
    BY <1>2, <1>5 DEF WinsOK, OwnUids
  <2> QED BY <2>1, <1>1
<1>6. UidsOf(p) = {w.uid : w \in {wins[i] : i \in m .. n}}
  BY <1>4, UidsOfMembers
<1> QED BY <1>1, <1>4, <1>5, <1>6 DEF p, WinsOK, OwnUids
-----------------------------------------------------------------------------
(* Induction, for sets of numbers.                                         *)
LEMMA SetInduction ==
    ASSUME NEW S, S \subseteq Nat, 0 \in S, \A n \in S : n + 1 \in S
    PROVE  S = Nat
<1> SUFFICES ASSUME Nat \ S # {} PROVE FALSE
  OBVIOUS
<1>1. PICK n \in Nat \ S : \A m \in Nat \ S : n <= m
  BY LeastMember
<1>2. n # 0 /\ n - 1 \in Nat /\ n - 1 \in S
  BY <1>1
<1> QED BY <1>1, <1>2

\* The steps of g from x, as many as one likes.
Steps(D, x, g, n) == {f \in [0 .. n -> D] : f[0] = x /\ \A k \in 1 .. n : f[k] = g[f[k - 1]]}
LEMMA Iterated ==
    ASSUME NEW D, NEW x \in D, NEW g \in [D -> D], NEW n \in Nat
    PROVE  Steps(D, x, g, n) # {}
<1> DEFINE upto(m) == {h \in [0 .. m -> D] : h[0] = x /\ \A k \in 1 .. m : h[k] = g[h[k - 1]]}
           S == {m \in Nat : upto(m) # {}}
<1>1. 0 \in S
  <2>1. [k \in 0 .. 0 |-> x] \in upto(0)
    OBVIOUS
  <2> QED BY <2>1
<1>2. ASSUME NEW m \in S PROVE m + 1 \in S
  <2>1. PICK h \in upto(m) : TRUE
    OBVIOUS
  <2> DEFINE e == [k \in 0 .. m + 1 |-> IF k = m + 1 THEN g[h[m]] ELSE h[k]]
  <2>2. m \in Nat /\ h \in [0 .. m -> D] /\ h[0] = x /\ \A k \in 1 .. m : h[k] = g[h[k - 1]]
    BY <2>1
  <2>3. e \in [0 .. m + 1 -> D]
    BY <2>2
  <2>4. e[0] = x
    BY <2>2
  <2>5. \A k \in 1 .. m + 1 : e[k] = g[e[k - 1]]
    BY <2>2
  <2> HIDE DEF e
  <2>6. e \in upto(m + 1)
    BY <2>3, <2>4, <2>5
  <2> QED BY <2>2, <2>6
<1>3. S = Nat
  <2> HIDE DEF upto
  <2>1. S \subseteq Nat
    OBVIOUS
  <2> QED BY <1>1, <1>2, <2>1, SetInduction
<1>4. upto(n) # {}
  <2> HIDE DEF upto
  <2> QED BY <1>3
<1> QED BY <1>4 DEF Steps
-----------------------------------------------------------------------------
(* Climbing up the parents ends at a window of the tab.                    *)
ClimbType(wins) == [at : UidsOf(wins), seen : SUBSET UidsOf(wins)]

LEMMA ClimbedTyped ==
    ASSUME NEW tab, NEW c \in ClimbType(tab.wins)
    PROVE  Climbed(tab, c) \in ClimbType(tab.wins)
<1> DEFINE w == WindowOf(tab, c.at)
<1>1. CASE Ephemeral(w) /\ w.parent \in UidsOf(tab.wins) \ {c.at} /\ c.at \notin c.seen
  <2>1. Climbed(tab, c) = [at |-> w.parent, seen |-> c.seen \cup {c.at}]
    BY <1>1 DEF Climbed
  <2> QED BY <1>1, <2>1 DEF ClimbType
<1>2. CASE ~(Ephemeral(w) /\ w.parent \in UidsOf(tab.wins) \ {c.at} /\ c.at \notin c.seen)
  <2>1. Climbed(tab, c) = c
    BY <1>2 DEF Climbed
  <2> QED BY <2>1
<1> QED BY <1>1, <1>2

\* Whoever climbs from a window arrives at one.
LEMMA TopIsThere ==
    ASSUME NEW tab, tab.wins \in Seq(WindowType), NEW uid \in UidsOf(tab.wins)
    PROVE  TopOf(tab, uid) \in UidsOf(tab.wins)
<1> DEFINE n == Len(tab.wins)
           D == ClimbType(tab.wins)
           x == [at |-> uid, seen |-> {}]
           g == [c \in D |-> Climbed(tab, c)]
           Solves(f) == f = [k \in 0 .. n |-> IF k = 0 THEN x ELSE Climbed(tab, f[k - 1])]
           climb == CHOOSE f : Solves(f)
<1>1. n \in Nat /\ x \in D /\ g \in [D -> D]
  BY ClimbedTyped DEF ClimbType
<1>2. PICK f \in [0 .. n -> D] : f[0] = x /\ \A k \in 1 .. n : f[k] = g[f[k - 1]]
  <2> HIDE DEF n, D, x, g
  <2>1. Steps(D, x, g, n) # {}
    BY <1>1, Iterated
  <2> QED BY <2>1 DEF Steps
<1>3. Solves(f)
  <2>1. \A c \in D : g[c] = Climbed(tab, c)
    OBVIOUS
  <2> HIDE DEF n, D, x, g
  <2>2. \A k \in 1 .. n : k - 1 \in 0 .. n /\ f[k - 1] \in D
    BY <1>1, <1>2
  <2>3. \A k \in 1 .. n : f[k] = Climbed(tab, f[k - 1])
    BY <1>2, <2>1, <2>2
  <2>4. \A k \in 0 .. n : f[k] = IF k = 0 THEN x ELSE Climbed(tab, f[k - 1])
    BY <1>1, <1>2, <2>3
  <2>5. f = [k \in 0 .. n |-> f[k]]
    BY <1>2
  <2>6. [k \in 0 .. n |-> f[k]] = [k \in 0 .. n |-> IF k = 0 THEN x ELSE Climbed(tab, f[k - 1])]
    BY ONLY <2>4
  <2> QED BY ONLY <2>5, <2>6
<1>4. Solves(climb)
  <2> HIDE DEF Solves
  <2> QED BY <1>3
<1> DEFINE S == {k \in Nat : k <= n => climb[k] \in D}
<1>5. S = Nat
  <2> HIDE DEF n, D, x, climb
  <2>1. 0 \in S
    BY <1>1, <1>4
  <2>2. ASSUME NEW k \in S PROVE k + 1 \in S
    <3>1. k + 1 <= n => climb[k + 1] = Climbed(tab, climb[k])
      BY <1>1, <1>4
    <3>2. k + 1 <= n => climb[k] \in D
      BY <1>1
    <3>3. k + 1 <= n => climb[k + 1] \in D
      BY <3>1, <3>2, ClimbedTyped DEF D
    <3> QED BY <3>3
  <2> HIDE DEF S
  <2>3. S \subseteq Nat
    BY DEF S
  <2> QED BY <2>1, <2>2, <2>3, SetInduction
<1>6. climb[n] \in D
  <2> HIDE DEF n, D, climb
  <2> QED BY <1>1, <1>5
<1>7. TopOf(tab, uid) = climb[n].at
  BY DEF TopOf
<1> QED BY <1>6, <1>7 DEF ClimbType
-----------------------------------------------------------------------------
(* Which windows of a tab are meant: the initiator, the base, the visible. *)
LEMMA WithoutListed ==
    ASSUME NEW wins, WinsOK(wins), NEW U
    PROVE  /\ WinsOK(Without(wins, U))
           /\ MembersOf(Without(wins, U)) = {w \in MembersOf(wins) : w.uid \notin U}
           /\ UidsOf(Without(wins, U)) = UidsOf(wins) \ U
           /\ (\E i \in DOMAIN wins : wins[i].uid \notin U) => Len(Without(wins, U)) >= 1
<1> DEFINE K == {i \in DOMAIN wins : wins[i].uid \notin U}
<1>1. K \in SUBSET DOMAIN wins /\ Without(wins, U) = OnlyAt(wins, K)
  BY DEF Without
<1>2. {wins[i] : i \in K} = {w \in MembersOf(wins) : w.uid \notin U}
  BY DEF MembersOf
<1>3. {wins[i].uid : i \in K} = UidsOf(wins) \ U
  BY DEF UidsOf
<1>4. (\E i \in DOMAIN wins : wins[i].uid \notin U) => K # {}
  OBVIOUS
<1> HIDE DEF K
<1> QED BY <1>1, <1>2, <1>3, <1>4, PartListed

LEMMA OfNoGroupListed ==
    ASSUME NEW wins, WinsOK(wins)
    PROVE  /\ WinsOK(OfNoGroup(wins))
           /\ MembersOf(OfNoGroup(wins)) = {w \in MembersOf(wins) : ~Ephemeral(w)}
           /\ UidsOf(OfNoGroup(wins)) \subseteq UidsOf(wins)
<1> DEFINE K == {i \in DOMAIN wins : ~Ephemeral(wins[i])}
<1>1. K \in SUBSET DOMAIN wins /\ OfNoGroup(wins) = OnlyAt(wins, K)
  BY DEF OfNoGroup
<1>2. {wins[i] : i \in K} = {w \in MembersOf(wins) : ~Ephemeral(w)}
  BY DEF MembersOf
<1>3. {wins[i].uid : i \in K} \subseteq UidsOf(wins)
  BY DEF UidsOf
<1> HIDE DEF K
<1> QED BY <1>1, <1>2, <1>3, PartListed

LEMMA InitiatorIsThere ==
    ASSUME NEW tab, WinsOK(tab.wins), NEW uid \in UidsOf(tab.wins)
    PROVE  InitiatorOf(tab, uid) \in UidsOf(tab.wins)
<1> DEFINE own == OfNoGroup(tab.wins)
<1>1. TopOf(tab, uid) \in UidsOf(tab.wins)
  BY TopIsThere DEF WinsOK
<1>2. own \in Seq(WindowType) /\ UidsOf(own) \subseteq UidsOf(tab.wins)
  BY OfNoGroupListed DEF WinsOK
<1> HIDE DEF own
<1>3. own # <<>> => own[1].uid \in UidsOf(own)
  <2>1. own # <<>> => 1 \in DOMAIN own
    BY <1>2
  <2> QED BY <2>1 DEF UidsOf
<1> QED BY <1>1, <1>2, <1>3 DEF InitiatorOf, own

LEMMA ActiveIsThere == ASSUME NEW tab, tab.active \in DOMAIN tab.wins PROVE ActiveUid(tab) \in UidsOf(tab.wins)
BY DEF ActiveUid, UidsOf

LEMMA BaseIsThere == ASSUME NEW tab, TabOK(tab) PROVE BaseOf(tab) \in UidsOf(tab.wins)
BY ActiveIsThere, InitiatorIsThere DEF BaseOf, TabOK, TabType, WinsOK

\* What is visible are windows of the tab, and at least one.
LEMMA VisibleAreThere ==
    ASSUME NEW tab, TabOK(tab)
    PROVE  /\ VisibleUids(tab)[1] \in UidsOf(tab.wins)
           /\ ShownUids(tab) \subseteq UidsOf(tab.wins)
<1> DEFINE n == Layouts[tab.layout]
           first(k) == [i \in 1 .. k |-> tab.wins[i].uid]
           v == VisibleUids(tab)
           U == UidsOf(tab.wins)
<1>1. n \in Nat \ {0} /\ Len(tab.wins) \in Nat /\ DOMAIN tab.wins = 1 .. Len(tab.wins) /\ tab.active \in DOMAIN tab.wins
  BY WindowsAssumption DEF TabOK, TabType
<1>2. ActiveUid(tab) \in U
  BY <1>1, ActiveIsThere
<1>3. ASSUME NEW k \in 0 .. Len(tab.wins) PROVE first(k) \in Seq(U) /\ Len(first(k)) = k
  <2>1. \A i \in 1 .. k : tab.wins[i].uid \in U
    BY <1>1 DEF UidsOf
  <2> HIDE DEF U
  <2> QED BY <2>1, <1>1
<1>4. v \in Seq(U) /\ Len(v) >= 1
  <2>1. CASE tab.layout = Single \/ tab.preview
    <3>1. v = <<ActiveUid(tab)>>
      BY <2>1 DEF VisibleUids
    <3> HIDE DEF U, v
    <3> QED BY <3>1, <1>2
  <2>2. CASE ~(tab.layout = Single \/ tab.preview) /\ Len(tab.wins) <= n
    <3>1. v = first(Len(tab.wins))
      BY <2>2 DEF VisibleUids
    <3> HIDE DEF U, v, first, n
    <3> QED BY <3>1, <1>3, <1>1
  <2>3. CASE ~(tab.layout = Single \/ tab.preview) /\ ~(Len(tab.wins) <= n) /\ tab.active <= n
    <3>1. v = first(n)
      BY <2>3 DEF VisibleUids
    <3> HIDE DEF U, v, first, n
    <3> QED BY <3>1, <1>3, <1>1, <2>3
  <2>4. CASE ~(tab.layout = Single \/ tab.preview) /\ ~(Len(tab.wins) <= n) /\ ~(tab.active <= n)
    <3>1. v = <<ActiveUid(tab)>> \o first(n - 1)
      BY <2>4 DEF VisibleUids
    <3>2. n - 1 \in 0 .. Len(tab.wins)
      BY <1>1, <2>4
    <3> HIDE DEF U, v, first, n
    <3>3. first(n - 1) \in Seq(U) /\ <<ActiveUid(tab)>> \in Seq(U) /\ Len(<<ActiveUid(tab)>>) = 1
      BY <3>2, <1>3, <1>2
    <3> QED BY <3>1, <3>3, ConcatProperties
  <2> QED BY <2>1, <2>2, <2>3, <2>4
<1>5. \A i \in DOMAIN v : v[i] \in U
  <2> HIDE DEF v, U
  <2> QED BY <1>4, ElementOfSeq
<1> QED BY <1>4, <1>5 DEF ShownUids

\* Only the ids, the focus and the layout decide what is visible.
LEMMA VisibleAlike ==
    ASSUME NEW a, NEW b, a.layout = b.layout, a.preview = b.preview, a.active = b.active,
           Len(a.wins) = Len(b.wins), Len(a.wins) \in Nat, DOMAIN a.wins = 1 .. Len(a.wins),
           a.active \in DOMAIN a.wins, Layouts[a.layout] \in Nat,
           \A i \in DOMAIN a.wins : a.wins[i].uid = b.wins[i].uid
    PROVE  VisibleUids(a) = VisibleUids(b)
<1> DEFINE n == Layouts[a.layout]
<1>1. ASSUME NEW k \in 0 .. Len(a.wins)
      PROVE  [i \in 1 .. k |-> a.wins[i].uid] = [i \in 1 .. k |-> b.wins[i].uid]
  OBVIOUS
<1>2. ActiveUid(a) = ActiveUid(b)
  BY DEF ActiveUid
<1>3. CASE Len(a.wins) <= n
  BY <1>1, <1>2, <1>3 DEF VisibleUids
<1>4. CASE ~(Len(a.wins) <= n)
  <2>1. n \in 0 .. Len(a.wins) /\ (n # 0 => n - 1 \in 0 .. Len(a.wins))
    BY <1>4
  <2>2. [i \in 1 .. n |-> a.wins[i].uid] = [i \in 1 .. n |-> b.wins[i].uid]
    BY <2>1, <1>1
  <2>3. [i \in 1 .. n - 1 |-> a.wins[i].uid] = [i \in 1 .. n - 1 |-> b.wins[i].uid]
    BY <2>1, <1>1
  <2> QED BY <1>2, <1>4, <2>2, <2>3 DEF VisibleUids
<1> QED BY <1>3, <1>4

-----------------------------------------------------------------------------
(* An operation leaves windows it found, and holds what they show.         *)
\* The tab `then` comes from `tab`, and the windows `held` are given a picture.
Follows(tab, then, held) ==
    TabOK(then) /\ then.next >= tab.next /\ Kin(tab.wins, tab.next, then.wins, held)

LEMMA FollowsIsTransitive ==
    ASSUME NEW a, TabOK(a), NEW b, NEW c, NEW held, Follows(a, b, {}), Follows(b, c, held)
    PROVE  Follows(a, c, held)
<1>1. a.next \in Nat /\ b.next \in Nat /\ c.next \in Nat /\ c.wins \in Seq(WindowType)
  BY DEF Follows, TabOK, TabType
<1>2. c.next >= a.next
  BY <1>1 DEF Follows
<1>3. Kin(a.wins, a.next, b.wins, {}) /\ Kin(b.wins, b.next, c.wins, held) /\ a.next <= b.next
  BY <1>1 DEF Follows
<1>4. Kin(a.wins, a.next, c.wins, held)
  BY <1>1, <1>3, KinIsTransitive
<1> QED BY <1>2, <1>4 DEF Follows

\* The windows stay as they are.
LEMMA FollowsAtOnce ==
    ASSUME NEW tab, TabOK(tab), NEW then \in TabType, then.wins = tab.wins, then.next = tab.next,
           then.active \in DOMAIN tab.wins, NEW held
    PROVE  Follows(tab, then, held)
<1>1. TabOK(then)
  BY DEF TabOK
<1>2. then.next >= tab.next
  BY DEF TabOK, TabType
<1>3. Kin(tab.wins, tab.next, tab.wins, held)
  BY UidsOfMembers DEF Kin
<1> QED BY <1>1, <1>2, <1>3 DEF Follows

\* The windows keep their ids and their order.
LEMMA IdsKept ==
    ASSUME NEW wins, WinsOK(wins), NEW then \in Seq(WindowType), Len(then) = Len(wins),
           \A i \in DOMAIN wins : then[i].uid = wins[i].uid
    PROVE  /\ WinsOK(then)
           /\ DOMAIN then = DOMAIN wins
           /\ UidsOf(then) = UidsOf(wins)
           /\ \A u : PlaceOf(then, u) = PlaceOf(wins, u)
<1>1. DOMAIN then = DOMAIN wins
  BY DEF WinsOK
<1>2. OwnUids(then)
  BY <1>1 DEF WinsOK, OwnUids
<1>3. UidsOf(then) = UidsOf(wins)
  BY <1>1 DEF UidsOf
<1>4. ASSUME NEW u PROVE PlaceOf(then, u) = PlaceOf(wins, u)
  BY <1>1 DEF PlaceOf
<1> QED BY <1>1, <1>2, <1>3, <1>4 DEF WinsOK

LEMMA Replaced ==
    ASSUME NEW wins, WinsOK(wins), NEW u \in UidsOf(wins), NEW w \in WindowType, w.uid = u
    PROVE  LET then == [wins EXCEPT ![PlaceOf(wins, u)] = w]
           IN  /\ WinsOK(then)
               /\ DOMAIN then = DOMAIN wins
               /\ UidsOf(then) = UidsOf(wins)
               /\ \A x \in MembersOf(then) : x = w \/ (x \in MembersOf(wins) /\ x.uid # u)
               /\ \A v : PlaceOf(then, v) = PlaceOf(wins, v)
               /\ then[PlaceOf(wins, u)] = w
<1> DEFINE p == PlaceOf(wins, u)
           then == [wins EXCEPT ![p] = w]
<1>1. p \in DOMAIN wins /\ wins[p].uid = u
  BY PlaceFound
<1> HIDE DEF p
<1>2. then \in Seq(WindowType) /\ Len(then) = Len(wins) /\ DOMAIN then = DOMAIN wins
  <2>1. wins \in Seq(WindowType) /\ w \in WindowType /\ p \in DOMAIN wins
    BY <1>1 DEF WinsOK
  <2> HIDE DEF then
  <2>2. [wins EXCEPT ![p] = w] \in Seq(WindowType) /\ Len([wins EXCEPT ![p] = w]) = Len(wins)
    BY ONLY <2>1, ExceptSeq
  <2>3. DOMAIN [wins EXCEPT ![p] = w] = DOMAIN wins
    OBVIOUS
  <2> QED BY <2>2, <2>3 DEF then
<1>3. \A i \in DOMAIN wins : then[i] = IF i = p THEN w ELSE wins[i]
  BY <1>1
<1>4. \A i \in DOMAIN wins : then[i].uid = wins[i].uid
  BY <1>1, <1>3
<1> HIDE DEF then
<1>5. \A x \in MembersOf(then) : x = w \/ (x \in MembersOf(wins) /\ x.uid # u)
  <2> SUFFICES ASSUME NEW i \in DOMAIN wins PROVE then[i] = w \/ (then[i] \in MembersOf(wins) /\ then[i].uid # u)
    BY <1>2 DEF MembersOf
  <2>1. i # p => wins[i].uid # u
    BY <1>1 DEF WinsOK, OwnUids
  <2>2. wins[i] \in MembersOf(wins)
    BY DEF MembersOf
  <2> QED BY <2>1, <2>2, <1>3
<1>6. WinsOK(then) /\ UidsOf(then) = UidsOf(wins) /\ \A v : PlaceOf(then, v) = PlaceOf(wins, v)
  BY <1>2, <1>4, IdsKept
<1>7. then[p] = w
  BY <1>1, <1>3
<1> QED BY <1>2, <1>5, <1>6, <1>7 DEF then, p

\* A window is told by its id.
LEMMA WindowTold ==
    ASSUME NEW tab, WinsOK(tab.wins), NEW w \in MembersOf(tab.wins)
    PROVE  WindowOf(tab, w.uid) = w /\ w.uid \in UidsOf(tab.wins) /\ w \in WindowType
<1>1. PICK i \in DOMAIN tab.wins : w = tab.wins[i]
  BY DEF MembersOf
<1>2. w.uid \in UidsOf(tab.wins)
  BY <1>1 DEF UidsOf
<1>3. PlaceOf(tab.wins, w.uid) \in DOMAIN tab.wins /\ tab.wins[PlaceOf(tab.wins, w.uid)].uid = w.uid
  BY <1>2, PlaceFound
<1>4. PlaceOf(tab.wins, w.uid) = i
  BY <1>1, <1>3 DEF WinsOK, OwnUids
<1>5. w \in WindowType
  BY MembersTyped DEF WinsOK
<1> QED BY <1>1, <1>2, <1>4, <1>5 DEF WindowOf

LEMMA WindowFound ==
    ASSUME NEW tab, tab.wins \in Seq(WindowType), NEW u \in UidsOf(tab.wins)
    PROVE  WindowOf(tab, u) \in MembersOf(tab.wins) /\ WindowOf(tab, u) \in WindowType /\ WindowOf(tab, u).uid = u
<1>1. PlaceOf(tab.wins, u) \in DOMAIN tab.wins /\ tab.wins[PlaceOf(tab.wins, u)].uid = u
  BY PlaceFound
<1>2. tab.wins[PlaceOf(tab.wins, u)] \in MembersOf(tab.wins)
  BY <1>1 DEF MembersOf
<1> QED BY <1>1, <1>2, MembersTyped DEF WindowOf
-----------------------------------------------------------------------------
(* New windows.                                                            *)
LEMMA NextUidFound ==
    ASSUME NEW tab, tab.wins \in Seq(WindowType), tab.next \in Nat, Below(tab.wins, tab.next)
    PROVE  NextUid(tab) \in Nat /\ NextUid(tab) >= tab.next
<1> DEFINE least == {tab.next, Len(tab.wins)} \cup {u + 1 : u \in UidsOf(tab.wins)}
           n == Len(tab.wins)
<1>1. n \in Nat
  OBVIOUS
<1>2. \A u \in UidsOf(tab.wins) : u \in Nat /\ u < tab.next
  <2>1. \A i \in DOMAIN tab.wins : tab.wins[i] \in WindowType
    BY ElementOfSeq
  <2> QED BY <2>1 DEF UidsOf, Below, WindowType
<1> HIDE DEF n
<1>3. \A v \in least : v \in Nat /\ (v <= tab.next \/ v = n)
  BY <1>1, <1>2 DEF n
<1>4. tab.next \in least /\ n \in least
  BY DEF n
<1> HIDE DEF least
<1>5. \E u \in least : \A v \in least : v <= u
  <2>1. CASE n <= tab.next
    BY <1>1, <1>3, <1>4, <2>1
  <2>2. CASE ~(n <= tab.next)
    BY <1>1, <1>3, <1>4, <2>2
  <2> QED BY <2>1, <2>2
<1>6. NextUid(tab) \in least /\ \A v \in least : v <= NextUid(tab)
  BY <1>5 DEF NextUid, least
<1> QED BY <1>3, <1>4, <1>6

LEMMA NewWindowsListed ==
    ASSUME NEW uid \in Nat, NEW win \in WindowType, NEW n \in Nat
    PROVE  LET new == NewWindows(uid, win, n)
           IN  /\ WinsOK(new)
               /\ \A w \in MembersOf(new) : w.uid >= uid /\ w.uid < uid + n /\ w.preset = win.preset
               /\ \A u \in UidsOf(new) : u \in Nat /\ u >= uid /\ u < uid + n
<1> DEFINE new == NewWindows(uid, win, n)
<1>1. new = [k \in 1 .. n |-> [win EXCEPT !.uid = uid + k - 1]]
  BY DEF NewWindows
<1>2. \A k \in 1 .. n : /\ [win EXCEPT !.uid = uid + k - 1] \in WindowType
                        /\ [win EXCEPT !.uid = uid + k - 1].uid = uid + k - 1
                        /\ [win EXCEPT !.uid = uid + k - 1].preset = win.preset
  BY DEF WindowType
<1> HIDE DEF new
<1>3. DOMAIN new = 1 .. n /\ \A k \in 1 .. n : new[k] \in WindowType /\ new[k].uid = uid + k - 1 /\ new[k].preset = win.preset
  BY <1>1, <1>2
<1>4. new \in Seq(WindowType)
  <2>1. new \in [1 .. n -> WindowType]
    BY <1>1, <1>3
  <2> QED BY <2>1
<1>5. OwnUids(new)
  BY <1>3 DEF OwnUids
<1>6. \A w \in MembersOf(new) : w.uid \in Nat /\ w.uid >= uid /\ w.uid < uid + n /\ w.preset = win.preset
  BY <1>3 DEF MembersOf
<1>7. \A u \in UidsOf(new) : u \in Nat /\ u >= uid /\ u < uid + n
  BY <1>6, UidsOfMembers
<1> QED BY <1>4, <1>5, <1>6, <1>7 DEF new, WinsOK

LEMMA GrownFollows ==
    ASSUME NEW tab, TabOK(tab), NEW win \in WindowType, win.preset = Empty, NEW n \in Int
    PROVE  /\ Follows(tab, Grown(tab, win, n), {})
           /\ Grown(tab, win, n).layout = tab.layout
           /\ n > 0 => Len(Grown(tab, win, n).wins) >= 1
<1>0. tab \in TabType /\ tab.wins \in Seq(WindowType) /\ tab.next \in Nat /\ WinsOK(tab.wins) /\ Len(tab.wins) \in Nat
  BY DEF TabOK, TabType, WinsOK
<1>1. CASE n <= 0
  <2>1. Grown(tab, win, n) = tab
    BY <1>1 DEF Grown
  <2>2. tab.active \in DOMAIN tab.wins
    BY DEF TabOK
  <2>3. Follows(tab, tab, {})
    BY <1>0, <2>2, FollowsAtOnce
  <2> QED BY <1>1, <2>1, <2>3
<1>2. CASE ~(n <= 0)
  <2> DEFINE next == NextUid(tab)
             new == NewWindows(next, win, n)
             then == [tab EXCEPT !.wins = @ \o new, !.next = next + n]
  <2>1. Grown(tab, win, n) = then
    BY <1>2 DEF Grown
  <2>2. next \in Nat /\ next >= tab.next /\ n \in Nat
    BY <1>0, <1>2, NextUidFound DEF TabOK
  <2>3. /\ WinsOK(new)
        /\ \A w \in MembersOf(new) : w.uid >= next /\ w.uid < next + n /\ w.preset = win.preset
        /\ \A u \in UidsOf(new) : u \in Nat /\ u >= next /\ u < next + n
    BY <2>2, NewWindowsListed
  <2>4. \A u \in UidsOf(tab.wins) : u \in Nat /\ u < tab.next
    <3>1. \A i \in DOMAIN tab.wins : tab.wins[i] \in WindowType
      BY <1>0, ElementOfSeq
    <3> QED BY <3>1 DEF UidsOf, TabOK, Below, WindowType
  <2>5. then.wins = tab.wins \o new /\ then.next = next + n /\ then.layout = tab.layout /\ then.active = tab.active
    BY <1>0 DEF TabType
  <2> HIDE DEF next, new
  <2>6. UidsOf(tab.wins) \cap UidsOf(new) = {}
    BY <1>0, <2>2, <2>3, <2>4
  <2>7. /\ WinsOK(tab.wins \o new)
        /\ MembersOf(tab.wins \o new) = MembersOf(tab.wins) \cup MembersOf(new)
        /\ UidsOf(tab.wins \o new) = UidsOf(tab.wins) \cup UidsOf(new)
    BY <1>0, <2>3, <2>6, JoinListed
  <2>8. then \in TabType
    <3>1. then = [tab EXCEPT !.wins = tab.wins \o new, !.next = next + n]
      BY DEF TabType
    <3>2. tab.wins \o new \in Seq(WindowType) /\ next + n \in Nat
      BY <2>2, <2>7 DEF WinsOK
    <3> HIDE DEF then
    <3> QED BY <1>0, <3>1, <3>2 DEF TabType
  <2>9. DOMAIN tab.wins \subseteq DOMAIN (tab.wins \o new) /\ Len(tab.wins \o new) >= Len(tab.wins)
    BY <1>0, <2>3 DEF WinsOK
  <2>10. Below(tab.wins \o new, next + n)
    <3>1. \A u \in UidsOf(tab.wins \o new) : u < next + n
      BY <1>0, <2>2, <2>3, <2>4, <2>7
    <3> QED BY <3>1 DEF Below, UidsOf
  <2>11. TabOK(then)
    BY <2>5, <2>7, <2>8, <2>9, <2>10 DEF TabOK, WinsOK
  <2>12. Kin(tab.wins, tab.next, tab.wins \o new, {})
    <3> SUFFICES ASSUME NEW w \in MembersOf(tab.wins) \cup MembersOf(new)
                 PROVE  /\ w.uid \in UidsOf(tab.wins) \/ w.uid >= tab.next
                        /\ w.preset # Empty => \E v \in MembersOf(tab.wins) : v.uid = w.uid /\ v.preset # Empty
      BY <2>7 DEF Kin
    <3>1. w \in MembersOf(tab.wins) => w.uid \in UidsOf(tab.wins)
      BY UidsOfMembers
    <3>2. w \in MembersOf(new) => w.uid >= tab.next /\ w.preset = Empty
      <4>1. w \in MembersOf(new) => w.uid \in UidsOf(new)
        BY UidsOfMembers
      <4> QED BY <4>1, <1>0, <2>2, <2>3
    <3> QED BY <3>1, <3>2
  <2>13. Len(then.wins) >= 1
    <3>1. tab.active \in 1 .. Len(tab.wins)
      BY <1>0 DEF TabOK
    <3> QED BY <1>0, <2>5, <2>9, <3>1
  <2>14. then.next >= tab.next
    BY <1>0, <2>2, <2>5
  <2> HIDE DEF then
  <2> QED BY <2>1, <2>5, <2>11, <2>12, <2>13, <2>14 DEF Follows
<1> QED BY <1>1, <1>2

-----------------------------------------------------------------------------
(* Pruning a split: the focus stays, or another window stands in for it.   *)
LEMMA OutOfGroupTyped ==
    ASSUME NEW w \in WindowType
    PROVE  OutOfGroup(w) \in WindowType /\ OutOfGroup(w).uid = w.uid /\ OutOfGroup(w).preset = w.preset
           /\ ~Ephemeral(OutOfGroup(w))
BY DEF OutOfGroup, WindowType, Ephemeral

LEMMA LeadIsThere ==
    ASSUME NEW tab, WinsOK(tab.wins), tab.active \in DOMAIN tab.wins, NEW target,
           NEW promote \in UidsOf(tab.wins) \cup {Nobody}
    PROVE  LeadOf(tab, target, promote) \in UidsOf(tab.wins)
BY ActiveIsThere, InitiatorIsThere DEF LeadOf

LEMMA AdoptedListed ==
    ASSUME NEW tab, WinsOK(tab.wins), NEW lead \in UidsOf(tab.wins), NEW promote \in UidsOf(tab.wins) \cup {Nobody}
    PROVE  LET then == Adopted(tab, lead, promote)
           IN  /\ WinsOK(then)
               /\ UidsOf(then) = UidsOf(tab.wins)
               /\ DOMAIN then = DOMAIN tab.wins
               /\ \A x \in MembersOf(then) :
                     (promote # Nobody /\ x.uid = lead) \/ x \in MembersOf(tab.wins)
<1>1. CASE promote \in {Nobody, lead}
  BY <1>1 DEF Adopted
<1>2. CASE promote \notin {Nobody, lead}
  <2> DEFINE own == OutOfGroup(WindowOf(tab, lead))
             preset == WindowOf(tab, promote).preset
             w == IF preset = Empty THEN own ELSE [own EXCEPT !.preset = preset]
             then == [tab.wins EXCEPT ![PlaceOf(tab.wins, lead)] = w]
  <2>1. Adopted(tab, lead, promote) = then
    BY <1>2 DEF Adopted
  <2>2. WindowOf(tab, lead) \in WindowType /\ WindowOf(tab, lead).uid = lead
    BY WindowFound DEF WinsOK
  <2>3. own \in WindowType /\ own.uid = lead
    BY <2>2, OutOfGroupTyped
  <2>4. preset \in Presets \cup {Empty}
    BY <1>2, WindowFound DEF WinsOK, WindowType
  <2> HIDE DEF own, preset
  <2>5. w \in WindowType /\ w.uid = lead
    BY <2>3, <2>4 DEF WindowType
  <2> HIDE DEF w
  <2>6. /\ WinsOK(then)
        /\ DOMAIN then = DOMAIN tab.wins
        /\ UidsOf(then) = UidsOf(tab.wins)
        /\ \A x \in MembersOf(then) : x = w \/ (x \in MembersOf(tab.wins) /\ x.uid # lead)
    BY <2>5, Replaced
  <2> HIDE DEF then
  <2> QED BY <1>2, <2>1, <2>5, <2>6
<1> QED BY <1>1, <1>2

LEMMA SurvivorsListed ==
    ASSUME NEW wins, WinsOK(wins), NEW keep, NEW lead \in UidsOf(wins), NEW group
    PROVE  LET left == Survivors(wins, keep, lead, group)
           IN  /\ WinsOK(left)
               /\ MembersOf(left) \subseteq MembersOf(wins)
               /\ lead \in UidsOf(left)
               /\ Len(left) >= 1
<1> DEFINE left == Survivors(wins, keep, lead, group)
<1>1. PICK K \in SUBSET DOMAIN wins : left = OnlyAt(wins, K) /\ PlaceOf(wins, lead) \in K
  <2> DEFINE goes(w) == Ephemeral(w) /\ w.uid # lead
             ranked == {i \in DOMAIN wins : goes(wins[i]) /\ wins[i].parent \in {Nobody, group}}
             first == {i \in ranked : Cardinality({j \in ranked : j <= i}) <= keep}
             K == {i \in DOMAIN wins : ~goes(wins[i])} \cup first
  <2>1. left = OnlyAt(wins, K)
    BY DEF Survivors
  <2>2. K \in SUBSET DOMAIN wins /\ PlaceOf(wins, lead) \in K
    BY PlaceFound
  <2> QED BY <2>1, <2>2
<1>2. WinsOK(left) /\ MembersOf(left) = {wins[i] : i \in K} /\ UidsOf(left) = {wins[i].uid : i \in K} /\ Len(left) >= 1
  BY <1>1, PartListed
<1>3. MembersOf(left) \subseteq MembersOf(wins)
  BY <1>2 DEF MembersOf
<1>4. lead \in UidsOf(left)
  BY <1>1, <1>2, PlaceFound
<1> QED BY <1>2, <1>3, <1>4

LEMMA FocusIsThere ==
    ASSUME NEW left, WinsOK(left), Len(left) >= 1, NEW old, NEW active \in Nat \ {0}, NEW lead \in UidsOf(left), NEW promote
    PROVE  FocusAmong(left, old, active, lead, promote) \in UidsOf(left)
<1>1. Len(left) \in Nat /\ DOMAIN left = 1 .. Len(left)
  BY DEF WinsOK
<1>2. (IF active <= Len(left) THEN active ELSE Len(left)) \in DOMAIN left
  BY <1>1
<1>3. left[IF active <= Len(left) THEN active ELSE Len(left)].uid \in UidsOf(left)
  BY <1>2 DEF UidsOf
<1> QED BY <1>3 DEF FocusAmong

\* What is pruned: the windows that stay come from those there were, and the
\* one that adopts another gets the focus.
LEMMA PrunedFollows ==
    ASSUME NEW tab, TabOK(tab), NEW keep, NEW target, NEW promote \in UidsOf(tab.wins) \cup {Nobody}
    PROVE  LET lead == LeadOf(tab, target, promote)
               then == Pruned(tab, keep, target, promote)
           IN  /\ Follows(tab, then, IF promote = Nobody THEN {} ELSE {lead})
               /\ then.layout = tab.layout
               /\ promote # Nobody => ActiveUid(then) = lead
<1> DEFINE lead == LeadOf(tab, target, promote)
           group == IF target # Nobody THEN target ELSE lead
           wins == Adopted(tab, lead, promote)
           left == Survivors(wins, keep, lead, group)
           old == tab.wins[tab.active]
           focus == FocusAmong(left, old, tab.active, lead, promote)
           then == Pruned(tab, keep, target, promote)
           held == IF promote = Nobody THEN {} ELSE {lead}
<1>0. /\ tab \in TabType /\ tab.wins \in Seq(WindowType) /\ tab.next \in Nat /\ WinsOK(tab.wins)
      /\ tab.active \in DOMAIN tab.wins /\ tab.active \in Nat \ {0}
  BY DEF TabOK, TabType, WinsOK
<1>1. then = PrunedTo(tab, keep, left, lead, promote)
  BY DEF Pruned, PrunedAround
<1>2. lead \in UidsOf(tab.wins)
  BY <1>0, LeadIsThere
<1> HIDE DEF lead
<1>3. /\ WinsOK(wins)
      /\ UidsOf(wins) = UidsOf(tab.wins)
      /\ \A x \in MembersOf(wins) : (promote # Nobody /\ x.uid = lead) \/ x \in MembersOf(tab.wins)
  BY <1>0, <1>2, AdoptedListed
<1> HIDE DEF wins, group
<1>4. WinsOK(left) /\ MembersOf(left) \subseteq MembersOf(wins) /\ lead \in UidsOf(left) /\ Len(left) >= 1
  BY <1>2, <1>3, SurvivorsListed
<1> HIDE DEF left, old
<1>5. focus \in UidsOf(left) /\ (promote # Nobody => focus = lead)
  <2>1. focus \in UidsOf(left)
    BY <1>0, <1>4, FocusIsThere
  <2> QED BY <2>1 DEF FocusAmong
<1> HIDE DEF focus
<1> DEFINE at == PlaceOf(left, focus)
<1>6. at \in DOMAIN left /\ left[at].uid = focus /\ at \in Nat
  <2>1. DOMAIN left \subseteq Nat
    BY <1>4 DEF WinsOK
  <2> QED BY <1>5, <2>1, PlaceFound
<1>7. then = [tab EXCEPT !.wins = left, !.active = at, !.anchor = IF keep = 0 THEN Nobody ELSE tab.anchor,
                         !.preview = IF keep = 0 THEN FALSE ELSE tab.preview]
  BY <1>1 DEF PrunedTo, focus, old
<1> HIDE DEF at, then
<1>8. then \in TabType /\ then.wins = left /\ then.active = at /\ then.next = tab.next /\ then.layout = tab.layout
  BY <1>0, <1>4, <1>6, <1>7 DEF TabType, WinsOK
<1>9. ASSUME NEW x \in MembersOf(left)
      PROVE  /\ x.uid \in UidsOf(tab.wins)
             /\ x.preset # Empty => x.uid \in held \/ \E v \in MembersOf(tab.wins) : v.uid = x.uid /\ v.preset # Empty
  BY <1>3, <1>4, UidsOfMembers
<1>10. Below(left, tab.next)
  <2>1. \A u \in UidsOf(tab.wins) : u < tab.next
    BY DEF UidsOf, TabOK, Below
  <2> QED BY <1>9, <2>1 DEF Below, MembersOf
<1>11. TabOK(then)
  BY <1>4, <1>6, <1>8, <1>10 DEF TabOK, WinsOK
<1>12. Kin(tab.wins, tab.next, left, held)
  BY <1>9 DEF Kin
<1>13. then.next >= tab.next
  BY <1>0, <1>8
<1>14. promote # Nobody => ActiveUid(then) = lead
  BY <1>5, <1>6, <1>8 DEF ActiveUid
<1> QED BY <1>8, <1>11, <1>12, <1>13, <1>14 DEF Follows, then, lead

-----------------------------------------------------------------------------
(* Filling a split with kept windows, its own and new ones.                *)
LEMMA PartsApart ==
    ASSUME NEW wins, WinsOK(wins), NEW K \in SUBSET DOMAIN wins, NEW L \in SUBSET DOMAIN wins, K \cap L = {}
    PROVE  UidsOf(OnlyAt(wins, K)) \cap UidsOf(OnlyAt(wins, L)) = {}
<1>1. UidsOf(OnlyAt(wins, K)) = {wins[i].uid : i \in K} /\ UidsOf(OnlyAt(wins, L)) = {wins[i].uid : i \in L}
  BY PartListed
<1>2. \A i \in K, j \in L : wins[i].uid # wins[j].uid
  BY DEF WinsOK, OwnUids
<1> QED BY <1>1, <1>2

LEMMA ThreeJoined ==
    ASSUME NEW a, NEW b, NEW c, WinsOK(a), WinsOK(b), WinsOK(c), UidsOf(a) \cap UidsOf(b) = {},
           UidsOf(a) \cap UidsOf(c) = {}, UidsOf(b) \cap UidsOf(c) = {}
    PROVE  /\ WinsOK(a \o b \o c)
           /\ MembersOf(a \o b \o c) = MembersOf(a) \cup MembersOf(b) \cup MembersOf(c)
           /\ UidsOf(a \o b \o c) = UidsOf(a) \cup UidsOf(b) \cup UidsOf(c)
<1>1. /\ WinsOK(a \o b)
      /\ MembersOf(a \o b) = MembersOf(a) \cup MembersOf(b)
      /\ UidsOf(a \o b) = UidsOf(a) \cup UidsOf(b)
  BY JoinListed
<1>2. UidsOf(a \o b) \cap UidsOf(c) = {}
  BY <1>1
<1> QED BY <1>1, <1>2, JoinListed

LEMMA KeptListed ==
    ASSUME NEW wins, WinsOK(wins), NEW base \in UidsOf(wins), NEW n \in Nat \ {0}, NEW shown \in Nat, NEW wasTab
    PROVE  LET kept == KeptInSplit(wins, n, base, wasTab, shown)
           IN  /\ WinsOK(kept)
               /\ MembersOf(kept) \subseteq MembersOf(wins)
               /\ Len(kept) <= n
<1> DEFINE kept == KeptInSplit(wins, n, base, wasTab, shown)
           p == PlaceOf(wins, base)
           k == Least(Least(shown, n), Len(wins))
<1>0. wins \in Seq(WindowType) /\ Len(wins) \in Nat /\ DOMAIN wins = 1 .. Len(wins)
  BY DEF WinsOK
<1>1. CASE wasTab
  <2>1. kept = <<wins[p]>>
    BY <1>1 DEF KeptInSplit
  <2>2. p \in DOMAIN wins
    BY PlaceFound
  <2>3. wins[p] \in WindowType /\ wins[p] \in MembersOf(wins)
    BY <1>0, <2>2, ElementOfSeq DEF MembersOf
  <2> HIDE DEF kept, p
  <2>4. kept \in Seq(WindowType) /\ DOMAIN kept = {1} /\ Len(kept) = 1 /\ kept[1] = wins[p]
    BY <2>1, <2>3
  <2>5. OwnUids(kept) /\ MembersOf(kept) = {wins[p]}
    BY <2>4 DEF OwnUids, MembersOf
  <2> QED BY <2>3, <2>4, <2>5 DEF WinsOK, kept
<1>2. CASE ~wasTab
  <2>1. kept = SubSeq(wins, 1, k)
    BY <1>2 DEF KeptInSplit
  <2>2. k \in Nat /\ k <= Len(wins) /\ k <= n
    BY <1>0 DEF Least
  <2> HIDE DEF k, kept
  <2>3. WinsOK(kept) /\ MembersOf(kept) = {wins[i] : i \in 1 .. k}
    BY <2>1, <2>2, StretchListed
  <2>4. Len(kept) <= n
    <3>1. Len(kept) = IF 1 <= k THEN k - 1 + 1 ELSE 0
      BY <1>0, <2>1, <2>2, SubSeqProperties
    <3> QED BY <2>2, <3>1
  <2>5. MembersOf(kept) \subseteq MembersOf(wins)
    <3>1. \A i \in 1 .. k : i \in DOMAIN wins
      BY <1>0, <2>2
    <3> QED BY <2>3, <3>1 DEF MembersOf
  <2> QED BY <2>3, <2>4, <2>5 DEF kept
<1> QED BY <1>1, <1>2

LEMMA FillersListed ==
    ASSUME NEW rest, WinsOK(rest), NEW preset, NEW base, NEW wasTab
    PROVE  LET fill == Fillers(rest, preset, base, wasTab)
           IN  WinsOK(fill) /\ MembersOf(fill) \subseteq MembersOf(rest)
<1> DEFINE same(w) == w.auto # "no" /\ w.preset # Empty /\ w.preset = preset
           mine(w) == (Ephemeral(w) /\ w.parent = base) \/ same(w)
           free(w) == Ephemeral(w) \/ same(w) \/ w.preset = Empty
           at == {i \in DOMAIN rest : mine(rest[i])}
           others == {i \in DOMAIN rest \ at : Ephemeral(rest[i])}
           empty == {i \in DOMAIN rest \ at : ~Ephemeral(rest[i]) /\ rest[i].preset = Empty}
           K == {i \in DOMAIN rest : free(rest[i])}
           fill == Fillers(rest, preset, base, wasTab)
<1>1. fill = IF wasTab THEN OnlyAt(rest, at) \o OnlyAt(rest, others) \o OnlyAt(rest, empty) ELSE OnlyAt(rest, K)
  BY DEF Fillers
<1>2. /\ at \in SUBSET DOMAIN rest /\ others \in SUBSET DOMAIN rest /\ empty \in SUBSET DOMAIN rest
      /\ at \cap others = {} /\ at \cap empty = {} /\ others \cap empty = {}
      /\ K \in SUBSET DOMAIN rest
  OBVIOUS
<1> HIDE DEF at, others, empty, K, fill
<1>3. ASSUME NEW L \in SUBSET DOMAIN rest
      PROVE  WinsOK(OnlyAt(rest, L)) /\ MembersOf(OnlyAt(rest, L)) \subseteq MembersOf(rest)
  BY PartListed DEF MembersOf
<1>4. CASE wasTab
  <2>1. /\ UidsOf(OnlyAt(rest, at)) \cap UidsOf(OnlyAt(rest, others)) = {}
        /\ UidsOf(OnlyAt(rest, at)) \cap UidsOf(OnlyAt(rest, empty)) = {}
        /\ UidsOf(OnlyAt(rest, others)) \cap UidsOf(OnlyAt(rest, empty)) = {}
    BY <1>2, PartsApart
  <2>2. fill = OnlyAt(rest, at) \o OnlyAt(rest, others) \o OnlyAt(rest, empty)
    BY <1>1, <1>4
  <2>3. /\ WinsOK(fill)
        /\ MembersOf(fill) = MembersOf(OnlyAt(rest, at)) \cup MembersOf(OnlyAt(rest, others)) \cup MembersOf(OnlyAt(rest, empty))
    BY <1>2, <1>3, <2>1, <2>2, ThreeJoined
  <2> QED BY <1>2, <1>3, <2>3 DEF fill
<1>5. CASE ~wasTab
  BY <1>1, <1>2, <1>3, <1>5 DEF fill
<1> QED BY <1>4, <1>5

\* The windows of the group the split is for.
LEMMA ContrastsListed ==
    ASSUME NEW used, WinsOK(used), NEW base \in Nat
    PROVE  LET group == [i \in DOMAIN used |-> AsContrast(used[i], base)]
           IN  /\ WinsOK(group)
               /\ UidsOf(group) = UidsOf(used)
               /\ \A x \in MembersOf(group) : \E v \in MembersOf(used) : v.uid = x.uid /\ v.preset = x.preset
<1> DEFINE group == [i \in DOMAIN used |-> AsContrast(used[i], base)]
<1>0. used \in Seq(WindowType) /\ Len(used) \in Nat /\ DOMAIN used = 1 .. Len(used) /\ \A i \in DOMAIN used : used[i] \in WindowType
  BY ElementOfSeq DEF WinsOK
<1>1. \A w \in WindowType : AsContrast(w, base) \in WindowType /\ AsContrast(w, base).uid = w.uid
                            /\ AsContrast(w, base).preset = w.preset
  BY DEF AsContrast, WindowType
<1>2. DOMAIN group = DOMAIN used /\ \A i \in DOMAIN used : group[i] \in WindowType /\ group[i].uid = used[i].uid /\ group[i].preset = used[i].preset
  BY <1>0, <1>1
<1>3. group \in Seq(WindowType) /\ Len(group) = Len(used)
  <2>1. group \in [1 .. Len(used) -> WindowType]
    BY <1>0, <1>2
  <2> HIDE DEF group
  <2> QED BY <1>0, <2>1
<1> HIDE DEF group
<1>4. WinsOK(group) /\ UidsOf(group) = UidsOf(used)
  BY <1>2, <1>3, IdsKept
<1>5. \A x \in MembersOf(group) : \E v \in MembersOf(used) : v.uid = x.uid /\ v.preset = x.preset
  BY <1>2 DEF MembersOf
<1> QED BY <1>4, <1>5 DEF group

-----------------------------------------------------------------------------
(* What a layout is filled with.                                           *)
DefaultTyped == DefaultWindow(0) \in WindowType /\ DefaultWindow(0).preset = Empty
LEMMA DefaultIsTyped == DefaultTyped
BY DEF DefaultTyped, DefaultWindow, WindowType

\* Five lists with no window in common, one after the other.
Apart(a, b) == UidsOf(a) \cap UidsOf(b) = {}
LEMMA FiveJoined ==
    ASSUME NEW a, NEW b, NEW c, NEW d, NEW e, WinsOK(a), WinsOK(b), WinsOK(c), WinsOK(d), WinsOK(e),
           Apart(a, b), Apart(a, c), Apart(a, d), Apart(a, e), Apart(b, c), Apart(b, d), Apart(b, e),
           Apart(c, d), Apart(c, e), Apart(d, e)
    PROVE  LET all == a \o b \o c \o d \o e
           IN  /\ WinsOK(all)
               /\ MembersOf(all) = MembersOf(a) \cup MembersOf(b) \cup MembersOf(c) \cup MembersOf(d) \cup MembersOf(e)
               /\ UidsOf(all) = UidsOf(a) \cup UidsOf(b) \cup UidsOf(c) \cup UidsOf(d) \cup UidsOf(e)
<1>1. /\ WinsOK(a \o b \o c)
      /\ MembersOf(a \o b \o c) = MembersOf(a) \cup MembersOf(b) \cup MembersOf(c)
      /\ UidsOf(a \o b \o c) = UidsOf(a) \cup UidsOf(b) \cup UidsOf(c)
  BY ThreeJoined DEF Apart
<1> DEFINE f == a \o b \o c
<1>2. UidsOf(f) \cap UidsOf(d) = {} /\ UidsOf(f) \cap UidsOf(e) = {} /\ UidsOf(d) \cap UidsOf(e) = {}
  BY <1>1 DEF Apart
<1> HIDE DEF f
<1>3. /\ WinsOK(f \o d \o e)
      /\ MembersOf(f \o d \o e) = MembersOf(f) \cup MembersOf(d) \cup MembersOf(e)
      /\ UidsOf(f \o d \o e) = UidsOf(f) \cup UidsOf(d) \cup UidsOf(e)
  BY <1>1, <1>2, ThreeJoined DEF f
<1> QED BY <1>1, <1>3 DEF f

\* The fillers that are used and those that are spare.
LEMMA FillSplit ==
    ASSUME NEW fill, WinsOK(fill), NEW k \in Nat, k <= Len(fill)
    PROVE  LET used == SubSeq(fill, 1, k)
               over == SubSeq(fill, Len(used) + 1, Len(fill))
           IN  /\ Len(used) = k
               /\ WinsOK(used) /\ WinsOK(over) /\ Apart(used, over)
               /\ MembersOf(fill) = MembersOf(used) \cup MembersOf(over)
               /\ UidsOf(fill) = UidsOf(used) \cup UidsOf(over)
<1> DEFINE n == Len(fill)
           used == SubSeq(fill, 1, k)
           over == SubSeq(fill, k + 1, n)
<1>0. fill \in Seq(WindowType) /\ n \in Nat /\ DOMAIN fill = 1 .. n
  BY DEF WinsOK
<1>1. WinsOK(used) /\ MembersOf(used) = {fill[i] : i \in 1 .. k} /\ UidsOf(used) = {fill[i].uid : i \in 1 .. k}
  <2>1. 1 \in Nat \ {0}
    OBVIOUS
  <2> QED BY <2>1, StretchListed
<1>2. WinsOK(over) /\ MembersOf(over) = {fill[i] : i \in k + 1 .. n} /\ UidsOf(over) = {fill[i].uid : i \in k + 1 .. n}
  <2> DEFINE m == k + 1
  <2>1. m \in Nat \ {0} /\ n \in Nat /\ n <= Len(fill)
    BY <1>0
  <2> HIDE DEF m, n
  <2>2. /\ WinsOK(SubSeq(fill, m, n))
        /\ MembersOf(SubSeq(fill, m, n)) = {fill[i] : i \in m .. n}
        /\ UidsOf(SubSeq(fill, m, n)) = {fill[i].uid : i \in m .. n}
    BY <2>1, StretchListed
  <2> QED BY <2>2 DEF m
<1>3. Len(used) = k
  <2>1. Len(used) = IF 1 <= k THEN k - 1 + 1 ELSE 0
    BY <1>0, SubSeqProperties
  <2> HIDE DEF used
  <2> QED BY <2>1
<1> HIDE DEF used, over, n
<1>4. 1 .. n = (1 .. k) \cup (k + 1 .. n) /\ (1 .. k) \cap (k + 1 .. n) = {}
      /\ 1 .. k \subseteq DOMAIN fill /\ k + 1 .. n \subseteq DOMAIN fill
  BY <1>0 DEF n
<1>5. Apart(used, over)
  <2>1. \A i \in 1 .. k, j \in k + 1 .. n : fill[i].uid # fill[j].uid
    BY <1>4 DEF WinsOK, OwnUids
  <2> QED BY <1>1, <1>2, <2>1 DEF Apart
<1>6. MembersOf(fill) = MembersOf(used) \cup MembersOf(over) /\ UidsOf(fill) = UidsOf(used) \cup UidsOf(over)
  BY <1>0, <1>1, <1>2, <1>4 DEF MembersOf, UidsOf
<1> QED BY <1>1, <1>2, <1>3, <1>5, <1>6 DEF used, over, n

\* The windows the split consists of: all there were but windows of groups, and
\* new empty ones.
LEMMA FilledFollows ==
    ASSUME NEW tab, TabOK(tab), NEW n \in Nat, NEW wins, WinsOK(wins), UidsOf(wins) = UidsOf(tab.wins),
           \A x \in MembersOf(wins) : \E v \in MembersOf(tab.wins) : v.uid = x.uid /\ v.preset = x.preset,
           NEW base \in UidsOf(wins), \A x \in MembersOf(wins) : x.uid = base => ~Ephemeral(x),
           NEW kept, WinsOK(kept), MembersOf(kept) \subseteq MembersOf(wins), Len(kept) <= n,
           NEW rest, rest = Without(wins, UidsOf(kept)),
           NEW fill, WinsOK(fill), MembersOf(fill) \subseteq MembersOf(rest)
    PROVE  LET then == FilledSplit(tab, n, base, wins, kept, rest, fill)
           IN  Follows(tab, then, {}) /\ base \in UidsOf(then.wins)
<1> DEFINE k == Least(n - Len(kept), Len(fill))
           used == SubSeq(fill, 1, k)
           over == SubSeq(fill, Len(used) + 1, Len(fill))
           spare == OfNoGroup(over)
           busy == Without(rest, UidsOf(fill))
           more == n - Len(kept) - Len(used)
           next == NextUid(tab)
           new == NewWindows(next, AsContrast(DefaultWindow(0), base), more)
           group == [i \in DOMAIN used |-> AsContrast(used[i], base)]
           all == kept \o group \o new \o busy \o spare
           then == FilledSplit(tab, n, base, wins, kept, rest, fill)
<1>0. /\ tab \in TabType /\ tab.wins \in Seq(WindowType) /\ tab.next \in Nat
      /\ base \in Nat /\ Len(kept) \in Nat /\ Len(fill) \in Nat
      /\ \A u \in UidsOf(wins) : u \in Nat /\ u < tab.next
  <2>1. \A i \in DOMAIN tab.wins : tab.wins[i] \in WindowType
    BY ElementOfSeq DEF TabOK, TabType
  <2>2. \A u \in UidsOf(tab.wins) : u \in Nat /\ u < tab.next
    BY <2>1 DEF UidsOf, TabOK, Below, WindowType
  <2> QED BY <2>2 DEF TabOK, TabType, WinsOK
<1>1. then = [tab EXCEPT !.wins = all, !.active = PlaceOf(all, base), !.anchor = base,
                         !.next = IF more <= 0 THEN tab.next ELSE next + more]
  BY DEF FilledSplit
<1>2. k \in Nat /\ k <= Len(fill) /\ k <= n - Len(kept)
  BY <1>0 DEF Least
<1> HIDE DEF k, then
<1>3. /\ Len(used) = k
      /\ WinsOK(used) /\ WinsOK(over) /\ Apart(used, over)
      /\ MembersOf(fill) = MembersOf(used) \cup MembersOf(over)
      /\ UidsOf(fill) = UidsOf(used) \cup UidsOf(over)
  BY <1>2, FillSplit
<1>4. more \in Nat
  BY <1>0, <1>2, <1>3
<1> HIDE DEF used, over, more
<1>5. WinsOK(spare) /\ MembersOf(spare) = {w \in MembersOf(over) : ~Ephemeral(w)} /\ UidsOf(spare) \subseteq UidsOf(over)
  BY <1>3, OfNoGroupListed
<1>6. WinsOK(rest) /\ UidsOf(rest) = UidsOf(wins) \ UidsOf(kept) /\ MembersOf(rest) = {w \in MembersOf(wins) : w.uid \notin UidsOf(kept)}
  BY WithoutListed
<1>7. WinsOK(busy) /\ UidsOf(busy) = UidsOf(rest) \ UidsOf(fill) /\ MembersOf(busy) = {w \in MembersOf(rest) : w.uid \notin UidsOf(fill)}
  BY <1>6, WithoutListed
<1>8. /\ WinsOK(group)
      /\ UidsOf(group) = UidsOf(used)
      /\ \A x \in MembersOf(group) : \E v \in MembersOf(used) : v.uid = x.uid /\ v.preset = x.preset
  BY <1>0, <1>3, ContrastsListed
<1>9. next \in Nat /\ next >= tab.next
  BY <1>0, NextUidFound DEF TabOK
<1>10. /\ WinsOK(new)
       /\ \A w \in MembersOf(new) : w.uid >= next /\ w.uid < next + more /\ w.preset = Empty
       /\ \A u \in UidsOf(new) : u \in Nat /\ u >= next /\ u < next + more
  <2>1. AsContrast(DefaultWindow(0), base) \in WindowType /\ AsContrast(DefaultWindow(0), base).preset = Empty
    BY <1>0 DEF AsContrast, DefaultWindow, WindowType
  <2> HIDE DEF next
  <2> QED BY <1>4, <1>9, <2>1, NewWindowsListed
<1> HIDE DEF spare, busy, group, new, next
<1>11. UidsOf(kept) \subseteq UidsOf(wins) /\ UidsOf(fill) \subseteq UidsOf(rest)
  BY UidsOfMembers
<1>12. \A u \in UidsOf(wins) : u \notin UidsOf(new)
  BY <1>0, <1>9, <1>10
<1>13. /\ Apart(kept, group) /\ Apart(kept, new) /\ Apart(kept, busy) /\ Apart(kept, spare) /\ Apart(group, new)
       /\ Apart(group, busy) /\ Apart(group, spare) /\ Apart(new, busy) /\ Apart(new, spare) /\ Apart(busy, spare)
  BY <1>3, <1>5, <1>6, <1>7, <1>8, <1>11, <1>12 DEF Apart
<1>14. /\ WinsOK(all)
       /\ MembersOf(all) = MembersOf(kept) \cup MembersOf(group) \cup MembersOf(new) \cup MembersOf(busy) \cup MembersOf(spare)
       /\ UidsOf(all) = UidsOf(kept) \cup UidsOf(group) \cup UidsOf(new) \cup UidsOf(busy) \cup UidsOf(spare)
  BY <1>3, <1>5, <1>7, <1>8, <1>10, <1>13, FiveJoined
<1> HIDE DEF all
<1>15. base \in UidsOf(all)
  <2>1. CASE base \in UidsOf(kept) \cup UidsOf(used) \cup UidsOf(busy)
    BY <1>8, <1>14, <2>1
  <2>2. CASE base \notin UidsOf(kept) \cup UidsOf(used) \cup UidsOf(busy)
    <3>1. base \in UidsOf(over)
      BY <1>3, <1>6, <1>7, <2>2
    <3>2. PICK w \in MembersOf(over) : w.uid = base
      BY <3>1, UidsOfMembers
    <3>3. w \in MembersOf(wins)
      BY <1>3, <1>6, <3>2
    <3>4. w \in MembersOf(spare)
      BY <1>5, <3>2, <3>3
    <3> QED BY <1>14, <3>2, <3>4, UidsOfMembers
  <2> QED BY <2>1, <2>2
<1>16. ASSUME NEW x \in MembersOf(all)
       PROVE  \/ \E v \in MembersOf(tab.wins) : v.uid = x.uid /\ v.preset = x.preset
              \/ x \in MembersOf(new)
  <2>1. ASSUME NEW y \in MembersOf(wins) PROVE \E v \in MembersOf(tab.wins) : v.uid = y.uid /\ v.preset = y.preset
    OBVIOUS
  <2>2. x \in MembersOf(kept) \cup MembersOf(busy) \cup MembersOf(spare) => x \in MembersOf(wins)
    BY <1>3, <1>5, <1>6, <1>7
  <2>3. ASSUME x \in MembersOf(group) PROVE \E v \in MembersOf(tab.wins) : v.uid = x.uid /\ v.preset = x.preset
    <3>1. PICK y \in MembersOf(used) : y.uid = x.uid /\ y.preset = x.preset
      BY <1>8, <2>3
    <3>2. y \in MembersOf(wins)
      BY <1>3, <1>6
    <3> QED BY <2>1, <3>1, <3>2
  <2> QED BY <1>14, <2>1, <2>2, <2>3
<1>17. Kin(tab.wins, tab.next, all, {})
  <2> SUFFICES ASSUME NEW x \in MembersOf(all)
               PROVE  /\ x.uid \in UidsOf(tab.wins) \/ x.uid >= tab.next
                      /\ x.preset # Empty => \E v \in MembersOf(tab.wins) : v.uid = x.uid /\ v.preset # Empty
    BY DEF Kin
  <2>1. CASE \E v \in MembersOf(tab.wins) : v.uid = x.uid /\ v.preset = x.preset
    BY <2>1, UidsOfMembers
  <2>2. CASE x \in MembersOf(new)
    <3>1. x.uid \in UidsOf(new)
      BY <2>2, UidsOfMembers
    <3>2. x.uid \in Nat /\ x.uid >= next /\ x.preset = Empty
      BY <3>1, <2>2, <1>10
    <3>3. x.uid >= tab.next
      BY <1>0, <1>9, <3>2
    <3> QED BY <3>2, <3>3
  <2> QED BY <1>16, <2>1, <2>2
<1> DEFINE upto == IF more <= 0 THEN tab.next ELSE next + more
<1>18. upto \in Nat /\ upto >= tab.next
  BY <1>0, <1>4, <1>9
<1>19. Below(all, upto)
  <2>1. \A u \in UidsOf(new) : u < upto
    BY <1>4, <1>9, <1>10
  <2>2. \A u \in UidsOf(wins) : u < upto
    BY <1>0, <1>18
  <2>3. \A u \in UidsOf(all) : u \in UidsOf(new) \/ u \in UidsOf(wins)
    BY <1>3, <1>5, <1>6, <1>7, <1>8, <1>11, <1>14
  <2>4. \A u \in UidsOf(all) : u < upto
    BY <2>1, <2>2, <2>3
  <2> QED BY <2>4 DEF Below, UidsOf
<1> HIDE DEF upto
<1> DEFINE at == PlaceOf(all, base)
<1>20. at \in DOMAIN all /\ at \in Nat
  <2>1. DOMAIN all \subseteq Nat
    BY <1>14 DEF WinsOK
  <2> QED BY <1>15, <2>1, PlaceFound
<1>21. then = [tab EXCEPT !.wins = all, !.active = at, !.anchor = base, !.next = upto]
  BY <1>1 DEF upto
<1> HIDE DEF at
<1>22. then \in TabType /\ then.wins = all /\ then.active = at /\ then.next = upto
  BY <1>0, <1>14, <1>18, <1>20, <1>21 DEF TabType, WinsOK
<1>23. TabOK(then)
  BY <1>14, <1>19, <1>20, <1>22 DEF TabOK, WinsOK
<1> QED BY <1>15, <1>17, <1>18, <1>22, <1>23 DEF Follows, then

LEMMA PreparedFollows ==
    ASSUME NEW tab, TabOK(tab), NEW n \in Nat \ {0}, NEW base \in UidsOf(tab.wins), NEW wasTab, NEW shown \in Nat
    PROVE  Follows(tab, Prepared(tab, n, base, wasTab, shown), {})
<1> DEFINE w == OutOfGroup(WindowOf(tab, base))
           wins == [tab.wins EXCEPT ![PlaceOf(tab.wins, base)] = w]
           kept == KeptInSplit(wins, n, base, wasTab, shown)
           rest == Without(wins, UidsOf(kept))
           preset == wins[PlaceOf(wins, base)].preset
           fill == Fillers(rest, preset, base, wasTab)
<1>0. tab.wins \in Seq(WindowType) /\ WinsOK(tab.wins)
  BY DEF TabOK, TabType, WinsOK
<1>1. Prepared(tab, n, base, wasTab, shown) = FilledSplit(tab, n, base, wins, kept, rest, fill)
  BY DEF Prepared, PreparedWith, PreparedFrom
<1>2. /\ WindowOf(tab, base) \in MembersOf(tab.wins) /\ WindowOf(tab, base) \in WindowType
      /\ WindowOf(tab, base).uid = base
  BY <1>0, WindowFound
<1>3. w \in WindowType /\ w.uid = base /\ w.preset = WindowOf(tab, base).preset /\ ~Ephemeral(w)
  BY <1>2, OutOfGroupTyped
<1> HIDE DEF w
<1>4. /\ WinsOK(wins)
      /\ UidsOf(wins) = UidsOf(tab.wins)
      /\ \A x \in MembersOf(wins) : x = w \/ (x \in MembersOf(tab.wins) /\ x.uid # base)
  BY <1>0, <1>3, Replaced
<1> HIDE DEF wins
<1>5. \A x \in MembersOf(wins) : \E v \in MembersOf(tab.wins) : v.uid = x.uid /\ v.preset = x.preset
  BY <1>2, <1>3, <1>4
<1>6. base \in UidsOf(wins) /\ \A x \in MembersOf(wins) : x.uid = base => ~Ephemeral(x)
  BY <1>3, <1>4
<1>7. WinsOK(kept) /\ MembersOf(kept) \subseteq MembersOf(wins) /\ Len(kept) <= n
  BY <1>4, <1>6, KeptListed
<1> HIDE DEF kept
<1>8. WinsOK(rest)
  BY <1>4, WithoutListed
<1> HIDE DEF preset
<1>9. WinsOK(fill) /\ MembersOf(fill) \subseteq MembersOf(rest)
  <2> HIDE DEF rest
  <2> QED BY <1>8, FillersListed
<1> HIDE DEF fill
<1>10. Follows(tab, FilledSplit(tab, n, base, wins, kept, rest, fill), {})
  BY <1>4, <1>5, <1>6, <1>7, <1>9, FilledFollows
<1> QED BY <1>1, <1>10

-----------------------------------------------------------------------------
\* What is dealt out: the windows stay, and those that get a picture are those
\* that are visible.
LEMMA DealtFollows ==
    ASSUME NEW tab, TabOK(tab), NEW mode \in AllocModes \cup {"none"}, NEW base
    PROVE  LET then == Dealt2(tab, mode, base)
           IN  /\ Follows(tab, then, Pictured(then))
               /\ Pictured(then) \subseteq UidsOf(then.wins)
               /\ UidsOf(then.wins) = UidsOf(tab.wins)
<1> DEFINE from == IF base \in UidsOf(tab.wins) THEN base ELSE VisibleUids(tab)[1]
           lead == InitiatorOf(tab, from)
           held == WindowOf(tab, lead).preset
           got(w) == IF held = Empty THEN w ELSE [w EXCEPT !.preset = held]
           deal(w) == IF w.uid \notin ShownUids(tab) THEN w
                      ELSE IF w.uid = lead THEN OutOfGroup(w)
                      ELSE IF w.pin THEN got(w) ELSE AsContrast(got(w), lead)
           wins == [i \in DOMAIN tab.wins |-> deal(tab.wins[i])]
           then == Dealt2(tab, mode, base)
<1>0. /\ tab \in TabType /\ tab.wins \in Seq(WindowType) /\ WinsOK(tab.wins) /\ tab.next \in Nat
      /\ Len(tab.wins) \in Nat /\ DOMAIN tab.wins = 1 .. Len(tab.wins) /\ tab.active \in DOMAIN tab.wins
      /\ \A i \in DOMAIN tab.wins : tab.wins[i] \in WindowType
  BY ElementOfSeq DEF TabOK, TabType, WinsOK
<1>1. then = [tab EXCEPT !.mode = mode, !.anchor = lead, !.wins = wins]
  BY DEF Dealt2
<1>2. from \in UidsOf(tab.wins)
  BY VisibleAreThere
<1>3. lead \in UidsOf(tab.wins)
  <2> HIDE DEF from
  <2> QED BY <1>0, <1>2, InitiatorIsThere
<1>4. held \in Presets \cup {Empty} /\ lead \in Nat
  <2> HIDE DEF lead
  <2>1. WindowOf(tab, lead) \in WindowType /\ WindowOf(tab, lead).uid = lead
    BY <1>0, <1>3, WindowFound
  <2> QED BY <2>1 DEF WindowType
<1> HIDE DEF lead, held, then
<1>5. ASSUME NEW w \in WindowType
      PROVE  /\ deal(w) \in WindowType /\ deal(w).uid = w.uid
             /\ deal(w).preset # Empty => w.preset # Empty \/ w.uid \in ShownUids(tab)
  <2>1. OutOfGroup(w) \in WindowType /\ OutOfGroup(w).uid = w.uid /\ OutOfGroup(w).preset = w.preset
    BY OutOfGroupTyped
  <2>2. got(w) \in WindowType /\ got(w).uid = w.uid
    BY <1>4 DEF WindowType
  <2> HIDE DEF got
  <2>3. AsContrast(got(w), lead) \in WindowType /\ AsContrast(got(w), lead).uid = w.uid
    BY <1>4, <2>2 DEF WindowType, AsContrast
  <2> QED BY <2>1, <2>2, <2>3
<1> HIDE DEF deal
<1>6. wins \in Seq(WindowType) /\ Len(wins) = Len(tab.wins) /\ DOMAIN wins = DOMAIN tab.wins
      /\ \A i \in DOMAIN tab.wins : wins[i] = deal(tab.wins[i]) /\ wins[i].uid = tab.wins[i].uid
  <2>1. wins \in [1 .. Len(tab.wins) -> WindowType]
    BY <1>0, <1>5
  <2>2. wins \in Seq(WindowType) /\ Len(wins) = Len(tab.wins)
    BY <1>0, <2>1
  <2> QED BY <1>0, <1>5, <2>2
<1> HIDE DEF wins
<1>7. WinsOK(wins) /\ UidsOf(wins) = UidsOf(tab.wins)
  BY <1>0, <1>6, IdsKept
<1>8. /\ then \in TabType /\ then.wins = wins /\ then.active = tab.active /\ then.next = tab.next
      /\ then.layout = tab.layout /\ then.preview = tab.preview
  BY <1>0, <1>1, <1>4, <1>6 DEF TabType
<1>9. ShownUids(then) = ShownUids(tab)
  <2>1. Layouts[tab.layout] \in Nat
    BY <1>0, WindowsAssumption DEF TabType
  <2>2. VisibleUids(tab) = VisibleUids(then)
    BY <1>0, <1>6, <1>8, <2>1, VisibleAlike
  <2> QED BY <2>2 DEF ShownUids
<1>10. ASSUME NEW x \in MembersOf(wins)
       PROVE  /\ x.uid \in UidsOf(tab.wins)
              /\ x.preset # Empty => x.uid \in Pictured(then) \/ \E v \in MembersOf(tab.wins) : v.uid = x.uid /\ v.preset # Empty
  <2>1. x.uid \in UidsOf(tab.wins) /\ WindowOf(then, x.uid) = x
    BY <1>7, <1>8, UidsOfMembers, WindowTold
  <2>2. PICK i \in DOMAIN tab.wins : x = deal(tab.wins[i])
    BY <1>6 DEF MembersOf
  <2>3. tab.wins[i] \in MembersOf(tab.wins) /\ tab.wins[i] \in WindowType
    BY <1>0 DEF MembersOf
  <2>4. x.uid = tab.wins[i].uid /\ (x.preset # Empty => tab.wins[i].preset # Empty \/ x.uid \in ShownUids(tab))
    BY <1>5, <2>2, <2>3
  <2>5. x.preset # Empty /\ x.uid \in ShownUids(tab) => x.uid \in Pictured(then)
    BY <1>9, <2>1 DEF Pictured
  <2> QED BY <2>1, <2>3, <2>4, <2>5
<1>11. Kin(tab.wins, tab.next, wins, Pictured(then))
  BY <1>10 DEF Kin
<1>12. Below(wins, tab.next)
  BY <1>6 DEF Below, TabOK
<1>13. TabOK(then)
  BY <1>0, <1>6, <1>7, <1>8, <1>12 DEF TabOK, WinsOK
<1>14. then.next >= tab.next
  BY <1>0, <1>8
<1>15. Pictured(then) \subseteq UidsOf(wins)
  BY <1>7, <1>9, VisibleAreThere DEF Pictured
<1> QED BY <1>7, <1>8, <1>11, <1>13, <1>14, <1>15 DEF Follows, then

LEMMA ResplitFollows ==
    ASSUME NEW tab, TabOK(tab), NEW layout \in DOMAIN Layouts
    PROVE  Follows(tab, Resplit(tab, layout), {})
<1> DEFINE base == BaseOf(tab)
           pruned == IF Layouts[tab.layout] > Layouts[layout]
                     THEN Pruned(tab, Layouts[layout] - 1, base, Nobody) ELSE tab
           n == Layouts[layout] - Len(pruned.wins)
           grown == Grown(pruned, DefaultWindow(0), n)
           then == [grown EXCEPT !.layout = layout]
<1>0. tab \in TabType /\ tab.active \in DOMAIN tab.wins /\ Layouts[layout] \in Nat
  BY WindowsAssumption DEF TabOK
<1>1. Follows(tab, pruned, {})
  <2>1. Follows(tab, tab, {})
    BY <1>0, FollowsAtOnce
  <2>2. Follows(tab, Pruned(tab, Layouts[layout] - 1, base, Nobody), {})
    <3> HIDE DEF base
    <3> QED BY PrunedFollows
  <2> QED BY <2>1, <2>2
<1> HIDE DEF pruned
<1>2. TabOK(pruned) /\ n \in Int
  BY <1>0, <1>1 DEF Follows, TabOK, TabType
<1> HIDE DEF n
<1>3. Follows(pruned, grown, {})
  BY <1>2, DefaultIsTyped, GrownFollows DEF DefaultTyped
<1>4. Follows(tab, grown, {})
  BY <1>1, <1>3, FollowsIsTransitive
<1> HIDE DEF grown
<1>5. TabOK(grown)
  BY <1>4 DEF Follows
<1>6. /\ then \in TabType /\ then.wins = grown.wins /\ then.next = grown.next
      /\ then.active \in DOMAIN grown.wins
  BY <1>5 DEF TabOK, TabType
<1>7. Follows(grown, then, {})
  <2> HIDE DEF then
  <2> QED BY <1>5, <1>6, FollowsAtOnce
<1>8. Follows(tab, then, {})
  <2> HIDE DEF then
  <2> QED BY <1>4, <1>7, FollowsIsTransitive
<1>9. Resplit(tab, layout) = then
  BY DEF Resplit, then, grown, n, pruned
<1> QED BY <1>8, <1>9

\* What is dragged is a rearrangement.
LEMMA DraggedListed ==
    ASSUME NEW wins, WinsOK(wins), NEW from \in DOMAIN wins, NEW to \in DOMAIN wins
    PROVE  LET then == Dragged(wins, from, to)
           IN  WinsOK(then) /\ MembersOf(then) = MembersOf(wins) /\ UidsOf(then) = UidsOf(wins)
<1> DEFINE old(k) == IF k = to THEN from
                     ELSE IF from <= k /\ k < to THEN k + 1
                     ELSE IF to < k /\ k <= from THEN k - 1 ELSE k
           new(k) == IF k = from THEN to
                     ELSE IF from < k /\ k <= to THEN k - 1
                     ELSE IF to <= k /\ k < from THEN k + 1 ELSE k
           then == Dragged(wins, from, to)
<1>0. wins \in Seq(WindowType) /\ DOMAIN wins = 1 .. Len(wins) /\ Len(wins) \in Nat
      /\ \A i \in DOMAIN wins : wins[i] \in WindowType
  BY ElementOfSeq DEF WinsOK
<1>1. \A k \in DOMAIN wins : old(k) \in DOMAIN wins /\ new(k) \in DOMAIN wins /\ old(new(k)) = k /\ new(old(k)) = k
  BY <1>0
<1>2. DOMAIN then = DOMAIN wins /\ \A k \in DOMAIN wins : then[k] = wins[old(k)]
  <2> DEFINE at(k) == CASE k = to -> from
                       [] k # to /\ from <= k /\ k < to -> k + 1
                       [] k # to /\ to < k /\ k <= from -> k - 1
                       [] OTHER -> k
  <2>1. then = [k \in DOMAIN wins |-> wins[at(k)]]
    BY DEF Dragged
  <2>2. \A k \in DOMAIN wins : at(k) = old(k)
    BY <1>0
  <2> QED BY <2>1, <2>2
<1> HIDE DEF old, new
<1>3. then \in Seq(WindowType)
  <2>1. then \in [1 .. Len(wins) -> WindowType]
    <3>1. \A k \in 1 .. Len(wins) : then[k] \in WindowType
      BY <1>0, <1>1, <1>2
    <3>2. then = [k \in 1 .. Len(wins) |-> then[k]]
      BY <1>0 DEF Dragged
    <3> QED BY <3>1, <3>2
  <2> HIDE DEF then
  <2> QED BY <1>0, <2>1
<1> HIDE DEF then
<1>4. OwnUids(then)
  <2> SUFFICES ASSUME NEW i \in DOMAIN wins, NEW j \in DOMAIN wins, then[i].uid = then[j].uid PROVE i = j
    BY <1>2 DEF OwnUids
  <2>1. old(i) = old(j)
    BY <1>1, <1>2 DEF WinsOK, OwnUids
  <2>2. new(old(i)) = i /\ new(old(j)) = j
    BY <1>1
  <2> QED BY <2>1, <2>2
<1>5. MembersOf(then) = MembersOf(wins)
  BY <1>1, <1>2 DEF MembersOf
<1> QED BY <1>3, <1>4, <1>5, UidsOfMembers DEF WinsOK, then

-----------------------------------------------------------------------------
(* The invariant: what loads are under way, and what ids are gone.         *)
LoadingOK == \A r \in wnLoading : r \in Nat \X Presets \X {"style", "data"}
GoneOK == \A u \in wnGone : u \in Nat /\ u < wnTab.next
\* The inductive invariant of the windows.
WnInv == TabOK(wnTab) /\ LoadingOK /\ GoneOK /\ OwnIds /\ NothingLeaks

LEMMA WnInvInit == WnInit => WnInv
<1> SUFFICES ASSUME WnInit PROVE WnInv
  OBVIOUS
<1> DEFINE w == DefaultWindow(0)
<1>1. /\ wnTab = [wins |-> <<w>>, active |-> 1, anchor |-> Nobody, mode |-> "none",
                  layout |-> Single, last |-> "2x2", preview |-> FALSE, next |-> 1]
      /\ wnHeld = {0} /\ wnLoading = {} /\ wnGone = {}
  BY DEF WnInit
<1>2. w \in WindowType /\ w.uid = 0 /\ w.preset = Empty
  BY DEF DefaultWindow, WindowType
<1> HIDE DEF w
<1>3. <<w>> \in Seq(WindowType) /\ DOMAIN <<w>> = {1} /\ <<w>>[1] = w
  BY <1>2
<1>4. wnTab \in TabType
  BY <1>1, <1>3, WindowsAssumption DEF TabType
<1>5. wnTab.wins = <<w>> /\ wnTab.active = 1 /\ wnTab.next = 1
  BY <1>1
<1>6. TabOK(wnTab)
  BY <1>2, <1>3, <1>4, <1>5 DEF TabOK, OwnUids, Below
<1>7. OwnIds /\ NothingLeaks
  <2>1. UidsOf(wnTab.wins) = {0}
    BY <1>2, <1>3, <1>5 DEF UidsOf
  <2>2. \A i \in DOMAIN wnTab.wins : i = 1 /\ wnTab.wins[i].preset = Empty
    BY <1>2, <1>3, <1>5
  <2> QED BY <1>1, <2>1, <2>2 DEF OwnIds, NothingLeaks
<1> QED BY <1>1, <1>6, <1>7 DEF WnInv, LoadingOK, GoneOK

\* A tab that follows the one there was keeps the invariant, when the windows
\* that went are released and those that get a picture are held.
LEMMA TurnsKeep ==
    ASSUME WnInv, NEW tab, NEW held, Follows(wnTab, tab, held),
           wnTab' = tab, wnGone' = wnGone \cup (UidsOf(wnTab.wins) \ UidsOf(tab.wins)),
           (wnHeld \cap UidsOf(tab.wins)) \cup held \subseteq wnHeld',
           wnHeld' \subseteq UidsOf(tab.wins) \cup wnLate', LoadingOK',
           \A r \in wnLoading : r \in wnLoading' \/ r[1] \in wnHeld'
    PROVE  WnInv'
<1> DEFINE gone == UidsOf(wnTab.wins) \ UidsOf(tab.wins)
<1>0. /\ TabOK(wnTab) /\ TabOK(tab) /\ wnTab.next \in Nat /\ tab.next \in Nat /\ tab.next >= wnTab.next
      /\ Kin(wnTab.wins, wnTab.next, tab.wins, held) /\ tab.wins \in Seq(WindowType) /\ wnTab.wins \in Seq(WindowType)
  BY DEF WnInv, Follows, TabOK, TabType
<1>1. \A u \in UidsOf(wnTab.wins) : u \in Nat /\ u < wnTab.next
  <2>1. \A i \in DOMAIN wnTab.wins : wnTab.wins[i] \in WindowType
    BY <1>0, ElementOfSeq
  <2> QED BY <1>0, <2>1 DEF UidsOf, TabOK, Below, WindowType
<1>2. \A u \in UidsOf(tab.wins) : u \in UidsOf(wnTab.wins) \/ u >= wnTab.next
  BY <1>0, UidsOfMembers DEF Kin
<1>3. GoneOK'
  <2>1. \A u \in wnGone : u \in Nat /\ u < wnTab.next
    BY DEF WnInv, GoneOK
  <2> QED BY <1>0, <1>1, <2>1 DEF GoneOK
<1>4. OwnIds'
  <2>1. \A i, j \in DOMAIN tab.wins : i # j => tab.wins[i].uid # tab.wins[j].uid
    BY <1>0 DEF TabOK, OwnUids
  <2>2. UidsOf(tab.wins) \cap (wnGone \cup gone) = {}
    <3>1. \A u \in wnGone : u \in Nat /\ u < wnTab.next /\ u \notin UidsOf(wnTab.wins)
      BY DEF WnInv, GoneOK, OwnIds
    <3>2. \A u \in UidsOf(tab.wins) : u \in wnGone => u \in UidsOf(wnTab.wins)
      BY <1>0, <1>2, <3>1
    <3> QED BY <3>1, <3>2
  <2> QED BY <2>1, <2>2 DEF OwnIds
<1>5. NothingLeaks'
  <2>1. ASSUME NEW i \in DOMAIN tab.wins, tab.wins[i].preset # Empty
        PROVE  tab.wins[i].uid \in wnHeld' \/ \E r \in wnLoading' : r[1] = tab.wins[i].uid
    <3> DEFINE x == tab.wins[i]
    <3>1. x \in MembersOf(tab.wins) /\ x.uid \in UidsOf(tab.wins)
      BY DEF MembersOf, UidsOf
    <3>2. x.uid \in held \/ \E v \in MembersOf(wnTab.wins) : v.uid = x.uid /\ v.preset # Empty
      BY <1>0, <2>1, <3>1 DEF Kin
    <3>3. ASSUME NEW v \in MembersOf(wnTab.wins), v.uid = x.uid, v.preset # Empty
          PROVE  x.uid \in wnHeld \/ \E r \in wnLoading : r[1] = x.uid
      BY <3>3 DEF WnInv, NothingLeaks, MembersOf
    <3> HIDE DEF x
    <3>4. x.uid \in wnHeld' \/ \E r \in wnLoading' : r[1] = x.uid
      BY <3>1, <3>2, <3>3
    <3> QED BY <3>4 DEF x
  <2> QED BY <2>1 DEF NothingLeaks
<1> QED BY <1>0, <1>3, <1>4, <1>5 DEF WnInv

LEMMA BecomesKeeps ==
    ASSUME WnInv, NEW tab, NEW held, Follows(wnTab, tab, held), held \subseteq UidsOf(tab.wins),
           Becomes(tab, held), wnLoading' = wnLoading, wnLate' = wnLate
    PROVE  WnInv'
<1> DEFINE gone == UidsOf(wnTab.wins) \ UidsOf(tab.wins)
<1>1. wnTab' = tab /\ wnHeld' = (wnHeld \ gone) \cup held /\ wnGone' = wnGone \cup gone
  BY DEF Becomes, Released
<1>2. (wnHeld \cap UidsOf(tab.wins)) \cup held \subseteq wnHeld'
  BY <1>1
<1>3. wnHeld' \subseteq UidsOf(tab.wins) \cup wnLate'
  BY <1>1 DEF WnInv, NothingLeaks
<1>4. LoadingOK' /\ \A r \in wnLoading : r \in wnLoading' \/ r[1] \in wnHeld'
  BY DEF WnInv, LoadingOK
<1> QED BY <1>1, <1>2, <1>3, <1>4, TurnsKeep

\* What happens to the windows one by one: the ids stay, and what shows
\* something is held or under way.
LEMMA RewrittenKeeps ==
    ASSUME WnInv, NEW wins \in Seq(WindowType), Len(wins) = Len(wnTab.wins),
           \A i \in DOMAIN wnTab.wins : wins[i].uid = wnTab.wins[i].uid,
           wnTab' = [wnTab EXCEPT !.wins = wins], wnGone' = wnGone, LoadingOK',
           wnHeld' \subseteq UidsOf(wnTab.wins) \cup wnLate',
           \A i \in DOMAIN wnTab.wins :
              wins[i].preset # Empty => wnTab.wins[i].uid \in wnHeld' \/ \E r \in wnLoading' : r[1] = wnTab.wins[i].uid
    PROVE  WnInv'
<1>0. wnTab \in TabType /\ WinsOK(wnTab.wins) /\ wnTab.active \in DOMAIN wnTab.wins
  BY DEF WnInv, TabOK, TabType, WinsOK
<1>1. WinsOK(wins) /\ DOMAIN wins = DOMAIN wnTab.wins /\ UidsOf(wins) = UidsOf(wnTab.wins)
  BY <1>0, IdsKept
<1>2. wnTab' \in TabType /\ wnTab'.wins = wins /\ wnTab'.active = wnTab.active /\ wnTab'.next = wnTab.next
  BY <1>0 DEF TabType
<1>3. TabOK(wnTab)'
  BY <1>0, <1>1, <1>2 DEF TabOK, WinsOK, Below, WnInv
<1>4. GoneOK'
  BY <1>2 DEF WnInv, GoneOK
<1>5. OwnIds'
  BY <1>1, <1>2 DEF WnInv, OwnIds, WinsOK, OwnUids
<1>6. NothingLeaks'
  BY <1>1, <1>2 DEF NothingLeaks
<1> QED BY <1>3, <1>4, <1>5, <1>6 DEF WnInv

-----------------------------------------------------------------------------
(* One lemma for each action.                                              *)
TabFacts == /\ wnTab \in TabType /\ wnTab.wins \in Seq(WindowType) /\ WinsOK(wnTab.wins)
            /\ wnTab.active \in DOMAIN wnTab.wins /\ wnTab.next \in Nat
            /\ Len(wnTab.wins) \in Nat /\ DOMAIN wnTab.wins = 1 .. Len(wnTab.wins)
            /\ UidsOf(wnTab.wins) \subseteq Nat
LEMMA TabFactsHold == WnInv => TabFacts
<1> SUFFICES ASSUME WnInv PROVE TabFacts
  OBVIOUS
<1>1. \A i \in DOMAIN wnTab.wins : wnTab.wins[i] \in WindowType
  BY ElementOfSeq DEF WnInv, TabOK, TabType
<1>2. UidsOf(wnTab.wins) \subseteq Nat
  BY <1>1 DEF UidsOf, WindowType
<1> QED BY <1>2 DEF TabFacts, WnInv, TabOK, TabType, WinsOK

LEMMA FocusOnKeeps == ASSUME WnInv, NEW uid \in UidsOf(wnTab.wins), FocusOn(uid) PROVE WnInv'
<1> DEFINE tab == Focused(wnTab, uid)
<1>1. PlaceOf(wnTab.wins, uid) \in DOMAIN wnTab.wins
  BY PlaceFound
<1>2. tab \in TabType /\ tab.wins = wnTab.wins /\ tab.next = wnTab.next /\ tab.active \in DOMAIN wnTab.wins
  BY <1>1, TabFactsHold DEF Focused, TabType, TabFacts
<1> HIDE DEF tab
<1>3. Follows(wnTab, tab, {})
  BY <1>2, FollowsAtOnce DEF WnInv
<1>4. Becomes(tab, {}) /\ wnLoading' = wnLoading /\ wnLate' = wnLate
  BY DEF FocusOn, LoadsStay, tab
<1> QED BY <1>3, <1>4, BecomesKeeps

LEMMA AddKeeps == ASSUME WnInv, AddWindow PROVE WnInv'
<1> DEFINE grown == Grown(wnTab, DefaultWindow(0), 1)
           tab == [grown EXCEPT !.active = Len(grown.wins)]
<1>1. Follows(wnTab, grown, {}) /\ Len(grown.wins) >= 1
  BY DefaultIsTyped, GrownFollows DEF DefaultTyped, WnInv
<1> HIDE DEF grown
<1>2. TabOK(grown)
  BY <1>1 DEF Follows
<1>3. Len(grown.wins) \in DOMAIN grown.wins /\ Len(grown.wins) \in Nat /\ grown \in TabType
  BY <1>1, <1>2 DEF TabOK, TabType
<1>4. tab \in TabType /\ tab.wins = grown.wins /\ tab.next = grown.next /\ tab.active \in DOMAIN grown.wins
  BY <1>3 DEF TabType
<1> HIDE DEF tab
<1>5. Follows(grown, tab, {})
  BY <1>2, <1>4, FollowsAtOnce
<1>6. Follows(wnTab, tab, {})
  BY <1>1, <1>5, FollowsIsTransitive DEF WnInv
<1>7. Becomes(tab, {}) /\ wnLoading' = wnLoading /\ wnLate' = wnLate
  BY DEF AddWindow, LoadsStay, tab, grown
<1> QED BY <1>6, <1>7, BecomesKeeps

LEMMA CloseWindowKeeps == ASSUME WnInv, NEW uid \in UidsOf(wnTab.wins), CloseWindow(uid) PROVE WnInv'
<1> DEFINE at == PlaceOf(wnTab.wins, uid)
           left == Without(wnTab.wins, {uid})
           active == IF at = wnTab.active THEN IF at <= Len(left) THEN at ELSE Len(left)
                     ELSE PlaceOf(left, ActiveUid(wnTab))
           tab == [wnTab EXCEPT !.wins = left, !.active = active,
                                !.layout = IF Len(left) <= 1 THEN Single ELSE wnTab.layout]
<1>0. TabFacts
  BY TabFactsHold
<1>1. at \in DOMAIN wnTab.wins /\ wnTab.wins[at].uid = uid
  BY PlaceFound
<1>2. \E i \in DOMAIN wnTab.wins : wnTab.wins[i].uid \notin {uid}
  <2>1. Len(wnTab.wins) > 1
    BY DEF CloseWindow
  <2>2. 1 \in DOMAIN wnTab.wins /\ 2 \in DOMAIN wnTab.wins
    BY <1>0, <2>1 DEF TabFacts
  <2>3. wnTab.wins[1].uid # wnTab.wins[2].uid
    BY <2>2 DEF WnInv, OwnIds
  <2> QED BY <2>2, <2>3
<1>3. /\ WinsOK(left)
      /\ MembersOf(left) = {w \in MembersOf(wnTab.wins) : w.uid \notin {uid}}
      /\ UidsOf(left) = UidsOf(wnTab.wins) \ {uid}
      /\ Len(left) >= 1
  BY <1>0, <1>2, WithoutListed DEF TabFacts
<1> HIDE DEF left, at
<1>4. left \in Seq(WindowType) /\ Len(left) \in Nat /\ DOMAIN left = 1 .. Len(left)
  BY <1>3 DEF WinsOK
<1>5. active \in DOMAIN left
  <2>1. CASE at = wnTab.active
    <3>1. at \in Nat /\ at >= 1
      BY <1>0, <1>1 DEF TabFacts
    <3> QED BY <1>3, <1>4, <2>1, <3>1
  <2>2. CASE at # wnTab.active
    <3>1. ActiveUid(wnTab) # uid
      BY <1>0, <1>1, <2>2 DEF ActiveUid, TabFacts, WinsOK, OwnUids
    <3>2. ActiveUid(wnTab) \in UidsOf(left)
      BY <1>0, <1>3, <3>1, ActiveIsThere DEF TabFacts
    <3> QED BY <2>2, <3>2, PlaceFound
  <2> QED BY <2>1, <2>2
<1>6. active \in Nat
  BY <1>4, <1>5
<1> HIDE DEF active
<1>7. tab \in TabType /\ tab.wins = left /\ tab.next = wnTab.next /\ tab.active = active
  BY <1>0, <1>4, <1>6, WindowsAssumption DEF TabFacts, TabType
<1> HIDE DEF tab
<1>8. \A w \in MembersOf(left) : w \in MembersOf(wnTab.wins) /\ w.uid \in UidsOf(wnTab.wins)
  BY <1>3, UidsOfMembers
<1>9. Below(left, wnTab.next)
  <2>1. \A w \in MembersOf(wnTab.wins) : w.uid < wnTab.next
    BY DEF WnInv, TabOK, Below, MembersOf
  <2> QED BY <1>8, <2>1 DEF Below, MembersOf
<1>10. TabOK(tab)
  BY <1>3, <1>5, <1>7, <1>9 DEF TabOK, WinsOK
<1>11. Kin(wnTab.wins, wnTab.next, left, {})
  BY <1>8 DEF Kin
<1>12. Follows(wnTab, tab, {})
  BY <1>0, <1>7, <1>10, <1>11 DEF Follows, TabFacts
<1>13. Becomes(tab, {}) /\ wnLoading' = wnLoading /\ wnLate' = wnLate
  BY DEF CloseWindow, LoadsStay, tab, active, left, at
<1> QED BY <1>12, <1>13, BecomesKeeps

LEMMA ReorderKeeps ==
    ASSUME WnInv, NEW from \in DOMAIN wnTab.wins, NEW p \in 1 .. Len(wnTab.wins) + 1, Reorder(from, p) PROVE WnInv'
<1> DEFINE to == IF from < p THEN p - 1 ELSE p
           wins == Dragged(wnTab.wins, from, to)
           at == PlaceOf(wins, ActiveUid(wnTab))
           tab == [wnTab EXCEPT !.wins = wins, !.active = at]
<1>0. TabFacts
  BY TabFactsHold
<1>1. to \in DOMAIN wnTab.wins
  BY <1>0 DEF TabFacts
<1> HIDE DEF to
<1>2. WinsOK(wins) /\ MembersOf(wins) = MembersOf(wnTab.wins) /\ UidsOf(wins) = UidsOf(wnTab.wins)
  BY <1>0, <1>1, DraggedListed DEF TabFacts
<1> HIDE DEF wins
<1>3. at \in DOMAIN wins /\ at \in Nat
  <2>1. ActiveUid(wnTab) \in UidsOf(wins)
    BY <1>0, <1>2, ActiveIsThere DEF TabFacts
  <2>2. DOMAIN wins \subseteq Nat
    BY <1>2 DEF WinsOK
  <2> QED BY <2>1, <2>2, PlaceFound
<1> HIDE DEF at
<1>4. tab \in TabType /\ tab.wins = wins /\ tab.next = wnTab.next /\ tab.active = at
  BY <1>0, <1>2, <1>3 DEF TabFacts, TabType, WinsOK
<1> HIDE DEF tab
<1>5. Below(wins, wnTab.next)
  <2>1. \A w \in MembersOf(wnTab.wins) : w.uid < wnTab.next
    BY DEF WnInv, TabOK, Below, MembersOf
  <2> QED BY <1>2, <2>1 DEF Below, MembersOf
<1>6. TabOK(tab)
  BY <1>2, <1>3, <1>4, <1>5 DEF TabOK, WinsOK
<1>7. Kin(wnTab.wins, wnTab.next, wins, {})
  BY <1>2, UidsOfMembers DEF Kin
<1>8. Follows(wnTab, tab, {})
  BY <1>0, <1>4, <1>6, <1>7 DEF Follows, TabFacts
<1>9. Becomes(tab, {}) /\ wnLoading' = wnLoading /\ wnLate' = wnLate
  BY DEF Reorder, LoadsStay, tab, at, wins, to
<1> QED BY <1>8, <1>9, BecomesKeeps

\* A window of the tab in the place of the one with its id.
LEMMA PutAt ==
    ASSUME TabFacts, NEW at \in DOMAIN wnTab.wins, NEW w \in WindowType, w.uid = wnTab.wins[at].uid
    PROVE  LET wins == [wnTab.wins EXCEPT ![at] = w]
           IN  /\ wins \in Seq(WindowType) /\ Len(wins) = Len(wnTab.wins)
               /\ \A i \in DOMAIN wnTab.wins : wins[i].uid = wnTab.wins[i].uid /\ wins[i] = IF i = at THEN w ELSE wnTab.wins[i]
<1> DEFINE wins == [wnTab.wins EXCEPT ![at] = w]
<1>1. \A i \in DOMAIN wnTab.wins : wins[i] = IF i = at THEN w ELSE wnTab.wins[i]
  OBVIOUS
<1>2. wins \in Seq(WindowType) /\ Len(wins) = Len(wnTab.wins)
  <2>1. wnTab.wins \in Seq(WindowType) /\ at \in 1 .. Len(wnTab.wins)
    BY DEF TabFacts
  <2> HIDE DEF wins
  <2> QED BY <2>1, ExceptSeq DEF wins
<1> HIDE DEF wins
<1>3. \A i \in DOMAIN wnTab.wins : wins[i].uid = wnTab.wins[i].uid
  BY <1>1
<1> QED BY <1>1, <1>2, <1>3 DEF wins

LEMMA PinKeeps == ASSUME WnInv, NEW uid \in UidsOf(wnTab.wins), PinWindow(uid) PROVE WnInv'
<1> DEFINE at == PlaceOf(wnTab.wins, uid)
           w == [OutOfGroup(wnTab.wins[at]) EXCEPT !.pin = TRUE]
           wins == [wnTab.wins EXCEPT ![at] = w]
<1>0. TabFacts
  BY TabFactsHold
<1>1. at \in DOMAIN wnTab.wins /\ wnTab.wins[at] \in WindowType
  BY <1>0, PlaceFound, ElementOfSeq DEF TabFacts
<1>2. w \in WindowType /\ w.uid = wnTab.wins[at].uid /\ w.preset = wnTab.wins[at].preset
  <2>1. /\ OutOfGroup(wnTab.wins[at]) \in WindowType /\ OutOfGroup(wnTab.wins[at]).uid = wnTab.wins[at].uid
        /\ OutOfGroup(wnTab.wins[at]).preset = wnTab.wins[at].preset
    BY <1>1, OutOfGroupTyped
  <2> QED BY <2>1 DEF WindowType
<1>3. wnTab' = [wnTab EXCEPT !.wins = wins] /\ UNCHANGED <<wnHeld, wnGone, wnLoading, wnDeal, wnLate>>
  BY DEF PinWindow, LoadsStay
<1> HIDE DEF at, w
<1>4. /\ wins \in Seq(WindowType) /\ Len(wins) = Len(wnTab.wins)
      /\ \A i \in DOMAIN wnTab.wins : wins[i].uid = wnTab.wins[i].uid /\ wins[i] = IF i = at THEN w ELSE wnTab.wins[i]
  BY <1>0, <1>1, <1>2, PutAt
<1> HIDE DEF wins
<1>5. LoadingOK' /\ wnHeld' \subseteq UidsOf(wnTab.wins) \cup wnLate'
  BY <1>3 DEF WnInv, LoadingOK, NothingLeaks
<1>6. \A i \in DOMAIN wnTab.wins :
          wins[i].preset # Empty => wnTab.wins[i].uid \in wnHeld' \/ \E r \in wnLoading' : r[1] = wnTab.wins[i].uid
  BY <1>2, <1>3, <1>4 DEF WnInv, NothingLeaks
<1>7. wnGone' = wnGone
  BY <1>3
<1> QED BY <1>3, <1>4, <1>5, <1>6, <1>7, RewrittenKeeps

LEMMA LoadKeeps == ASSUME WnInv, NEW preset \in Presets, LoadPreset(preset) PROVE WnInv'
<1> DEFINE at == wnTab.active
           w == OutOfGroup(wnTab.wins[at])
           wins == [wnTab.wins EXCEPT ![at] = w]
<1>0. TabFacts
  BY TabFactsHold
<1>1. at \in DOMAIN wnTab.wins /\ wnTab.wins[at] \in WindowType
  BY <1>0, ElementOfSeq DEF TabFacts
<1>2. w \in WindowType /\ w.uid = wnTab.wins[at].uid /\ w.preset = wnTab.wins[at].preset
  BY <1>1, OutOfGroupTyped
<1>3. /\ wnTab' = [wnTab EXCEPT !.wins = wins] /\ UNCHANGED <<wnHeld, wnGone, wnDeal, wnLate>>
      /\ wnLoading' = wnLoading \cup {<<ActiveUid(wnTab), preset, "style">>}
  BY DEF LoadPreset
<1> HIDE DEF at, w
<1>4. /\ wins \in Seq(WindowType) /\ Len(wins) = Len(wnTab.wins)
      /\ \A i \in DOMAIN wnTab.wins : wins[i].uid = wnTab.wins[i].uid /\ wins[i] = IF i = at THEN w ELSE wnTab.wins[i]
  BY <1>0, <1>1, <1>2, PutAt
<1> HIDE DEF wins
<1>5. LoadingOK' /\ wnHeld' \subseteq UidsOf(wnTab.wins) \cup wnLate'
  <2>1. ActiveUid(wnTab) \in Nat
    BY <1>0, ActiveIsThere DEF TabFacts
  <2> QED BY <1>3, <2>1 DEF WnInv, LoadingOK, NothingLeaks
<1>6. \A i \in DOMAIN wnTab.wins :
          wins[i].preset # Empty => wnTab.wins[i].uid \in wnHeld' \/ \E r \in wnLoading' : r[1] = wnTab.wins[i].uid
  BY <1>2, <1>3, <1>4 DEF WnInv, NothingLeaks
<1>7. wnGone' = wnGone
  BY <1>3
<1> QED BY <1>3, <1>4, <1>5, <1>6, <1>7, RewrittenKeeps

LEMMA MapReadyKeeps == ASSUME WnInv, NEW r \in wnLoading, MapReady(r) PROVE WnInv'
<1> DEFINE at == PlaceOf(wnTab.wins, r[1])
           w == [WindowOf(wnTab, r[1]) EXCEPT !.preset = r[2]]
           live == r[1] \in UidsOf(wnTab.wins)
           wins == IF live THEN [wnTab.wins EXCEPT ![at] = w] ELSE wnTab.wins
           now == <<r[1], r[2], "data">>
<1>0. TabFacts /\ r[1] \in Nat /\ r[2] \in Presets /\ now \in Nat \X Presets \X {"style", "data"} /\ now[1] = r[1]
  BY TabFactsHold DEF WnInv, LoadingOK
<1>3. /\ wnTab' = [wnTab EXCEPT !.wins = wins] /\ UNCHANGED <<wnHeld, wnGone, wnDeal, wnLate>>
      /\ wnLoading' = (wnLoading \ {r}) \cup {now}
  <2>1. live => wnTab' = [wnTab EXCEPT !.wins = [wnTab.wins EXCEPT ![at] = w]]
    BY DEF MapReady
  <2>2. ~live => wnTab' = [wnTab EXCEPT !.wins = wnTab.wins]
    BY <1>0 DEF MapReady, TabFacts, TabType
  <2> QED BY <2>1, <2>2 DEF MapReady
<1> HIDE DEF now
<1>4. /\ wins \in Seq(WindowType) /\ Len(wins) = Len(wnTab.wins)
      /\ \A i \in DOMAIN wnTab.wins : wins[i].uid = wnTab.wins[i].uid /\ (wins[i] = wnTab.wins[i] \/ wins[i].uid = r[1])
  <2>1. CASE live
    <3>1. at \in DOMAIN wnTab.wins /\ wnTab.wins[at].uid = r[1] /\ wnTab.wins[at] \in WindowType
          /\ WindowOf(wnTab, r[1]) = wnTab.wins[at]
      BY <1>0, <2>1, PlaceFound, ElementOfSeq DEF TabFacts, WindowOf
    <3>2. w \in WindowType /\ w.uid = wnTab.wins[at].uid
      BY <1>0, <3>1 DEF WindowType
    <3> HIDE DEF at, w
    <3>3. wins = [wnTab.wins EXCEPT ![at] = w]
      BY <2>1
    <3>4. /\ wins \in Seq(WindowType) /\ Len(wins) = Len(wnTab.wins)
          /\ \A i \in DOMAIN wnTab.wins : wins[i].uid = wnTab.wins[i].uid /\ wins[i] = IF i = at THEN w ELSE wnTab.wins[i]
      BY <1>0, <3>1, <3>2, <3>3, PutAt
    <3> HIDE DEF wins
    <3> QED BY <3>1, <3>2, <3>4
  <2>2. CASE ~live
    BY <1>0, <2>2 DEF TabFacts
  <2> QED BY <2>1, <2>2
<1> HIDE DEF wins
<1>5. LoadingOK' /\ wnHeld' \subseteq UidsOf(wnTab.wins) \cup wnLate'
  BY <1>0, <1>3 DEF WnInv, LoadingOK, NothingLeaks
<1>6. \A i \in DOMAIN wnTab.wins :
          wins[i].preset # Empty => wnTab.wins[i].uid \in wnHeld' \/ \E q \in wnLoading' : q[1] = wnTab.wins[i].uid
  <2>1. \A q \in wnLoading : \E s \in wnLoading' : s[1] = q[1]
    BY <1>0, <1>3
  <2>2. now \in wnLoading'
    BY <1>3
  <2> QED BY <1>0, <1>3, <1>4, <2>1, <2>2 DEF WnInv, NothingLeaks
<1>7. wnGone' = wnGone
  BY <1>3
<1> QED BY <1>3, <1>4, <1>5, <1>6, <1>7, RewrittenKeeps

LEMMA SelectKeeps == ASSUME WnInv, NEW mode \in AllocModes \cup {"none"}, SelectAutoAlloc(mode) PROVE WnInv'
<1>0. TabFacts
  BY TabFactsHold
<1>1. wnTab' = [wnTab EXCEPT !.mode = mode] /\ UNCHANGED <<wnHeld, wnGone, wnLoading, wnDeal, wnLate>>
  BY DEF SelectAutoAlloc, LoadsStay
<1>2. /\ wnTab' \in TabType /\ wnTab'.wins = wnTab.wins /\ wnTab'.active = wnTab.active /\ wnTab'.next = wnTab.next
  BY <1>0, <1>1 DEF TabType, TabFacts
<1> QED BY <1>1, <1>2 DEF WnInv, TabOK, LoadingOK, GoneOK, OwnIds, NothingLeaks

-----------------------------------------------------------------------------
(* What a change of the allocation and a deal leave.                       *)
\* handleCollapseContrastGroup.
LEMMA CollapseKeeps ==
    ASSUME WnInv, NEW promote, promote # Nobody => promote \in UidsOf(wnTab.wins), CollapseGroup(promote) PROVE WnInv'
<1> DEFINE left == [wnTab EXCEPT !.last = IF wnTab.layout # Single THEN wnTab.layout ELSE wnTab.last]
           lead == LeadOf(left, Nobody, promote)
           pruned == Pruned(left, 0, Nobody, promote)
           tab == [pruned EXCEPT !.layout = Single, !.mode = "none", !.preview = FALSE]
           given == IF promote = Nobody THEN {} ELSE {lead}
           held == IF promote = Nobody THEN {} ELSE Pictured(tab)
<1>0. TabFacts /\ TabOK(wnTab)
  BY TabFactsHold DEF WnInv
<1>1. Follows(wnTab, left, {}) /\ left.wins = wnTab.wins
  <2>1. left \in TabType /\ left.wins = wnTab.wins /\ left.next = wnTab.next /\ left.active = wnTab.active
    BY <1>0 DEF TabFacts, TabType
  <2> HIDE DEF left
  <2> QED BY <1>0, <2>1, FollowsAtOnce DEF TabFacts
<1>2. Becomes(tab, held) /\ wnLoading' = wnLoading /\ wnLate' = wnLate
  BY DEF CollapseGroup, LoadsStay
<1> HIDE DEF left
<1>3. TabOK(left) /\ promote \in UidsOf(left.wins) \cup {Nobody}
  BY <1>1 DEF Follows
<1>4. Follows(left, pruned, given) /\ (promote # Nobody => ActiveUid(pruned) = lead)
  BY <1>3, PrunedFollows
<1>5. Follows(wnTab, pruned, given)
  <2> HIDE DEF pruned, given
  <2> QED BY <1>0, <1>1, <1>4, FollowsIsTransitive
<1> HIDE DEF lead, pruned
<1>6. TabOK(pruned) /\ pruned \in TabType /\ pruned.active \in DOMAIN pruned.wins
  BY <1>5 DEF Follows, TabOK
<1>7. /\ tab \in TabType /\ tab.wins = pruned.wins /\ tab.next = pruned.next /\ tab.active = pruned.active
      /\ tab.layout = Single
  BY <1>6, WindowsAssumption DEF TabType
<1> HIDE DEF tab
<1>8. TabOK(tab)
  BY <1>6, <1>7, FollowsAtOnce DEF Follows
<1>9. promote # Nobody => ShownUids(tab) = {lead}
  <2>1. ActiveUid(tab) = ActiveUid(pruned)
    BY <1>7 DEF ActiveUid
  <2>2. promote # Nobody => VisibleUids(tab) = <<lead>>
    BY <1>4, <1>7, <2>1 DEF VisibleUids
  <2> QED BY <2>2 DEF ShownUids
<1>10. Kin(wnTab.wins, wnTab.next, tab.wins, held)
  <2> SUFFICES ASSUME NEW x \in MembersOf(tab.wins)
               PROVE  /\ x.uid \in UidsOf(wnTab.wins) \/ x.uid >= wnTab.next
                      /\ x.preset # Empty => x.uid \in held \/ \E v \in MembersOf(wnTab.wins) : v.uid = x.uid /\ v.preset # Empty
    BY DEF Kin
  <2>1. /\ x.uid \in UidsOf(wnTab.wins) \/ x.uid >= wnTab.next
        /\ x.preset # Empty => x.uid \in given \/ \E v \in MembersOf(wnTab.wins) : v.uid = x.uid /\ v.preset # Empty
    BY <1>5, <1>7 DEF Follows, Kin
  <2>2. WindowOf(tab, x.uid) = x
    BY <1>8, WindowTold DEF TabOK, TabType, WinsOK
  <2>3. x.preset # Empty /\ x.uid \in given => x.uid \in held
    BY <1>9, <2>2 DEF Pictured
  <2> QED BY <2>1, <2>3
<1>11. held \subseteq UidsOf(tab.wins)
  BY <1>8, VisibleAreThere DEF Pictured
<1>12. Follows(wnTab, tab, held)
  BY <1>5, <1>7, <1>8, <1>10 DEF Follows
<1> HIDE DEF held
<1> QED BY <1>2, <1>11, <1>12, BecomesKeeps

LEMMA AllocatingKeeps ==
    ASSUME WnInv, NEW tab, Follows(wnTab, tab, {}), NEW mode \in AllocModes \cup {"none"}, Allocating(tab, mode),
           wnLoading' = wnLoading, wnLate' = wnLate
    PROVE  WnInv'
<1> DEFINE base == BaseOf(tab)
           dealt == Dealt2(tab, mode, base)
           set == [tab EXCEPT !.mode = mode]
<1>0. TabOK(tab) /\ tab \in TabType /\ tab.active \in DOMAIN tab.wins /\ TabOK(wnTab)
  BY DEF Follows, TabOK, WnInv
<1>1. CASE mode = "model"
  <2>1. Becomes(set, {})
    BY <1>1 DEF Allocating
  <2>2. set \in TabType /\ set.wins = tab.wins /\ set.next = tab.next /\ set.active = tab.active
    BY <1>0 DEF TabType
  <2> HIDE DEF set
  <2>3. Follows(tab, set, {})
    BY <1>0, <2>2, FollowsAtOnce
  <2>4. Follows(wnTab, set, {})
    BY <1>0, <2>3, FollowsIsTransitive
  <2> QED BY <2>1, <2>4, BecomesKeeps
<1>2. CASE mode # "model"
  <2>1. Becomes(dealt, Pictured(dealt))
    BY <1>2 DEF Allocating
  <2>2. Follows(tab, dealt, Pictured(dealt)) /\ Pictured(dealt) \subseteq UidsOf(dealt.wins)
    <3> HIDE DEF base
    <3> QED BY <1>0, DealtFollows
  <2> HIDE DEF dealt
  <2>3. Follows(wnTab, dealt, Pictured(dealt))
    BY <1>0, <2>2, FollowsIsTransitive
  <2> QED BY <2>1, <2>2, <2>3, BecomesKeeps
<1> QED BY <1>1, <1>2

\* handleChangeLayout.
LEMMA ChangedKeeps ==
    ASSUME WnInv, NEW layout \in DOMAIN Layouts, NEW mode \in AllocModes \cup {"none", "kept"},
           ChangedTo(layout, mode), wnLoading' = wnLoading, wnLate' = wnLate
    PROVE  WnInv'
<1> DEFINE set == [wnTab EXCEPT !.preview = FALSE, !.mode = IF mode = "kept" THEN wnTab.mode ELSE mode,
                                !.last = IF wnTab.layout # Single /\ layout = Single THEN wnTab.layout ELSE wnTab.last]
<1>0. TabFacts /\ TabOK(wnTab)
  BY TabFactsHold DEF WnInv
<1>1. Follows(wnTab, set, {}) /\ TabOK(set)
  <2>1. set \in TabType /\ set.wins = wnTab.wins /\ set.next = wnTab.next /\ set.active = wnTab.active
    BY <1>0 DEF TabFacts, TabType
  <2> HIDE DEF set
  <2> QED BY <1>0, <2>1, FollowsAtOnce DEF TabFacts, Follows
<1>2. CASE layout = Single
  <2> DEFINE pruned == Pruned(set, 0, Nobody, Nobody)
             tab == [pruned EXCEPT !.layout = Single]
  <2>1. Becomes(tab, {})
    BY <1>2 DEF ChangedTo
  <2> HIDE DEF set
  <2>2. Follows(set, pruned, {})
    BY <1>1, PrunedFollows
  <2> HIDE DEF pruned
  <2>3. Follows(wnTab, pruned, {}) /\ TabOK(pruned)
    BY <1>0, <1>1, <2>2, FollowsIsTransitive DEF Follows
  <2>4. tab \in TabType /\ tab.wins = pruned.wins /\ tab.next = pruned.next /\ tab.active \in DOMAIN pruned.wins
    BY <2>3, WindowsAssumption DEF TabOK, TabType
  <2> HIDE DEF tab
  <2>5. Follows(pruned, tab, {})
    BY <2>3, <2>4, FollowsAtOnce
  <2>6. Follows(wnTab, tab, {})
    BY <1>0, <2>3, <2>5, FollowsIsTransitive
  <2> QED BY <2>1, <2>6, BecomesKeeps
<1>3. CASE layout # Single /\ set.mode = "none"
  <2> DEFINE tab == Resplit(set, layout)
  <2>1. Becomes(tab, {})
    BY <1>3 DEF ChangedTo
  <2> HIDE DEF set
  <2>2. Follows(set, tab, {})
    BY <1>1, ResplitFollows
  <2> HIDE DEF tab
  <2>3. Follows(wnTab, tab, {})
    BY <1>0, <1>1, <2>2, FollowsIsTransitive
  <2> QED BY <2>1, <2>3, BecomesKeeps
<1>4. CASE layout # Single /\ set.mode # "none"
  <2> DEFINE base == BaseOf(set)
             wasTab == set.layout = Single
             prepared == Prepared(set, Layouts[layout], base, wasTab, Layouts[set.layout])
             tab == [prepared EXCEPT !.layout = layout]
  <2>1. Allocating(tab, set.mode)
    BY <1>4 DEF ChangedTo
  <2> HIDE DEF set
  <2>2. Layouts[layout] \in Nat \ {0} /\ Layouts[set.layout] \in Nat /\ base \in UidsOf(set.wins)
        /\ set.mode \in AllocModes \cup {"none"}
    BY <1>1, BaseIsThere, WindowsAssumption DEF TabOK, TabType
  <2> HIDE DEF base, wasTab
  <2>3. Follows(set, prepared, {})
    BY <1>1, <2>2, PreparedFollows
  <2> HIDE DEF prepared
  <2>4. Follows(wnTab, prepared, {}) /\ TabOK(prepared)
    BY <1>0, <1>1, <2>3, FollowsIsTransitive DEF Follows
  <2>5. tab \in TabType /\ tab.wins = prepared.wins /\ tab.next = prepared.next /\ tab.active \in DOMAIN prepared.wins
    BY <2>4 DEF TabOK, TabType
  <2> HIDE DEF tab
  <2>6. Follows(prepared, tab, {})
    BY <2>4, <2>5, FollowsAtOnce
  <2>7. Follows(wnTab, tab, {})
    BY <1>0, <2>4, <2>6, FollowsIsTransitive
  <2> QED BY <2>1, <2>2, <2>7, AllocatingKeeps
<1> QED BY <1>2, <1>3, <1>4

LEMMA LevelsKeep == ASSUME WnInv, NEW base \in wnDeal, LevelListKnown(base) PROVE WnInv'
<1> DEFINE dealt == Dealt2(wnTab, "model", base)
<1>1. Becomes(dealt, Pictured(dealt)) /\ wnLoading' = wnLoading /\ wnLate' = wnLate
  BY DEF LevelListKnown
<1>2. Follows(wnTab, dealt, Pictured(dealt)) /\ Pictured(dealt) \subseteq UidsOf(dealt.wins)
  BY DealtFollows, WindowsAssumption DEF WnInv
<1> HIDE DEF dealt
<1> QED BY <1>1, <1>2, BecomesKeeps

\* toggleTabsAndSplit.
LEMMA ToggleKeeps == ASSUME WnInv, NEW uid \in UidsOf(wnTab.wins), TogglePreview(uid) PROVE WnInv'
<1> DEFINE tab == Focused(wnTab, uid)
           shown == [tab EXCEPT !.preview = ~tab.preview]
<1>0. TabFacts /\ TabOK(wnTab)
  BY TabFactsHold DEF WnInv
<1>1. wnLoading' = wnLoading /\ wnLate' = wnLate
  BY DEF TogglePreview
<1>2. PlaceOf(wnTab.wins, uid) \in DOMAIN wnTab.wins
  BY PlaceFound
<1>3. /\ tab \in TabType /\ tab.wins = wnTab.wins /\ tab.next = wnTab.next /\ tab.active \in DOMAIN wnTab.wins
      /\ tab.last \in DOMAIN Layouts
  BY <1>0, <1>2 DEF Focused, TabType, TabFacts
<1>4. CASE Becomes(shown, {})
  <2> HIDE DEF tab
  <2>1. /\ shown \in TabType /\ shown.wins = wnTab.wins /\ shown.next = wnTab.next /\ shown.active \in DOMAIN wnTab.wins
    BY <1>3 DEF TabType
  <2> HIDE DEF shown
  <2>2. Follows(wnTab, shown, {})
    BY <1>0, <2>1, FollowsAtOnce
  <2> QED BY <1>1, <1>4, <2>2, BecomesKeeps
<1>5. CASE ChangedTo(tab.last, "kept")
  <2> HIDE DEF tab
  <2> QED BY <1>1, <1>3, <1>5, ChangedKeeps
<1> QED BY <1>4, <1>5 DEF TogglePreview

\* The data of a preset is there.
LEMMA LoadedKeeps == ASSUME WnInv, NEW r \in wnLoading, PresetLoaded(r) PROVE WnInv'
<1> DEFINE deals == r[1] = ActiveUid(wnTab) /\ wnTab.mode # "none" /\ wnTab.layout # Single
           live == r[1] \in UidsOf(wnTab.wins)
           dealt == Dealt2(wnTab, wnTab.mode, BaseOf(wnTab))
           now == deals /\ wnTab.mode # "model"
           tab == IF now THEN dealt ELSE wnTab
           held == IF now THEN Pictured(dealt) ELSE {}
<1>0. TabFacts /\ TabOK(wnTab)
  BY TabFactsHold DEF WnInv
<1>1. /\ wnLoading' = wnLoading \ {r}
      /\ wnTab' = tab
      /\ wnHeld' = wnHeld \cup {r[1]} \cup held
      /\ wnLate' = IF live THEN wnLate ELSE wnLate \cup {r[1]}
      /\ wnGone' = wnGone
  BY DEF PresetLoaded
<1>2. Follows(wnTab, tab, held) /\ held \subseteq UidsOf(tab.wins) /\ UidsOf(tab.wins) = UidsOf(wnTab.wins)
  <2>1. CASE now
    <3>1. wnTab.mode \in AllocModes \cup {"none"}
      BY <1>0 DEF TabFacts, TabType
    <3>2. /\ Follows(wnTab, dealt, Pictured(dealt)) /\ Pictured(dealt) \subseteq UidsOf(dealt.wins)
          /\ UidsOf(dealt.wins) = UidsOf(wnTab.wins)
      BY <1>0, <3>1, DealtFollows
    <3> HIDE DEF dealt, now
    <3> QED BY <2>1, <3>2
  <2>2. CASE ~now
    <3> HIDE DEF now, dealt
    <3>1. Follows(wnTab, wnTab, {})
      BY <1>0, FollowsAtOnce DEF TabFacts
    <3> QED BY <2>2, <3>1
  <2> QED BY <2>1, <2>2
<1> HIDE DEF now, tab, held
<1>3. (wnHeld \cap UidsOf(tab.wins)) \cup held \subseteq wnHeld'
  BY <1>1
<1>4. wnHeld' \subseteq UidsOf(tab.wins) \cup wnLate'
  BY <1>1, <1>2 DEF WnInv, NothingLeaks
<1>5. LoadingOK' /\ \A q \in wnLoading : q \in wnLoading' \/ q[1] \in wnHeld'
  BY <1>1 DEF WnInv, LoadingOK
<1>6. wnGone' = wnGone \cup (UidsOf(wnTab.wins) \ UidsOf(tab.wins))
  BY <1>1, <1>2
<1> QED BY <1>1, <1>2, <1>3, <1>4, <1>5, <1>6, TurnsKeep

-----------------------------------------------------------------------------
(* Every step, and what follows.                                           *)
LEMMA WnInvStep == WnInv /\ [WnNext]_wnVars => WnInv'
<1> SUFFICES ASSUME WnInv, [WnNext]_wnVars PROVE WnInv'
  OBVIOUS
<1>1. ASSUME NEW i \in DOMAIN wnTab.wins, NEW uid, uid = wnTab.wins[i].uid,
             FocusOn(uid) \/ CloseWindow(uid) \/ PinWindow(uid) \/ TogglePreview(uid) \/ CollapseGroup(uid)
      PROVE  WnInv'
  <2>1. uid \in UidsOf(wnTab.wins)
    BY <1>1 DEF UidsOf
  <2> QED BY <1>1, <2>1, FocusOnKeeps, CloseWindowKeeps, PinKeeps, ToggleKeeps, CollapseKeeps
<1>2. ASSUME NEW from \in DOMAIN wnTab.wins, NEW p \in 1 .. Len(wnTab.wins) + 1, Reorder(from, p) PROVE WnInv'
  BY <1>2, ReorderKeeps
<1>3. CASE AddWindow \/ CollapseGroup(Nobody)
  BY <1>3, AddKeeps, CollapseKeeps
<1>4. ASSUME NEW mode \in AllocModes \cup {"none"}, SelectAutoAlloc(mode) PROVE WnInv'
  BY <1>4, SelectKeeps
<1>5. ASSUME NEW layout \in DOMAIN Layouts, NEW mode \in AllocModes \cup {"none", "kept"}, ChangeLayout(layout, mode)
      PROVE  WnInv'
  BY <1>5, ChangedKeeps DEF ChangeLayout
<1>6. ASSUME NEW base \in wnDeal, LevelListKnown(base) PROVE WnInv'
  BY <1>6, LevelsKeep, WindowsAssumption
<1>7. ASSUME NEW preset \in Presets, LoadPreset(preset) PROVE WnInv'
  BY <1>7, LoadKeeps
<1>8. ASSUME NEW r \in wnLoading, MapReady(r) \/ PresetLoaded(r) PROVE WnInv'
  BY <1>8, MapReadyKeeps, LoadedKeeps
<1>9. CASE UNCHANGED wnVars
  BY <1>9 DEF wnVars, WnInv, TabOK, LoadingOK, GoneOK, OwnIds, NothingLeaks
<1> QED BY <1>1, <1>2, <1>3, <1>4, <1>5, <1>6, <1>7, <1>8, <1>9 DEF WnNext

LEMMA WindowsFollow == WnInv => WindowsSound
BY DEF WnInv, WindowsSound

(* A window keeps an id no other window has or ever had, and its entries   *)
(* go with it, through every split, deal, prune, drag and load that comes  *)
(* in late, for any layouts, presets and modes and any number of windows   *)
(* (tabsCore.js; App.svelte, cleanupWindowResources).                      *)
THEOREM WindowsAreSound == WnSpec => []WindowsSound
BY WnInvInit, WnInvStep, WindowsFollow, PTL DEF WnSpec

-----------------------------------------------------------------------------
(* What a change of the windows leaves alone.                              *)
\* A window the operator loaded; it stays with what it shows, a pinned one with
\* its pin, but for the loaded windows `apart`.
ByHand(w) == w.auto = "no" /\ w.preset # Empty
Spares(wins, then, apart) ==
    \A w \in MembersOf(wins) :
        /\ w.pin => \E v \in MembersOf(then) : v.uid = w.uid /\ v.pin
        /\ ByHand(w) /\ w.uid \notin apart =>
              \E v \in MembersOf(then) : v.uid = w.uid /\ v.auto = "no" /\ v.preset = w.preset

LEMMA SparesAll == ASSUME NEW wins, NEW then, MembersOf(wins) \subseteq MembersOf(then), NEW apart PROVE Spares(wins, then, apart)
BY DEF Spares, ByHand

LEMMA SparesTwice ==
    ASSUME NEW a, NEW b, NEW c, NEW S, NEW T, NEW U, Spares(a, b, S), Spares(b, c, T), S \cup T \subseteq U
    PROVE  Spares(a, c, U)
<1> SUFFICES ASSUME NEW w \in MembersOf(a)
             PROVE  /\ w.pin => \E v \in MembersOf(c) : v.uid = w.uid /\ v.pin
                    /\ ByHand(w) /\ w.uid \notin U =>
                          \E v \in MembersOf(c) : v.uid = w.uid /\ v.auto = "no" /\ v.preset = w.preset
  BY DEF Spares
<1>1. ASSUME w.pin PROVE \E v \in MembersOf(c) : v.uid = w.uid /\ v.pin
  <2>1. PICK v \in MembersOf(b) : v.uid = w.uid /\ v.pin
    BY <1>1 DEF Spares
  <2> QED BY <2>1 DEF Spares
<1>2. ASSUME ByHand(w), w.uid \notin U
      PROVE  \E v \in MembersOf(c) : v.uid = w.uid /\ v.auto = "no" /\ v.preset = w.preset
  <2>1. PICK v \in MembersOf(b) : v.uid = w.uid /\ v.auto = "no" /\ v.preset = w.preset
    BY <1>2 DEF Spares
  <2>2. ByHand(v) /\ v.uid \notin T
    BY <1>2, <2>1 DEF ByHand
  <2> QED BY <2>1, <2>2 DEF Spares
<1> QED BY <1>1, <1>2

\* A window in the place of the one with its id.
LEMMA ReplacedStay ==
    ASSUME NEW wins, WinsOK(wins), NEW u \in UidsOf(wins), NEW w \in WindowType, w.uid = u
    PROVE  LET then == [wins EXCEPT ![PlaceOf(wins, u)] = w]
           IN  /\ w \in MembersOf(then)
               /\ \A x \in MembersOf(wins) : x.uid # u => x \in MembersOf(then)
               /\ \A x \in MembersOf(wins) : x.uid = u => x = wins[PlaceOf(wins, u)]
<1> DEFINE p == PlaceOf(wins, u)
           then == [wins EXCEPT ![p] = w]
<1>1. p \in DOMAIN wins /\ wins[p].uid = u
  BY PlaceFound
<1> HIDE DEF p
<1>2. DOMAIN then = DOMAIN wins /\ \A i \in DOMAIN wins : then[i] = IF i = p THEN w ELSE wins[i]
  OBVIOUS
<1> HIDE DEF then
<1>3. w \in MembersOf(then)
  BY <1>1, <1>2 DEF MembersOf
<1>4. ASSUME NEW i \in DOMAIN wins PROVE /\ wins[i].uid # u => wins[i] \in MembersOf(then)
                                         /\ wins[i].uid = u => wins[i] = wins[p]
  <2>1. wins[i].uid # u => i # p
    BY <1>1
  <2>2. wins[i].uid = u => i = p
    BY <1>1 DEF WinsOK, OwnUids
  <2> QED BY <1>2, <2>1, <2>2 DEF MembersOf
<1>5. \A x \in MembersOf(wins) : \E i \in DOMAIN wins : x = wins[i]
  BY DEF MembersOf
<1> QED BY <1>3, <1>4, <1>5 DEF then, p

\* A window taken out of its group in its place.
LEMMA OwnSpared ==
    ASSUME NEW tab, WinsOK(tab.wins), NEW u \in UidsOf(tab.wins)
    PROVE  Spares(tab.wins, [tab.wins EXCEPT ![PlaceOf(tab.wins, u)] = OutOfGroup(WindowOf(tab, u))], {})
<1> DEFINE old == WindowOf(tab, u)
           w == OutOfGroup(old)
           then == [tab.wins EXCEPT ![PlaceOf(tab.wins, u)] = w]
<1>1. old \in WindowType /\ old.uid = u /\ old = tab.wins[PlaceOf(tab.wins, u)]
  BY WindowFound DEF WinsOK, WindowOf
<1>2. w \in WindowType /\ w.uid = u /\ w.auto = "no" /\ w.preset = old.preset /\ w.pin = old.pin
  BY <1>1 DEF OutOfGroup, WindowType
<1> HIDE DEF w
<1>3. /\ w \in MembersOf(then)
      /\ \A x \in MembersOf(tab.wins) : x.uid # u => x \in MembersOf(then)
      /\ \A x \in MembersOf(tab.wins) : x.uid = u => x = old
  BY <1>1, <1>2, ReplacedStay
<1> HIDE DEF then, old
<1>4. Spares(tab.wins, then, {})
  BY <1>2, <1>3 DEF Spares, ByHand
<1> QED BY <1>4 DEF then, w, old

-----------------------------------------------------------------------------
(* Pruning spares all but the window that adopts another.                  *)
LEMMA AdoptedSpares ==
    ASSUME NEW tab, WinsOK(tab.wins), NEW lead \in UidsOf(tab.wins), NEW promote \in UidsOf(tab.wins) \cup {Nobody}
    PROVE  Spares(tab.wins, Adopted(tab, lead, promote), IF promote = Nobody THEN {} ELSE {lead})
<1>1. CASE promote \in {Nobody, lead}
  <2>1. Adopted(tab, lead, promote) = tab.wins
    BY <1>1 DEF Adopted
  <2> QED BY <2>1, SparesAll
<1>2. CASE promote \notin {Nobody, lead}
  <2> DEFINE old == WindowOf(tab, lead)
             own == OutOfGroup(old)
             preset == WindowOf(tab, promote).preset
             w == IF preset = Empty THEN own ELSE [own EXCEPT !.preset = preset]
             then == [tab.wins EXCEPT ![PlaceOf(tab.wins, lead)] = w]
  <2>1. Adopted(tab, lead, promote) = then
    BY <1>2 DEF Adopted
  <2>2. old \in WindowType /\ old.uid = lead /\ old = tab.wins[PlaceOf(tab.wins, lead)]
    BY WindowFound DEF WinsOK, WindowOf
  <2>3. own \in WindowType /\ own.uid = lead /\ own.pin = old.pin
    BY <2>2 DEF OutOfGroup, WindowType
  <2>4. preset \in Presets \cup {Empty}
    BY <1>2, WindowFound DEF WinsOK, WindowType
  <2> HIDE DEF own, preset
  <2>5. w \in WindowType /\ w.uid = lead /\ w.pin = old.pin
    BY <2>3, <2>4 DEF WindowType
  <2> HIDE DEF w
  <2>6. /\ w \in MembersOf(then)
        /\ \A x \in MembersOf(tab.wins) : x.uid # lead => x \in MembersOf(then)
        /\ \A x \in MembersOf(tab.wins) : x.uid = lead => x = old
    BY <2>2, <2>5, ReplacedStay
  <2> HIDE DEF then, old
  <2>7. Spares(tab.wins, then, {lead})
    <3> SUFFICES ASSUME NEW x \in MembersOf(tab.wins)
                 PROVE  /\ x.pin => \E v \in MembersOf(then) : v.uid = x.uid /\ v.pin
                        /\ x.uid # lead => x \in MembersOf(then)
      BY DEF Spares, ByHand
    <3>1. CASE x.uid # lead
      BY <2>6, <3>1
    <3>2. CASE x.uid = lead
      BY <2>5, <2>6, <3>2
    <3> QED BY <3>1, <3>2
  <2> QED BY <1>2, <2>1, <2>7
<1> QED BY <1>1, <1>2

LEMMA SurvivorsSpare ==
    ASSUME NEW wins, WinsOK(wins), NEW keep, NEW lead, NEW group
    PROVE  Spares(wins, Survivors(wins, keep, lead, group), {})
<1> DEFINE left == Survivors(wins, keep, lead, group)
<1>1. PICK K \in SUBSET DOMAIN wins : left = OnlyAt(wins, K) /\ \A i \in DOMAIN wins : ~Ephemeral(wins[i]) => i \in K
  <2> DEFINE goes(w) == Ephemeral(w) /\ w.uid # lead
             ranked == {i \in DOMAIN wins : goes(wins[i]) /\ wins[i].parent \in {Nobody, group}}
             first == {i \in ranked : Cardinality({j \in ranked : j <= i}) <= keep}
             K == {i \in DOMAIN wins : ~goes(wins[i])} \cup first
  <2>1. left = OnlyAt(wins, K)
    BY DEF Survivors
  <2>2. K \in SUBSET DOMAIN wins /\ \A i \in DOMAIN wins : ~Ephemeral(wins[i]) => i \in K
    OBVIOUS
  <2> QED BY <2>1, <2>2
<1>2. MembersOf(left) = {wins[i] : i \in K}
  BY <1>1, PartListed
<1> HIDE DEF left
<1>3. \A w \in MembersOf(wins) : w.pin \/ ByHand(w) => w \in MembersOf(left)
  BY <1>1, <1>2 DEF MembersOf, Ephemeral, ByHand
<1> QED BY <1>3 DEF Spares, ByHand, left

LEMMA PrunedSpares ==
    ASSUME NEW tab, TabOK(tab), NEW keep, NEW target, NEW promote \in UidsOf(tab.wins) \cup {Nobody}
    PROVE  Spares(tab.wins, Pruned(tab, keep, target, promote).wins,
                  IF promote = Nobody THEN {} ELSE {LeadOf(tab, target, promote)})
<1> DEFINE lead == LeadOf(tab, target, promote)
           group == IF target # Nobody THEN target ELSE lead
           wins == Adopted(tab, lead, promote)
           left == Survivors(wins, keep, lead, group)
           apart == IF promote = Nobody THEN {} ELSE {lead}
<1>0. tab \in TabType /\ WinsOK(tab.wins) /\ tab.active \in DOMAIN tab.wins
  BY DEF TabOK, TabType, WinsOK
<1>1. lead \in UidsOf(tab.wins)
  BY <1>0, LeadIsThere
<1>2. Pruned(tab, keep, target, promote).wins = left
  <2>1. Pruned(tab, keep, target, promote) = PrunedTo(tab, keep, left, lead, promote)
    BY DEF Pruned, PrunedAround
  <2> HIDE DEF left, lead
  <2> QED BY <1>0, <2>1 DEF PrunedTo, TabType
<1> HIDE DEF lead
<1>3. WinsOK(wins) /\ Spares(tab.wins, wins, apart)
  BY <1>0, <1>1, AdoptedListed, AdoptedSpares
<1> HIDE DEF wins, group, apart
<1>4. Spares(wins, left, {})
  BY <1>3, SurvivorsSpare
<1> HIDE DEF left
<1>5. Spares(tab.wins, left, apart)
  BY <1>3, <1>4, SparesTwice
<1> QED BY <1>2, <1>5 DEF apart, lead

LEMMA GrownSpares ==
    ASSUME NEW tab, TabOK(tab), NEW win \in WindowType, NEW n \in Int
    PROVE  Spares(tab.wins, Grown(tab, win, n).wins, {})
<1>0. tab \in TabType /\ tab.wins \in Seq(WindowType) /\ tab.next \in Nat
  BY DEF TabOK, TabType
<1>1. CASE n <= 0
  <2>1. Grown(tab, win, n) = tab
    BY <1>1 DEF Grown
  <2> QED BY <2>1, SparesAll
<1>2. CASE ~(n <= 0)
  <2> DEFINE next == NextUid(tab)
             new == NewWindows(next, win, n)
             all == tab.wins \o new
  <2>1. Grown(tab, win, n).wins = all
    BY <1>0, <1>2 DEF Grown, TabType
  <2>2. next \in Nat /\ n \in Nat
    BY <1>0, <1>2, NextUidFound DEF TabOK
  <2>3. new \in Seq(WindowType)
    BY <2>2, NewWindowsListed DEF WinsOK
  <2> HIDE DEF new
  <2>4. \A i \in DOMAIN tab.wins : i \in DOMAIN all /\ all[i] = tab.wins[i]
    <3>1. /\ DOMAIN tab.wins = 1 .. Len(tab.wins) /\ DOMAIN all = 1 .. Len(tab.wins) + Len(new)
          /\ Len(tab.wins) \in Nat /\ Len(new) \in Nat
          /\ \A i \in 1 .. Len(tab.wins) + Len(new) : all[i] = IF i <= Len(tab.wins) THEN tab.wins[i] ELSE new[i - Len(tab.wins)]
      BY <1>0, <2>3, ConcatProperties
    <3> HIDE DEF all
    <3> QED BY <3>1
  <2> HIDE DEF all
  <2>5. MembersOf(tab.wins) \subseteq MembersOf(all)
    BY <2>4 DEF MembersOf
  <2> QED BY <2>1, <2>5, SparesAll
<1> QED BY <1>1, <1>2

LEMMA ResplitSpares ==
    ASSUME NEW tab, TabOK(tab), NEW layout \in DOMAIN Layouts
    PROVE  Spares(tab.wins, Resplit(tab, layout).wins, {})
<1> DEFINE base == BaseOf(tab)
           pruned == IF Layouts[tab.layout] > Layouts[layout]
                     THEN Pruned(tab, Layouts[layout] - 1, base, Nobody) ELSE tab
           n == Layouts[layout] - Len(pruned.wins)
           grown == Grown(pruned, DefaultWindow(0), n)
<1>0. tab \in TabType /\ tab.active \in DOMAIN tab.wins /\ Layouts[layout] \in Nat
  BY WindowsAssumption DEF TabOK
<1>1. TabOK(pruned) /\ Spares(tab.wins, pruned.wins, {})
  <2> DEFINE p == Pruned(tab, Layouts[layout] - 1, base, Nobody)
  <2>1. Spares(tab.wins, tab.wins, {})
    BY SparesAll
  <2>2. TabOK(p) /\ Spares(tab.wins, p.wins, {})
    <3> HIDE DEF base
    <3>1. Follows(tab, p, {})
      BY PrunedFollows
    <3>2. Spares(tab.wins, p.wins, {})
      BY PrunedSpares
    <3> QED BY <3>1, <3>2 DEF Follows
  <2> HIDE DEF p
  <2>3. pruned = IF Layouts[tab.layout] > Layouts[layout] THEN p ELSE tab
    BY DEF p
  <2> QED BY <2>1, <2>2, <2>3
<1> HIDE DEF pruned
<1>2. n \in Int
  BY <1>0, <1>1 DEF TabOK, TabType
<1> HIDE DEF n
<1>3. Spares(pruned.wins, grown.wins, {}) /\ TabOK(grown)
  BY <1>1, <1>2, DefaultIsTyped, GrownSpares, GrownFollows DEF DefaultTyped, Follows
<1> HIDE DEF grown
<1>4. Spares(tab.wins, grown.wins, {})
  BY <1>1, <1>3, SparesTwice
<1>5. Resplit(tab, layout).wins = grown.wins
  <2>1. Resplit(tab, layout) = [grown EXCEPT !.layout = layout]
    BY DEF Resplit, grown, n, pruned
  <2> QED BY <1>3, <2>1 DEF TabOK, TabType
<1> QED BY <1>4, <1>5

-----------------------------------------------------------------------------
(* What a split is filled with shows nothing, or is of a group.            *)
LEMMA FillersFree ==
    ASSUME NEW rest, WinsOK(rest), NEW preset, NEW base, NEW wasTab
    PROVE  \A w \in MembersOf(Fillers(rest, preset, base, wasTab)) : w \in MembersOf(rest) /\ ~ByHand(w)
<1> DEFINE same(w) == w.auto # "no" /\ w.preset # Empty /\ w.preset = preset
           mine(w) == (Ephemeral(w) /\ w.parent = base) \/ same(w)
           free(w) == Ephemeral(w) \/ same(w) \/ w.preset = Empty
           at == {i \in DOMAIN rest : mine(rest[i])}
           others == {i \in DOMAIN rest \ at : Ephemeral(rest[i])}
           empty == {i \in DOMAIN rest \ at : ~Ephemeral(rest[i]) /\ rest[i].preset = Empty}
           K == {i \in DOMAIN rest : free(rest[i])}
           fill == Fillers(rest, preset, base, wasTab)
<1>1. fill = IF wasTab THEN OnlyAt(rest, at) \o OnlyAt(rest, others) \o OnlyAt(rest, empty) ELSE OnlyAt(rest, K)
  BY DEF Fillers
<1>2. /\ at \in SUBSET DOMAIN rest /\ others \in SUBSET DOMAIN rest /\ empty \in SUBSET DOMAIN rest
      /\ at \cap others = {} /\ at \cap empty = {} /\ others \cap empty = {}
      /\ K \in SUBSET DOMAIN rest
  OBVIOUS
<1>3. \A i \in at \cup others \cup empty \cup K : ~ByHand(rest[i])
  BY DEF ByHand, Ephemeral
<1> HIDE DEF at, others, empty, K, fill
<1>4. ASSUME NEW L \in SUBSET DOMAIN rest
      PROVE  WinsOK(OnlyAt(rest, L)) /\ MembersOf(OnlyAt(rest, L)) = {rest[i] : i \in L}
  BY PartListed
<1>5. MembersOf(fill) \subseteq {rest[i] : i \in at \cup others \cup empty \cup K}
  <2>1. CASE wasTab
    <3>1. /\ UidsOf(OnlyAt(rest, at)) \cap UidsOf(OnlyAt(rest, others)) = {}
          /\ UidsOf(OnlyAt(rest, at)) \cap UidsOf(OnlyAt(rest, empty)) = {}
          /\ UidsOf(OnlyAt(rest, others)) \cap UidsOf(OnlyAt(rest, empty)) = {}
      BY <1>2, PartsApart
    <3>2. fill = OnlyAt(rest, at) \o OnlyAt(rest, others) \o OnlyAt(rest, empty)
      BY <1>1, <2>1
    <3>3. MembersOf(fill) = MembersOf(OnlyAt(rest, at)) \cup MembersOf(OnlyAt(rest, others)) \cup MembersOf(OnlyAt(rest, empty))
      BY <1>2, <1>4, <3>1, <3>2, ThreeJoined
    <3> QED BY <1>2, <1>4, <3>3
  <2>2. CASE ~wasTab
    BY <1>1, <1>2, <1>4, <2>2
  <2> QED BY <2>1, <2>2
<1>6. \A i \in at \cup others \cup empty \cup K : i \in DOMAIN rest
  BY <1>2
<1> QED BY <1>3, <1>5, <1>6 DEF MembersOf, fill

\* The windows of a group keep their pins.
LEMMA ContrastsPinned ==
    ASSUME NEW used, WinsOK(used), NEW base
    PROVE  \A w \in MembersOf(used) : w.pin =>
              \E v \in MembersOf([i \in DOMAIN used |-> AsContrast(used[i], base)]) : v.uid = w.uid /\ v.pin
<1> DEFINE group == [i \in DOMAIN used |-> AsContrast(used[i], base)]
<1>1. \A i \in DOMAIN used : used[i] \in WindowType
  BY ElementOfSeq DEF WinsOK
<1>2. \A w \in WindowType : w.pin => AsContrast(w, base).uid = w.uid /\ AsContrast(w, base).pin
  BY DEF AsContrast, WindowType
<1>3. DOMAIN group = DOMAIN used /\ \A i \in DOMAIN used : group[i] = AsContrast(used[i], base)
  OBVIOUS
<1> HIDE DEF group
<1>4. ASSUME NEW i \in DOMAIN used, used[i].pin
      PROVE  \E v \in MembersOf(group) : v.uid = used[i].uid /\ v.pin
  <2>1. group[i] \in MembersOf(group)
    BY <1>3 DEF MembersOf
  <2> QED BY <1>1, <1>2, <1>3, <1>4, <2>1
<1> QED BY <1>4 DEF MembersOf, group

\* The first windows of a list of lists.
LEMMA FrontListed ==
    ASSUME NEW a, NEW b, WinsOK(a), WinsOK(b), NEW i \in DOMAIN (a \o b), i <= Len(a)
    PROVE  (a \o b)[i].uid \in UidsOf(a)
<1>1. /\ a \in Seq(WindowType) /\ b \in Seq(WindowType)
      /\ DOMAIN a = 1 .. Len(a) /\ DOMAIN (a \o b) = 1 .. Len(a) + Len(b)
      /\ Len(a) \in Nat /\ Len(b) \in Nat
  BY ConcatProperties DEF WinsOK
<1>2. \A j \in 1 .. Len(a) + Len(b) : (a \o b)[j] = IF j <= Len(a) THEN a[j] ELSE b[j - Len(a)]
  BY <1>1, ConcatProperties
<1>3. i \in DOMAIN a /\ (a \o b)[i] = a[i]
  BY <1>1, <1>2
<1> QED BY <1>3 DEF UidsOf

LEMMA FilledSpares ==
    ASSUME NEW tab, TabOK(tab), NEW n \in Nat, NEW wins, WinsOK(wins), UidsOf(wins) = UidsOf(tab.wins),
           \A x \in MembersOf(wins) : \E v \in MembersOf(tab.wins) : v.uid = x.uid /\ v.preset = x.preset,
           NEW base \in UidsOf(wins), \A x \in MembersOf(wins) : x.uid = base => ~Ephemeral(x),
           NEW kept, WinsOK(kept), MembersOf(kept) \subseteq MembersOf(wins), Len(kept) <= n,
           NEW rest, rest = Without(wins, UidsOf(kept)),
           NEW fill, WinsOK(fill), \A w \in MembersOf(fill) : w \in MembersOf(rest) /\ ~ByHand(w)
    PROVE  LET then == FilledSplit(tab, n, base, wins, kept, rest, fill)
           IN  /\ Spares(wins, then.wins, {})
               /\ ActiveUid(then) = base /\ then.layout = tab.layout /\ then.preview = tab.preview
               /\ \A i \in DOMAIN then.wins : i <= n =>
                     \/ then.wins[i].uid \in UidsOf(kept) \cup UidsOf(fill)
                     \/ then.wins[i].uid \notin UidsOf(tab.wins)
<1> DEFINE k == Least(n - Len(kept), Len(fill))
           used == SubSeq(fill, 1, k)
           over == SubSeq(fill, Len(used) + 1, Len(fill))
           spare == OfNoGroup(over)
           busy == Without(rest, UidsOf(fill))
           more == n - Len(kept) - Len(used)
           next == NextUid(tab)
           new == NewWindows(next, AsContrast(DefaultWindow(0), base), more)
           group == [i \in DOMAIN used |-> AsContrast(used[i], base)]
           all == kept \o group \o new \o busy \o spare
           then == FilledSplit(tab, n, base, wins, kept, rest, fill)
<1>0. /\ tab \in TabType /\ tab.wins \in Seq(WindowType) /\ tab.next \in Nat
      /\ base \in Nat /\ Len(kept) \in Nat /\ Len(fill) \in Nat
      /\ \A u \in UidsOf(wins) : u \in Nat /\ u < tab.next
  <2>1. \A i \in DOMAIN tab.wins : tab.wins[i] \in WindowType
    BY ElementOfSeq DEF TabOK, TabType
  <2>2. \A u \in UidsOf(tab.wins) : u \in Nat /\ u < tab.next
    BY <2>1 DEF UidsOf, TabOK, Below, WindowType
  <2> QED BY <2>2 DEF TabOK, TabType, WinsOK
<1>1. then = [tab EXCEPT !.wins = all, !.active = PlaceOf(all, base), !.anchor = base,
                         !.next = IF more <= 0 THEN tab.next ELSE next + more]
  BY DEF FilledSplit
<1>2. base \in UidsOf(then.wins) /\ TabOK(then)
  <2>1. MembersOf(fill) \subseteq MembersOf(rest)
    OBVIOUS
  <2>2. Follows(tab, then, {}) /\ base \in UidsOf(then.wins)
    BY <2>1, FilledFollows
  <2> QED BY <2>2 DEF Follows
<1>3. then.wins = all /\ then.active = PlaceOf(all, base) /\ then.layout = tab.layout /\ then.preview = tab.preview
  <2> HIDE DEF all, then
  <2> QED BY <1>0, <1>1 DEF TabType
<1>4. ActiveUid(then) = base
  <2> HIDE DEF all, then
  <2> QED BY <1>2, <1>3, PlaceFound DEF ActiveUid
<1> HIDE DEF then
<1>5. k \in Nat /\ k <= Len(fill) /\ k <= n - Len(kept) /\ (k = Len(fill) \/ k = n - Len(kept))
  BY <1>0 DEF Least
<1> HIDE DEF k
<1>6. /\ Len(used) = k
      /\ WinsOK(used) /\ WinsOK(over) /\ Apart(used, over)
      /\ MembersOf(fill) = MembersOf(used) \cup MembersOf(over)
      /\ UidsOf(fill) = UidsOf(used) \cup UidsOf(over)
  BY <1>5, FillSplit
<1>7. more \in Nat /\ more = n - Len(kept) - k
  BY <1>0, <1>5, <1>6
<1> HIDE DEF used, over, more
<1>8. WinsOK(spare) /\ MembersOf(spare) = {w \in MembersOf(over) : ~Ephemeral(w)} /\ UidsOf(spare) \subseteq UidsOf(over)
  BY <1>6, OfNoGroupListed
<1>9. WinsOK(rest) /\ MembersOf(rest) = {w \in MembersOf(wins) : w.uid \notin UidsOf(kept)}
      /\ UidsOf(rest) = UidsOf(wins) \ UidsOf(kept)
  BY WithoutListed
<1>10. WinsOK(busy) /\ UidsOf(busy) = UidsOf(rest) \ UidsOf(fill)
       /\ MembersOf(busy) = {w \in MembersOf(rest) : w.uid \notin UidsOf(fill)}
  BY <1>9, WithoutListed
<1>11. WinsOK(group) /\ UidsOf(group) = UidsOf(used)
  BY <1>0, <1>6, ContrastsListed
<1>12. Len(group) = k
  <2>1. used \in Seq(WindowType)
    BY <1>6 DEF WinsOK
  <2>2. group \in [1 .. Len(used) -> {AsContrast(used[i], base) : i \in DOMAIN used}]
    BY <2>1
  <2> HIDE DEF group
  <2> QED BY <2>1, <2>2, <1>6
<1>13. \A w \in MembersOf(used) : w.pin => \E v \in MembersOf(group) : v.uid = w.uid /\ v.pin
  BY <1>6, ContrastsPinned
<1>14. next \in Nat /\ next >= tab.next
  BY <1>0, NextUidFound DEF TabOK
<1>15. WinsOK(new) /\ Len(new) = more /\ \A u \in UidsOf(new) : u \in Nat /\ u >= next
  <2>1. AsContrast(DefaultWindow(0), base) \in WindowType /\ AsContrast(DefaultWindow(0), base).preset = Empty
    BY <1>0 DEF AsContrast, DefaultWindow, WindowType
  <2>2. Len(new) = more
    <3> DEFINE win == AsContrast(DefaultWindow(0), base)
    <3>1. new = [j \in 1 .. more |-> [win EXCEPT !.uid = next + j - 1]]
      BY DEF NewWindows
    <3> HIDE DEF new, win
    <3> QED BY <3>1, <1>7
  <2> HIDE DEF next
  <2> QED BY <1>7, <1>14, <2>1, <2>2, NewWindowsListed
<1> HIDE DEF spare, busy, group, new, next
<1>16. UidsOf(kept) \subseteq UidsOf(wins) /\ UidsOf(fill) \subseteq UidsOf(rest)
  BY UidsOfMembers
<1>17. \A u \in UidsOf(wins) : u \notin UidsOf(new)
  BY <1>0, <1>14, <1>15
<1>18. /\ Apart(kept, group) /\ Apart(kept, new) /\ Apart(kept, busy) /\ Apart(kept, spare) /\ Apart(group, new)
       /\ Apart(group, busy) /\ Apart(group, spare) /\ Apart(new, busy) /\ Apart(new, spare) /\ Apart(busy, spare)
  BY <1>6, <1>8, <1>9, <1>10, <1>11, <1>16, <1>17 DEF Apart
<1>19. MembersOf(all) = MembersOf(kept) \cup MembersOf(group) \cup MembersOf(new) \cup MembersOf(busy) \cup MembersOf(spare)
  BY <1>6, <1>8, <1>10, <1>11, <1>15, <1>18, FiveJoined
<1>20. Spares(wins, all, {})
  <2> SUFFICES ASSUME NEW w \in MembersOf(wins)
               PROVE  /\ w.pin => \E v \in MembersOf(all) : v.uid = w.uid /\ v.pin
                      /\ ByHand(w) => w \in MembersOf(all)
    BY DEF Spares, ByHand
  <2>1. CASE w.uid \in UidsOf(kept)
    <3>1. PICK x \in MembersOf(kept) : x.uid = w.uid
      BY <2>1, UidsOfMembers
    <3>2. PICK i \in DOMAIN wins, j \in DOMAIN wins : wins[i] = w /\ wins[j] = x
      BY <3>1 DEF MembersOf
    <3>3. x = w
      BY <3>1, <3>2 DEF WinsOK, OwnUids
    <3> QED BY <1>19, <3>1, <3>3
  <2>2. CASE w.uid \notin UidsOf(kept) /\ w.uid \notin UidsOf(fill)
    <3>1. w \in MembersOf(busy)
      BY <1>9, <1>10, <2>2
    <3> QED BY <1>19, <3>1
  <2>3. CASE w.uid \in UidsOf(fill)
    <3>1. PICK x \in MembersOf(fill) : x.uid = w.uid
      BY <2>3, UidsOfMembers
    <3>2. x \in MembersOf(wins) /\ ~ByHand(x)
      BY <1>9, <3>1
    <3>3. PICK i \in DOMAIN wins, j \in DOMAIN wins : wins[i] = w /\ wins[j] = x
      BY <3>2 DEF MembersOf
    <3>4. x = w
      BY <3>1, <3>3 DEF WinsOK, OwnUids
    <3>5. w \in MembersOf(used) => (w.pin => \E v \in MembersOf(all) : v.uid = w.uid /\ v.pin)
      BY <1>13, <1>19
    <3>6. w \in MembersOf(over) /\ w.pin => w \in MembersOf(all)
      BY <1>8, <1>19 DEF Ephemeral
    <3> QED BY <1>6, <3>1, <3>2, <3>4, <3>5, <3>6
  <2> QED BY <2>1, <2>2, <2>3
<1>21. ASSUME NEW i \in DOMAIN all, i <= n
       PROVE  all[i].uid \in UidsOf(kept) \cup UidsOf(fill) \/ all[i].uid \notin UidsOf(tab.wins)
  <2> DEFINE front == kept \o group \o new
             back == busy \o spare
  <2>1. /\ WinsOK(front) /\ UidsOf(front) = UidsOf(kept) \cup UidsOf(group) \cup UidsOf(new)
    BY <1>11, <1>15, <1>18, ThreeJoined DEF Apart
  <2>2. WinsOK(back)
    BY <1>8, <1>10, <1>18, JoinListed DEF Apart
  <2>3. all = front \o back /\ Len(front) = n
    <3>1. kept \in Seq(WindowType) /\ group \in Seq(WindowType) /\ new \in Seq(WindowType) /\ busy \in Seq(WindowType) /\ spare \in Seq(WindowType)
      BY <1>8, <1>10, <1>11, <1>15 DEF WinsOK
    <3>2. all = front \o back
      <4> DEFINE f == kept \o group \o new
      <4>1. f \in Seq(WindowType)
        BY <3>1
      <4> HIDE DEF f
      <4>2. f \o busy \o spare = f \o (busy \o spare)
        BY <3>1, <4>1
      <4> QED BY <4>2 DEF f
    <3>3. Len(front) = Len(kept) + Len(group) + Len(new)
      BY <3>1
    <3> HIDE DEF front, all
    <3> QED BY <1>0, <1>5, <1>7, <1>12, <1>15, <3>2, <3>3
  <2> HIDE DEF front, back, all
  <2>4. all[i].uid \in UidsOf(front)
    BY <1>21, <2>1, <2>2, <2>3, FrontListed
  <2> QED BY <1>6, <1>11, <1>17, <2>1, <2>4
<1> HIDE DEF all
<1> QED BY <1>3, <1>4, <1>20, <1>21 DEF then

\* The split that is prepared spares every window; a window the operator loaded
\* is in front of it only if it is the base or was in the split before.
LEMMA PreparedSpares ==
    ASSUME NEW tab, TabOK(tab), NEW n \in Nat \ {0}, NEW base \in UidsOf(tab.wins), NEW wasTab, NEW shown \in Nat
    PROVE  LET then == Prepared(tab, n, base, wasTab, shown)
           IN  /\ Spares(tab.wins, then.wins, {})
               /\ ActiveUid(then) = base /\ then.layout = tab.layout /\ then.preview = tab.preview
               /\ \A w \in MembersOf(tab.wins), i \in DOMAIN then.wins :
                     ByHand(w) /\ i <= n /\ then.wins[i].uid = w.uid /\ w.uid # base =>
                        ~wasTab /\ \E j \in 1 .. Least(shown, Len(tab.wins)) : w.uid = tab.wins[j].uid
<1> DEFINE own == OutOfGroup(WindowOf(tab, base))
           wins == [tab.wins EXCEPT ![PlaceOf(tab.wins, base)] = own]
           kept == KeptInSplit(wins, n, base, wasTab, shown)
           rest == Without(wins, UidsOf(kept))
           preset == wins[PlaceOf(wins, base)].preset
           fill == Fillers(rest, preset, base, wasTab)
           then == FilledSplit(tab, n, base, wins, kept, rest, fill)
           k == Least(Least(shown, n), Len(wins))
<1>0. tab.wins \in Seq(WindowType) /\ WinsOK(tab.wins)
  BY DEF TabOK, TabType, WinsOK
<1>1. Prepared(tab, n, base, wasTab, shown) = then
  BY DEF Prepared, PreparedWith, PreparedFrom
<1>2. /\ WindowOf(tab, base) \in MembersOf(tab.wins) /\ WindowOf(tab, base) \in WindowType
      /\ WindowOf(tab, base).uid = base
  BY <1>0, WindowFound
<1>3. own \in WindowType /\ own.uid = base /\ own.preset = WindowOf(tab, base).preset /\ ~Ephemeral(own)
  BY <1>2, OutOfGroupTyped
<1>4. Spares(tab.wins, wins, {})
  BY <1>0, OwnSpared
<1> HIDE DEF own
<1>5. /\ WinsOK(wins) /\ UidsOf(wins) = UidsOf(tab.wins) /\ DOMAIN wins = DOMAIN tab.wins
      /\ \A x \in MembersOf(wins) : x = own \/ (x \in MembersOf(tab.wins) /\ x.uid # base)
  BY <1>0, <1>3, Replaced
<1>6. \A i \in DOMAIN wins : wins[i].uid = tab.wins[i].uid
  <2>1. \A i \in DOMAIN tab.wins : wins[i] = IF i = PlaceOf(tab.wins, base) THEN own ELSE tab.wins[i]
    OBVIOUS
  <2>2. tab.wins[PlaceOf(tab.wins, base)].uid = base
    BY PlaceFound
  <2> HIDE DEF wins
  <2> QED BY <1>3, <1>5, <2>1, <2>2
<1> HIDE DEF wins
<1>7. \A x \in MembersOf(wins) : \E v \in MembersOf(tab.wins) : v.uid = x.uid /\ v.preset = x.preset
  BY <1>2, <1>3, <1>5
<1>8. base \in UidsOf(wins) /\ \A x \in MembersOf(wins) : x.uid = base => ~Ephemeral(x)
  BY <1>3, <1>5
<1>9. WinsOK(kept) /\ MembersOf(kept) \subseteq MembersOf(wins) /\ Len(kept) <= n
  BY <1>5, <1>8, KeptListed
<1>10. ASSUME NEW u \in UidsOf(kept), u # base
       PROVE  ~wasTab /\ \E j \in 1 .. Least(shown, Len(tab.wins)) : u = tab.wins[j].uid
  <2>0. Len(wins) \in Nat /\ DOMAIN wins = 1 .. Len(wins) /\ Len(tab.wins) = Len(wins)
    <3>1. DOMAIN tab.wins = 1 .. Len(tab.wins) /\ Len(tab.wins) \in Nat
      BY <1>0
    <3>2. DOMAIN wins = 1 .. Len(wins) /\ Len(wins) \in Nat
      BY <1>5 DEF WinsOK
    <3> QED BY <1>5, <3>1, <3>2
  <2>1. CASE wasTab
    <3>1. kept = <<wins[PlaceOf(wins, base)]>>
      BY <2>1 DEF KeptInSplit
    <3>2. wins[PlaceOf(wins, base)].uid = base
      BY <1>8, PlaceFound
    <3>3. UidsOf(kept) = {base}
      BY <3>1, <3>2 DEF UidsOf
    <3> QED BY <1>10, <3>3
  <2>2. CASE ~wasTab
    <3>1. kept = SubSeq(wins, 1, k)
      BY <2>2 DEF KeptInSplit
    <3>2. k \in Nat /\ k <= Len(wins) /\ k <= Least(shown, Len(tab.wins))
      BY <2>0 DEF Least
    <3> HIDE DEF k
    <3>3. UidsOf(kept) = {wins[i].uid : i \in 1 .. k}
      <4>1. WinsOK(wins) /\ 1 \in Nat \ {0} /\ k \in Nat /\ k <= Len(wins)
        BY <1>5, <3>2
      <4>2. UidsOf(SubSeq(wins, 1, k)) = {wins[i].uid : i \in 1 .. k}
        BY ONLY <4>1, StretchListed
      <4> QED BY ONLY <3>1, <4>2
    <3>4. Least(shown, Len(tab.wins)) \in Nat
      BY <2>0 DEF Least
    <3>5. PICK i \in 1 .. k : u = wins[i].uid
      BY <1>10, <3>3
    <3>6. i \in 1 .. Least(shown, Len(tab.wins)) /\ i \in DOMAIN wins
      BY <2>0, <3>2, <3>4
    <3> QED BY <1>6, <2>2, <3>5, <3>6
  <2> QED BY <2>1, <2>2
<1> HIDE DEF kept
<1>11. WinsOK(rest) /\ MembersOf(rest) \subseteq MembersOf(wins)
  BY <1>5, WithoutListed
<1> HIDE DEF preset
<1>12. WinsOK(fill) /\ \A w \in MembersOf(fill) : w \in MembersOf(rest) /\ ~ByHand(w)
  <2> HIDE DEF rest
  <2> QED BY <1>11, FillersListed, FillersFree
<1> HIDE DEF fill
<1>13. /\ Spares(wins, then.wins, {})
       /\ ActiveUid(then) = base /\ then.layout = tab.layout /\ then.preview = tab.preview
       /\ \A i \in DOMAIN then.wins : i <= n =>
             \/ then.wins[i].uid \in UidsOf(kept) \cup UidsOf(fill)
             \/ then.wins[i].uid \notin UidsOf(tab.wins)
  BY <1>5, <1>7, <1>8, <1>9, <1>12, FilledSpares
<1> HIDE DEF then, rest
<1>14. Spares(tab.wins, then.wins, {})
  BY <1>4, <1>13, SparesTwice
<1>15. ASSUME NEW w \in MembersOf(tab.wins), ByHand(w), w.uid # base PROVE w.uid \notin UidsOf(fill)
  <2> SUFFICES ASSUME w.uid \in UidsOf(fill) PROVE FALSE
    OBVIOUS
  <2>1. PICK x \in MembersOf(fill) : x.uid = w.uid
    BY UidsOfMembers
  <2>2. x \in MembersOf(tab.wins) /\ ~ByHand(x)
    BY <1>3, <1>5, <1>11, <1>12, <1>15, <2>1
  <2>3. PICK i \in DOMAIN tab.wins, j \in DOMAIN tab.wins : tab.wins[i] = w /\ tab.wins[j] = x
    BY <2>2 DEF MembersOf
  <2>4. x = w
    BY <1>0, <2>1, <2>3 DEF WinsOK, OwnUids
  <2> QED BY <1>15, <2>2, <2>4
<1>16. \A w \in MembersOf(tab.wins) : w.uid \in UidsOf(tab.wins)
  BY UidsOfMembers
<1>17. ASSUME NEW w \in MembersOf(tab.wins), NEW i \in DOMAIN then.wins,
              ByHand(w), i <= n, then.wins[i].uid = w.uid, w.uid # base
       PROVE  ~wasTab /\ \E j \in 1 .. Least(shown, Len(tab.wins)) : w.uid = tab.wins[j].uid
  <2>1. w.uid \in UidsOf(kept)
    BY <1>13, <1>15, <1>16, <1>17
  <2> QED BY <1>10, <1>17, <2>1
<1> QED BY <1>1, <1>13, <1>14, <1>17

-----------------------------------------------------------------------------
(* A window of no group is its own initiator.                              *)
LEMMA TopOfOwn ==
    ASSUME NEW tab, WinsOK(tab.wins), NEW uid \in UidsOf(tab.wins), ~Ephemeral(WindowOf(tab, uid))
    PROVE  InitiatorOf(tab, uid) = uid
<1> DEFINE n == Len(tab.wins)
           x == [at |-> uid, seen |-> {}]
           climb == CHOOSE f : f = [k \in 0 .. n |-> IF k = 0 THEN x ELSE Climbed(tab, f[k - 1])]
           flat == [k \in 0 .. n |-> x]
           Solves(f) == f = [k \in 0 .. n |-> IF k = 0 THEN x ELSE Climbed(tab, f[k - 1])]
<1>1. n \in Nat
  BY DEF WinsOK
<1>2. Climbed(tab, x) = x
  BY DEF Climbed
<1>3. Solves(flat)
  <2> HIDE DEF n, x
  <2>1. \A k \in 0 .. n : flat[k] = x
    OBVIOUS
  <2>2. \A k \in 0 .. n : k # 0 => k - 1 \in 0 .. n
    BY <1>1
  <2>3. \A k \in 0 .. n : k # 0 => flat[k - 1] = x
    BY <2>1, <2>2
  <2> HIDE DEF flat
  <2>4. \A k \in 0 .. n : x = IF k = 0 THEN x ELSE Climbed(tab, flat[k - 1])
    BY <1>2, <2>3
  <2>5. [k \in 0 .. n |-> x] = [k \in 0 .. n |-> IF k = 0 THEN x ELSE Climbed(tab, flat[k - 1])]
    BY ONLY <2>4
  <2> QED BY ONLY <2>5 DEF flat, Solves
<1>4. Solves(climb)
  <2> HIDE DEF flat, n, x
  <2> QED BY ONLY <1>3 DEF Solves, climb
<1> DEFINE S == {k \in Nat : k <= n => climb[k] = x}
<1>5. S = Nat
  <2> HIDE DEF n, x, climb
  <2>1. 0 \in S
    BY <1>1, <1>4
  <2>2. ASSUME NEW k \in S PROVE k + 1 \in S
    <3>1. k + 1 <= n => climb[k + 1] = Climbed(tab, climb[k])
      BY <1>1, <1>4
    <3>2. k + 1 <= n => climb[k] = x
      BY <1>1
    <3> QED BY <1>2, <3>1, <3>2
  <2> HIDE DEF S
  <2>3. S \subseteq Nat
    BY DEF S
  <2> QED BY <2>1, <2>2, <2>3, SetInduction
<1>6. climb[n] = x
  <2> HIDE DEF n, x, climb
  <2> QED BY <1>1, <1>5
<1>7. TopOf(tab, uid) = climb[n].at
  BY DEF TopOf
<1>8. TopOf(tab, uid) = uid
  <2> HIDE DEF climb, n
  <2> QED BY <1>6, <1>7
<1> QED BY <1>8 DEF InitiatorOf

\* What is dealt out spares the windows that are not shown, and the initiator.
LEMMA DealtSpares ==
    ASSUME NEW tab, TabOK(tab), NEW mode, NEW base
    PROVE  LET from == IF base \in UidsOf(tab.wins) THEN base ELSE VisibleUids(tab)[1]
           IN  Spares(tab.wins, Dealt2(tab, mode, base).wins, ShownUids(tab) \ {InitiatorOf(tab, from)})
<1> DEFINE from == IF base \in UidsOf(tab.wins) THEN base ELSE VisibleUids(tab)[1]
           lead == InitiatorOf(tab, from)
           held == WindowOf(tab, lead).preset
           got(w) == IF held = Empty THEN w ELSE [w EXCEPT !.preset = held]
           deal(w) == IF w.uid \notin ShownUids(tab) THEN w
                      ELSE IF w.uid = lead THEN OutOfGroup(w)
                      ELSE IF w.pin THEN got(w) ELSE AsContrast(got(w), lead)
           wins == [i \in DOMAIN tab.wins |-> deal(tab.wins[i])]
<1>0. tab \in TabType /\ \A i \in DOMAIN tab.wins : tab.wins[i] \in WindowType
  BY ElementOfSeq DEF TabOK, TabType
<1>1. Dealt2(tab, mode, base).wins = wins
  <2>1. Dealt2(tab, mode, base) = [tab EXCEPT !.mode = mode, !.anchor = lead, !.wins = wins]
    BY DEF Dealt2
  <2> HIDE DEF lead, wins
  <2> QED BY <1>0, <2>1 DEF TabType
<1> HIDE DEF lead, held
<1>2. ASSUME NEW w \in WindowType
      PROVE  /\ w.pin => deal(w).uid = w.uid /\ deal(w).pin
             /\ ByHand(w) /\ w.uid \notin ShownUids(tab) \ {lead} =>
                   deal(w).uid = w.uid /\ deal(w).auto = "no" /\ deal(w).preset = w.preset
  <2>1. OutOfGroup(w).uid = w.uid /\ OutOfGroup(w).auto = "no" /\ OutOfGroup(w).preset = w.preset /\ OutOfGroup(w).pin = w.pin
    BY DEF OutOfGroup, WindowType
  <2>2. got(w).uid = w.uid /\ got(w).pin = w.pin
    BY DEF WindowType
  <2> HIDE DEF got
  <2>3. CASE w.uid \notin ShownUids(tab)
    <3>1. deal(w) = w
      BY <2>3
    <3> QED BY <3>1 DEF ByHand
  <2>4. CASE w.uid \in ShownUids(tab) /\ w.uid = lead
    <3>1. deal(w) = OutOfGroup(w)
      BY <2>4
    <3> HIDE DEF deal
    <3> QED BY <2>1, <3>1
  <2>5. CASE w.uid \in ShownUids(tab) /\ w.uid # lead
    <3>1. w.pin => deal(w) = got(w)
      BY <2>5
    <3> HIDE DEF deal
    <3> QED BY <2>2, <2>5, <3>1
  <2> QED BY <2>3, <2>4, <2>5
<1> HIDE DEF deal
<1>3. DOMAIN wins = DOMAIN tab.wins /\ \A i \in DOMAIN tab.wins : wins[i] = deal(tab.wins[i])
  OBVIOUS
<1> HIDE DEF wins
<1>4. \A i \in DOMAIN tab.wins : deal(tab.wins[i]) \in MembersOf(wins)
  BY <1>3 DEF MembersOf
<1>5. \A w \in MembersOf(tab.wins) : w \in WindowType /\ deal(w) \in MembersOf(wins)
  BY <1>0, <1>4 DEF MembersOf
<1>6. Spares(tab.wins, wins, ShownUids(tab) \ {lead})
  BY <1>2, <1>5 DEF Spares
<1> QED BY <1>1, <1>6 DEF lead

\* What a tab shows has a place in its split.
LEMMA SplitShows == ASSUME NEW tab, TabOK(tab) PROVE ShownUids(tab) \subseteq InSplit(tab)
<1> DEFINE n == Layouts[tab.layout]
           first(k) == [i \in 1 .. k |-> tab.wins[i].uid]
           v == VisibleUids(tab)
           m == Least(n, Len(tab.wins))
           U == {tab.wins[i].uid : i \in 1 .. m}
<1>1. n \in Nat \ {0} /\ Len(tab.wins) \in Nat /\ m \in Nat
  BY WindowsAssumption DEF TabOK, TabType, Least
<1>2. CASE tab.layout = Single \/ tab.preview
  <2>1. v = <<ActiveUid(tab)>>
    BY <1>2 DEF VisibleUids
  <2> QED BY <2>1 DEF ShownUids, InSplit
<1>3. CASE ~(tab.layout = Single \/ tab.preview)
  <2>1. InSplit(tab) = {ActiveUid(tab)} \cup U
    BY <1>3 DEF InSplit
  <2>2. ASSUME NEW k \in Nat, k <= m PROVE \A i \in DOMAIN first(k) : first(k)[i] \in U
    <3>1. \A i \in 1 .. k : i \in 1 .. m
      BY <1>1, <2>2
    <3> QED BY <3>1
  <2>3. CASE Len(tab.wins) <= n
    <3>1. v = first(Len(tab.wins)) /\ Len(tab.wins) <= m
      BY <1>1, <1>3, <2>3 DEF VisibleUids, Least
    <3> HIDE DEF first, m, v
    <3>2. \A i \in DOMAIN v : v[i] \in U
      BY <1>1, <2>2, <3>1
    <3> QED BY <2>1, <3>2 DEF ShownUids, v
  <2>4. CASE ~(Len(tab.wins) <= n) /\ tab.active <= n
    <3>1. v = first(n) /\ n <= m
      BY <1>1, <1>3, <2>4 DEF VisibleUids, Least
    <3> HIDE DEF first, m, v
    <3>2. \A i \in DOMAIN v : v[i] \in U
      BY <1>1, <2>2, <3>1
    <3> QED BY <2>1, <3>2 DEF ShownUids, v
  <2>5. CASE ~(Len(tab.wins) <= n) /\ ~(tab.active <= n)
    <3>1. v = <<ActiveUid(tab)>> \o first(n - 1) /\ n - 1 \in Nat /\ n - 1 <= m
      BY <1>1, <1>3, <2>5 DEF VisibleUids, Least
    <3>2. DOMAIN first(n - 1) = 1 .. n - 1
      OBVIOUS
    <3>3. first(n - 1) \in Seq(U) /\ Len(first(n - 1)) = n - 1
      <4>1. first(n - 1) \in [1 .. n - 1 -> U]
        <5>1. \A i \in 1 .. n - 1 : i \in 1 .. m
          BY <1>1, <3>1
        <5> QED BY <5>1
      <4>2. \A d \in Nat : \A f, B : f \in [1 .. d -> B] => f \in Seq(B) /\ Len(f) = d
        OBVIOUS
      <4> HIDE DEF first, U, n
      <4> QED BY <3>1, <4>1, <4>2
    <3> HIDE DEF first, m, v, U
    <3>4. v \in Seq({ActiveUid(tab)} \cup U)
      <4>1. <<ActiveUid(tab)>> \in Seq({ActiveUid(tab)} \cup U) /\ first(n - 1) \in Seq({ActiveUid(tab)} \cup U)
        BY <3>3
      <4> QED BY <3>1, <4>1
    <3>5. \A i \in DOMAIN v : v[i] \in {ActiveUid(tab)} \cup U
      BY <3>4, ElementOfSeq
    <3> QED BY <2>1, <3>5 DEF ShownUids, v
  <2> QED BY <2>3, <2>4, <2>5
<1> QED BY <1>2, <1>3

-----------------------------------------------------------------------------
(* A loaded window outside the split stays: one lemma for each action.     *)
\* What may happen to a window at the operator's will.
Excused(u) ==
    \/ CloseWindow(u)
    \/ ActiveUid(wnTab') = u /\ CollapseGroup(ActiveUid(wnTab))
    \/ \E r \in wnLoading : r[1] = u /\ MapReady(r)

\* What a step spares stays, but for what is in the split or excused.
LEMMA SparedStay ==
    ASSUME WnInv, WnInv', NEW S, Spares(wnTab.wins, wnTab'.wins, S),
           \A w \in MembersOf(wnTab.wins) : ByHand(w) /\ w.uid \in S => w.uid \in InSplit(wnTab) \/ Excused(w.uid)
    PROVE  BusyStays
<1> SUFFICES ASSUME NEW i \in DOMAIN wnTab.wins
             PROVE  LET w == wnTab.wins[i]
                        busy == w.auto = "no" /\ w.preset # Empty /\ w.uid \notin InSplit(wnTab)
                    IN  busy \/ w.pin =>
                          \/ /\ w.uid \in UidsOf(wnTab'.wins)
                             /\ busy => WindowOf(wnTab', w.uid).preset = w.preset
                          \/ Excused(w.uid)
  BY DEF BusyStays, Spared, Excused
<1> DEFINE w == wnTab.wins[i]
           busy == w.auto = "no" /\ w.preset # Empty /\ w.uid \notin InSplit(wnTab)
<1>1. w \in MembersOf(wnTab.wins)
  BY DEF MembersOf
<1>2. WinsOK(wnTab'.wins)
  BY DEF WnInv, TabOK, TabType, WinsOK
<1> HIDE DEF w
<1>3. CASE busy /\ ~Excused(w.uid)
  <2>1. ByHand(w) /\ w.uid \notin S
    BY <1>1, <1>3 DEF ByHand
  <2>2. PICK v \in MembersOf(wnTab'.wins) : v.uid = w.uid /\ v.auto = "no" /\ v.preset = w.preset
    BY <1>1, <2>1 DEF Spares
  <2>3. WindowOf(wnTab', w.uid) = v /\ w.uid \in UidsOf(wnTab'.wins)
    BY <1>2, <2>2, WindowTold
  <2> QED BY <2>2, <2>3 DEF w
<1>4. CASE ~busy /\ w.pin
  <2>1. PICK v \in MembersOf(wnTab'.wins) : v.uid = w.uid
    BY <1>1, <1>4 DEF Spares
  <2> QED BY <1>4, <2>1, UidsOfMembers DEF w
<1> QED BY <1>3, <1>4 DEF w

\* A step that changes one window leaves the others.
LEMMA OthersSpared ==
    ASSUME WnInv, WnInv', NEW u, Excused(u),
           \A w \in MembersOf(wnTab.wins) : w.uid # u => w \in MembersOf(wnTab'.wins)
    PROVE  BusyStays
<1> SUFFICES ASSUME NEW i \in DOMAIN wnTab.wins
             PROVE  LET w == wnTab.wins[i]
                        busy == w.auto = "no" /\ w.preset # Empty /\ w.uid \notin InSplit(wnTab)
                    IN  busy \/ w.pin =>
                          \/ /\ w.uid \in UidsOf(wnTab'.wins)
                             /\ busy => WindowOf(wnTab', w.uid).preset = w.preset
                          \/ Excused(w.uid)
  BY DEF BusyStays, Spared, Excused
<1> DEFINE w == wnTab.wins[i]
<1>1. w \in MembersOf(wnTab.wins)
  BY DEF MembersOf
<1>2. WinsOK(wnTab'.wins)
  BY DEF WnInv, TabOK, TabType, WinsOK
<1> HIDE DEF w
<1>3. CASE w.uid = u
  BY <1>3 DEF w
<1>4. CASE w.uid # u
  <2>1. WindowOf(wnTab', w.uid) = w /\ w.uid \in UidsOf(wnTab'.wins)
    BY <1>1, <1>2, <1>4, WindowTold
  <2> QED BY <2>1 DEF w
<1> QED BY <1>3, <1>4

LEMMA CloseSpares == ASSUME WnInv, WnInv', NEW uid \in UidsOf(wnTab.wins), CloseWindow(uid) PROVE BusyStays
<1> DEFINE left == Without(wnTab.wins, {uid})
<1>0. TabFacts
  BY TabFactsHold
<1>1. wnTab'.wins = left
  <2> DEFINE at == PlaceOf(wnTab.wins, uid)
             active == IF at = wnTab.active THEN IF at <= Len(left) THEN at ELSE Len(left)
                       ELSE PlaceOf(left, ActiveUid(wnTab))
             layout == IF Len(left) <= 1 THEN Single ELSE wnTab.layout
  <2>1. wnTab' = [wnTab EXCEPT !.wins = left, !.active = active, !.layout = layout]
    BY DEF CloseWindow, Becomes
  <2> HIDE DEF left, active, layout
  <2> QED BY <1>0, <2>1 DEF TabFacts, TabType
<1>2. MembersOf(left) = {w \in MembersOf(wnTab.wins) : w.uid \notin {uid}}
  BY <1>0, WithoutListed DEF TabFacts
<1> HIDE DEF left
<1>3. Excused(uid)
  BY DEF Excused
<1> QED BY <1>1, <1>2, <1>3, OthersSpared

LEMMA ReorderSpares ==
    ASSUME WnInv, WnInv', NEW from \in DOMAIN wnTab.wins, NEW p \in 1 .. Len(wnTab.wins) + 1, Reorder(from, p) PROVE BusyStays
<1> DEFINE to == IF from < p THEN p - 1 ELSE p
           wins == Dragged(wnTab.wins, from, to)
<1>0. TabFacts
  BY TabFactsHold
<1>1. wnTab'.wins = wins
  <2> DEFINE active == PlaceOf(wins, ActiveUid(wnTab))
  <2>1. wnTab' = [wnTab EXCEPT !.wins = wins, !.active = active]
    BY DEF Reorder, Becomes
  <2> HIDE DEF wins, active
  <2> QED BY <1>0, <2>1 DEF TabFacts, TabType
<1>2. to \in DOMAIN wnTab.wins
  <2>1. from \in 1 .. Len(wnTab.wins) /\ Len(wnTab.wins) \in Nat
    BY <1>0 DEF TabFacts
  <2>2. to \in 1 .. Len(wnTab.wins)
    <3>1. to # from
      BY DEF Reorder
    <3> QED BY <2>1
  <2> QED BY <1>0, <2>2 DEF TabFacts
<1> HIDE DEF to
<1>3. MembersOf(wins) = MembersOf(wnTab.wins)
  BY <1>0, <1>2, DraggedListed DEF TabFacts
<1> HIDE DEF wins
<1>4. Spares(wnTab.wins, wnTab'.wins, {})
  BY <1>1, <1>3, SparesAll
<1> QED BY <1>4, SparedStay

\* The steps that leave the windows as they are, and those that add one.
LEMMA QuietSpares == ASSUME WnInv, WnInv', wnTab'.wins = wnTab.wins PROVE BusyStays
<1>1. Spares(wnTab.wins, wnTab'.wins, {})
  BY SparesAll
<1> QED BY <1>1, SparedStay

LEMMA FocusSpares == ASSUME WnInv, WnInv', NEW uid, FocusOn(uid) PROVE BusyStays
<1>1. wnTab' = [wnTab EXCEPT !.active = PlaceOf(wnTab.wins, uid)]
  BY DEF FocusOn, Becomes, Focused
<1>2. wnTab'.wins = wnTab.wins
  BY <1>1, TabFactsHold DEF TabFacts, TabType
<1> QED BY <1>2, QuietSpares

LEMMA SelectSpares == ASSUME WnInv, WnInv', NEW mode, SelectAutoAlloc(mode) PROVE BusyStays
<1>1. wnTab' = [wnTab EXCEPT !.mode = mode]
  BY DEF SelectAutoAlloc
<1>2. wnTab'.wins = wnTab.wins
  BY <1>1, TabFactsHold DEF TabFacts, TabType
<1> QED BY <1>2, QuietSpares

LEMMA AddSpares == ASSUME WnInv, WnInv', AddWindow PROVE BusyStays
<1> DEFINE grown == Grown(wnTab, DefaultWindow(0), 1)
<1>1. wnTab' = [grown EXCEPT !.active = Len(grown.wins)]
  BY DEF AddWindow, Becomes
<1>2. Spares(wnTab.wins, grown.wins, {}) /\ TabOK(grown)
  BY DefaultIsTyped, GrownSpares, GrownFollows DEF DefaultTyped, WnInv, Follows
<1> HIDE DEF grown
<1>3. wnTab'.wins = grown.wins
  BY <1>1, <1>2 DEF TabOK, TabType
<1> QED BY <1>2, <1>3, SparedStay

LEMMA PinSpares == ASSUME WnInv, WnInv', NEW uid \in UidsOf(wnTab.wins), PinWindow(uid) PROVE BusyStays
<1> DEFINE at == PlaceOf(wnTab.wins, uid)
           w == [OutOfGroup(wnTab.wins[at]) EXCEPT !.pin = TRUE]
           wins == [wnTab.wins EXCEPT ![at] = w]
<1>0. TabFacts
  BY TabFactsHold
<1>1. at \in DOMAIN wnTab.wins /\ wnTab.wins[at] \in WindowType /\ wnTab.wins[at].uid = uid
  BY <1>0, PlaceFound, ElementOfSeq DEF TabFacts
<1>2. Ephemeral(wnTab.wins[at]) /\ wnTab' = [wnTab EXCEPT !.wins = wins]
  BY DEF PinWindow
<1>3. w \in WindowType /\ w.uid = uid
  <2>1. OutOfGroup(wnTab.wins[at]) \in WindowType /\ OutOfGroup(wnTab.wins[at]).uid = uid
    BY <1>1, OutOfGroupTyped
  <2> QED BY <2>1 DEF WindowType
<1> HIDE DEF w
<1>4. /\ \A x \in MembersOf(wnTab.wins) : x.uid # uid => x \in MembersOf(wins)
      /\ \A x \in MembersOf(wnTab.wins) : x.uid = uid => x = wnTab.wins[at]
  BY <1>0, <1>3, ReplacedStay DEF TabFacts
<1> HIDE DEF wins, at
<1>5. Spares(wnTab.wins, wins, {})
  BY <1>2, <1>4 DEF Spares, ByHand, Ephemeral
<1>6. wnTab'.wins = wins
  BY <1>0, <1>2 DEF TabFacts, TabType
<1> QED BY <1>5, <1>6, SparedStay

LEMMA LoadSpares == ASSUME WnInv, WnInv', NEW preset, LoadPreset(preset) PROVE BusyStays
<1> DEFINE u == ActiveUid(wnTab)
           wins == [wnTab.wins EXCEPT ![PlaceOf(wnTab.wins, u)] = OutOfGroup(WindowOf(wnTab, u))]
<1>0. TabFacts
  BY TabFactsHold
<1>1. u \in UidsOf(wnTab.wins) /\ u = wnTab.wins[wnTab.active].uid
  BY <1>0, ActiveIsThere DEF TabFacts, ActiveUid
<1> HIDE DEF u
<1>2. PlaceOf(wnTab.wins, u) = wnTab.active
  BY <1>0, <1>1, PlaceFound DEF TabFacts, WinsOK, OwnUids
<1>3. wnTab' = [wnTab EXCEPT !.wins = wins]
  BY <1>2 DEF LoadPreset, WindowOf
<1>4. Spares(wnTab.wins, wins, {})
  BY <1>0, <1>1, OwnSpared DEF TabFacts
<1> HIDE DEF wins
<1>5. wnTab'.wins = wins
  BY <1>0, <1>3 DEF TabFacts, TabType
<1> QED BY <1>4, <1>5, SparedStay

LEMMA MapReadySpares == ASSUME WnInv, WnInv', NEW r \in wnLoading, MapReady(r) PROVE BusyStays
<1> DEFINE w == [WindowOf(wnTab, r[1]) EXCEPT !.preset = r[2]]
           wins == [wnTab.wins EXCEPT ![PlaceOf(wnTab.wins, r[1])] = w]
<1>0. TabFacts /\ r[2] \in Presets
  BY TabFactsHold DEF WnInv, LoadingOK
<1>1. CASE r[1] \notin UidsOf(wnTab.wins)
  <2>1. wnTab' = wnTab
    BY <1>1 DEF MapReady
  <2> QED BY <2>1, QuietSpares
<1>2. CASE r[1] \in UidsOf(wnTab.wins)
  <2>1. wnTab' = [wnTab EXCEPT !.wins = wins]
    BY <1>2 DEF MapReady
  <2>2. w \in WindowType /\ w.uid = r[1]
    <3>1. WindowOf(wnTab, r[1]) \in WindowType /\ WindowOf(wnTab, r[1]).uid = r[1]
      BY <1>0, <1>2, WindowFound DEF TabFacts
    <3> QED BY <1>0, <3>1 DEF WindowType
  <2> HIDE DEF w
  <2>3. \A x \in MembersOf(wnTab.wins) : x.uid # r[1] => x \in MembersOf(wins)
    BY <1>0, <1>2, <2>2, ReplacedStay DEF TabFacts
  <2> HIDE DEF wins
  <2>4. wnTab'.wins = wins
    BY <1>0, <2>1 DEF TabFacts, TabType
  <2>5. Excused(r[1])
    BY DEF Excused
  <2> QED BY <2>3, <2>4, <2>5, OthersSpared
<1> QED BY <1>1, <1>2

LEMMA CollapseSpares ==
    ASSUME WnInv, WnInv', NEW promote, promote # Nobody => promote \in UidsOf(wnTab.wins), CollapseGroup(promote)
    PROVE  BusyStays
<1> DEFINE left == [wnTab EXCEPT !.last = IF wnTab.layout # Single THEN wnTab.layout ELSE wnTab.last]
           lead == LeadOf(left, Nobody, promote)
           pruned == Pruned(left, 0, Nobody, promote)
           tab == [pruned EXCEPT !.layout = Single, !.mode = "none", !.preview = FALSE]
           apart == IF promote = Nobody THEN {} ELSE {lead}
<1>0. TabFacts /\ TabOK(wnTab)
  BY TabFactsHold DEF WnInv
<1>1. Follows(wnTab, left, {}) /\ left.wins = wnTab.wins
  <2>1. left \in TabType /\ left.wins = wnTab.wins /\ left.next = wnTab.next /\ left.active = wnTab.active
    BY <1>0 DEF TabFacts, TabType
  <2> HIDE DEF left
  <2> QED BY <1>0, <2>1, FollowsAtOnce DEF TabFacts
<1>2. wnTab' = tab
  BY DEF CollapseGroup, Becomes
<1>3. promote # Nobody => promote = ActiveUid(wnTab)
  BY DEF CollapseGroup
<1> HIDE DEF left
<1>4. TabOK(left) /\ promote \in UidsOf(left.wins) \cup {Nobody}
  BY <1>1 DEF Follows
<1>5. /\ Spares(left.wins, pruned.wins, apart)
      /\ promote # Nobody => ActiveUid(pruned) = lead
      /\ TabOK(pruned)
  BY <1>4, PrunedSpares, PrunedFollows DEF Follows
<1> HIDE DEF pruned
<1>6. wnTab'.wins = pruned.wins /\ ActiveUid(wnTab') = ActiveUid(pruned)
  <2>1. wnTab'.wins = pruned.wins /\ wnTab'.active = pruned.active
    BY <1>2, <1>5 DEF TabOK, TabType
  <2> QED BY <2>1 DEF ActiveUid
<1> HIDE DEF lead
<1>7. \A u \in apart : Excused(u)
  <2> SUFFICES ASSUME promote # Nobody PROVE Excused(lead)
    OBVIOUS
  <2> QED BY <1>3, <1>5, <1>6 DEF Excused
<1> HIDE DEF apart
<1> QED BY <1>1, <1>5, <1>6, <1>7, SparedStay

\* What is dealt out in the split there is.
LEMMA DealSpares ==
    ASSUME WnInv, WnInv', NEW mode, NEW base, wnTab'.wins = Dealt2(wnTab, mode, base).wins
    PROVE  BusyStays
<1> DEFINE S == ShownUids(wnTab) \ {InitiatorOf(wnTab, IF base \in UidsOf(wnTab.wins) THEN base ELSE VisibleUids(wnTab)[1])}
<1>1. Spares(wnTab.wins, Dealt2(wnTab, mode, base).wins, S)
  BY DealtSpares DEF WnInv
<1>2. \A u \in S : u \in InSplit(wnTab)
  BY SplitShows DEF WnInv
<1> HIDE DEF S
<1> QED BY <1>1, <1>2, SparedStay

LEMMA LevelsSpare == ASSUME WnInv, WnInv', NEW base, LevelListKnown(base) PROVE BusyStays
<1>1. wnTab' = Dealt2(wnTab, "model", base)
  BY DEF LevelListKnown, Becomes
<1> QED BY <1>1, DealSpares

LEMMA PresetSpares == ASSUME WnInv, WnInv', NEW r, PresetLoaded(r) PROVE BusyStays
<1>1. wnTab' = wnTab \/ wnTab' = Dealt2(wnTab, wnTab.mode, BaseOf(wnTab))
  BY DEF PresetLoaded
<1> QED BY <1>1, DealSpares, QuietSpares

\* What is dealt out in a split that was just prepared from base: what is shown
\* is base, its initiator, and what was in the split before.
LEMMA PreparedStay ==
    ASSUME WnInv, WnInv', NEW set, TabOK(set), set.wins = wnTab.wins, set.active = wnTab.active,
           set.layout = wnTab.layout, NEW layout \in DOMAIN Layouts, set.mode \in AllocModes \cup {"none"},
           Allocating([Prepared(set, Layouts[layout], BaseOf(set), set.layout = Single, Layouts[set.layout])
                          EXCEPT !.layout = layout], set.mode)
    PROVE  BusyStays
<1> DEFINE base == BaseOf(set)
           n == Layouts[layout]
           wasTab == set.layout = Single
           shown == Layouts[set.layout]
           prepared == Prepared(set, n, base, wasTab, shown)
           tab == [prepared EXCEPT !.layout = layout]
           dealt == Dealt2(tab, set.mode, BaseOf(tab))
<1>0. TabFacts /\ set \in TabType /\ WinsOK(set.wins) /\ set.active \in DOMAIN set.wins
  BY TabFactsHold DEF TabOK, TabType, WinsOK
<1>1. n \in Nat \ {0} /\ shown \in Nat /\ base \in UidsOf(set.wins)
  BY BaseIsThere, WindowsAssumption DEF TabOK, TabType
<1>2. wnTab' = [tab EXCEPT !.mode = set.mode] \/ wnTab' = dealt
  BY DEF Allocating, Becomes
<1>3. base = ActiveUid(set) \/ Ephemeral(set.wins[set.active])
  BY DEF BaseOf
<1>4. ActiveUid(set) = ActiveUid(wnTab)
  BY DEF ActiveUid
<1> HIDE DEF base, n, shown
<1>5. /\ Spares(set.wins, prepared.wins, {})
      /\ ActiveUid(prepared) = base
      /\ \A w \in MembersOf(set.wins), i \in DOMAIN prepared.wins :
            ByHand(w) /\ i <= n /\ prepared.wins[i].uid = w.uid /\ w.uid # base =>
               ~wasTab /\ \E j \in 1 .. Least(shown, Len(set.wins)) : w.uid = set.wins[j].uid
      /\ TabOK(prepared)
  <2> HIDE DEF wasTab
  <2>1. TabOK(prepared)
    BY <1>1, PreparedFollows DEF Follows
  <2>2. /\ Spares(set.wins, prepared.wins, {})
        /\ ActiveUid(prepared) = base
        /\ \A w \in MembersOf(set.wins), i \in DOMAIN prepared.wins :
              ByHand(w) /\ i <= n /\ prepared.wins[i].uid = w.uid /\ w.uid # base =>
                 ~wasTab /\ \E j \in 1 .. Least(shown, Len(set.wins)) : w.uid = set.wins[j].uid
    BY ONLY <1>1, TabOK(set), PreparedSpares
  <2> QED BY ONLY <2>1, <2>2
<1> HIDE DEF prepared
<1>6. tab \in TabType /\ tab.wins = prepared.wins /\ tab.active = prepared.active /\ tab.next = prepared.next
      /\ tab.layout = layout
  BY <1>5 DEF TabOK, TabType
<1>7. TabOK(tab) /\ ActiveUid(tab) = base
  BY <1>5, <1>6 DEF TabOK, ActiveUid
<1> HIDE DEF tab
<1>8. CASE wnTab' = [tab EXCEPT !.mode = set.mode]
  <2>1. wnTab'.wins = prepared.wins
    BY <1>6, <1>8 DEF TabType
  <2> QED BY <1>5, <2>1, SparedStay
<1>9. CASE wnTab' = dealt
  <2> DEFINE from == IF BaseOf(tab) \in UidsOf(tab.wins) THEN BaseOf(tab) ELSE VisibleUids(tab)[1]
             S == ShownUids(tab) \ {InitiatorOf(tab, from)}
  <2>1. Spares(tab.wins, dealt.wins, S)
    BY <1>7, DealtSpares
  <2>2. Spares(wnTab.wins, wnTab'.wins, S)
    <3> HIDE DEF dealt, S
    <3> QED BY <1>5, <1>6, <1>9, <2>1, SparesTwice
  <2>3. ASSUME NEW w \in MembersOf(wnTab.wins), ByHand(w), w.uid \in S PROVE w.uid \in InSplit(wnTab)
    <3>1. w.uid \in ShownUids(tab)
      BY <2>3
    <3>2. w.uid \in InSplit(tab)
      BY <1>7, <3>1, SplitShows
    <3>3. CASE w.uid # base
      <4>1. PICK i \in 1 .. Least(Layouts[tab.layout], Len(tab.wins)) : w.uid = tab.wins[i].uid
        BY <1>7, <3>2, <3>3 DEF InSplit
      <4>2. i \in DOMAIN prepared.wins /\ i <= n
        <5>1. Len(tab.wins) \in Nat /\ DOMAIN tab.wins = 1 .. Len(tab.wins)
          BY <1>6 DEF TabType
        <5>2. Layouts[tab.layout] = n
          BY <1>6 DEF n
        <5> QED BY <1>1, <1>6, <5>1, <5>2 DEF Least
      <4>3. ~wasTab /\ \E j \in 1 .. Least(shown, Len(set.wins)) : w.uid = set.wins[j].uid
        BY <1>5, <1>6, <2>3, <3>3, <4>1, <4>2
      <4> QED BY <4>3 DEF InSplit, shown
    <3>4. CASE w.uid = base /\ base = ActiveUid(set)
      BY <1>4, <3>4 DEF InSplit
    <3>5. CASE w.uid = base /\ base # ActiveUid(set)
      <4>1. PICK v \in MembersOf(tab.wins) : v.uid = w.uid /\ v.auto = "no"
        BY <1>5, <1>6, <2>3 DEF Spares
      <4>2. WindowOf(tab, base) = v /\ base \in UidsOf(tab.wins) /\ WinsOK(tab.wins)
        BY <1>7, <3>5, <4>1, WindowTold DEF TabOK, TabType, WinsOK
      <4>3. ~Ephemeral(WindowOf(tab, base))
        BY <4>1, <4>2 DEF Ephemeral
      <4>4. InitiatorOf(tab, base) = base
        BY <4>2, <4>3, TopOfOwn
      <4>5. BaseOf(tab) = base
        BY <1>7, <4>4 DEF BaseOf
      <4>6. w.uid \notin S
        BY <3>5, <4>2, <4>4, <4>5
      <4> QED BY <2>3, <4>6
    <3> QED BY <3>3, <3>4, <3>5
  <2> HIDE DEF S
  <2> QED BY <2>2, <2>3, SparedStay
<1> QED BY <1>2, <1>8, <1>9

\* handleChangeLayout.
LEMMA ChangedSpares ==
    ASSUME WnInv, WnInv', NEW layout \in DOMAIN Layouts, NEW mode \in AllocModes \cup {"none", "kept"}, ChangedTo(layout, mode)
    PROVE  BusyStays
<1> DEFINE set == [wnTab EXCEPT !.preview = FALSE, !.mode = IF mode = "kept" THEN wnTab.mode ELSE mode,
                                !.last = IF wnTab.layout # Single /\ layout = Single THEN wnTab.layout ELSE wnTab.last]
<1>0. TabFacts /\ TabOK(wnTab)
  BY TabFactsHold DEF WnInv
<1>1. /\ TabOK(set) /\ set.wins = wnTab.wins /\ set.active = wnTab.active /\ set.layout = wnTab.layout
      /\ set.mode \in AllocModes \cup {"none"}
  <2>1. /\ set \in TabType /\ set.wins = wnTab.wins /\ set.next = wnTab.next /\ set.active = wnTab.active
        /\ set.layout = wnTab.layout /\ set.mode \in AllocModes \cup {"none"}
    BY <1>0 DEF TabFacts, TabType
  <2> HIDE DEF set
  <2>2. Follows(wnTab, set, {})
    BY <1>0, <2>1, FollowsAtOnce DEF TabFacts
  <2> QED BY <2>1, <2>2 DEF Follows
<1>2. CASE layout = Single
  <2> DEFINE pruned == Pruned(set, 0, Nobody, Nobody)
  <2>1. wnTab' = [pruned EXCEPT !.layout = Single]
    BY <1>2 DEF ChangedTo, Becomes
  <2> HIDE DEF set
  <2>2. Spares(set.wins, pruned.wins, {}) /\ TabOK(pruned)
    BY <1>1, PrunedSpares, PrunedFollows DEF Follows
  <2> HIDE DEF pruned
  <2>3. wnTab'.wins = pruned.wins
    BY <2>1, <2>2 DEF TabOK, TabType
  <2> QED BY <1>1, <2>2, <2>3, SparedStay
<1>3. CASE layout # Single /\ set.mode = "none"
  <2>1. wnTab' = Resplit(set, layout)
    BY <1>3 DEF ChangedTo, Becomes
  <2> HIDE DEF set
  <2>2. Spares(wnTab.wins, wnTab'.wins, {})
    BY <1>1, <2>1, ResplitSpares
  <2> QED BY <2>2, SparedStay
<1>4. CASE layout # Single /\ set.mode # "none"
  <2>1. Allocating([Prepared(set, Layouts[layout], BaseOf(set), set.layout = Single, Layouts[set.layout])
                       EXCEPT !.layout = layout], set.mode)
    BY <1>4 DEF ChangedTo
  <2> HIDE DEF set
  <2> QED BY <1>1, <2>1, PreparedStay
<1> QED BY <1>2, <1>3, <1>4

LEMMA ToggleSpares == ASSUME WnInv, WnInv', NEW uid \in UidsOf(wnTab.wins), TogglePreview(uid) PROVE BusyStays
<1> DEFINE tab == Focused(wnTab, uid)
           shown == [tab EXCEPT !.preview = ~tab.preview]
<1>1. tab.wins = wnTab.wins /\ tab.last \in DOMAIN Layouts /\ shown.wins = wnTab.wins
  BY TabFactsHold DEF Focused, TabType, TabFacts
<1>2. CASE Becomes(shown, {})
  <2> HIDE DEF shown
  <2>1. wnTab' = shown
    BY <1>2 DEF Becomes
  <2> QED BY <1>1, <2>1, QuietSpares
<1>3. CASE ChangedTo(tab.last, "kept")
  <2> HIDE DEF tab
  <2> QED BY <1>1, <1>3, ChangedSpares
<1> QED BY <1>2, <1>3 DEF TogglePreview

-----------------------------------------------------------------------------
LEMMA BusyKept == WnInv /\ [WnNext]_wnVars => BusyStays
<1> SUFFICES ASSUME WnInv, [WnNext]_wnVars PROVE BusyStays
  OBVIOUS
<1>0. WnInv'
  BY WnInvStep
<1>1. ASSUME NEW i \in DOMAIN wnTab.wins, NEW uid, uid = wnTab.wins[i].uid,
             FocusOn(uid) \/ CloseWindow(uid) \/ PinWindow(uid) \/ TogglePreview(uid) \/ CollapseGroup(uid)
      PROVE  BusyStays
  <2>1. uid \in UidsOf(wnTab.wins)
    BY <1>1 DEF UidsOf
  <2> QED BY <1>0, <1>1, <2>1, FocusSpares, CloseSpares, PinSpares, ToggleSpares, CollapseSpares
<1>2. ASSUME NEW from \in DOMAIN wnTab.wins, NEW p \in 1 .. Len(wnTab.wins) + 1, Reorder(from, p) PROVE BusyStays
  BY <1>0, <1>2, ReorderSpares
<1>3. CASE AddWindow \/ CollapseGroup(Nobody)
  BY <1>0, <1>3, AddSpares, CollapseSpares
<1>4. ASSUME NEW mode \in AllocModes \cup {"none"}, SelectAutoAlloc(mode) PROVE BusyStays
  BY <1>0, <1>4, SelectSpares
<1>5. ASSUME NEW layout \in DOMAIN Layouts, NEW mode \in AllocModes \cup {"none", "kept"}, ChangeLayout(layout, mode)
      PROVE  BusyStays
  BY <1>0, <1>5, ChangedSpares DEF ChangeLayout
<1>6. ASSUME NEW base \in wnDeal, LevelListKnown(base) PROVE BusyStays
  BY <1>0, <1>6, LevelsSpare
<1>7. ASSUME NEW preset \in Presets, LoadPreset(preset) PROVE BusyStays
  BY <1>0, <1>7, LoadSpares
<1>8. ASSUME NEW r \in wnLoading, MapReady(r) \/ PresetLoaded(r) PROVE BusyStays
  BY <1>0, <1>8, MapReadySpares, PresetSpares
<1>9. CASE UNCHANGED wnVars
  <2>1. wnTab' = wnTab
    BY <1>9 DEF wnVars
  <2> QED BY <1>0, <2>1, QuietSpares
<1> QED BY <1>1, <1>2, <1>3, <1>4, <1>5, <1>6, <1>7, <1>8, <1>9 DEF WnNext

(* Whatever is split, dealt out, pruned, dragged or loaded late, a window  *)
(* the operator loaded and that has no place in the split keeps what it    *)
(* shows, and a pinned one stays, for any layouts and any number of        *)
(* windows (tabsCore.js, prepareSplitWindows, pruneAutoAllocatedWindows,   *)
(* applyAutoAllocation).                                                   *)
THEOREM WindowsStay == WnSpec => [][BusyStays]_wnVars
<1>1. WnInv /\ [WnNext]_wnVars => [BusyStays]_wnVars
  BY BusyKept
<1> QED BY <1>1, WnInvInit, WnInvStep, PTL DEF WnSpec


-----------------------------------------------------------------------------
(***************************************************************************)
(* The cameras.  NoPingPong is not inductive: a map that is being mounted  *)
(* will ask for a frame of its own, so the maps still dark are counted     *)
(* with the frames.  Nor is CamerasAgree, which says nothing while a       *)
(* visible map is dark: the others have to agree already then, or they     *)
(* could not when its style is there.                                      *)
(***************************************************************************)
Counted ==
    /\ cmRuns \in Nat /\ cmMoves \in Nat
    /\ cmRuns + Cardinality(cmFrames) + Cardinality(cmDark) <= cmMoves + Cardinality(Maps)

BrightAgree ==
    (Following /\ cmFrames = {} /\ ~cmAlign /\ ~cmMissed)
        => \A m, o \in cmShown \ cmDark : cmAt[m] = cmAt[o]

KInv == CmTypeOK /\ Counted /\ BrightAgree
-----------------------------------------------------------------------------
(* What is counted is finite.                                              *)
LEMMA SetsAreFinite ==
    ASSUME CmTypeOK
    PROVE  IsFiniteSet(cmFrames) /\ IsFiniteSet(cmDark) /\ cmFrames \subseteq Maps /\ cmDark \subseteq Maps
BY FS_Subset, CamerasAssumption DEF CmTypeOK

(* A request adds at most one frame.                                       *)
LEMMA OneMore ==
    ASSUME NEW S, IsFiniteSet(S), NEW m, NEW T, T \in {S, S \cup {m}}
    PROVE  /\ IsFiniteSet(T) /\ Cardinality(S) \in Nat /\ Cardinality(T) \in Nat
           /\ Cardinality(T) <= Cardinality(S) + 1
<1>1. Cardinality(S) \in Nat
  BY FS_CardinalityType
<1>2. CASE T = S
  BY <1>1, <1>2
<1>3. CASE T = S \cup {m}
  BY <1>1, <1>3, FS_AddElement
<1> QED BY <1>2, <1>3

LEMMA RequestsOne ==
    ASSUME NEW frames, NEW m
    PROVE  Requested(frames, m) \in {frames, frames \cup {m}}
BY DEF Requested

(* A jump puts every visible map that takes part where map m is.           *)
LEMMA JumpsAgree ==
    ASSUME NEW m \in Maps, cmShown \subseteq Maps
    PROVE  \A o \in cmShown \ cmDark : JumpTo(m, {})[o] = cmAt[m]
BY DEF JumpTo

LEMMA JumpsAreTyped ==
    ASSUME NEW m \in Maps, NEW busy, cmAt \in [Maps -> Positions]
    PROVE  JumpTo(m, busy) \in [Maps -> Positions]
BY DEF JumpTo
-----------------------------------------------------------------------------
LEMMA KInvInit == CmInit => KInv
<1> SUFFICES ASSUME CmInit PROVE KInv
  OBVIOUS
<1>1. (CHOOSE m \in Maps : TRUE) \in Maps /\ (CHOOSE p \in Positions : TRUE) \in Positions
  BY CamerasAssumption
<1>2. CmTypeOK
  BY <1>1 DEF CmInit, CmTypeOK
<1>3. Counted
  <2>1. Cardinality({}) = 0
    BY FS_EmptySet
  <2>2. IsFiniteSet(Maps) /\ Cardinality(Maps) \in Nat
    BY CamerasAssumption, FS_CardinalityType
  <2>3. cmDark \subseteq Maps
    BY DEF CmInit
  <2>4. Cardinality(cmDark) \in Nat /\ Cardinality(cmDark) <= Cardinality(Maps)
    BY <2>2, <2>3, FS_Subset, FS_CardinalityType
  <2> QED BY <2>1, <2>2, <2>4 DEF CmInit, Counted
<1>4. BrightAgree
  BY DEF CmInit, BrightAgree
<1> QED BY <1>2, <1>3, <1>4 DEF KInv

LEMMA MoveKeeps ==
    ASSUME KInv, NEW m \in Maps, NEW p \in Positions, MoveMap(m, p)
    PROVE  KInv'
<1>1. CmTypeOK'
  BY DEF KInv, CmTypeOK, MoveMap, Requested
<1>2. Counted'
  <2>1. IsFiniteSet(cmFrames) /\ IsFiniteSet(cmDark) /\ cmFrames' \in {cmFrames, cmFrames \cup {m}}
    BY SetsAreFinite, RequestsOne DEF KInv, MoveMap
  <2>2. /\ Cardinality(cmFrames) \in Nat /\ Cardinality(cmFrames') \in Nat
        /\ Cardinality(cmFrames') <= Cardinality(cmFrames) + 1
    BY <2>1, OneMore
  <2>3. Cardinality(cmDark) \in Nat /\ Cardinality(Maps) \in Nat
    BY <2>1, CamerasAssumption, FS_CardinalityType
  <2> QED BY <2>2, <2>3 DEF KInv, Counted, MoveMap
<1>3. BrightAgree'
  BY DEF KInv, BrightAgree, MoveMap, Requested, Following
<1> QED BY <1>1, <1>2, <1>3 DEF KInv

LEMMA FrameKeeps ==
    ASSUME KInv, NEW m \in Maps, Frame(m)
    PROVE  KInv'
<1>0. /\ m \in cmFrames /\ cmRuns' = cmRuns + 1 /\ cmFrames' = cmFrames \ {m}
      /\ UNCHANGED <<cmSplit, cmSync, cmShown, cmActive, cmDark, cmAlign, cmMoves, cmViews>>
  BY DEF Frame, Echoed
<1>1. CmTypeOK'
  <2>1. cmAt' \in [Maps -> Positions] /\ cmMissed' \in BOOLEAN
    BY JumpsAreTyped DEF KInv, CmTypeOK, Frame
  <2> QED BY <1>0, <2>1 DEF KInv, CmTypeOK
<1>2. Counted'
  <2>1. IsFiniteSet(cmFrames) /\ IsFiniteSet(cmDark)
    BY SetsAreFinite DEF KInv
  <2>2. Cardinality(cmFrames') = Cardinality(cmFrames) - 1
    BY <1>0, <2>1, FS_RemoveElement
  <2>3. Cardinality(cmFrames) \in Nat /\ Cardinality(cmDark) \in Nat /\ Cardinality(Maps) \in Nat
    BY <2>1, CamerasAssumption, FS_CardinalityType
  <2> QED BY <1>0, <2>2, <2>3 DEF KInv, Counted
<1>3. BrightAgree'
  <2> SUFFICES ASSUME Following', ~cmMissed' PROVE \A a, o \in cmShown' \ cmDark' : cmAt'[a] = cmAt'[o]
    BY DEF BrightAgree
  <2>1. Following
    BY <1>0 DEF Following
  <2>2. cmAt' = JumpTo(m, {})
    BY <2>1 DEF Frame
  <2>3. \A o \in cmShown \ cmDark : cmAt'[o] = cmAt[m]
    BY <2>2, JumpsAgree DEF KInv, CmTypeOK
  <2> QED BY <1>0, <2>3
<1> QED BY <1>1, <1>2, <1>3 DEF KInv

LEMMA StyleKeeps ==
    ASSUME KInv, NEW m \in Maps, StyleLoaded(m)
    PROVE  KInv'
<1>0. /\ m \in cmDark /\ cmDark' = cmDark \ {m} /\ cmFrames' \in {cmFrames, cmFrames \cup {m}}
      /\ UNCHANGED <<cmSplit, cmSync, cmShown, cmActive, cmAlign, cmMoves, cmRuns, cmViews>>
  BY RequestsOne DEF StyleLoaded
<1>1. CmTypeOK'
  <2>1. cmAt' \in [Maps -> Positions] /\ cmMissed' \in BOOLEAN
    BY DEF KInv, CmTypeOK, StyleLoaded
  <2> QED BY <1>0, <2>1 DEF KInv, CmTypeOK
<1>2. Counted'
  <2>1. IsFiniteSet(cmFrames) /\ IsFiniteSet(cmDark)
    BY SetsAreFinite DEF KInv
  <2>2. /\ Cardinality(cmFrames) \in Nat /\ Cardinality(cmFrames') \in Nat
        /\ Cardinality(cmFrames') <= Cardinality(cmFrames) + 1
    BY <1>0, <2>1, OneMore
  <2>3. Cardinality(cmDark') = Cardinality(cmDark) - 1
    BY <1>0, <2>1, FS_RemoveElement
  <2>4. Cardinality(cmDark) \in Nat /\ Cardinality(Maps) \in Nat
    BY <2>1, CamerasAssumption, FS_CardinalityType
  <2> QED BY <1>0, <2>2, <2>3, <2>4 DEF KInv, Counted
<1>3. BrightAgree'
  <2> SUFFICES ASSUME Following', cmFrames' = {}, ~cmAlign', ~cmMissed'
               PROVE \A a, o \in cmShown' \ cmDark' : cmAt'[a] = cmAt'[o]
    BY DEF BrightAgree
  <2>1. Following /\ ~cmAlign
    BY <1>0 DEF Following
  <2>1a. ~cmMissed /\ m # cmActive
    BY <2>1 DEF StyleLoaded
  <2>1b. cmFrames' = Requested(cmFrames, m)
    BY <2>1, <2>1a DEF StyleLoaded
  <2>2. m \notin cmShown /\ cmFrames = {}
    BY <2>1, <2>1b DEF Requested
  <2>3. \A a, o \in cmShown \ cmDark : cmAt[a] = cmAt[o]
    BY <2>1, <2>1a, <2>2 DEF KInv, BrightAgree
  <2>4. \A o \in cmShown : cmAt'[o] = cmAt[o]
    BY <2>2 DEF StyleLoaded, KInv, CmTypeOK
  <2> QED BY <1>0, <2>2, <2>3, <2>4
<1> QED BY <1>1, <1>2, <1>3 DEF KInv

LEMMA AlignKeeps ==
    ASSUME KInv, Align \/ ToggleSync
    PROVE  KInv'
<1>0. /\ UNCHANGED <<cmSplit, cmShown, cmActive, cmDark, cmFrames, cmMoves, cmRuns>>
      /\ cmAt' \in {cmAt, JumpTo(cmActive, {})}
      /\ cmSync' \in BOOLEAN /\ cmAlign' \in BOOLEAN /\ cmMissed' \in BOOLEAN
  BY DEF Align, ToggleSync, KInv, CmTypeOK
<1>1. cmActive \in Maps /\ cmShown \subseteq Maps /\ cmAt \in [Maps -> Positions]
  BY DEF KInv, CmTypeOK
<1>2. CmTypeOK'
  BY <1>0, <1>1, JumpsAreTyped DEF KInv, CmTypeOK
<1>3. Counted'
  BY <1>0 DEF KInv, Counted
<1>4. BrightAgree'
  <2> SUFFICES ASSUME Following', ~cmMissed' PROVE \A a, o \in cmShown' \ cmDark' : cmAt'[a] = cmAt'[o]
    BY DEF BrightAgree
  <2>1. cmAt' = JumpTo(cmActive, {})
    BY <1>0 DEF Following, Align, ToggleSync
  <2> QED BY <1>0, <1>1, <2>1, JumpsAgree
<1> QED BY <1>2, <1>3, <1>4 DEF KInv

LEMMA ViewKeeps ==
    ASSUME KInv, NEW shown \in SUBSET Maps,
           (\E m \in Maps : Focus(m, shown)) \/ (\E split \in BOOLEAN : ChangeView(split, shown))
    PROVE  KInv'
<1>0. /\ UNCHANGED <<cmSync, cmAt, cmDark, cmFrames, cmMoves, cmRuns>> /\ cmShown' = shown /\ cmActive' \in shown
      /\ cmMissed' = (cmMissed \/ ~(shown \subseteq cmShown))
  BY DEF Focus, ChangeView
<1>1. cmSplit' \in BOOLEAN /\ cmAlign' \in BOOLEAN
  BY DEF Focus, ChangeView, KInv, CmTypeOK
<1>2. CmTypeOK'
  BY <1>0, <1>1 DEF KInv, CmTypeOK
<1>3. Counted'
  BY <1>0 DEF KInv, Counted
<1>4. BrightAgree'
  <2>1. CASE \E m \in Maps : Focus(m, shown)
    <3>1. UNCHANGED <<cmSplit, cmAlign>>
      BY <2>1 DEF Focus
    <3> QED BY <1>0, <3>1 DEF KInv, BrightAgree, Following
  <2>2. CASE \E split \in BOOLEAN : ChangeView(split, shown)
    BY <1>0, <2>2 DEF ChangeView, BrightAgree, Following
  <2> QED BY <2>1, <2>2
<1> QED BY <1>2, <1>3, <1>4 DEF KInv

LEMMA KInvStep == KInv /\ [CmNext]_cmVars => KInv'
<1> SUFFICES ASSUME KInv, [CmNext]_cmVars PROVE KInv'
  OBVIOUS
<1>1. CASE UNCHANGED cmVars
  BY <1>1 DEF cmVars, KInv, CmTypeOK, Counted, BrightAgree, Following
<1>2. CASE CmNext
  BY <1>2, MoveKeeps, FrameKeeps, StyleKeeps, AlignKeeps, ViewKeeps DEF CmNext
<1> QED BY <1>1, <1>2

(* The active map is a visible one, and every map is somewhere.            *)
THEOREM CamerasTypeCorrect == CmSpec => []CmTypeOK
<1>1. KInv => CmTypeOK
  BY DEF KInv
<1> QED BY KInvInit, KInvStep, <1>1, PTL DEF CmSpec

(* What the invariant says of the cameras.                                *)
LEMMA CamerasSoundFollows == KInv => CamerasSound
<1> SUFFICES ASSUME KInv PROVE NoPingPong /\ CamerasAgree
  BY DEF CamerasSound
<1>1. IsFiniteSet(cmFrames) /\ IsFiniteSet(cmDark)
  BY SetsAreFinite DEF KInv
<1>2. Cardinality(cmFrames) \in Nat /\ Cardinality(cmDark) \in Nat /\ Cardinality(Maps) \in Nat
  BY <1>1, CamerasAssumption, FS_CardinalityType
<1>3. NoPingPong
  BY <1>2 DEF KInv, Counted, NoPingPong
<1>4. CamerasAgree
  BY DEF KInv, BrightAgree, CamerasAgree
<1> QED BY <1>3, <1>4

(* Maps that follow each other never keep each other moving: there are as  *)
(* many frames as moves of the operator and mounted maps, whatever is      *)
(* shown, hidden or switched on meanwhile; and once they have run, the     *)
(* visible maps of a split with sync on agree unless one was passed over   *)
(* (windowMaps.js, syncingTabs and syncTabCameras).                        *)
THEOREM CamerasFollow == CmSpec => []CamerasSound
BY KInvInit, KInvStep, CamerasSoundFollows, PTL DEF CmSpec
-----------------------------------------------------------------------------
(***************************************************************************)
(* The sounding panel.  That the sounding is that of the station once all  *)
(* is quiet is no invariant of the steps by itself: while one load is      *)
(* under way it has to be for the station the header names, and there may  *)
(* be no other (OneLoad).                                                  *)
(***************************************************************************)
Eyes == {"none", "hidden", "visible"}
PanelType == [active : BOOLEAN, panel : BOOLEAN, shown : BOOLEAN, closes : SnWindows \cup {Nobody0},
              owner : SnWindows \cup {Nobody0}, station : Stations,
              sounding : Stations \cup {NoStation}]
LayerType == [eye : Eyes, station : Stations \cup {NoStation}]
CallType == [station : Stations, win : SnWindows, prev : Stations \cup {NoStation}]
GhostType == [lapped : BOOLEAN, failed : BOOLEAN, strayed : BOOLEAN, lost : BOOLEAN]

SoundingTypes ==
    /\ sn \in PanelType
    /\ snLayer \in [SnWindows -> LayerType]
    /\ snCalls \subseteq CallType
    /\ snFocus \in SnWindows
    /\ snGhost \in GhostType

\* The panel is made and destroyed with the state, and a layer has a station.
PanelIsWhole ==
    /\ sn.active <=> sn.panel
    /\ sn.shown => sn.panel
    /\ \A w \in SnWindows : snLayer[w].eye # "none" => snLayer[w].station \in Stations

\* While the loads do not overlap, the one under way is for the station the
\* header names.
OneLoad ==
    ~snGhost.lapped =>
        \A c \in snCalls : /\ \A d \in snCalls : c = d
                           /\ sn.active => c.station = sn.station

SInv == SoundingTypes /\ PanelIsWhole /\ OneLoad /\ SoundingsSound
-----------------------------------------------------------------------------
LEMMA SInvInit == SnInit => SInv
<1> SUFFICES ASSUME SnInit PROVE SInv
  OBVIOUS
<1>1. Default \in Stations /\ (CHOOSE w \in SnWindows : TRUE) \in SnWindows
  BY SoundingsAssumption DEF Default
<1> QED BY <1>1 DEF SnInit, SInv, SoundingTypes, PanelType, LayerType, CallType, GhostType, Eyes, NoSounding,
        NoLayer, PanelIsWhole, OneLoad, SoundingsSound, LookedAtIsShown, SoundingIsStation,
        OwnerIsLookedAt, PanelHasAnOwner

LEMMA OpenKeeps ==
    ASSUME SInv, NEW w \in SnWindows, NEW station \in Stations, NEW visible \in BOOLEAN,
           OpenSounding(w, station, visible)
    PROVE  SInv'
<1>1. /\ sn'.active /\ sn'.panel /\ (sn'.shown <=> visible) /\ sn'.owner = w /\ sn'.station = station
      /\ sn' \in PanelType
  BY SoundingsAssumption DEF OpenSounding, ShownFor, HiddenPanel, TornDownBy, NoSounding, PanelType, SInv, SoundingTypes, Default
<1>2. /\ snLayer' = [snLayer EXCEPT ![w] = [eye |-> IF visible THEN "visible" ELSE "hidden", station |-> station]]
      /\ snFocus' = snFocus
      /\ snCalls' = snCalls \cup {[station |-> station, win |-> w, prev |-> NoStation]}
  BY DEF OpenSounding
<1>3. /\ snGhost' \in GhostType
      /\ (snGhost'.lapped <=> snCalls # {})
      /\ (snGhost'.strayed <=> IF visible THEN w # snFocus ELSE snGhost.strayed)
      /\ (snGhost'.lost <=> ~visible /\ (snGhost.lost \/ sn.shown))
  BY DEF OpenSounding, SInv, SoundingTypes, GhostType
<1>4. SoundingTypes'
  BY <1>1, <1>2, <1>3 DEF SInv, SoundingTypes, LayerType, CallType, Eyes
<1>5. PanelIsWhole'
  BY <1>1, <1>2 DEF SInv, SoundingTypes, LayerType, PanelIsWhole, Eyes
<1>6. OneLoad'
  BY <1>1, <1>2, <1>3 DEF OneLoad
<1>7. LookedAtIsShown'
  BY <1>1, <1>2, <1>3 DEF LookedAtIsShown, SInv, SoundingsSound, SoundingTypes, LayerType, GhostType
<1>8. SoundingIsStation'
  BY <1>2 DEF SoundingIsStation
<1>9. OwnerIsLookedAt' /\ PanelHasAnOwner'
  BY <1>1, <1>2, <1>3 DEF OwnerIsLookedAt, PanelHasAnOwner, SInv, SoundingTypes, LayerType
<1> QED BY <1>4, <1>5, <1>6, <1>7, <1>8, <1>9 DEF SInv, SoundingsSound

(* A load of the station the header names.                                 *)
LEMMA BeginKeeps ==
    ASSUME SInv, NEW station \in Stations, NEW w \in SnWindows, NEW prev \in Stations \cup {NoStation},
           BeginLoad(station, w, prev), sn' \in PanelType, sn'.active, sn'.station = station,
           sn'.active <=> sn.active, sn'.panel <=> sn.panel, sn'.shown <=> sn.shown, sn'.owner = sn.owner,
           UNCHANGED <<snLayer, snFocus>>
    PROVE  SInv'
<1>1. /\ snCalls' = snCalls \cup {[station |-> station, win |-> w, prev |-> prev]}
      /\ snGhost' \in GhostType /\ (snGhost'.lapped <=> snCalls # {})
      /\ (snGhost'.strayed <=> snGhost.strayed) /\ (snGhost'.lost <=> snGhost.lost)
  BY DEF BeginLoad, SInv, SoundingTypes, GhostType
<1>2. SoundingTypes'
  BY <1>1 DEF SInv, SoundingTypes, CallType
<1>3. PanelIsWhole'
  BY DEF SInv, PanelIsWhole
<1>4. OneLoad'
  BY <1>1 DEF OneLoad
<1>5. SoundingIsStation'
  BY <1>1 DEF SoundingIsStation
<1>6. LookedAtIsShown' /\ OwnerIsLookedAt' /\ PanelHasAnOwner'
  BY <1>1 DEF LookedAtIsShown, OwnerIsLookedAt, PanelHasAnOwner, SInv, SoundingsSound
<1> QED BY <1>2, <1>3, <1>4, <1>5, <1>6 DEF SInv, SoundingsSound

LEMMA SetKeeps ==
    ASSUME SInv, NEW w \in SnWindows, NEW station \in Stations, SetStation(w, station)
    PROVE  SInv'
<1>1. sn.station \in Stations
  BY DEF SInv, SoundingTypes, PanelType
<1>2. /\ sn' \in PanelType /\ sn'.active /\ sn'.station = station
      /\ (sn'.active <=> sn.active) /\ (sn'.panel <=> sn.panel) /\ (sn'.shown <=> sn.shown)
      /\ sn'.owner = sn.owner
  BY DEF SetStation, SInv, SoundingTypes, PanelType
<1>3. BeginLoad(station, w, sn.station) /\ UNCHANGED <<snLayer, snFocus>>
  BY DEF SetStation
<1> QED BY <1>1, <1>2, <1>3, BeginKeeps

LEMMA TimeStepKeeps ==
    ASSUME SInv, NEW w \in SnWindows, StepSounding(w)
    PROVE  SInv'
<1>1. sn.station \in Stations /\ sn \in PanelType
  BY DEF SInv, SoundingTypes, PanelType
<1>2. BeginLoad(sn.station, w, NoStation) /\ sn' = sn /\ sn.active /\ UNCHANGED <<snLayer, snFocus>>
  BY DEF StepSounding
<1> QED BY <1>1, <1>2, BeginKeeps

LEMMA EndSoundingKeeps ==
    ASSUME SInv, NEW call \in snCalls, NEW ok \in BOOLEAN, EndSounding(call, ok)
    PROVE  SInv'
<1>1. /\ snCalls' = snCalls \ {call} /\ snFocus' = snFocus
      /\ call \in CallType /\ snGhost \in GhostType /\ sn \in PanelType
  BY DEF EndSounding, SInv, SoundingTypes
<1>2. /\ (sn'.active <=> sn.active) /\ (sn'.panel <=> sn.panel) /\ (sn'.shown <=> sn.shown)
      /\ sn'.owner = sn.owner /\ sn' \in PanelType
  BY <1>1 DEF EndSounding, CallType, PanelType
<1>3. /\ snGhost' \in GhostType
      /\ (snGhost'.lapped <=> snGhost.lapped)
      /\ (snGhost'.strayed <=> snGhost.strayed) /\ (snGhost'.lost <=> snGhost.lost)
  <2>1. CASE ok
    BY <1>1, <2>1 DEF EndSounding, GhostType
  <2>2. CASE ~ok
    BY <1>1, <2>2 DEF EndSounding, GhostType
  <2> QED BY <2>1, <2>2
<1>4. /\ snLayer' \in [SnWindows -> LayerType]
      /\ \A w \in SnWindows :
           /\ snLayer'[w].eye = snLayer[w].eye
           /\ snLayer'[w].eye # "none" => snLayer'[w].station \in Stations
  BY <1>1 DEF EndSounding, CallType, SInv, SoundingTypes, LayerType, PanelIsWhole
<1>5. SoundingTypes'
  BY <1>1, <1>2, <1>3, <1>4 DEF SInv, SoundingTypes
<1>6. PanelIsWhole'
  BY <1>2, <1>4 DEF SInv, PanelIsWhole
<1>7. ~snGhost'.lapped => snCalls' = {}
  BY <1>1, <1>3 DEF SInv, OneLoad
<1>8. OneLoad'
  BY <1>7 DEF OneLoad
<1>9. SoundingIsStation'
  <2> SUFFICES ASSUME sn'.active, ~snGhost'.lapped, ~snGhost'.failed
               PROVE  sn'.sounding = sn'.station
    BY DEF SoundingIsStation
  <2>1. call.station = sn.station
    BY <1>2, <1>3 DEF SInv, OneLoad
  <2>2. CASE ok
    BY <1>1, <2>1, <2>2 DEF EndSounding, PanelType
  <2>3. CASE ~ok
    <3>1. (snGhost'.failed <=> snGhost.failed \/ call.prev = NoStation \/ sn.sounding # call.prev)
      BY <1>1, <2>3 DEF EndSounding, GhostType
    <3>2. sn'.station = call.prev /\ sn'.sounding = sn.sounding
      BY <1>1, <2>3, <3>1 DEF EndSounding, PanelType
    <3> QED BY <3>1, <3>2
  <2> QED BY <2>2, <2>3
<1>10. LookedAtIsShown' /\ OwnerIsLookedAt' /\ PanelHasAnOwner'
  BY <1>1, <1>2, <1>3, <1>4 DEF LookedAtIsShown, OwnerIsLookedAt, PanelHasAnOwner, SInv, SoundingsSound, SoundingTypes
<1> QED BY <1>5, <1>6, <1>8, <1>9, <1>10 DEF SInv, SoundingsSound

(* The focus moves: what the panel and the layers are by then.             *)
LEMMA RefocusKeeps ==
    ASSUME SInv, NEW w \in SnWindows, NEW c \in PanelType, NEW layer \in [SnWindows -> LayerType],
           Refocused(w, c, layer), snLayer' = layer,
           c.active <=> c.panel, c.shown => c.panel,
           c.panel => c.owner \in SnWindows /\ layer[c.owner].eye # "none",
           c.active => sn.active /\ c.station = sn.station /\ c.sounding = sn.sounding,
           \A v \in SnWindows : layer[v].eye # "none" => layer[v].station \in Stations
    PROVE  SInv'
<1> DEFINE visible == layer[w].eye = "visible" /\ (c.active \/ c.panel)
           loads == visible /\ layer[w].station # c.station
<1>1. /\ snFocus' = w
      /\ sn' = IF ~visible THEN HiddenPanel(c)
               ELSE [ShownFor(c, w) EXCEPT !.station = IF loads THEN layer[w].station ELSE @]
      /\ snCalls' = snCalls \cup
            (IF loads THEN {[station |-> layer[w].station, win |-> w, prev |-> c.station]} ELSE {})
      /\ snGhost' = [snGhost EXCEPT !.strayed = FALSE, !.lapped = IF loads THEN snCalls # {} ELSE @,
                                    !.lost = LostWith(c, layer)]
  BY DEF Refocused
<1>2. layer[w].eye # "none" => layer[w].station \in Stations
  OBVIOUS
<1>3. /\ sn' \in PanelType
      /\ (sn'.active <=> c.active) /\ (sn'.panel <=> c.panel) /\ (sn'.shown <=> visible)
      /\ sn'.owner = IF visible THEN w ELSE c.owner
      /\ sn'.station = IF loads THEN layer[w].station ELSE c.station
      /\ sn'.sounding = c.sounding
  BY <1>1, <1>2 DEF ShownFor, HiddenPanel, PanelType
<1>4. /\ snGhost' \in GhostType
      /\ ~snGhost'.strayed
      /\ (snGhost'.lapped <=> IF loads THEN snCalls # {} ELSE snGhost.lapped)
      /\ (snGhost'.failed <=> snGhost.failed)
      /\ (snGhost'.lost <=> LostWith(c, layer))
  BY <1>1 DEF LostWith, GhostType, SInv, SoundingTypes
<1>5. SoundingTypes'
  <2>1. snCalls' \subseteq CallType
    BY <1>1, <1>2 DEF CallType, PanelType, SInv, SoundingTypes
  <2> QED BY <1>1, <1>3, <1>4, <2>1 DEF SoundingTypes
<1>6. PanelIsWhole'
  BY <1>3 DEF PanelIsWhole
<1>7. OneLoad' /\ SoundingIsStation'
  <2>1. CASE loads
    <3>1. snCalls' = snCalls \cup {[station |-> layer[w].station, win |-> w, prev |-> c.station]}
      BY <1>1, <2>1
    <3>2. sn'.station = layer[w].station /\ (snGhost'.lapped <=> snCalls # {})
      BY <1>3, <1>4, <2>1
    <3>3. PICK new : new = [station |-> layer[w].station, win |-> w, prev |-> c.station]
      OBVIOUS
    <3>4. snCalls' = snCalls \cup {new} /\ new.station = sn'.station
      BY <3>1, <3>2, <3>3
    <3> QED BY ONLY <3>2, <3>4 DEF OneLoad, SoundingIsStation
  <2>2. CASE ~loads
    <3>1. snCalls' = snCalls /\ sn'.station = c.station /\ (snGhost'.lapped <=> snGhost.lapped)
      BY <1>1, <1>3, <1>4, <2>2
    <3> HIDE DEF loads, visible
    <3> QED BY <1>3, <1>4, <3>1 DEF OneLoad, SoundingIsStation, SInv, SoundingsSound
  <2> QED BY <2>1, <2>2
<1>8. LookedAtIsShown' /\ OwnerIsLookedAt' /\ PanelHasAnOwner'
  BY <1>1, <1>3, <1>4 DEF LookedAtIsShown, OwnerIsLookedAt, PanelHasAnOwner, LostWith
<1> QED BY <1>5, <1>6, <1>7, <1>8 DEF SInv, SoundingsSound

LEMMA FocusKeeps ==
    ASSUME SInv, NEW w \in SnWindows, FocusSounding(w)
    PROVE  SInv'
<1>1. PICK c : c = sn
  OBVIOUS
<1>2. PICK layer : layer = snLayer
  OBVIOUS
<1>3. Refocused(w, c, layer) /\ snLayer' = layer
  BY <1>1, <1>2 DEF FocusSounding
<1>4. /\ c \in PanelType /\ layer \in [SnWindows -> LayerType]
      /\ c.active <=> c.panel
      /\ c.shown => c.panel
      /\ c.panel => c.owner \in SnWindows /\ layer[c.owner].eye # "none"
      /\ c.active => sn.active /\ c.station = sn.station /\ c.sounding = sn.sounding
      /\ \A v \in SnWindows : layer[v].eye # "none" => layer[v].station \in Stations
  BY <1>1, <1>2 DEF SInv, SoundingTypes, PanelIsWhole, SoundingsSound, PanelHasAnOwner
<1> QED BY <1>3, <1>4, RefocusKeeps

LEMMA EyeKeeps ==
    ASSUME SInv, NEW visible \in BOOLEAN, EyeSounding(visible)
    PROVE  SInv'
<1> DEFINE w == snFocus
<1>1. /\ snLayer[w].eye # "none" /\ w \in SnWindows
      /\ snLayer' = [snLayer EXCEPT ![w].eye = IF visible THEN "visible" ELSE "hidden"]
      /\ sn' = IF visible THEN ShownFor(sn, w) ELSE HiddenPanel(sn)
      /\ snGhost' = [snGhost EXCEPT !.strayed = FALSE, !.lost = ~sn.panel]
      /\ snCalls' = snCalls /\ snFocus' = w
  BY DEF EyeSounding, SInv, SoundingTypes
<1>2. /\ sn' \in PanelType
      /\ (sn'.active <=> sn.active) /\ (sn'.panel <=> sn.panel)
      /\ (sn'.shown <=> visible /\ sn.panel)
      /\ sn'.owner = IF visible THEN w ELSE sn.owner
      /\ sn'.station = sn.station /\ sn'.sounding = sn.sounding
  BY <1>1 DEF ShownFor, HiddenPanel, PanelType, SInv, SoundingTypes
<1>3. /\ snGhost' \in GhostType
      /\ ~snGhost'.strayed /\ (snGhost'.lost <=> ~sn.panel)
      /\ (snGhost'.lapped <=> snGhost.lapped) /\ (snGhost'.failed <=> snGhost.failed)
  BY <1>1 DEF GhostType, PanelType, SInv, SoundingTypes
<1>4. /\ snLayer' \in [SnWindows -> LayerType]
      /\ \A v \in SnWindows :
           /\ snLayer'[v].station = snLayer[v].station
           /\ snLayer'[v].eye = "none" <=> snLayer[v].eye = "none"
      /\ snLayer'[w].eye = "visible" <=> visible
  BY <1>1 DEF LayerType, Eyes, SInv, SoundingTypes
<1>5. SoundingTypes'
  BY <1>1, <1>2, <1>3, <1>4 DEF SoundingTypes, SInv
<1>6. PanelIsWhole' /\ OneLoad' /\ SoundingIsStation'
  BY <1>1, <1>2, <1>3, <1>4 DEF PanelIsWhole, OneLoad, SoundingIsStation, SInv, SoundingsSound
<1>7. LookedAtIsShown' /\ OwnerIsLookedAt' /\ PanelHasAnOwner'
  BY <1>1, <1>2, <1>3, <1>4 DEF LookedAtIsShown, OwnerIsLookedAt, PanelHasAnOwner, SInv, SoundingsSound
<1> QED BY <1>5, <1>6, <1>7 DEF SInv, SoundingsSound

LEMMA CloseSoundingKeeps ==
    ASSUME SInv, CloseSounding
    PROVE  SInv'
<1>1. /\ sn' = HiddenPanel(sn)
      /\ snLayer' = [snLayer EXCEPT ![sn.closes].eye = IF @ = "none" THEN @ ELSE "hidden"]
      /\ snGhost' = [snGhost EXCEPT !.lost = @ \/ sn.closes # snFocus]
      /\ snCalls' = snCalls /\ snFocus' = snFocus
  BY DEF CloseSounding
<1>2. /\ sn' \in PanelType /\ ~sn'.shown
      /\ (sn'.active <=> sn.active) /\ (sn'.panel <=> sn.panel)
      /\ sn'.owner = sn.owner /\ sn'.station = sn.station /\ sn'.sounding = sn.sounding
  BY <1>1 DEF HiddenPanel, PanelType, SInv, SoundingTypes
<1>3. /\ snGhost' \in GhostType
      /\ (snGhost'.lost <=> snGhost.lost \/ sn.closes # snFocus)
      /\ (snGhost'.strayed <=> snGhost.strayed)
      /\ (snGhost'.lapped <=> snGhost.lapped) /\ (snGhost'.failed <=> snGhost.failed)
  BY <1>1 DEF GhostType, SInv, SoundingTypes
<1>4. /\ snLayer' \in [SnWindows -> LayerType]
      /\ \A v \in SnWindows :
           /\ snLayer'[v].station = snLayer[v].station
           /\ snLayer'[v].eye = "none" <=> snLayer[v].eye = "none"
           /\ v = sn.closes => snLayer'[v].eye # "visible"
  BY <1>1 DEF LayerType, Eyes, SInv, SoundingTypes
<1>5. SoundingTypes'
  BY <1>1, <1>2, <1>3, <1>4 DEF SoundingTypes, SInv
<1>6. PanelIsWhole' /\ OneLoad' /\ SoundingIsStation'
  BY <1>1, <1>2, <1>3, <1>4 DEF PanelIsWhole, OneLoad, SoundingIsStation, SInv, SoundingsSound
<1>7. LookedAtIsShown' /\ OwnerIsLookedAt' /\ PanelHasAnOwner'
  BY <1>1, <1>2, <1>3, <1>4 DEF LookedAtIsShown, OwnerIsLookedAt, PanelHasAnOwner, SInv, SoundingsSound,
     SoundingTypes
<1> QED BY <1>5, <1>6, <1>7 DEF SInv, SoundingsSound

(* The layer of a window goes: the panel with it, or the panel is another's. *)
LEMMA RemoveKeeps ==
    ASSUME SInv, NEW w \in SnWindows, RemoveSounding(w)
    PROVE  SInv'
<1>1. /\ sn' = IF sn.owner \in {w, Nobody0} THEN NoSounding ELSE sn
      /\ snLayer' = [snLayer EXCEPT ![w] = NoLayer]
      /\ snGhost' = [snGhost EXCEPT !.lost = @ \/ sn.owner = w]
      /\ snCalls' = snCalls /\ snFocus' = snFocus
  BY DEF RemoveSounding, TornDownBy
<1>2. /\ NoSounding \in PanelType /\ ~NoSounding.active /\ ~NoSounding.panel /\ ~NoSounding.shown
      /\ NoLayer \in LayerType /\ NoLayer.eye = "none"
  BY SoundingsAssumption DEF NoSounding, NoLayer, PanelType, LayerType, Eyes, Default
<1>3. /\ snGhost' \in GhostType
      /\ (snGhost'.lost <=> snGhost.lost \/ sn.owner = w)
      /\ (snGhost'.strayed <=> snGhost.strayed)
      /\ (snGhost'.lapped <=> snGhost.lapped) /\ (snGhost'.failed <=> snGhost.failed)
  BY <1>1 DEF GhostType, SInv, SoundingTypes
<1>4. SoundingTypes'
  BY <1>1, <1>2, <1>3 DEF SoundingTypes, SInv
<1>5. PanelIsWhole'
  BY <1>1, <1>2 DEF PanelIsWhole, SInv, SoundingTypes
<1>6. OneLoad' /\ SoundingIsStation'
  BY <1>1, <1>2, <1>3 DEF OneLoad, SoundingIsStation, SInv, SoundingsSound
<1>7. PanelHasAnOwner'
  BY <1>1, <1>2 DEF PanelHasAnOwner, SInv, SoundingsSound, SoundingTypes
<1>8. OwnerIsLookedAt' /\ LookedAtIsShown'
  <2>1. sn.shown => sn.panel /\ sn.owner # Nobody0
    BY SoundingsAssumption DEF SInv, PanelIsWhole, SoundingsSound, PanelHasAnOwner
  <2> QED BY <1>1, <1>2, <1>3, <2>1 DEF OwnerIsLookedAt, LookedAtIsShown, SInv, SoundingsSound, SoundingTypes
<1> QED BY <1>4, <1>5, <1>6, <1>7, <1>8 DEF SInv, SoundingsSound

LEMMA WindowKeeps ==
    ASSUME SInv, NEW w \in SnWindows, NEW next \in SnWindows, CloseSoundingWindow(w, next)
    PROVE  SInv'
<1> DEFINE heirs == {v \in SnWindows \ {w} : snLayer[v].eye = "visible"}
<1>1. PICK layer : layer = [snLayer EXCEPT ![w] = NoLayer]
  OBVIOUS
<1>2. PICK heir \in IF heirs = {} THEN {Nobody0} ELSE heirs :
        LET c == IF heirs = {} THEN NoSounding
                 ELSE IF sn.owner = w THEN [sn EXCEPT !.owner = heir] ELSE sn
        IN  IF w = snFocus THEN Refocused(next, c, layer)
            ELSE sn' = c /\ next = snFocus /\ UNCHANGED <<snCalls, snFocus, snGhost>>
  BY <1>1 DEF CloseSoundingWindow
<1>3. PICK c : c = IF heirs = {} THEN NoSounding
                   ELSE IF sn.owner = w THEN [sn EXCEPT !.owner = heir] ELSE sn
  OBVIOUS
<1>4. snLayer' = layer /\ w # next
  BY <1>1 DEF CloseSoundingWindow
<1>5. /\ NoSounding \in PanelType /\ ~NoSounding.active /\ ~NoSounding.panel /\ ~NoSounding.shown
      /\ NoLayer \in LayerType /\ NoLayer.eye = "none"
  BY SoundingsAssumption DEF NoSounding, NoLayer, PanelType, LayerType, Eyes, Default
<1>6. sn \in PanelType /\ snLayer \in [SnWindows -> LayerType] /\ snFocus \in SnWindows
  BY DEF SInv, SoundingTypes
<1>7. /\ layer \in [SnWindows -> LayerType]
      /\ \A v \in SnWindows : layer[v] = IF v = w THEN NoLayer ELSE snLayer[v]
  BY <1>1, <1>5, <1>6
<1>8. heirs # {} => heir \in SnWindows /\ heir # w /\ snLayer[heir].eye = "visible"
  BY <1>2
<1>9. /\ c \in PanelType
      /\ heirs = {} => ~c.active /\ ~c.panel /\ ~c.shown
      /\ heirs # {} => /\ (c.active <=> sn.active) /\ (c.panel <=> sn.panel) /\ (c.shown <=> sn.shown)
                       /\ c.station = sn.station /\ c.sounding = sn.sounding
                       /\ c.owner = IF sn.owner = w THEN heir ELSE sn.owner
  <2>1. CASE heirs = {}
    BY <1>3, <1>5, <2>1
  <2>2. CASE heirs # {} /\ sn.owner = w
    <3>1. c = [sn EXCEPT !.owner = heir]
      BY <1>3, <2>2
    <3> HIDE DEF heirs
    <3> QED BY <1>6, <1>8, <2>2, <3>1 DEF PanelType
  <2>3. CASE heirs # {} /\ sn.owner # w
    <3>1. c = sn
      BY <1>3, <2>3
    <3> HIDE DEF heirs
    <3> QED BY <1>6, <2>3, <3>1
  <2> QED BY <2>1, <2>2, <2>3
<1>10. /\ c.active <=> c.panel
       /\ c.shown => c.panel
       /\ c.active => sn.active /\ c.station = sn.station /\ c.sounding = sn.sounding
       /\ \A v \in SnWindows : layer[v].eye # "none" => layer[v].station \in Stations
  <2> HIDE DEF heirs
  <2> QED BY <1>5, <1>7, <1>9 DEF SInv, PanelIsWhole
<1>11. c.panel => c.owner \in SnWindows /\ layer[c.owner].eye # "none"
  <2>1. sn.panel => sn.owner \in SnWindows /\ snLayer[sn.owner].eye # "none"
    BY DEF SInv, SoundingsSound, PanelHasAnOwner
  <2> HIDE DEF heirs
  <2> QED BY <1>7, <1>8, <1>9, <2>1
<1>12. CASE w = snFocus
  <2>1. Refocused(next, c, layer)
    BY <1>2, <1>3, <1>12
  <2> QED BY <1>4, <1>7, <1>9, <1>10, <1>11, <2>1, RefocusKeeps
<1>13. CASE w # snFocus
  <2>1. sn' = c /\ snCalls' = snCalls /\ snFocus' = snFocus /\ snGhost' = snGhost
    BY <1>2, <1>3, <1>13
  <2>2. layer[snFocus] = snLayer[snFocus] /\ (snLayer[snFocus].eye = "visible" => heirs # {})
    BY <1>6, <1>7, <1>13
  <2> HIDE DEF heirs
  <2>3. SoundingTypes'
    BY <1>4, <1>7, <1>9, <2>1 DEF SInv, SoundingTypes
  <2>4. PanelIsWhole' /\ PanelHasAnOwner'
    BY <1>4, <1>10, <1>11, <2>1 DEF PanelIsWhole, PanelHasAnOwner
  <2>5. OneLoad' /\ SoundingIsStation'
    BY <1>10, <2>1 DEF OneLoad, SoundingIsStation, SInv, SoundingsSound
  <2>6. OwnerIsLookedAt' /\ LookedAtIsShown'
    BY <1>4, <1>9, <1>13, <2>1, <2>2 DEF OwnerIsLookedAt, LookedAtIsShown, SInv, SoundingsSound
  <2> QED BY <2>3, <2>4, <2>5, <2>6 DEF SInv, SoundingsSound
<1> QED BY <1>12, <1>13

LEMMA SInvStep == SInv /\ [SnNext]_snVars => SInv'
<1> SUFFICES ASSUME SInv, [SnNext]_snVars PROVE SInv'
  OBVIOUS
<1>1. CASE UNCHANGED snVars
  BY <1>1 DEF snVars, SInv, SoundingTypes, PanelIsWhole, OneLoad, SoundingsSound, LookedAtIsShown,
     SoundingIsStation, OwnerIsLookedAt, PanelHasAnOwner
<1>2. CASE SnNext
  BY <1>2, OpenKeeps, SetKeeps, TimeStepKeeps, EndSoundingKeeps, FocusKeeps, EyeKeeps, CloseSoundingKeeps, RemoveKeeps,
     WindowKeeps DEF SnNext
<1> QED BY <1>1, <1>2

(* The sounding on the screen is that of the station its header names, and *)
(* the panel is the focused window's (tlogpController.loadSounding, show,  *)
(* destroy; profileVisibility.syncProfilePanelsForWindow).                 *)
THEOREM SoundingsAreSound == SnSpec => []SoundingsSound
<1>1. SInv => SoundingsSound
  BY DEF SInv
<1> QED BY <1>1, SInvInit, SInvStep, PTL DEF SnSpec

-----------------------------------------------------------------------------
(***************************************************************************)
(* The profile panels.  A section is shown long after it was asked for, so *)
(* the invariant follows what is awaited: an answer that will be taken is  *)
(* for what the header says (HeaderTold), and no answer to an earlier      *)
(* question, of this state or of one that was destroyed, can be taken for  *)
(* it (Sequenced).                                                          *)
(***************************************************************************)
AllSpots == Spots \cup {Middle(l) : l \in Lines}
PnSections == Runs \X ({"line", "point"} \cup Lines) \X (Lines \cup AllSpots)
StateType ==
    [held : BOOLEAN, inst : Nat, active : BOOLEAN, panel : BOOLEAN, shown : BOOLEAN,
     run : Runs, mode : {"point", "line"}, line : Lines, spot : AllSpots,
     section : PnSections \cup {NoSection}, cache : SUBSET (PnSections \X PnSections),
     seq : Nat, lead : Spots \cup {NoLead}, pick : {"idle", "first", "second", "end"},
     behind : BOOLEAN, crossed : BOOLEAN]
ProfileType == [state : StateType, entry : {"none", "hidden", "shown"},
                eye : {"none", "hidden", "visible"}, strayed : BOOLEAN, hollow : BOOLEAN]
AwaitedType == [what : {"init", "model", "load"}, win : PnWindows, inst : Nat, seq : Nat,
                want : PnSections \cup {NoSection}, visible : BOOLEAN]

\* The key of a section, for one controller.
KeyIn(kind, s, mode) == IF kind # "timeheight" THEN <<s.run, s.line, s.spot>>
                        ELSE IF mode = "line" THEN <<s.run, "line", s.line>>
                        ELSE <<s.run, "point", s.spot>>

\* A section that a controller asks for.
AskedBy(kind, x) ==
    IF kind # "timeheight" THEN \E r \in Runs, l \in Lines, p \in AllSpots : x = <<r, l, p>>
    ELSE \E r \in Runs : \/ \E l \in Lines : x = <<r, "line", l>>
                         \/ \E p \in AllSpots : x = <<r, "point", p>>

Waited(calls, w, s) == {c \in calls : c.what = "load" /\ c.win = w /\ c.inst = s.inst /\ c.seq = s.seq}

\* What is awaited is what the header will tell of when it is there: a
\* time-height profile takes its point along, and marks a mode that differs.
FitsHeader(kind, s, x) ==
    IF kind # "timeheight" THEN x = KeyIn(kind, s, s.mode)
    ELSE x[1] = s.run /\ (x[2] = "line" => x[3] = s.line)

\* The numbers of a state are above those of the calls it has made.
Sequenced(calls, w, s) ==
    \A c \in calls : c.win = w =>
        /\ c.inst <= s.inst
        /\ c.what = "load" => c.seq >= 1 /\ (s.held /\ c.inst = s.inst => c.seq <= s.seq)

\* A state that was destroyed is blank, and what is shown or picked has a panel.
Whole(s) ==
    /\ ~s.held => ~s.active /\ ~s.panel /\ s.lead = NoLead /\ s.seq = 0
    /\ s.shown => s.panel
    /\ s.pick # "idle" => s.mode = "line" /\ s.panel

Honest(s) == ~s.crossed => \A e \in s.cache : e[1] = e[2]

HeaderTold(kind, calls, w, s) ==
    /\ ~s.crossed => \A c \in Waited(calls, w, s) : FitsHeader(kind, s, c.want)
    /\ s.panel /\ ~s.behind /\ ~s.crossed /\ Waited(calls, w, s) = {}
         /\ (\A c \in calls : c.win = w => c.what = "load")
       => s.section = KeyIn(kind, s, s.mode)

StateInv(kind, calls, w, s) ==
    Sequenced(calls, w, s) /\ Whole(s) /\ Honest(s) /\ HeaderTold(kind, calls, w, s)
-----------------------------------------------------------------------------
LEMMA WaitedIsAwaited ==
    ASSUME NEW w, NEW s
    PROVE  Awaited(w, s) = Waited(pnCalls, w, s)
BY DEF Awaited, Waited

LEMMA KeyIsSection ==
    ASSUME NEW s, NEW mode
    PROVE  SectionIn(s, mode) = KeyIn(panelKind, s, mode) /\ Section(s) = KeyIn(panelKind, s, s.mode)
BY DEF SectionIn, Section, KeyIn

LEMMA KeysAreAsked ==
    ASSUME NEW kind, NEW s \in StateType, NEW mode \in {"point", "line"}
    PROVE  KeyIn(kind, s, mode) \in PnSections /\ AskedBy(kind, KeyIn(kind, s, mode))
<1>1. s.run \in Runs /\ s.line \in Lines /\ s.spot \in AllSpots
  BY DEF StateType
<1> HIDE DEF StateType, AllSpots
<1>2. KeyIn(kind, s, mode) \in PnSections
  BY <1>1 DEF KeyIn, PnSections
<1>3. CASE kind # "timeheight"
  BY <1>1, <1>2, <1>3 DEF KeyIn, AskedBy
<1>4. CASE kind = "timeheight" /\ mode = "line"
  BY <1>1, <1>2, <1>4 DEF KeyIn, AskedBy
<1>5. CASE kind = "timeheight" /\ mode = "point"
  BY <1>1, <1>2, <1>5 DEF KeyIn, AskedBy
<1> QED BY <1>3, <1>4, <1>5

(* A window that only shows or hides its panel, whatever other windows ask. *)
LEMMA OthersAreLeft ==
    ASSUME NEW kind, NEW calls, NEW more, NEW w, NEW s \in StateType, NEW b \in BOOLEAN,
           StateInv(kind, calls, w, s), b => s.panel,
           {c \in more : c.win = w} = {c \in calls : c.win = w}
    PROVE  StateInv(kind, more, w, [s EXCEPT !.shown = b]) /\ [s EXCEPT !.shown = b] \in StateType
<1>1. PICK t : t = [s EXCEPT !.shown = b]
  OBVIOUS
<1>2. t \in StateType
  BY <1>1 DEF StateType
<1>3. /\ t.held = s.held /\ t.inst = s.inst /\ t.active = s.active /\ t.panel = s.panel
      /\ (t.shown <=> b) /\ t.run = s.run /\ t.mode = s.mode /\ t.line = s.line /\ t.spot = s.spot
      /\ t.section = s.section /\ t.cache = s.cache /\ t.seq = s.seq /\ t.lead = s.lead
      /\ t.pick = s.pick /\ t.behind = s.behind /\ t.crossed = s.crossed
  BY <1>1 DEF StateType
<1>4. Waited(more, w, t) = Waited(calls, w, s)
  BY <1>3 DEF Waited
<1>5. KeyIn(kind, t, t.mode) = KeyIn(kind, s, s.mode) /\ \A x : FitsHeader(kind, t, x) <=> FitsHeader(kind, s, x)
  BY <1>3 DEF KeyIn, FitsHeader
<1>6. HeaderTold(kind, more, w, t)
  BY <1>3, <1>4, <1>5 DEF HeaderTold, StateInv
<1>7. Sequenced(more, w, t) /\ Whole(t) /\ Honest(t)
  BY <1>3 DEF Sequenced, Whole, Honest, StateInv
<1> QED BY <1>1, <1>2, <1>6, <1>7 DEF StateInv

(* loadMatrix: a section of the cache, or a load that takes the place of the *)
(* one before.                                                             *)
LEMMA CacheServes ==
    ASSUME NEW w \in PnWindows, NEW s \in StateType, NEW calls \in SUBSET pnCalls,
           Sequenced(calls, w, s), Whole(s), Honest(s), CachedSection(s) # {}
    PROVE  /\ FromCache(w, s) \in StateType
           /\ StateInv(panelKind, calls, w, FromCache(w, s))
           /\ (FromCache(w, s).held <=> s.held) /\ (FromCache(w, s).panel <=> s.panel)
           /\ (FromCache(w, s).shown <=> s.shown) /\ FromCache(w, s).inst = s.inst
<1>1. PICK t : t = FromCache(w, s)
  OBVIOUS
<1>2. PICK e : e = (CHOOSE x \in CachedSection(s) : TRUE)
  OBVIOUS
<1>3. e \in s.cache /\ e[1] = Section(s)
  <2>1. e \in CachedSection(s)
    BY <1>2
  <2> QED BY <2>1 DEF CachedSection
<1>4. e[2] \in PnSections
  BY <1>3 DEF StateType
<1>5. t = [s EXCEPT !.section = e[2], !.behind = FALSE, !.crossed = @ \/ Awaited(w, s) # {}]
  BY <1>1, <1>2 DEF FromCache
<1>6. /\ t \in StateType
      /\ t.held = s.held /\ t.inst = s.inst /\ t.active = s.active /\ t.panel = s.panel
      /\ t.shown = s.shown /\ t.run = s.run /\ t.mode = s.mode /\ t.line = s.line /\ t.spot = s.spot
      /\ t.section = e[2] /\ t.cache = s.cache /\ t.seq = s.seq /\ t.lead = s.lead
      /\ t.pick = s.pick /\ ~t.behind /\ (t.crossed <=> s.crossed \/ Awaited(w, s) # {})
  BY <1>4, <1>5 DEF StateType
<1>7. Waited(calls, w, t) \subseteq Awaited(w, s)
  BY <1>6 DEF Waited, Awaited
<1>8. KeyIn(panelKind, t, t.mode) = Section(s)
  BY <1>6 DEF KeyIn, Section, SectionIn
<1>9. HeaderTold(panelKind, calls, w, t)
  <2>1. ASSUME ~t.crossed PROVE e[2] = e[1] /\ Waited(calls, w, t) = {}
    BY <1>3, <1>6, <1>7, <2>1 DEF Honest
  <2> QED BY <1>3, <1>6, <1>8, <2>1 DEF HeaderTold
<1>10. Sequenced(calls, w, t) /\ Whole(t) /\ Honest(t)
  BY <1>6 DEF Sequenced, Whole, Honest
<1> QED BY <1>1, <1>6, <1>9, <1>10 DEF StateInv

LEMMA LoadBegins ==
    ASSUME NEW w \in PnWindows, NEW s \in StateType, NEW calls \in SUBSET pnCalls, s.held,
           pnCalls \subseteq AwaitedType, Sequenced(calls, w, s), Whole(s), Honest(s)
    PROVE  /\ Superseded(s) \in StateType
           /\ LoadCall(w, Superseded(s)) \in AwaitedType
           /\ LoadCall(w, Superseded(s)).win = w /\ LoadCall(w, Superseded(s)).what = "load"
           /\ AskedBy(panelKind, LoadCall(w, Superseded(s)).want)
           /\ StateInv(panelKind, calls \cup {LoadCall(w, Superseded(s))}, w, Superseded(s))
           /\ (Superseded(s).held <=> s.held) /\ (Superseded(s).panel <=> s.panel)
           /\ (Superseded(s).shown <=> s.shown) /\ Superseded(s).inst = s.inst
<1>1. PICK t : t = Superseded(s)
  OBVIOUS
<1>2. PICK new : new = LoadCall(w, t)
  OBVIOUS
<1>3. /\ t \in StateType
      /\ t.held = s.held /\ t.inst = s.inst /\ t.active = s.active /\ t.panel = s.panel
      /\ t.shown = s.shown /\ t.run = s.run /\ t.mode = s.mode /\ t.line = s.line /\ t.spot = s.spot
      /\ t.section = s.section /\ t.cache = s.cache /\ t.seq = s.seq + 1 /\ t.lead = s.lead
      /\ t.pick = s.pick /\ t.behind = s.behind /\ t.crossed = s.crossed
  <2>1. s.seq + 1 \in Nat
    BY DEF StateType
  <2>2. t = [s EXCEPT !.seq = s.seq + 1]
    BY <1>1 DEF Superseded
  <2> QED BY <2>1, <2>2 DEF StateType
<1>4. /\ new.what = "load" /\ new.win = w /\ new.inst = t.inst /\ new.seq = t.seq
      /\ new.want = KeyIn(panelKind, t, t.mode)
  BY <1>2, KeyIsSection DEF LoadCall
<1>5. KeyIn(panelKind, t, t.mode) \in PnSections /\ AskedBy(panelKind, KeyIn(panelKind, t, t.mode))
  <2>1. t.mode \in {"point", "line"}
    BY <1>3 DEF StateType
  <2> QED BY <1>3, <2>1, KeysAreAsked
<1>6. new \in AwaitedType
  <2>1. t.inst \in Nat /\ t.seq \in Nat
    BY <1>3 DEF StateType
  <2>2. Section(t) \in PnSections
    BY <1>5, KeyIsSection
  <2> QED BY <1>2, <2>1, <2>2 DEF LoadCall, AwaitedType
<1>7. s.seq \in Nat /\ s.inst \in Nat
  BY DEF StateType
<1>8. Waited(calls \cup {new}, w, t) = {new}
  <2>1. ASSUME NEW c \in calls, c.what = "load", c.win = w, c.inst = t.inst, c.seq = t.seq PROVE FALSE
    BY <1>3, <1>7, <2>1 DEF Sequenced
  <2> QED BY <1>4, <2>1 DEF Waited
<1>9. FitsHeader(panelKind, t, new.want)
  BY <1>4 DEF FitsHeader, KeyIn
<1>10. HeaderTold(panelKind, calls \cup {new}, w, t)
  BY <1>8, <1>9 DEF HeaderTold
<1>11. Sequenced(calls \cup {new}, w, t)
  <2>1. ASSUME NEW c \in calls, c.win = w
        PROVE  /\ c.inst <= t.inst
               /\ c.what = "load" => c.seq >= 1 /\ (t.held /\ c.inst = t.inst => c.seq <= t.seq)
    <3>1. c.seq \in Nat
      BY DEF AwaitedType
    <3> QED BY <1>3, <1>7, <2>1, <3>1 DEF Sequenced
  <2>2. new.inst <= t.inst /\ new.seq >= 1 /\ new.seq <= t.seq
    BY <1>3, <1>4, <1>7
  <2> QED BY <2>1, <2>2 DEF Sequenced
<1>12. Whole(t) /\ Honest(t)
  BY <1>3 DEF Whole, Honest
<1> QED BY <1>1, <1>2, <1>3, <1>4, <1>5, <1>6, <1>10, <1>11, <1>12 DEF StateInv

LEMMA LoadsKeep ==
    ASSUME NEW w \in PnWindows, NEW s \in StateType, NEW calls \in SUBSET pnCalls, NEW looks,
           s.held, pnCalls \subseteq AwaitedType, Sequenced(calls, w, s), Whole(s), Honest(s)
    PROVE  /\ Loaded(w, s, looks) \in StateType
           /\ Called(w, s, looks) \subseteq AwaitedType
           /\ \A c \in Called(w, s, looks) : c.win = w /\ c.what = "load" /\ AskedBy(panelKind, c.want)
           /\ StateInv(panelKind, calls \cup Called(w, s, looks), w, Loaded(w, s, looks))
           /\ Loaded(w, s, looks).held /\ (Loaded(w, s, looks).panel <=> s.panel)
           /\ (Loaded(w, s, looks).shown <=> s.shown) /\ Loaded(w, s, looks).inst = s.inst
<1>1. CASE looks /\ CachedSection(s) # {}
  <2>1. Loaded(w, s, looks) = FromCache(w, s) /\ Called(w, s, looks) = {}
    BY <1>1 DEF Loaded, Called
  <2>2. calls \cup Called(w, s, looks) = calls
    BY <2>1
  <2>3. /\ FromCache(w, s) \in StateType
        /\ StateInv(panelKind, calls, w, FromCache(w, s))
        /\ (FromCache(w, s).held <=> s.held) /\ (FromCache(w, s).panel <=> s.panel)
        /\ (FromCache(w, s).shown <=> s.shown) /\ FromCache(w, s).inst = s.inst
    BY <1>1, CacheServes
  <2> QED BY <2>1, <2>2, <2>3
<1>2. CASE ~(looks /\ CachedSection(s) # {})
  <2>1. Loaded(w, s, looks) = Superseded(s) /\ Called(w, s, looks) = {LoadCall(w, Superseded(s))}
    BY <1>2 DEF Loaded, Called
  <2> QED BY <2>1, LoadBegins
<1> QED BY <1>1, <1>2
-----------------------------------------------------------------------------
\* What the registry and the layer say of a window's panel.
Registered(p, editor) ==
    /\ p.state.panel => (p.entry = "shown" <=> p.state.shown)
    /\ p.state.shown /\ ~p.strayed => p.eye = "visible" /\ ~editor
    /\ p.eye = "none" /\ ~p.hollow => p.entry = "none" /\ ~p.state.held
OneShown(ps) == \A v, w \in PnWindows : ps[v].state.shown /\ ps[w].state.shown => v = w

PanelTypes ==
    /\ panelKind \in PnKinds
    /\ pn \in [PnWindows -> ProfileType]
    /\ pnCalls \subseteq AwaitedType
    /\ pnFocus \in PnWindows
    /\ pnEditor \in BOOLEAN
    /\ \A c \in pnCalls : c.what = "load" => AskedBy(panelKind, c.want)

NInv ==
    /\ PanelTypes
    /\ \A w \in PnWindows : StateInv(panelKind, pnCalls, w, pn[w].state) /\ Registered(pn[w], pnEditor)
    /\ OneShown(pn)

(* The state of one window changes, and what it waits for.                 *)
LEMMA StateSteps ==
    ASSUME NInv, NEW w \in PnWindows, NEW t \in StateType, NEW more,
           pn' = [pn EXCEPT ![w].state = t], pnCalls' = more, more \subseteq AwaitedType,
           UNCHANGED <<panelKind, pnFocus, pnEditor>>,
           \A c \in more : c \in pnCalls \/ c.win = w,
           \A c \in pnCalls : c \in more \/ c.win = w,
           \A c \in more : c \in pnCalls \/ (c.what = "load" => AskedBy(panelKind, c.want)),
           StateInv(panelKind, more, w, t),
           t.shown <=> pn[w].state.shown, t.panel <=> pn[w].state.panel, t.held <=> pn[w].state.held
    PROVE  NInv'
<1>1. pn \in [PnWindows -> ProfileType]
  BY DEF NInv, PanelTypes
<1>2. /\ pn' \in [PnWindows -> ProfileType]
      /\ \A v \in PnWindows : v # w => pn'[v] = pn[v]
      /\ pn'[w].state = t /\ pn'[w].entry = pn[w].entry /\ pn'[w].eye = pn[w].eye
      /\ pn'[w].strayed = pn[w].strayed /\ pn'[w].hollow = pn[w].hollow
  BY <1>1 DEF ProfileType
<1>3. PanelTypes'
  BY <1>2 DEF NInv, PanelTypes
<1>4. ASSUME NEW v \in PnWindows, v # w PROVE StateInv(panelKind, more, v, pn[v].state)
  <2>1. \A c : c \in more /\ c.win = v <=> c \in pnCalls /\ c.win = v
    BY <1>4
  <2>2. Waited(more, v, pn[v].state) = Waited(pnCalls, v, pn[v].state)
    BY <2>1 DEF Waited
  <2>3. StateInv(panelKind, pnCalls, v, pn[v].state)
    BY DEF NInv
  <2>4. Sequenced(more, v, pn[v].state)
    BY <2>1, <2>3 DEF StateInv, Sequenced
  <2>5. HeaderTold(panelKind, more, v, pn[v].state)
    BY <2>1, <2>2, <2>3 DEF StateInv, HeaderTold
  <2> QED BY <2>3, <2>4, <2>5 DEF StateInv
<1>5. \A v \in PnWindows : StateInv(panelKind', pnCalls', v, pn'[v].state)
  BY <1>2, <1>4
<1>6. \A v \in PnWindows : Registered(pn'[v], pnEditor')
  BY <1>2 DEF NInv, Registered
<1>7. OneShown(pn')
  BY <1>2 DEF NInv, OneShown
<1> QED BY <1>3, <1>5, <1>6, <1>7 DEF NInv

LEMMA StatesAreSound ==
    ASSUME NInv, NEW w \in PnWindows
    PROVE  /\ pn[w] \in ProfileType /\ pn[w].state \in StateType
           /\ pnCalls \subseteq AwaitedType
           /\ Sequenced(pnCalls, w, pn[w].state) /\ Whole(pn[w].state) /\ Honest(pn[w].state)
           /\ HeaderTold(panelKind, pnCalls, w, pn[w].state)
<1>1. pn[w] \in ProfileType /\ pnCalls \subseteq AwaitedType
  BY DEF NInv, PanelTypes
<1>2. StateInv(panelKind, pnCalls, w, pn[w].state)
  BY DEF NInv
<1> QED BY <1>1, <1>2 DEF StateInv, ProfileType

LEMMA ModelKeeps ==
    ASSUME NInv, NEW w \in PnWindows, NEW r \in Runs, SetModel(w, r)
    PROVE  NInv'
<1>1. PICK s : s = pn[w].state
  OBVIOUS
<1>2. /\ s \in StateType /\ Sequenced(pnCalls, w, s) /\ Whole(s) /\ Honest(s)
      /\ HeaderTold(panelKind, pnCalls, w, s) /\ pnCalls \subseteq AwaitedType
  BY <1>1, StatesAreSound
<1>3. PICK t : t = [s EXCEPT !.run = r, !.crossed = @ \/ Awaited(w, s) # {}]
  OBVIOUS
<1>4. PICK new : new = [what |-> "model", win |-> w, inst |-> s.inst, seq |-> 0, want |-> NoSection,
                        visible |-> TRUE]
  OBVIOUS
<1>5. /\ pn' = [pn EXCEPT ![w].state = t] /\ pnCalls' = pnCalls \cup {new}
      /\ UNCHANGED <<panelKind, pnFocus, pnEditor>>
  BY <1>1, <1>3, <1>4 DEF SetModel, Operation
<1>6. /\ t \in StateType
      /\ (t.held <=> s.held) /\ t.inst = s.inst /\ (t.active <=> s.active) /\ (t.panel <=> s.panel)
      /\ (t.shown <=> s.shown) /\ t.run = r /\ t.mode = s.mode /\ t.line = s.line /\ t.spot = s.spot
      /\ t.section = s.section /\ t.cache = s.cache /\ t.seq = s.seq /\ t.lead = s.lead
      /\ t.pick = s.pick /\ (t.behind <=> s.behind) /\ (t.crossed <=> s.crossed \/ Awaited(w, s) # {})
  BY <1>2, <1>3 DEF StateType
<1>7. new \in AwaitedType /\ new.what = "model" /\ new.win = w /\ new.inst = s.inst
  BY <1>2, <1>4 DEF AwaitedType, StateType
<1>8. Waited(pnCalls \cup {new}, w, t) = Awaited(w, s)
  BY <1>6, <1>7 DEF Waited, Awaited
<1>9. Sequenced(pnCalls \cup {new}, w, t)
  BY <1>2, <1>6, <1>7 DEF Sequenced, StateType
<1>10. HeaderTold(panelKind, pnCalls \cup {new}, w, t)
  BY <1>6, <1>7, <1>8 DEF HeaderTold
<1>11. Whole(t) /\ Honest(t)
  BY <1>2, <1>6 DEF Whole, Honest
<1>12. StateInv(panelKind, pnCalls \cup {new}, w, t)
  BY <1>9, <1>10, <1>11 DEF StateInv
<1>13. /\ pnCalls \cup {new} \subseteq AwaitedType
       /\ \A c \in pnCalls \cup {new} : c \in pnCalls \/ c.win = w
       /\ \A c \in pnCalls : c \in pnCalls \cup {new}
       /\ \A c \in pnCalls \cup {new} : c \in pnCalls \/ (c.what = "load" => AskedBy(panelKind, c.want))
  BY <1>2, <1>7
<1> QED BY <1>1, <1>5, <1>6, <1>12, <1>13, StateSteps

(* A change of the settings and the load that follows it.                  *)
LEMMA ChangeKeeps ==
    ASSUME NInv, NEW w \in PnWindows, NEW s \in StateType, NEW looks,
           pn[w].state.held, pn' = [pn EXCEPT ![w].state = Loaded(w, s, looks)],
           pnCalls' = pnCalls \cup Called(w, s, looks),
           UNCHANGED <<panelKind, pnFocus, pnEditor>>,
           s.held, s.inst = pn[w].state.inst, s.seq = pn[w].state.seq,
           s.panel <=> pn[w].state.panel, s.shown <=> pn[w].state.shown, s.cache = pn[w].state.cache,
           s.crossed <=> pn[w].state.crossed,
           s.pick # "idle" => s.mode = "line" /\ s.panel
    PROVE  NInv'
<1>1. PICK t : t = Loaded(w, s, looks)
  OBVIOUS
<1>2. PICK called : called = Called(w, s, looks)
  OBVIOUS
<1>3. pnCalls \subseteq AwaitedType /\ Sequenced(pnCalls, w, s) /\ Whole(s) /\ Honest(s)
  BY StatesAreSound DEF Sequenced, Whole, Honest
<1>4. /\ t \in StateType /\ called \subseteq AwaitedType
      /\ \A c \in called : c.win = w /\ c.what = "load" /\ AskedBy(panelKind, c.want)
      /\ StateInv(panelKind, pnCalls \cup called, w, t)
      /\ t.held /\ (t.panel <=> s.panel) /\ (t.shown <=> s.shown)
  BY <1>1, <1>2, <1>3, LoadsKeep
<1>5. pn' = [pn EXCEPT ![w].state = t] /\ pnCalls' = pnCalls \cup called
  BY <1>1, <1>2
<1>6. /\ pnCalls \cup called \subseteq AwaitedType
      /\ \A c \in pnCalls \cup called : c \in pnCalls \/ c.win = w
      /\ \A c \in pnCalls : c \in pnCalls \cup called
      /\ \A c \in pnCalls \cup called : c \in pnCalls \/ (c.what = "load" => AskedBy(panelKind, c.want))
  BY <1>3, <1>4
<1> QED BY <1>4, <1>5, <1>6, StateSteps

LEMMA SettingsKeep ==
    ASSUME NInv, NEW w \in PnWindows,
           \/ \E r \in Runs : SetCycle(w, r)
           \/ \E l \in Lines, clicked \in BOOLEAN : SetLine(w, l, clicked)
           \/ \E mode \in {"point", "line"} : SetMode(w, mode)
           \/ \E x \in Spots : SetSpot(w, x)
    PROVE  NInv'
<1>1. PICK p : p = pn[w].state
  OBVIOUS
<1>2. p \in StateType /\ Whole(p)
  BY <1>1, StatesAreSound
<1>3. ASSUME NEW s \in StateType, NEW looks, Change(w, s, looks), UNCHANGED panelKind,
             s.held = p.held, s.inst = p.inst, s.seq = p.seq, s.panel = p.panel, s.shown = p.shown,
             s.cache = p.cache, s.crossed = p.crossed, s.pick # "idle" => s.mode = "line" /\ s.panel
      PROVE  NInv'
  <2>1. /\ p.panel
        /\ pn' = [pn EXCEPT ![w].state = Loaded(w, s, looks)]
        /\ pnCalls' = pnCalls \cup Called(w, s, looks)
        /\ UNCHANGED <<panelKind, pnFocus, pnEditor>>
    BY <1>1, <1>3 DEF Change
  <2>2. p.held
    BY <1>2, <2>1 DEF Whole
  <2> QED BY <1>1, <1>3, <2>1, <2>2, ChangeKeeps
<1>4. ASSUME NEW r \in Runs, SetCycle(w, r) PROVE NInv'
  <2>1. PICK s : s = [p EXCEPT !.run = r]
    OBVIOUS
  <2>2. /\ s \in StateType
        /\ s.held = p.held /\ s.inst = p.inst /\ s.seq = p.seq /\ s.panel = p.panel /\ s.shown = p.shown
        /\ s.cache = p.cache /\ s.crossed = p.crossed /\ s.pick = p.pick /\ s.mode = p.mode
    BY <1>2, <2>1 DEF StateType
  <2>3. s.pick # "idle" => s.mode = "line" /\ s.panel
    BY <1>2, <2>2 DEF Whole
  <2>4. Change(w, s, LooksUp(s)) /\ UNCHANGED panelKind
    BY <1>1, <1>4, <2>1 DEF SetCycle, Operation
  <2> QED BY <1>3, <2>2, <2>3, <2>4
<1>5. ASSUME NEW l \in Lines, NEW clicked \in BOOLEAN, SetLine(w, l, clicked) PROVE NInv'
  <2>1. PICK s : s = [p EXCEPT !.line = l, !.mode = "line",
                               !.pick = IF clicked \/ p.mode # "line" THEN "idle" ELSE @]
    OBVIOUS
  <2>2. /\ s \in StateType
        /\ s.held = p.held /\ s.inst = p.inst /\ s.seq = p.seq /\ s.panel = p.panel /\ s.shown = p.shown
        /\ s.cache = p.cache /\ s.crossed = p.crossed /\ s.pick \in {p.pick, "idle"} /\ s.mode = "line"
    BY <1>2, <2>1 DEF StateType
  <2>3. s.pick # "idle" => s.mode = "line" /\ s.panel
    BY <1>2, <2>2 DEF Whole
  <2>4. Change(w, s, LooksUp(s)) /\ UNCHANGED panelKind
    BY <1>1, <1>5, <2>1 DEF SetLine, Operation
  <2> QED BY <1>3, <2>2, <2>3, <2>4
<1>6. ASSUME NEW mode \in {"point", "line"}, SetMode(w, mode) PROVE NInv'
  <2>1. PICK s : s = [p EXCEPT !.mode = mode, !.pick = "idle"]
    OBVIOUS
  <2>2. /\ s \in StateType
        /\ s.held = p.held /\ s.inst = p.inst /\ s.seq = p.seq /\ s.panel = p.panel /\ s.shown = p.shown
        /\ s.cache = p.cache /\ s.crossed = p.crossed /\ s.pick = "idle"
    BY <1>2, <2>1 DEF StateType
  <2>3. Change(w, s, LooksUp(s)) /\ UNCHANGED panelKind
    BY <1>1, <1>6, <2>1 DEF SetMode, Operation
  <2> QED BY <1>3, <2>2, <2>3
<1>7. ASSUME NEW x \in Spots, SetSpot(w, x) PROVE NInv'
  <2> DEFINE m == IF panelKind = "timeheight" THEN "point" ELSE p.mode
             k == IF panelKind = "timeheight" THEN "idle" ELSE p.pick
  <2>1. PICK s : s = [p EXCEPT !.spot = x, !.mode = m, !.pick = k]
    OBVIOUS
  <2>5. /\ x \in AllSpots /\ m \in {"point", "line"} /\ k \in {"idle", "first", "second", "end"}
        /\ k = "idle" \/ (k = p.pick /\ m = p.mode)
    BY <1>2 DEF AllSpots, StateType
  <2> HIDE DEF m, k
  <2>2. /\ s \in StateType
        /\ s.held = p.held /\ s.inst = p.inst /\ s.seq = p.seq /\ s.panel = p.panel /\ s.shown = p.shown
        /\ s.cache = p.cache /\ s.crossed = p.crossed
        /\ s.pick = "idle" \/ (s.pick = p.pick /\ s.mode = p.mode)
    BY <1>2, <2>1, <2>5 DEF StateType
  <2>3. s.pick # "idle" => s.mode = "line" /\ s.panel
    BY <1>2, <2>2 DEF Whole
  <2>4. Change(w, s, TRUE) /\ UNCHANGED panelKind
    BY <1>1, <1>7, <2>1 DEF SetSpot, Operation, m, k
  <2> QED BY <1>3, <2>2, <2>3, <2>4
<1> QED BY <1>4, <1>5, <1>6, <1>7

(* A change that asks for nothing: what the header tells of stays, or the   *)
(* panel is marked as behind it.                                           *)
LEMMA QuietSteps ==
    ASSUME NInv, NEW w \in PnWindows, NEW t \in StateType,
           pn' = [pn EXCEPT ![w].state = t], UNCHANGED <<panelKind, pnCalls, pnFocus, pnEditor>>,
           t.held <=> pn[w].state.held, t.inst = pn[w].state.inst, t.active <=> pn[w].state.active,
           t.panel <=> pn[w].state.panel, t.shown <=> pn[w].state.shown, t.run = pn[w].state.run,
           t.line = pn[w].state.line, t.section = pn[w].state.section, t.cache = pn[w].state.cache,
           t.crossed <=> pn[w].state.crossed, t.spot = pn[w].state.spot,
           \/ t.mode = pn[w].state.mode /\ t.seq = pn[w].state.seq /\ (t.behind <=> pn[w].state.behind)
           \/ t.behind /\ t.seq = pn[w].state.seq
           \/ t.behind /\ t.seq = pn[w].state.seq + 1 /\ t.held,
           ~t.held => t.lead = NoLead,
           t.pick # "idle" => t.mode = "line" /\ t.panel
    PROVE  NInv'
<1>1. PICK s : s = pn[w].state
  OBVIOUS
<1>2. /\ s \in StateType /\ Sequenced(pnCalls, w, s) /\ Whole(s) /\ Honest(s)
      /\ HeaderTold(panelKind, pnCalls, w, s) /\ pnCalls \subseteq AwaitedType
  BY <1>1, StatesAreSound
<1>3. \A c \in pnCalls : c.seq \in Nat /\ c.inst \in Nat
  BY <1>2 DEF AwaitedType
<1>4. s.seq \in Nat /\ s.inst \in Nat /\ t.seq \in Nat
  BY <1>2 DEF StateType
<1>5. t.seq \in {s.seq, s.seq + 1} /\ (t.seq # s.seq => t.held)
  BY <1>1
<1>6. Sequenced(pnCalls, w, t)
  <2>1. t.inst = s.inst /\ (t.held <=> s.held)
    BY <1>1
  <2>2. ASSUME NEW c \in pnCalls, c.win = w
        PROVE  /\ c.inst <= t.inst
               /\ c.what = "load" => c.seq >= 1 /\ (t.held /\ c.inst = t.inst => c.seq <= t.seq)
    BY <1>2, <1>3, <1>4, <1>5, <2>1, <2>2 DEF Sequenced
  <2> QED BY <2>2 DEF Sequenced
<1>7. Whole(t) /\ Honest(t)
  <2>1. ~t.held => t.seq = 0
    BY <1>1, <1>2, <1>5 DEF Whole
  <2> QED BY <1>1, <1>2, <2>1 DEF Whole, Honest
<1>8. \A x : FitsHeader(panelKind, s, x) <=> FitsHeader(panelKind, t, x)
  BY <1>1 DEF FitsHeader, KeyIn
<1>9. HeaderTold(panelKind, pnCalls, w, t)
  <2>1. CASE t.seq = s.seq
    <3>1. Waited(pnCalls, w, t) = Waited(pnCalls, w, s)
      BY <1>1, <2>1 DEF Waited
    <3>2. t.behind \/ (KeyIn(panelKind, t, t.mode) = KeyIn(panelKind, s, s.mode) /\ (t.behind <=> s.behind))
      BY <1>1, <1>4, <2>1 DEF KeyIn
    <3> QED BY <1>1, <1>2, <1>8, <3>1, <3>2 DEF HeaderTold
  <2>2. CASE t.seq = s.seq + 1 /\ t.held
    <3>1. t.behind
      BY <1>1, <1>4, <2>2
    <3>2. Waited(pnCalls, w, t) = {}
      BY <1>1, <1>2, <1>3, <1>4, <2>2 DEF Waited, Sequenced
    <3> QED BY <3>1, <3>2 DEF HeaderTold
  <2> QED BY <1>5, <1>4, <2>1, <2>2
<1>10. StateInv(panelKind, pnCalls, w, t)
  BY <1>6, <1>7, <1>9 DEF StateInv
<1> QED BY <1>2, <1>10, StateSteps

LEMMA PicksKeep ==
    ASSUME NInv, NEW w \in PnWindows, NEW pick \in {"idle", "first", "second", "end"}, Pick(w, pick)
    PROVE  NInv'
<1>1. PICK s : s = pn[w].state
  OBVIOUS
<1>2. s \in StateType /\ Whole(s)
  BY <1>1, StatesAreSound
<1> DEFINE mode == IF pick \in {"first", "end"} THEN "line" ELSE s.mode
           behind == s.behind \/ s.mode # "line"
<1>3. PICK t : t = [s EXCEPT !.pick = pick, !.behind = behind, !.mode = mode]
  OBVIOUS
<1>4. /\ pn' = [pn EXCEPT ![w].state = [s EXCEPT !.pick = pick, !.behind = @ \/ s.mode # "line",
                                        !.mode = IF pick \in {"first", "end"} THEN "line" ELSE @]]
      /\ UNCHANGED <<panelKind, pnCalls, pnFocus, pnEditor>> /\ s.panel
      /\ pick = "second" => s.pick = "first"
  BY <1>1 DEF Pick, Operation
<1>5. pn' = [pn EXCEPT ![w].state = t]
  BY <1>2, <1>3, <1>4 DEF StateType
<1>6. mode \in {"point", "line"} /\ behind \in BOOLEAN /\ ((mode = s.mode /\ (behind <=> s.behind)) \/ behind)
  BY <1>2 DEF StateType
<1>7. pick # "idle" => mode = "line"
  BY <1>2, <1>4 DEF Whole
<1> HIDE DEF mode, behind
<1>8. /\ t \in StateType
      /\ (t.held <=> s.held) /\ t.inst = s.inst /\ (t.active <=> s.active) /\ (t.panel <=> s.panel)
      /\ (t.shown <=> s.shown) /\ t.run = s.run /\ t.mode = mode /\ t.line = s.line /\ t.spot = s.spot
      /\ t.section = s.section /\ t.cache = s.cache /\ t.seq = s.seq /\ t.lead = s.lead
      /\ t.pick = pick /\ (t.behind <=> behind) /\ (t.crossed <=> s.crossed)
  BY <1>2, <1>3, <1>6 DEF StateType
<1>9. /\ t.pick # "idle" => t.mode = "line" /\ t.panel
      /\ ~t.held => t.lead = NoLead
  BY <1>2, <1>4, <1>7, <1>8 DEF Whole
<1> QED BY <1>1, <1>4, <1>5, <1>6, <1>8, <1>9, QuietSteps

LEMMA LeadKeeps ==
    ASSUME NInv, NEW w \in PnWindows, NEW x \in Spots, SetLead(w, x)
    PROVE  NInv'
<1>1. PICK s : s = pn[w].state
  OBVIOUS
<1>2. s \in StateType /\ Whole(s)
  BY <1>1, StatesAreSound
<1>3. PICK t : t = [s EXCEPT !.lead = x]
  OBVIOUS
<1>4. /\ pn' = [pn EXCEPT ![w].state = t]
      /\ UNCHANGED <<panelKind, pnCalls, pnFocus, pnEditor>> /\ s.active
  BY <1>1, <1>3 DEF SetLead, Operation
<1>5. /\ t \in StateType
      /\ (t.held <=> s.held) /\ t.inst = s.inst /\ (t.active <=> s.active) /\ (t.panel <=> s.panel)
      /\ (t.shown <=> s.shown) /\ t.run = s.run /\ t.mode = s.mode /\ t.line = s.line /\ t.spot = s.spot
      /\ t.section = s.section /\ t.cache = s.cache /\ t.seq = s.seq /\ t.lead = x
      /\ t.pick = s.pick /\ (t.behind <=> s.behind) /\ (t.crossed <=> s.crossed)
  BY <1>2, <1>3 DEF StateType
<1>6. t.held /\ (t.pick # "idle" => t.mode = "line" /\ t.panel)
  BY <1>2, <1>4, <1>5 DEF Whole
<1> QED BY <1>1, <1>4, <1>5, <1>6, QuietSteps

LEMMA TimerKeeps ==
    ASSUME NInv, NEW w \in PnWindows, LeadTimer(w)
    PROVE  NInv'
<1>1. PICK s : s = pn[w].state
  OBVIOUS
<1>2. s \in StateType /\ Whole(s)
  BY <1>1, StatesAreSound
<1>3. PICK t : t = [s EXCEPT !.lead = NoLead, !.spot = s.lead]
  OBVIOUS
<1>4. /\ UNCHANGED <<panelKind, pnFocus, pnEditor>> /\ s.lead # NoLead
      /\ \/ s.lead = s.spot /\ pn' = [pn EXCEPT ![w].state = t] /\ UNCHANGED pnCalls
         \/ pn' = [pn EXCEPT ![w].state = Loaded(w, t, TRUE)] /\ pnCalls' = pnCalls \cup Called(w, t, TRUE)
  BY <1>1, <1>3 DEF LeadTimer
<1>5. s.lead \in AllSpots /\ s.held
  BY <1>2, <1>4 DEF AllSpots, StateType, Whole
<1>6. /\ t \in StateType
      /\ (t.held <=> s.held) /\ t.inst = s.inst /\ (t.active <=> s.active) /\ (t.panel <=> s.panel)
      /\ (t.shown <=> s.shown) /\ t.run = s.run /\ t.mode = s.mode /\ t.line = s.line /\ t.spot = s.lead
      /\ t.section = s.section /\ t.cache = s.cache /\ t.seq = s.seq /\ t.lead = NoLead
      /\ t.pick = s.pick /\ (t.behind <=> s.behind) /\ (t.crossed <=> s.crossed)
  BY <1>2, <1>3, <1>5 DEF StateType
<1>7. t.pick # "idle" => t.mode = "line" /\ t.panel
  BY <1>2, <1>6 DEF Whole
<1>8. CASE s.lead = s.spot /\ pn' = [pn EXCEPT ![w].state = t] /\ UNCHANGED pnCalls
  BY <1>1, <1>4, <1>5, <1>6, <1>7, <1>8, QuietSteps
<1>9. CASE pn' = [pn EXCEPT ![w].state = Loaded(w, t, TRUE)] /\ pnCalls' = pnCalls \cup Called(w, t, TRUE)
  BY <1>1, <1>4, <1>5, <1>6, <1>7, <1>9, ChangeKeeps
<1> QED BY <1>4, <1>8, <1>9

LEMMA CancelKeeps ==
    ASSUME NInv, NEW w \in PnWindows, CancelLoad(w)
    PROVE  NInv'
<1>1. PICK s : s = pn[w].state
  OBVIOUS
<1>2. s \in StateType /\ Whole(s) /\ Sequenced(pnCalls, w, s)
  BY <1>1, StatesAreSound
<1>3. s.seq \in Nat /\ s.seq + 1 \in Nat /\ s.inst \in Nat
  BY <1>2 DEF StateType
<1>4. PICK t : t = [s EXCEPT !.seq = s.seq + 1, !.behind = TRUE, !.lead = NoLead]
  OBVIOUS
<1>5. /\ pn' = [pn EXCEPT ![w].state = t]
      /\ UNCHANGED <<panelKind, pnCalls, pnFocus, pnEditor>> /\ Awaited(w, s) # {}
  BY <1>1, <1>4 DEF CancelLoad, Superseded, Operation
<1>6. s.held
  <2>1. PICK c \in pnCalls : c.what = "load" /\ c.win = w /\ c.inst = s.inst /\ c.seq = s.seq
    BY <1>5 DEF Awaited
  <2>2. s.seq >= 1
    BY <1>2, <2>1 DEF Sequenced
  <2> QED BY <1>2, <1>3, <2>2 DEF Whole
<1>7. /\ t \in StateType
      /\ (t.held <=> s.held) /\ t.inst = s.inst /\ (t.active <=> s.active) /\ (t.panel <=> s.panel)
      /\ (t.shown <=> s.shown) /\ t.run = s.run /\ t.mode = s.mode /\ t.line = s.line /\ t.spot = s.spot
      /\ t.section = s.section /\ t.cache = s.cache /\ t.seq = s.seq + 1 /\ t.lead = NoLead
      /\ t.pick = s.pick /\ t.behind /\ (t.crossed <=> s.crossed)
  BY <1>2, <1>3, <1>4 DEF StateType
<1>8. t.pick # "idle" => t.mode = "line" /\ t.panel
  BY <1>2, <1>7 DEF Whole
<1> QED BY <1>1, <1>5, <1>6, <1>7, <1>8, QuietSteps

(* A section is there: it is what the header says by then, and is stored    *)
(* under its own key, if nothing has crossed it.                           *)
LEMMA SectionArrives ==
    ASSUME NEW w \in PnWindows, NEW s \in StateType, NEW want \in PnSections, NEW more \in SUBSET pnCalls,
           StateInv(panelKind, pnCalls, w, s), AskedBy(panelKind, want),
           ~s.crossed => FitsHeader(panelKind, s, want)
    PROVE  /\ Arrived(s, want) \in StateType
           /\ StateInv(panelKind, more, w, Arrived(s, want))
           /\ (Arrived(s, want).held <=> s.held) /\ (Arrived(s, want).panel <=> s.panel)
           /\ (Arrived(s, want).shown <=> s.shown)
<1> DEFINE spot == IF panelKind # "timeheight" THEN s.spot
                   ELSE IF want[2] = "point" THEN want[3] ELSE Middle(want[3])
           key == KeyIn(panelKind, [s EXCEPT !.spot = spot], want[2])
           behind == panelKind = "timeheight" /\ want[2] # s.mode
           cache == {e \in s.cache : e[1] # key} \cup {<<key, want>>}
<1>1. PICK t : t = Arrived(s, want)
  OBVIOUS
<1>2. /\ s.run \in Runs /\ s.line \in Lines /\ s.spot \in AllSpots /\ s.mode \in {"point", "line"}
      /\ s.cache \in SUBSET (PnSections \X PnSections)
  BY DEF StateType
<1>3. panelKind = "timeheight" => /\ want[2] = "point" => want[3] \in AllSpots
                                  /\ want[2] # "point" => want[2] = "line" /\ want[3] \in Lines
  BY DEF AskedBy
<1>4. spot \in AllSpots
  BY <1>2, <1>3 DEF AllSpots
<1> HIDE DEF spot
<1>5. PICK u : u = [s EXCEPT !.spot = spot]
  OBVIOUS
<1>6. /\ u \in StateType /\ u.spot = spot /\ u.run = s.run /\ u.line = s.line /\ u.mode = s.mode
      /\ u.held = s.held /\ u.inst = s.inst /\ u.active = s.active /\ u.panel = s.panel
      /\ u.shown = s.shown /\ u.seq = s.seq /\ u.lead = s.lead /\ u.pick = s.pick
      /\ u.crossed = s.crossed /\ u.cache = s.cache
  BY <1>4, <1>5 DEF StateType
<1>7. /\ panelKind # "timeheight" => key = <<s.run, s.line, spot>>
      /\ panelKind = "timeheight" /\ want[2] = "line" => key = <<s.run, "line", s.line>>
      /\ panelKind = "timeheight" /\ want[2] = "point" => key = <<s.run, "point", spot>>
  BY <1>5, <1>6 DEF KeyIn
<1>8. key \in PnSections
  BY <1>2, <1>3, <1>4, <1>7 DEF PnSections
<1>9. FitsHeader(panelKind, s, want) => key = want
  <2> SUFFICES ASSUME FitsHeader(panelKind, s, want) PROVE key = want
    OBVIOUS
  <2>1. CASE panelKind # "timeheight"
    BY <1>7, <2>1 DEF FitsHeader, KeyIn, spot
  <2>2. CASE panelKind = "timeheight" /\ want[2] = "line"
    <3>1. PICK r \in Runs, l \in Lines : want = <<r, "line", l>>
      BY <2>2 DEF AskedBy
    <3> QED BY <1>7, <2>2, <3>1 DEF FitsHeader
  <2>3. CASE panelKind = "timeheight" /\ want[2] = "point"
    <3>1. PICK r \in Runs, p \in AllSpots : want = <<r, "point", p>>
      BY <2>3 DEF AskedBy
    <3> QED BY <1>7, <2>3, <3>1 DEF FitsHeader, spot
  <2> QED BY <1>3, <2>1, <2>2, <2>3
<1>10. t = [u EXCEPT !.section = want, !.behind = behind, !.cache = cache]
  <2>1. SectionIn(u, want[2]) = key
    BY <1>5, KeyIsSection
  <2>2. u = [s EXCEPT !.spot = IF panelKind # "timeheight" THEN @
                               ELSE IF want[2] = "point" THEN want[3] ELSE Middle(want[3])]
    BY <1>5 DEF spot
  <2>3. t = [u EXCEPT !.section = want, !.behind = panelKind = "timeheight" /\ want[2] # s.mode,
                      !.cache = {e \in @ : e[1] # SectionIn(u, want[2])}
                                   \cup {<<SectionIn(u, want[2]), want>>}]
    BY <1>1, <2>2 DEF Arrived
  <2> QED BY <1>6, <2>1, <2>3 DEF StateType
<1>11. cache \in SUBSET (PnSections \X PnSections) /\ behind \in BOOLEAN /\ want \in PnSections \cup {NoSection}
  BY <1>2, <1>8
<1> HIDE DEF key, behind, cache
<1>12. /\ t \in StateType /\ t.spot = spot /\ t.run = s.run /\ t.line = s.line /\ t.mode = s.mode
       /\ t.held = s.held /\ t.inst = s.inst /\ t.active = s.active /\ t.panel = s.panel
       /\ t.shown = s.shown /\ t.seq = s.seq /\ t.lead = s.lead /\ t.pick = s.pick
       /\ t.crossed = s.crossed /\ t.section = want /\ (t.behind <=> behind) /\ t.cache = cache
  BY <1>6, <1>10, <1>11 DEF StateType
<1>13. ~t.behind => KeyIn(panelKind, t, t.mode) = key
  BY <1>3, <1>7, <1>12 DEF KeyIn, behind
<1>14. \A x : FitsHeader(panelKind, t, x) <=> FitsHeader(panelKind, s, x)
  BY <1>12 DEF FitsHeader, KeyIn, spot
<1>15. Waited(more, w, t) \subseteq Waited(pnCalls, w, s)
  BY <1>12 DEF Waited
<1>16. HeaderTold(panelKind, more, w, t)
  <2>1. ~t.crossed => \A c \in Waited(more, w, t) : FitsHeader(panelKind, t, c.want)
    BY <1>12, <1>14, <1>15 DEF StateInv, HeaderTold
  <2>2. ~t.crossed /\ ~t.behind => t.section = KeyIn(panelKind, t, t.mode)
    BY <1>9, <1>12, <1>13
  <2> QED BY <2>1, <2>2 DEF HeaderTold
<1>17. Honest(t)
  <2> SUFFICES ASSUME ~t.crossed, NEW e \in t.cache PROVE e[1] = e[2]
    BY DEF Honest
  <2>1. key = want
    BY <1>9, <1>12
  <2>2. e \in s.cache \/ e = <<key, want>>
    BY <1>12 DEF cache
  <2>3. Honest(s) /\ ~s.crossed
    BY <1>12 DEF StateInv
  <2> QED BY <2>1, <2>2, <2>3 DEF Honest
<1>18. Sequenced(more, w, t) /\ Whole(t)
  BY <1>12 DEF StateInv, Sequenced, Whole
<1> QED BY <1>1, <1>12, <1>16, <1>17, <1>18 DEF StateInv

LEMMA EndLoadKeeps ==
    ASSUME NInv, NEW c \in pnCalls, NEW ok \in BOOLEAN, EndLoad(c, ok)
    PROVE  NInv'
<1>1. PICK w : w = c.win
  OBVIOUS
<1>2. c \in AwaitedType /\ w \in PnWindows /\ (c.what = "load" => AskedBy(panelKind, c.want))
  BY <1>1 DEF NInv, PanelTypes, AwaitedType
<1>3. PICK s : s = pn[w].state
  OBVIOUS
<1>4. /\ s \in StateType /\ pnCalls \subseteq AwaitedType
      /\ Sequenced(pnCalls, w, s) /\ Whole(s) /\ Honest(s) /\ HeaderTold(panelKind, pnCalls, w, s)
  BY <1>2, <1>3, StatesAreSound
<1>5. PICK t : t = IF ~CurrentLoad(s, c) THEN s
                   ELSE IF ok THEN Arrived(s, c.want) ELSE [s EXCEPT !.behind = TRUE]
  OBVIOUS
<1>6. /\ pn' = [pn EXCEPT ![w].state = t] /\ pnCalls' = pnCalls \ {c} /\ c.what = "load"
      /\ UNCHANGED <<panelKind, pnFocus, pnEditor>>
  BY <1>1, <1>3, <1>5 DEF EndLoad
<1>7. /\ pnCalls \ {c} \subseteq AwaitedType
      /\ \A d \in pnCalls \ {c} : d \in pnCalls \/ d.win = w
      /\ \A d \in pnCalls : d \in pnCalls \ {c} \/ d.win = w
      /\ \A d \in pnCalls \ {c} : d \in pnCalls \/ (d.what = "load" => AskedBy(panelKind, d.want))
  BY <1>1, <1>4
<1>8. Sequenced(pnCalls \ {c}, w, s)
  BY <1>4 DEF Sequenced
<1>9. CASE ~CurrentLoad(s, c)
  <2>1. t = s
    BY <1>5, <1>9
  <2>2. Waited(pnCalls \ {c}, w, s) = Waited(pnCalls, w, s)
    BY <1>9 DEF Waited, CurrentLoad
  <2>3. HeaderTold(panelKind, pnCalls \ {c}, w, s)
    BY <1>4, <1>6, <2>2 DEF HeaderTold
  <2>4. StateInv(panelKind, pnCalls \ {c}, w, t)
    BY <1>4, <1>8, <2>1, <2>3 DEF StateInv
  <2> QED BY <1>2, <1>3, <1>4, <1>6, <1>7, <2>1, <2>4, StateSteps
<1>10. CASE CurrentLoad(s, c) /\ ok
  <2>1. t = Arrived(s, c.want)
    BY <1>5, <1>10
  <2>2. c \in Waited(pnCalls, w, s)
    BY <1>1, <1>6, <1>10 DEF Waited, CurrentLoad
  <2>3. ~s.crossed => FitsHeader(panelKind, s, c.want)
    BY <1>4, <2>2 DEF HeaderTold
  <2>4. c.want \in PnSections
    BY <1>2, <1>6 DEF AskedBy, PnSections
  <2>5. StateInv(panelKind, pnCalls, w, s) /\ AskedBy(panelKind, c.want)
    BY <1>2, <1>4, <1>6 DEF StateInv
  <2>6. /\ t \in StateType /\ StateInv(panelKind, pnCalls \ {c}, w, t)
        /\ (t.held <=> s.held) /\ (t.panel <=> s.panel) /\ (t.shown <=> s.shown)
    BY <1>2, <1>4, <2>1, <2>3, <2>4, <2>5, SectionArrives
  <2> QED BY <1>2, <1>3, <1>6, <1>7, <2>6, StateSteps
<1>11. CASE CurrentLoad(s, c) /\ ~ok
  <2>1. t = [s EXCEPT !.behind = TRUE]
    BY <1>5, <1>11
  <2>2. /\ t \in StateType
        /\ (t.held <=> s.held) /\ t.inst = s.inst /\ (t.active <=> s.active) /\ (t.panel <=> s.panel)
        /\ (t.shown <=> s.shown) /\ t.run = s.run /\ t.mode = s.mode /\ t.line = s.line /\ t.spot = s.spot
        /\ t.section = s.section /\ t.cache = s.cache /\ t.seq = s.seq /\ t.lead = s.lead
        /\ t.pick = s.pick /\ t.behind /\ (t.crossed <=> s.crossed)
    BY <1>4, <2>1 DEF StateType
  <2>3. Waited(pnCalls \ {c}, w, t) \subseteq Waited(pnCalls, w, s)
    BY <2>2 DEF Waited
  <2>4. \A x : FitsHeader(panelKind, t, x) <=> FitsHeader(panelKind, s, x)
    BY <2>2 DEF FitsHeader, KeyIn
  <2>5. HeaderTold(panelKind, pnCalls \ {c}, w, t)
    BY <1>4, <2>2, <2>3, <2>4 DEF HeaderTold
  <2>6. Sequenced(pnCalls \ {c}, w, t) /\ Whole(t) /\ Honest(t)
    BY <1>4, <1>8, <2>2 DEF Sequenced, Whole, Honest
  <2>7. StateInv(panelKind, pnCalls \ {c}, w, t)
    BY <2>5, <2>6 DEF StateInv
  <2> QED BY <1>2, <1>3, <1>6, <1>7, <2>2, <2>7, StateSteps
<1> QED BY <1>9, <1>10, <1>11
-----------------------------------------------------------------------------
(* A window's panel, entry and layer change, and what it waits for.        *)
LEMMA WindowSteps ==
    ASSUME NInv, NEW w \in PnWindows, NEW p \in ProfileType, NEW more,
           pn' = [pn EXCEPT ![w] = p], pnCalls' = more, more \subseteq AwaitedType,
           UNCHANGED <<panelKind, pnFocus, pnEditor>>,
           \A c \in more : c \in pnCalls \/ c.win = w,
           \A c \in pnCalls : c \in more \/ c.win = w,
           \A c \in more : c \in pnCalls \/ (c.what = "load" => AskedBy(panelKind, c.want)),
           StateInv(panelKind, more, w, p.state), Registered(p, pnEditor),
           p.state.shown => pn[w].state.shown
    PROVE  NInv'
<1>1. pn \in [PnWindows -> ProfileType]
  BY DEF NInv, PanelTypes
<1>2. /\ pn' \in [PnWindows -> ProfileType]
      /\ \A v \in PnWindows : v # w => pn'[v] = pn[v]
      /\ pn'[w] = p
  BY <1>1
<1>3. PanelTypes'
  BY <1>2 DEF NInv, PanelTypes
<1>4. ASSUME NEW v \in PnWindows, v # w PROVE StateInv(panelKind, more, v, pn[v].state)
  <2>1. \A c : c \in more /\ c.win = v <=> c \in pnCalls /\ c.win = v
    BY <1>4
  <2>2. Waited(more, v, pn[v].state) = Waited(pnCalls, v, pn[v].state)
    BY <2>1 DEF Waited
  <2>3. StateInv(panelKind, pnCalls, v, pn[v].state)
    BY DEF NInv
  <2>4. Sequenced(more, v, pn[v].state)
    BY <2>1, <2>3 DEF StateInv, Sequenced
  <2>5. HeaderTold(panelKind, more, v, pn[v].state)
    BY <2>1, <2>2, <2>3 DEF StateInv, HeaderTold
  <2> QED BY <2>3, <2>4, <2>5 DEF StateInv
<1>5. \A v \in PnWindows : StateInv(panelKind', pnCalls', v, pn'[v].state)
  BY <1>2, <1>4
<1>6. \A v \in PnWindows : Registered(pn'[v], pnEditor')
  <2>1. ASSUME NEW v \in PnWindows PROVE Registered(pn'[v], pnEditor')
    BY <1>2 DEF NInv
  <2> QED BY <2>1
<1>7. OneShown(pn')
  BY <1>2 DEF NInv, OneShown
<1> QED BY <1>3, <1>5, <1>6, <1>7 DEF NInv

(* The state a continuation finds.                                         *)
LEMMA NewStates ==
    ASSUME NEW inst \in Nat
    PROVE  /\ NewState(inst) \in StateType /\ NewState(inst).held /\ NewState(inst).inst = inst
           /\ NewState(inst).seq = 0 /\ ~NewState(inst).panel /\ ~NewState(inst).shown
           /\ NewState(inst).pick = "idle" /\ NewState(inst).cache = {} /\ NewState(inst).lead = NoLead
           /\ NoState(inst) \in StateType /\ ~NoState(inst).held /\ NoState(inst).inst = inst
           /\ NoState(inst).seq = 0 /\ ~NoState(inst).panel /\ ~NoState(inst).shown
           /\ NoState(inst).pick = "idle" /\ NoState(inst).cache = {} /\ NoState(inst).lead = NoLead
           /\ ~NewState(inst).active /\ ~NoState(inst).active
<1>1. First(Runs) \in Runs /\ First(Lines) \in Lines /\ First(Spots) \in AllSpots
  BY ProfilesAssumption DEF First, AllSpots
<1>2. PICK mode \in {"point", "line"} : mode = IF panelKind = "timeheight" THEN "point" ELSE "line"
  OBVIOUS
<1>3. PICK s : s = NewState(inst)
  OBVIOUS
<1>4. s = [held |-> TRUE, inst |-> inst, active |-> FALSE, panel |-> FALSE, shown |-> FALSE,
           run |-> First(Runs), mode |-> mode,
           line |-> First(Lines), spot |-> First(Spots), section |-> NoSection, cache |-> {},
           seq |-> 0, lead |-> NoLead, pick |-> "idle", behind |-> FALSE, crossed |-> FALSE]
  BY <1>2, <1>3 DEF NewState
<1>5. s \in StateType
  BY <1>1, <1>4 DEF StateType
<1>6. PICK t : t = [s EXCEPT !.held = FALSE]
  OBVIOUS
<1>7. t = NoState(inst)
  BY <1>3, <1>6 DEF NoState
<1>8. t \in StateType /\ ~t.held /\ t.inst = s.inst /\ t.seq = s.seq /\ (t.panel <=> s.panel)
      /\ (t.shown <=> s.shown) /\ t.pick = s.pick /\ t.cache = s.cache /\ t.lead = s.lead
      /\ (t.active <=> s.active)
  BY <1>5, <1>6 DEF StateType
<1>9. /\ s.held /\ s.inst = inst /\ s.seq = 0 /\ ~s.panel /\ ~s.shown /\ s.pick = "idle" /\ s.cache = {}
      /\ s.lead = NoLead /\ ~s.active
  BY <1>4
<1> QED BY <1>3, <1>5, <1>7, <1>8, <1>9

LEMMA BlankIsSound ==
    ASSUME NEW kind, NEW calls \in SUBSET AwaitedType, NEW w, NEW s \in StateType,
           ~s.panel, ~s.shown, s.seq = 0, s.cache = {}, s.pick = "idle", s.lead = NoLead,
           ~s.held => ~s.active,
           \A c \in calls : c.win = w =>
               c.inst <= s.inst /\ (c.what = "load" => c.seq >= 1 /\ (s.held => c.inst # s.inst))
    PROVE  StateInv(kind, calls, w, s)
<1>1. Waited(calls, w, s) = {}
  <2> SUFFICES ASSUME NEW c \in calls, c.what = "load", c.win = w, c.seq = s.seq PROVE FALSE
    BY DEF Waited
  <2>1. c.seq >= 1 /\ c.seq = 0
    OBVIOUS
  <2> QED BY <2>1
<1>2. HeaderTold(kind, calls, w, s)
  BY <1>1 DEF HeaderTold
<1>3. Sequenced(calls, w, s) /\ Whole(s) /\ Honest(s)
  BY DEF Sequenced, Whole, Honest
<1> QED BY <1>2, <1>3 DEF StateInv

LEMMA ContinuesSoundly ==
    ASSUME NInv, NEW w \in PnWindows
    PROVE  /\ StateOf(w) \in StateType /\ StateOf(w).held
           /\ Sequenced(pnCalls, w, StateOf(w)) /\ Whole(StateOf(w)) /\ Honest(StateOf(w))
           /\ (StateOf(w).panel <=> pn[w].state.panel) /\ (StateOf(w).shown <=> pn[w].state.shown)
           /\ pn[w].state.inst <= StateOf(w).inst
           /\ pn[w].state.held => StateOf(w) = pn[w].state
<1>1. PICK s : s = pn[w].state
  OBVIOUS
<1>2. s \in StateType /\ Sequenced(pnCalls, w, s) /\ Whole(s) /\ Honest(s) /\ pnCalls \subseteq AwaitedType
  BY <1>1, StatesAreSound
<1>3. s.inst \in Nat
  BY <1>2 DEF StateType
<1>4. CASE s.held
  BY <1>1, <1>2, <1>3, <1>4 DEF StateOf
<1>5. CASE ~s.held
  <2>1. PICK t : t = NewState(s.inst + 1)
    OBVIOUS
  <2>2. StateOf(w) = t
    BY <1>1, <1>5, <2>1 DEF StateOf
  <2>3. /\ t \in StateType /\ t.held /\ t.inst = s.inst + 1 /\ t.seq = 0 /\ ~t.panel /\ ~t.shown
        /\ t.pick = "idle" /\ t.cache = {} /\ t.lead = NoLead /\ ~t.active
    BY <1>3, <2>1, NewStates
  <2>4. \A c \in pnCalls : c.win = w => c.inst <= t.inst /\ (c.what = "load" => c.seq >= 1 /\ c.inst # t.inst)
    <3> SUFFICES ASSUME NEW c \in pnCalls, c.win = w
                 PROVE  c.inst <= t.inst /\ (c.what = "load" => c.seq >= 1 /\ c.inst # t.inst)
      OBVIOUS
    <3>1. c.inst \in Nat /\ c.inst <= s.inst /\ (c.what = "load" => c.seq >= 1)
      BY <1>2 DEF Sequenced, AwaitedType
    <3> QED BY ONLY <1>3, <2>3, <3>1
  <2>5. StateInv(panelKind, pnCalls, w, t)
    BY <1>2, <2>3, <2>4, BlankIsSound
  <2>6. ~s.panel /\ ~s.shown
    BY <1>2, <1>5 DEF Whole
  <2> QED BY <1>1, <1>3, <1>5, <2>2, <2>3, <2>5, <2>6 DEF StateInv
<1> QED BY <1>4, <1>5

LEMMA OpenProfileKeeps ==
    ASSUME NInv, NEW w \in PnWindows, NEW visible \in BOOLEAN, OpenProfile(w, visible)
    PROVE  NInv'
<1>1. PICK p : p = pn[w]
  OBVIOUS
<1>2. /\ p \in ProfileType /\ p.state \in StateType /\ pnCalls \subseteq AwaitedType
      /\ Sequenced(pnCalls, w, p.state)
  BY <1>1, StatesAreSound
<1>3. PICK inst \in Nat : inst = p.state.inst + 1
  BY <1>2 DEF StateType
<1>4. PICK s : s = [NewState(inst) EXCEPT !.active = TRUE]
  OBVIOUS
<1>5. /\ s \in StateType /\ s.held /\ s.inst = inst /\ s.seq = 0 /\ ~s.panel /\ ~s.shown
      /\ s.pick = "idle" /\ s.cache = {} /\ s.lead = NoLead
  <2>1. PICK n : n = NewState(inst)
    OBVIOUS
  <2>2. /\ n \in StateType /\ n.held /\ n.inst = inst /\ n.seq = 0 /\ ~n.panel /\ ~n.shown
        /\ n.pick = "idle" /\ n.cache = {} /\ n.lead = NoLead
    BY <2>1, NewStates
  <2>3. s = [n EXCEPT !.active = TRUE]
    BY <1>4, <2>1
  <2> QED BY <2>2, <2>3 DEF StateType
<1>6. PICK new : new = [what |-> "init", win |-> w, inst |-> inst, seq |-> 0, want |-> NoSection,
                        visible |-> visible]
  OBVIOUS
<1>7. PICK none : none = NoState(p.state.inst)
  OBVIOUS
<1>8. none \in StateType
  BY <1>2, <1>7, NewStates DEF StateType
<1>9. PICK q : q = [[p EXCEPT !.state = none, !.entry = "none", !.strayed = FALSE]
                       EXCEPT !.state = s, !.hollow = FALSE, !.eye = IF visible THEN "visible" ELSE "hidden"]
  OBVIOUS
<1>10. /\ pn' = [pn EXCEPT ![w] = q] /\ pnCalls' = pnCalls \cup {new}
       /\ UNCHANGED <<panelKind, pnFocus, pnEditor>>
  BY <1>1, <1>3, <1>4, <1>6, <1>7, <1>9 DEF OpenProfile, Destroyed, Operation
<1>11. /\ q \in ProfileType /\ q.state = s /\ q.entry = "none" /\ q.eye # "none"
  BY <1>2, <1>5, <1>8, <1>9 DEF ProfileType
<1>12. new \in AwaitedType /\ new.what = "init" /\ new.win = w /\ new.inst = inst
  BY <1>6 DEF AwaitedType
<1>13. \A c \in pnCalls \cup {new} : c.win = w =>
           c.inst <= s.inst /\ (c.what = "load" => c.seq >= 1 /\ c.inst # s.inst)
  <2> SUFFICES ASSUME NEW c \in pnCalls, c.win = w
               PROVE  c.inst <= s.inst /\ (c.what = "load" => c.seq >= 1 /\ c.inst # s.inst)
    BY <1>5, <1>12
  <2>1. c.inst \in Nat /\ p.state.inst \in Nat /\ c.inst <= p.state.inst /\ (c.what = "load" => c.seq >= 1)
    BY <1>2 DEF Sequenced, AwaitedType, StateType
  <2> QED BY ONLY <1>3, <1>5, <2>1
<1>14. pnCalls \cup {new} \in SUBSET AwaitedType
  BY <1>2, <1>12
<1>15. StateInv(panelKind, pnCalls \cup {new}, w, q.state)
  BY <1>5, <1>11, <1>13, <1>14, BlankIsSound
<1>16. Registered(q, pnEditor)
  BY <1>5, <1>11 DEF Registered
<1>17. /\ \A c \in pnCalls \cup {new} : c \in pnCalls \/ c.win = w
       /\ \A c \in pnCalls : c \in pnCalls \cup {new}
       /\ \A c \in pnCalls \cup {new} : c \in pnCalls \/ (c.what = "load" => AskedBy(panelKind, c.want))
       /\ ~q.state.shown
  BY <1>5, <1>11, <1>12
<1> QED BY <1>10, <1>11, <1>14, <1>15, <1>16, <1>17, WindowSteps

LEMMA RemoveProfileKeeps ==
    ASSUME NInv, NEW w \in PnWindows, RemoveProfile(w)
    PROVE  NInv'
<1>1. PICK p : p = pn[w]
  OBVIOUS
<1>2. /\ p \in ProfileType /\ p.state \in StateType /\ pnCalls \subseteq AwaitedType
      /\ Sequenced(pnCalls, w, p.state)
  BY <1>1, StatesAreSound
<1>3. PICK none : none = NoState(p.state.inst)
  OBVIOUS
<1>4. /\ none \in StateType /\ ~none.held /\ none.inst = p.state.inst /\ none.seq = 0 /\ ~none.panel
      /\ ~none.shown /\ none.pick = "idle" /\ none.cache = {} /\ none.lead = NoLead /\ ~none.active
  <2>1. p.state.inst \in Nat
    BY <1>2 DEF StateType
  <2> QED BY <1>3, <2>1, NewStates
<1>5. PICK q : q = [[p EXCEPT !.state = none, !.entry = "none", !.strayed = FALSE] EXCEPT !.eye = "none"]
  OBVIOUS
<1>6. /\ pn' = [pn EXCEPT ![w] = q] /\ UNCHANGED <<panelKind, pnCalls, pnFocus, pnEditor>>
  BY <1>1, <1>3, <1>5 DEF RemoveProfile, Destroyed, Operation
<1>7. q \in ProfileType /\ q.state = none /\ q.entry = "none" /\ q.eye = "none"
  BY <1>2, <1>4, <1>5 DEF ProfileType
<1>8. \A c \in pnCalls : c.win = w => c.inst <= none.inst /\ (c.what = "load" => c.seq >= 1)
  BY <1>2, <1>4 DEF Sequenced
<1>9. StateInv(panelKind, pnCalls, w, q.state)
  BY <1>2, <1>4, <1>7, <1>8, BlankIsSound
<1>10. Registered(q, pnEditor) /\ ~q.state.shown
  BY <1>4, <1>7 DEF Registered
<1>11. pnCalls' = pnCalls
  BY <1>6
<1> QED BY <1>2, <1>6, <1>7, <1>9, <1>10, <1>11, WindowSteps

LEMMA EndModelKeeps ==
    ASSUME NInv, NEW c \in pnCalls, EndModel(c)
    PROVE  NInv'
<1>1. PICK w : w = c.win
  OBVIOUS
<1>2. c \in AwaitedType /\ w \in PnWindows
  BY <1>1 DEF NInv, PanelTypes, AwaitedType
<1>3. PICK p : p = pn[w]
  OBVIOUS
<1>4. /\ p \in ProfileType /\ p.state \in StateType /\ pnCalls \subseteq AwaitedType /\ Whole(p.state)
  BY <1>2, <1>3, StatesAreSound
<1>5. PICK s : s = StateOf(w)
  OBVIOUS
<1>6. /\ s \in StateType /\ s.held /\ Sequenced(pnCalls, w, s) /\ Whole(s) /\ Honest(s)
      /\ (s.panel <=> p.state.panel) /\ (s.shown <=> p.state.shown)
  BY <1>2, <1>3, <1>5, ContinuesSoundly
<1>7. PICK t : t = Loaded(w, s, LooksUp(s))
  OBVIOUS
<1>8. PICK called : called = Called(w, s, LooksUp(s))
  OBVIOUS
<1>9. pnCalls \ {c} \in SUBSET pnCalls /\ Sequenced(pnCalls \ {c}, w, s)
  BY <1>6 DEF Sequenced
<1>10. /\ t \in StateType /\ called \subseteq AwaitedType
       /\ \A d \in called : d.win = w /\ d.what = "load" /\ AskedBy(panelKind, d.want)
       /\ StateInv(panelKind, (pnCalls \ {c}) \cup called, w, t)
       /\ t.held /\ (t.panel <=> s.panel) /\ (t.shown <=> s.shown)
  BY <1>2, <1>4, <1>6, <1>7, <1>8, <1>9, LoadsKeep
<1>11. PICK q : q = Continued(c, t)
  OBVIOUS
<1>12. /\ pn' = [pn EXCEPT ![w] = q] /\ pnCalls' = (pnCalls \ {c}) \cup called
       /\ UNCHANGED <<panelKind, pnFocus, pnEditor>>
  BY <1>1, <1>5, <1>7, <1>8, <1>11 DEF EndModel
<1>13. /\ q \in ProfileType /\ q.state = t /\ q.entry = (IF p.entry = "none" THEN "hidden" ELSE p.entry)
       /\ q.eye = p.eye /\ (q.strayed <=> p.strayed) /\ (q.hollow <=> p.hollow \/ Outlived(c))
  BY <1>1, <1>3, <1>4, <1>10, <1>11 DEF Continued, ProfileType, Outlived
<1>14. Registered(p, pnEditor)
  BY <1>2, <1>3 DEF NInv
<1>15. ~Outlived(c) => p.state.held
  BY <1>1, <1>3 DEF Outlived
<1>16. Registered(q, pnEditor)
  BY <1>4, <1>6, <1>10, <1>13, <1>14, <1>15 DEF Registered, Whole
<1>17. /\ (pnCalls \ {c}) \cup called \subseteq AwaitedType
       /\ \A d \in (pnCalls \ {c}) \cup called : d \in pnCalls \/ d.win = w
       /\ \A d \in pnCalls : d \in (pnCalls \ {c}) \cup called \/ d.win = w
       /\ \A d \in (pnCalls \ {c}) \cup called : d \in pnCalls \/ (d.what = "load" => AskedBy(panelKind, d.want))
  BY <1>1, <1>4, <1>10
<1> QED BY <1>2, <1>3, <1>6, <1>10, <1>12, <1>13, <1>16, <1>17, WindowSteps
-----------------------------------------------------------------------------
(* One panel is shown, or all are put away.                                *)
Vacant(p) == p.eye = "none" /\ ~p.hollow => p.entry = "none" /\ ~p.state.held
OnlyShows(s, t) == \E b \in BOOLEAN : t = [s EXCEPT !.shown = b] /\ (b => s.panel)

MayShow(p, editor) ==
    /\ p.eye # "none" \/ p.hollow
    /\ p.state.panel /\ ~p.strayed => p.eye = "visible" /\ ~editor
ShownAs(ps, w, v, q) ==
    /\ q.state = [ps[v].state EXCEPT !.shown = IF v = w THEN ps[w].state.panel ELSE FALSE]
    /\ q.entry = IF v = w THEN "shown" ELSE IF ps[v].state.held THEN "hidden" ELSE ps[v].entry
    /\ q.eye = ps[v].eye /\ q.strayed = ps[v].strayed /\ q.hollow = ps[v].hollow

LEMMA PutAwayFacts ==
    ASSUME NEW p \in ProfileType, Vacant(p), NEW editor
    PROVE  /\ PutAway(p) \in ProfileType /\ PutAway(p).state = [p.state EXCEPT !.shown = FALSE]
           /\ Registered(PutAway(p), editor) /\ ~PutAway(p).state.shown
<1>1. p.state \in StateType
  BY DEF ProfileType
<1>2. PICK s : s = [p.state EXCEPT !.shown = FALSE]
  OBVIOUS
<1>3. s \in StateType /\ ~s.shown /\ (s.held <=> p.state.held)
  BY <1>1, <1>2 DEF StateType
<1>4. PICK q : q = PutAway(p)
  OBVIOUS
<1>5. /\ q \in ProfileType /\ q.state = s /\ q.entry = (IF p.entry = "none" THEN "none" ELSE "hidden")
      /\ q.eye = p.eye /\ (q.hollow <=> p.hollow)
  <2>1. PICK n : n = [p EXCEPT !.state = s]
    OBVIOUS
  <2>2. n \in ProfileType /\ n.state = s /\ n.entry = p.entry /\ n.eye = p.eye /\ n.hollow = p.hollow
    BY <1>3, <2>1 DEF ProfileType
  <2>3. q = [n EXCEPT !.entry = IF p.entry = "none" THEN "none" ELSE "hidden"]
    BY <1>2, <1>4, <2>1, <2>2 DEF PutAway, ProfileType
  <2> QED BY <2>2, <2>3 DEF ProfileType
<1>6. Registered(q, editor)
  BY <1>3, <1>5 DEF Registered, Vacant
<1> QED BY <1>2, <1>3, <1>4, <1>5, <1>6

LEMMA ShowsOne ==
    ASSUME NEW ps \in [PnWindows -> ProfileType], NEW w \in PnWindows
    PROVE  /\ PanelShown(ps, w) \in [PnWindows -> ProfileType]
           /\ \A v \in PnWindows : ShownAs(ps, w, v, PanelShown(ps, w)[v])
<1>1. \A v \in PnWindows : ps[v] \in ProfileType /\ ps[v].state \in StateType
  BY DEF ProfileType
<1>2. ASSUME NEW v \in PnWindows
      PROVE  PanelShown(ps, w)[v] \in ProfileType /\ ShownAs(ps, w, v, PanelShown(ps, w)[v])
  <2>1. PICK p : p = ps[v]
    OBVIOUS
  <2>2. p \in ProfileType /\ p.state \in StateType
    BY <1>1, <2>1
  <2>3. PICK s : s = [p.state EXCEPT !.shown = IF v = w THEN ps[w].state.panel ELSE FALSE]
    OBVIOUS
  <2>4. s \in StateType
    BY <1>1, <2>1, <2>2, <2>3 DEF StateType
  <2>5. PICK e \in {"none", "hidden", "shown"} :
            e = IF v = w THEN "shown" ELSE IF p.state.held THEN "hidden" ELSE p.entry
    BY <2>2 DEF ProfileType
  <2>6. PICK q : q = PanelShown(ps, w)[v]
    OBVIOUS
  <2>7. q = [p EXCEPT !.entry = e, !.state = s]
    <3>1. CASE v = w
      <4>1. q = [p EXCEPT !.entry = "shown", !.state.shown = p.state.panel]
        BY <2>1, <2>6, <3>1 DEF PanelShown
      <4>2. e = "shown" /\ s = [p.state EXCEPT !.shown = p.state.panel]
        BY <2>1, <2>3, <2>5, <3>1
      <4> QED BY <2>2, <4>1, <4>2 DEF ProfileType
    <3>2. CASE v # w
      <4>1. q = [p EXCEPT !.state.shown = FALSE, !.entry = IF p.state.held THEN "hidden" ELSE @]
        BY <2>1, <2>6, <3>2 DEF PanelShown
      <4>2. e = (IF p.state.held THEN "hidden" ELSE p.entry) /\ s = [p.state EXCEPT !.shown = FALSE]
        BY <2>1, <2>3, <2>5, <3>2
      <4> QED BY <2>2, <4>1, <4>2 DEF ProfileType
    <3> QED BY <3>1, <3>2
  <2>8. q \in ProfileType /\ q.state = s /\ q.entry = e /\ q.eye = p.eye /\ q.strayed = p.strayed
        /\ q.hollow = p.hollow
    BY <2>2, <2>4, <2>7 DEF ProfileType
  <2>9. ShownAs(ps, w, v, q)
    BY <2>1, <2>3, <2>5, <2>8 DEF ShownAs
  <2> QED BY <2>6, <2>8, <2>9
<1>3. PanelShown(ps, w) = [v \in PnWindows |-> PanelShown(ps, w)[v]]
  BY DEF PanelShown
<1> QED BY <1>2, <1>3

LEMMA ShownSoundly ==
    ASSUME NEW ps \in [PnWindows -> ProfileType], NEW w \in PnWindows, NEW editor,
           \A v \in PnWindows : Whole(ps[v].state) /\ Vacant(ps[v])
    PROVE  /\ \A v \in PnWindows :
                /\ OnlyShows(ps[v].state, PanelShown(ps, w)[v].state)
                /\ v # w \/ MayShow(ps[v], editor) => Registered(PanelShown(ps, w)[v], editor)
           /\ OneShown(PanelShown(ps, w))
<1>1. PICK qs : qs = PanelShown(ps, w)
  OBVIOUS
<1>2. ASSUME NEW v \in PnWindows
      PROVE  /\ OnlyShows(ps[v].state, qs[v].state)
             /\ v # w \/ MayShow(ps[v], editor) => Registered(qs[v], editor)
             /\ qs[v].state.shown => v = w
  <2>1. PICK q : q = qs[v]
    OBVIOUS
  <2>2. PICK p : p = ps[v]
    OBVIOUS
  <2>3. p \in ProfileType /\ p.state \in StateType /\ Whole(p.state) /\ Vacant(p)
    BY <2>2 DEF ProfileType
  <2>4. PICK b \in BOOLEAN : b = IF v = w THEN ps[w].state.panel ELSE FALSE
    BY DEF ProfileType, StateType
  <2>5. /\ q.state = [p.state EXCEPT !.shown = b]
        /\ q.entry = IF v = w THEN "shown" ELSE IF p.state.held THEN "hidden" ELSE p.entry
        /\ q.eye = p.eye /\ q.strayed = p.strayed /\ q.hollow = p.hollow
    <3>1. ShownAs(ps, w, v, q)
      BY <1>1, <2>1, ShowsOne
    <3> QED BY <2>2, <2>4, <3>1 DEF ShownAs
  <2>6. OnlyShows(p.state, q.state)
    BY <2>2, <2>4, <2>5 DEF OnlyShows
  <2>7. (q.state.shown <=> b) /\ (q.state.panel <=> p.state.panel) /\ (q.state.held <=> p.state.held)
    BY <2>3, <2>5 DEF StateType
  <2>8. v # w \/ MayShow(p, editor) => Registered(q, editor)
    BY <2>2, <2>3, <2>4, <2>5, <2>7 DEF Registered, Whole, Vacant, MayShow
  <2> QED BY <2>1, <2>2, <2>4, <2>6, <2>7, <2>8
<1>3. OneShown(qs)
  BY <1>2 DEF OneShown
<1> QED BY <1>1, <1>2, <1>3

LEMMA HiddenSoundly ==
    ASSUME NEW ps \in [PnWindows -> ProfileType], NEW editor, \A v \in PnWindows : Vacant(ps[v])
    PROVE  /\ AllHidden(ps) \in [PnWindows -> ProfileType]
           /\ \A v \in PnWindows : /\ OnlyShows(ps[v].state, AllHidden(ps)[v].state)
                                   /\ Registered(AllHidden(ps)[v], editor)
           /\ OneShown(AllHidden(ps))
<1>1. PICK qs : qs = AllHidden(ps)
  OBVIOUS
<1>2. \A v \in PnWindows : qs[v] = PutAway(ps[v])
  BY <1>1 DEF AllHidden
<1>3. ASSUME NEW v \in PnWindows
      PROVE  /\ qs[v] \in ProfileType /\ OnlyShows(ps[v].state, qs[v].state)
             /\ Registered(qs[v], editor) /\ ~qs[v].state.shown
  BY <1>2, PutAwayFacts DEF OnlyShows
<1>4. qs \in [PnWindows -> ProfileType]
  <2>1. qs = [v \in PnWindows |-> qs[v]]
    BY <1>1 DEF AllHidden
  <2> QED BY <1>3, <2>1
<1>5. OneShown(qs)
  BY <1>3 DEF OneShown
<1> QED BY <1>1, <1>3, <1>4, <1>5

LEMMA DisplaySteps ==
    ASSUME NInv, NEW qs \in [PnWindows -> ProfileType], NEW editor \in BOOLEAN, NEW focus \in PnWindows,
           pn' = qs, pnEditor' = editor, pnFocus' = focus, UNCHANGED <<panelKind, pnCalls>>,
           \A v \in PnWindows : OnlyShows(pn[v].state, qs[v].state) /\ Registered(qs[v], editor),
           OneShown(qs)
    PROVE  NInv'
<1>1. ASSUME NEW v \in PnWindows PROVE StateInv(panelKind, pnCalls, v, qs[v].state)
  <2>1. PICK b \in BOOLEAN : qs[v].state = [pn[v].state EXCEPT !.shown = b] /\ (b => pn[v].state.panel)
    BY DEF OnlyShows
  <2>2. pn[v].state \in StateType /\ StateInv(panelKind, pnCalls, v, pn[v].state)
    BY StatesAreSound DEF NInv
  <2> QED BY <2>1, <2>2, OthersAreLeft
<1>2. \A v \in PnWindows : StateInv(panelKind', pnCalls', v, pn'[v].state) /\ Registered(pn'[v], pnEditor')
  BY <1>1
<1>3. PanelTypes' /\ OneShown(pn')
  BY DEF NInv, PanelTypes
<1> QED BY <1>2, <1>3 DEF NInv

LEMMA EyeKeepsOne ==
    ASSUME NInv, NEW w \in PnWindows, NEW visible \in BOOLEAN, Eye(w, visible)
    PROVE  NInv'
<1>1. pn \in [PnWindows -> ProfileType] /\ pnEditor \in BOOLEAN /\ pnFocus \in PnWindows
  BY DEF NInv, PanelTypes
<1>2. \A v \in PnWindows : pn[v] \in ProfileType /\ Whole(pn[v].state) /\ Registered(pn[v], pnEditor)
  BY StatesAreSound DEF NInv
<1>3. PICK p : p = [pn[w] EXCEPT !.eye = IF visible THEN "visible" ELSE "hidden", !.strayed = FALSE]
  OBVIOUS
<1>4. /\ p \in ProfileType /\ p.state = pn[w].state /\ p.eye = (IF visible THEN "visible" ELSE "hidden")
      /\ ~p.strayed
  BY <1>2, <1>3 DEF ProfileType
<1>5. PICK ws : ws = [pn EXCEPT ![w] = p]
  OBVIOUS
<1>6. ws \in [PnWindows -> ProfileType] /\ ws[w] = p /\ \A v \in PnWindows \ {w} : ws[v] = pn[v]
  BY <1>1, <1>4, <1>5
<1>7. ASSUME NEW v \in PnWindows PROVE ws[v].state = pn[v].state /\ Whole(ws[v].state) /\ Vacant(ws[v])
  BY <1>2, <1>4, <1>6 DEF Vacant, Registered
<1>8. /\ pn' = IF visible THEN PanelShown(ws, w) ELSE Hidden(ws, w)
      /\ visible => ~pnEditor
      /\ UNCHANGED <<panelKind, pnCalls, pnFocus, pnEditor>>
  BY <1>3, <1>5 DEF Eye, Operation
<1>9. CASE visible
  <2>1. PICK qs : qs = PanelShown(ws, w)
    OBVIOUS
  <2>2. MayShow(ws[w], pnEditor)
    BY <1>4, <1>6, <1>8, <1>9 DEF MayShow
  <2>3. /\ qs \in [PnWindows -> ProfileType] /\ OneShown(qs)
        /\ \A v \in PnWindows : OnlyShows(pn[v].state, qs[v].state) /\ Registered(qs[v], pnEditor)
    BY <1>6, <1>7, <2>1, <2>2, ShowsOne, ShownSoundly
  <2> QED BY <1>1, <1>8, <1>9, <2>1, <2>3, DisplaySteps
<1>10. CASE ~visible
  <2>1. PICK q : q = PutAway(p)
    OBVIOUS
  <2>2. Vacant(p)
    BY <1>6, <1>7
  <2>3. q \in ProfileType /\ q.state = [p.state EXCEPT !.shown = FALSE] /\ Registered(q, pnEditor) /\ ~q.state.shown
    BY <1>4, <2>1, <2>2, PutAwayFacts
  <2>4. PICK qs : qs = [ws EXCEPT ![w] = q]
    OBVIOUS
  <2>5. pn' = qs
    BY <1>6, <1>8, <1>10, <2>1, <2>4 DEF Hidden
  <2>6. qs \in [PnWindows -> ProfileType] /\ qs[w] = q /\ \A v \in PnWindows \ {w} : qs[v] = pn[v]
    BY <1>6, <2>3, <2>4
  <2>7. ASSUME NEW v \in PnWindows PROVE OnlyShows(pn[v].state, qs[v].state) /\ Registered(qs[v], pnEditor)
    <3>1. CASE v = w
      BY <1>4, <2>3, <2>6, <3>1 DEF OnlyShows
    <3>2. CASE v # w
      <4>1. pn[v].state \in StateType
        BY <1>2 DEF ProfileType
      <4>2. pn[v].state = [pn[v].state EXCEPT !.shown = pn[v].state.shown] /\ pn[v].state.shown \in BOOLEAN
        BY <4>1 DEF StateType
      <4>3. OnlyShows(pn[v].state, pn[v].state)
        BY <1>2, <4>2 DEF OnlyShows, Whole
      <4> QED BY <1>2, <2>6, <3>2, <4>3
    <3> QED BY <3>1, <3>2
  <2>8. OneShown(qs)
    BY <2>3, <2>6 DEF OneShown, NInv
  <2> QED BY <1>1, <1>8, <2>5, <2>6, <2>7, <2>8, DisplaySteps
<1> QED BY <1>9, <1>10

(* The panels of the window that is looked at, or of none.                 *)
LEMMA SyncSteps ==
    ASSUME NInv, NEW w \in PnWindows, NEW editor \in BOOLEAN, NEW syncs \in BOOLEAN, syncs => ~editor,
           LET ws == [v \in PnWindows |-> [pn[v] EXCEPT !.strayed = FALSE]]
           IN  pn' = IF syncs THEN SyncedPanels(ws, w) ELSE AllHidden(ws),
           pnEditor' = editor, pnFocus' \in PnWindows, UNCHANGED <<panelKind, pnCalls>>
    PROVE  NInv'
<1>1. PICK ws : ws = [v \in PnWindows |-> [pn[v] EXCEPT !.strayed = FALSE]]
  OBVIOUS
<1>2. pn' = IF syncs THEN SyncedPanels(ws, w) ELSE AllHidden(ws)
  BY <1>1
<1>3. \A v \in PnWindows : pn[v] \in ProfileType /\ Whole(pn[v].state) /\ Registered(pn[v], pnEditor)
  BY StatesAreSound DEF NInv
<1>4. ASSUME NEW v \in PnWindows
      PROVE  /\ ws[v] \in ProfileType /\ ws[v].state = pn[v].state /\ ws[v].entry = pn[v].entry
             /\ ws[v].eye = pn[v].eye /\ ~ws[v].strayed /\ ws[v].hollow = pn[v].hollow
  BY <1>1, <1>3 DEF ProfileType
<1>5. ws \in [PnWindows -> ProfileType]
  BY <1>1, <1>4
<1>6. \A v \in PnWindows : Whole(ws[v].state) /\ Vacant(ws[v])
  BY <1>3, <1>4 DEF Registered, Vacant
<1>7. CASE syncs /\ ws[w].eye = "visible" /\ ws[w].entry # "none"
  <2>1. PICK qs : qs = PanelShown(ws, w)
    OBVIOUS
  <2>2. pn' = qs
    BY <1>2, <1>7, <2>1 DEF SyncedPanels
  <2>3. MayShow(ws[w], editor)
    BY <1>7 DEF MayShow
  <2>4. /\ qs \in [PnWindows -> ProfileType] /\ OneShown(qs)
        /\ \A v \in PnWindows : OnlyShows(pn[v].state, qs[v].state) /\ Registered(qs[v], editor)
    BY <1>4, <1>5, <1>6, <2>1, <2>3, ShowsOne, ShownSoundly
  <2> QED BY <2>2, <2>4, DisplaySteps
<1>8. CASE ~(syncs /\ ws[w].eye = "visible" /\ ws[w].entry # "none")
  <2>1. PICK qs : qs = AllHidden(ws)
    OBVIOUS
  <2>2. pn' = qs
    BY <1>2, <1>8, <2>1 DEF SyncedPanels
  <2>3. /\ qs \in [PnWindows -> ProfileType] /\ OneShown(qs)
        /\ \A v \in PnWindows : OnlyShows(pn[v].state, qs[v].state) /\ Registered(qs[v], editor)
    BY <1>4, <1>5, <1>6, <2>1, HiddenSoundly
  <2> QED BY <2>2, <2>3, DisplaySteps
<1> QED BY <1>7, <1>8

LEMMA FocusAndEditorKeep ==
    ASSUME NInv, Editor \/ \E w \in PnWindows : FocusProfiles(w)
    PROVE  NInv'
<1>1. pnFocus \in PnWindows /\ pnEditor \in BOOLEAN
  BY DEF NInv, PanelTypes
<1>2. ASSUME NEW w \in PnWindows, FocusProfiles(w) PROVE NInv'
  <2>1. /\ pn' = SyncedPanels([v \in PnWindows |-> [pn[v] EXCEPT !.strayed = FALSE]], w)
        /\ pnEditor' = FALSE /\ pnFocus' = w /\ UNCHANGED <<panelKind, pnCalls>>
    BY <1>1, <1>2 DEF FocusProfiles, Operation
  <2> QED BY <2>1, SyncSteps
<1>3. ASSUME Editor PROVE NInv'
  <2>1. /\ LET ws == [v \in PnWindows |-> [pn[v] EXCEPT !.strayed = FALSE]]
           IN  pn' = IF pnEditor THEN SyncedPanels(ws, pnFocus) ELSE AllHidden(ws)
        /\ pnEditor' = ~pnEditor /\ pnFocus' = pnFocus /\ UNCHANGED <<panelKind, pnCalls>>
    BY <1>3 DEF Editor, Operation
  <2>2. PICK syncs \in BOOLEAN : syncs = pnEditor
    BY <1>1
  <2>3. PICK editor \in BOOLEAN : editor = ~syncs
    OBVIOUS
  <2> QED BY <1>1, <2>1, <2>2, <2>3, SyncSteps
<1> QED BY <1>2, <1>3

LEMMA EndInitKeeps ==
    ASSUME NInv, NEW c \in pnCalls, EndInit(c)
    PROVE  NInv'
<1>1. PICK w : w = c.win
  OBVIOUS
<1>2. c \in AwaitedType /\ w \in PnWindows /\ c.visible \in BOOLEAN
  BY <1>1 DEF NInv, PanelTypes, AwaitedType
<1>3. PICK p : p = pn[w]
  OBVIOUS
<1>4. /\ p \in ProfileType /\ p.state \in StateType /\ pnCalls \subseteq AwaitedType /\ Whole(p.state)
      /\ pn \in [PnWindows -> ProfileType] /\ pnEditor \in BOOLEAN
  BY <1>2, <1>3, StatesAreSound DEF NInv, PanelTypes
<1>5. PICK s0 : s0 = StateOf(w)
  OBVIOUS
<1>6. /\ s0 \in StateType /\ s0.held /\ Sequenced(pnCalls, w, s0) /\ Whole(s0) /\ Honest(s0)
      /\ (s0.panel <=> p.state.panel) /\ (s0.shown <=> p.state.shown)
  BY <1>2, <1>3, <1>5, ContinuesSoundly
<1>7. PICK s : s = [s0 EXCEPT !.panel = @ \/ ~Outlived(c)]
  OBVIOUS
<1>8. /\ s \in StateType /\ s.held /\ s.inst = s0.inst /\ s.seq = s0.seq /\ (s0.panel => s.panel)
      /\ (s.shown <=> s0.shown) /\ s.cache = s0.cache /\ (s.crossed <=> s0.crossed)
      /\ s.pick = s0.pick /\ s.mode = s0.mode
  BY <1>6, <1>7 DEF StateType, Outlived
<1>9. Sequenced(pnCalls \ {c}, w, s) /\ Whole(s) /\ Honest(s)
  BY <1>6, <1>8 DEF Sequenced, Whole, Honest
<1>10. PICK r : r = Continued(c, s)
  OBVIOUS
<1>11. /\ r \in ProfileType /\ r.state = s /\ r.entry = (IF p.entry = "none" THEN "hidden" ELSE p.entry)
       /\ r.eye = p.eye /\ (r.strayed <=> p.strayed) /\ (r.hollow <=> p.hollow \/ Outlived(c))
  BY <1>1, <1>3, <1>4, <1>8, <1>10 DEF Continued, ProfileType, Outlived
<1>12. PICK ws : ws = [pn EXCEPT ![w] = r]
  OBVIOUS
<1>13. ws \in [PnWindows -> ProfileType] /\ ws[w] = r /\ \A v \in PnWindows \ {w} : ws[v] = pn[v]
  BY <1>2, <1>4, <1>11, <1>12
<1>14. \A v \in PnWindows : Registered(pn[v], pnEditor) /\ Whole(pn[v].state) /\ pn[v].state \in StateType
  BY StatesAreSound DEF NInv
<1>15. r.eye = "none" => r.hollow
  <2>1. ~Outlived(c) => p.state.held
    BY <1>1, <1>3 DEF Outlived
  <2>2. Registered(p, pnEditor)
    BY <1>2, <1>3, <1>14
  <2> QED BY <1>11, <2>1, <2>2 DEF Registered
<1>16. \A v \in PnWindows : Whole(ws[v].state) /\ Vacant(ws[v])
  BY <1>9, <1>11, <1>13, <1>14, <1>15 DEF Registered, Vacant
<1>17. PICK us : us = IF c.visible THEN PanelShown(ws, w) ELSE Hidden(ws, w)
  OBVIOUS
<1>18. /\ us \in [PnWindows -> ProfileType]
       /\ us[w].state = [s EXCEPT !.shown = c.visible /\ s.panel]
       /\ us[w].entry = (IF c.visible THEN "shown" ELSE "hidden")
       /\ us[w].eye = r.eye /\ (us[w].hollow <=> r.hollow)
       /\ \A v \in PnWindows \ {w} : OnlyShows(pn[v].state, us[v].state) /\ Registered(us[v], pnEditor)
       /\ \A v \in PnWindows \ {w} : us[v].state.shown => ~c.visible /\ pn[v].state.shown
  <2>1. CASE c.visible
    <3>1. us = PanelShown(ws, w)
      BY <1>17, <2>1
    <3>2. us \in [PnWindows -> ProfileType] /\ \A v \in PnWindows : ShownAs(ws, w, v, us[v])
      BY <1>2, <1>13, <3>1, ShowsOne
    <3>3. /\ us[w].state = [s EXCEPT !.shown = s.panel] /\ us[w].entry = "shown"
          /\ us[w].eye = r.eye /\ us[w].hollow = r.hollow
      BY <1>2, <1>11, <1>13, <3>2 DEF ShownAs
    <3>4. s.panel \in BOOLEAN /\ [s EXCEPT !.shown = s.panel] = [s EXCEPT !.shown = c.visible /\ s.panel]
      BY <1>8, <2>1 DEF StateType
    <3>5. \A v \in PnWindows \ {w} : OnlyShows(pn[v].state, us[v].state) /\ Registered(us[v], pnEditor)
      BY <1>2, <1>13, <1>16, <3>1, ShownSoundly
    <3>6. ASSUME NEW v \in PnWindows \ {w} PROVE ~us[v].state.shown
      <4>1. us[v].state = [pn[v].state EXCEPT !.shown = FALSE]
        BY <1>13, <3>2 DEF ShownAs
      <4> QED BY <1>14, <4>1 DEF StateType
    <3> QED BY <2>1, <3>2, <3>3, <3>4, <3>5, <3>6
  <2>2. CASE ~c.visible
    <3>1. us = [ws EXCEPT ![w] = PutAway(r)]
      BY <1>13, <1>17, <2>2 DEF Hidden
    <3>2. PICK q : q = PutAway(r)
      OBVIOUS
    <3>3. Vacant(r)
      BY <1>2, <1>13, <1>16
    <3>4. q \in ProfileType /\ q.state = [s EXCEPT !.shown = FALSE]
      BY <1>11, <3>2, <3>3, PutAwayFacts
    <3>5. q.entry = "hidden" /\ q.eye = r.eye /\ q.hollow = r.hollow
      <4>1. r.entry # "none"
        BY <1>11
      <4>2. PICK n : n = [r EXCEPT !.state.shown = FALSE]
        OBVIOUS
      <4>3. n.entry = r.entry /\ n.eye = r.eye /\ n.hollow = r.hollow /\ "entry" \in DOMAIN n
        BY <1>11, <4>2 DEF ProfileType
      <4>4. q = [n EXCEPT !.entry = IF @ = "none" THEN @ ELSE "hidden"]
        BY <3>2, <4>2 DEF PutAway
      <4> QED BY <4>1, <4>3, <4>4
    <3>6. us \in [PnWindows -> ProfileType] /\ us[w] = q /\ \A v \in PnWindows \ {w} : us[v] = pn[v]
      BY <1>2, <1>13, <3>1, <3>2, <3>4
    <3>7. ASSUME NEW v \in PnWindows \ {w} PROVE OnlyShows(pn[v].state, us[v].state) /\ Registered(us[v], pnEditor)
      <4>1. pn[v].state = [pn[v].state EXCEPT !.shown = pn[v].state.shown] /\ pn[v].state.shown \in BOOLEAN
        BY <1>14 DEF StateType
      <4>2. OnlyShows(pn[v].state, pn[v].state)
        BY <1>14, <4>1 DEF OnlyShows, Whole
      <4> QED BY <1>14, <3>6, <4>2
    <3>8. [s EXCEPT !.shown = FALSE] = [s EXCEPT !.shown = c.visible /\ s.panel]
      BY <1>8, <2>2 DEF StateType
    <3> QED BY <2>2, <3>4, <3>5, <3>6, <3>7, <3>8
  <2> QED BY <1>2, <2>1, <2>2
<1>19. PICK u : u = us[w].state
  OBVIOUS
<1>20. /\ u \in StateType /\ u.held /\ u.inst = s.inst /\ u.seq = s.seq /\ (u.panel <=> s.panel)
       /\ (u.shown <=> c.visible /\ s.panel) /\ u.cache = s.cache /\ (u.crossed <=> s.crossed)
       /\ u.pick = s.pick /\ u.mode = s.mode
  BY <1>8, <1>18, <1>19 DEF StateType
<1>21. Sequenced(pnCalls \ {c}, w, u) /\ Whole(u) /\ Honest(u) /\ pnCalls \ {c} \in SUBSET pnCalls
  <2>1. Sequenced(pnCalls \ {c}, w, u)
    BY <1>8, <1>9, <1>20 DEF Sequenced
  <2>2. Whole(u)
    BY <1>8, <1>9, <1>20 DEF Whole
  <2>3. Honest(u)
    BY <1>9, <1>20 DEF Honest
  <2> QED BY <2>1, <2>2, <2>3
<1>22. PICK looks : looks = LooksUp(s)
  OBVIOUS
<1>23. PICK t : t = Loaded(w, u, looks)
  OBVIOUS
<1>24. PICK called : called = Called(w, u, looks)
  OBVIOUS
<1>25. /\ t \in StateType /\ called \subseteq AwaitedType
       /\ \A d \in called : d.win = w /\ d.what = "load" /\ AskedBy(panelKind, d.want)
       /\ StateInv(panelKind, (pnCalls \ {c}) \cup called, w, t)
       /\ t.held /\ (t.panel <=> u.panel) /\ (t.shown <=> u.shown)
  BY <1>2, <1>4, <1>20, <1>21, <1>23, <1>24, LoadsKeep
<1>26. PICK more : more = (pnCalls \ {c}) \cup called
  OBVIOUS
<1>27. PICK q : q = [us[w] EXCEPT !.state = t, !.strayed = c.visible /\ (pnEditor \/ us[w].eye # "visible")]
  OBVIOUS
<1>28. /\ pn' = [v \in PnWindows |-> IF v = w THEN q ELSE us[v]]
       /\ pnCalls' = more /\ UNCHANGED <<panelKind, pnFocus, pnEditor>>
  BY <1>1, <1>5, <1>7, <1>10, <1>12, <1>17, <1>19, <1>22, <1>23, <1>24, <1>26, <1>27 DEF EndInit
<1>29. us[w] \in ProfileType
  BY <1>2, <1>18
<1>30. /\ q \in ProfileType /\ q.state = t /\ q.entry = us[w].entry /\ q.eye = us[w].eye
       /\ (q.strayed <=> c.visible /\ (pnEditor \/ us[w].eye # "visible")) /\ (q.hollow <=> us[w].hollow)
  BY <1>2, <1>4, <1>25, <1>27, <1>29 DEF ProfileType
<1>31. Registered(q, pnEditor)
  BY <1>2, <1>15, <1>18, <1>20, <1>25, <1>30 DEF Registered
<1>32. /\ more \subseteq AwaitedType
       /\ \A d \in more : d.what = "load" => AskedBy(panelKind, d.want)
       /\ \A v \in PnWindows \ {w} : {d \in more : d.win = v} = {d \in pnCalls : d.win = v}
  BY <1>1, <1>4, <1>25, <1>26 DEF NInv, PanelTypes
<1>33. ASSUME NEW v \in PnWindows \ {w} PROVE StateInv(panelKind, more, v, us[v].state)
  <2>1. PICK b \in BOOLEAN : us[v].state = [pn[v].state EXCEPT !.shown = b] /\ (b => pn[v].state.panel)
    BY <1>18 DEF OnlyShows
  <2>2. pn[v].state \in StateType /\ StateInv(panelKind, pnCalls, v, pn[v].state)
    BY StatesAreSound DEF NInv
  <2> QED BY <1>32, <2>1, <2>2, OthersAreLeft
<1>34. PICK qs : qs = [v \in PnWindows |-> IF v = w THEN q ELSE us[v]]
  OBVIOUS
<1>35. qs \in [PnWindows -> ProfileType] /\ qs[w] = q /\ \A v \in PnWindows \ {w} : qs[v] = us[v]
  BY <1>2, <1>18, <1>30, <1>34
<1>36. \A v \in PnWindows : StateInv(panelKind, more, v, qs[v].state) /\ Registered(qs[v], pnEditor)
  BY <1>18, <1>25, <1>26, <1>30, <1>31, <1>33, <1>35
<1>37. OneShown(qs)
  <2>1. qs[w].state.shown <=> c.visible /\ s.panel
    BY <1>20, <1>25, <1>30, <1>35
  <2> QED BY <1>18, <1>35, <2>1 DEF OneShown, NInv
<1>38. PanelTypes'
  BY <1>28, <1>32, <1>34, <1>35 DEF NInv, PanelTypes
<1>39. pn' = qs
  BY <1>28, <1>34
<1> QED BY <1>28, <1>36, <1>37, <1>38, <1>39 DEF NInv
-----------------------------------------------------------------------------
LEMMA NInvInit == PnInit(PnKinds) => NInv
<1> SUFFICES ASSUME PnInit(PnKinds) PROVE NInv
  OBVIOUS
<1>1. PICK none : none = NoState(0)
  OBVIOUS
<1>2. /\ none \in StateType /\ ~none.held /\ none.inst = 0 /\ none.seq = 0 /\ ~none.panel
      /\ ~none.shown /\ none.pick = "idle" /\ none.cache = {} /\ none.lead = NoLead /\ ~none.active
  BY <1>1, NewStates
<1>3. PICK p : p = [state |-> none, entry |-> "none", eye |-> "none", strayed |-> FALSE, hollow |-> FALSE]
  OBVIOUS
<1>4. p \in ProfileType /\ p.state = none /\ p.entry = "none" /\ p.eye = "none"
  BY <1>2, <1>3 DEF ProfileType
<1>5. /\ pn = [w \in PnWindows |-> p] /\ pnCalls = {} /\ pnFocus = First(PnWindows) /\ pnEditor = FALSE
      /\ panelKind \in PnKinds
  BY <1>1, <1>3 DEF PnInit
<1>6. First(PnWindows) \in PnWindows
  BY ProfilesAssumption DEF First
<1>7. PanelTypes
  BY <1>4, <1>5, <1>6 DEF PanelTypes
<1>8. ASSUME NEW w \in PnWindows
      PROVE  StateInv(panelKind, pnCalls, w, pn[w].state) /\ Registered(pn[w], pnEditor) /\ ~pn[w].state.shown
  <2>1. StateInv(panelKind, pnCalls, w, none)
    BY <1>2, <1>5, BlankIsSound
  <2> QED BY <1>2, <1>4, <1>5, <2>1 DEF Registered
<1> QED BY <1>7, <1>8 DEF NInv, OneShown

LEMMA NInvStep == NInv /\ [PnNext]_pnVars => NInv'
<1> SUFFICES ASSUME NInv, [PnNext]_pnVars PROVE NInv'
  OBVIOUS
<1>1. CASE UNCHANGED pnVars
  <2>1. UNCHANGED <<panelKind, pn, pnCalls, pnFocus, pnEditor>>
    BY <1>1 DEF pnVars
  <2> QED BY <2>1 DEF NInv, PanelTypes, OneShown
<1>2. CASE PnNext
  <2>1. ASSUME NEW c \in pnCalls, EndInit(c) \/ EndModel(c) \/ \E ok \in BOOLEAN : EndLoad(c, ok)
        PROVE  NInv'
    BY <2>1, EndInitKeeps, EndModelKeeps, EndLoadKeeps
  <2>2. ASSUME NEW w \in PnWindows, NEW visible \in BOOLEAN, OpenProfile(w, visible) \/ Eye(w, visible)
        PROVE  NInv'
    BY <2>2, OpenProfileKeeps, EyeKeepsOne
  <2>3. ASSUME NEW w \in PnWindows, RemoveProfile(w) \/ CancelLoad(w) \/ LeadTimer(w)
        PROVE  NInv'
    BY <2>3, RemoveProfileKeeps, CancelKeeps, TimerKeeps
  <2>4. ASSUME NEW w \in PnWindows, NEW r \in Runs, SetModel(w, r) \/ SetCycle(w, r)
        PROVE  NInv'
    BY <2>4, ModelKeeps, SettingsKeep
  <2>5. ASSUME NEW w \in PnWindows, NEW l \in Lines, NEW clicked \in BOOLEAN, SetLine(w, l, clicked)
        PROVE  NInv'
    BY <2>5, SettingsKeep
  <2>6. ASSUME NEW w \in PnWindows, NEW x \in Spots, SetSpot(w, x) \/ SetLead(w, x)
        PROVE  NInv'
    BY <2>6, SettingsKeep, LeadKeeps
  <2>7. ASSUME NEW w \in PnWindows, NEW mode \in {"point", "line"}, SetMode(w, mode)
        PROVE  NInv'
    BY <2>7, SettingsKeep
  <2>8. ASSUME NEW w \in PnWindows, NEW pick \in {"idle", "first", "second", "end"}, Pick(w, pick)
        PROVE  NInv'
    BY <2>8, PicksKeep
  <2> QED BY <1>2, <2>1, <2>2, <2>3, <2>4, <2>5, <2>6, <2>7, <2>8, FocusAndEditorKeep DEF PnNext
<1> QED BY <1>1, <1>2

(* The invariant says what the runs check of the panels.                   *)
LEMMA PanelsFollow == NInv => ProfilesSound /\ PnTypeOK
<1> SUFFICES ASSUME NInv PROVE ProfilesSound /\ PnTypeOK
  OBVIOUS
<1>1. ASSUME NEW w \in PnWindows
      PROVE  /\ pn[w] \in ProfileType /\ pn[w].state \in StateType
             /\ Whole(pn[w].state) /\ Honest(pn[w].state) /\ HeaderTold(panelKind, pnCalls, w, pn[w].state)
             /\ Registered(pn[w], pnEditor)
  BY StatesAreSound DEF NInv
<1>2. HeaderIsSection
  <2> SUFFICES ASSUME NEW w \in PnWindows, pn[w].state.panel, Quiescent(w), ~pn[w].state.behind,
                      ~pn[w].state.crossed
               PROVE  pn[w].state.section = Section(pn[w].state)
    BY DEF HeaderIsSection
  <2>1. Waited(pnCalls, w, pn[w].state) = {} /\ \A c \in pnCalls : c.win = w => c.what = "load"
    BY WaitedIsAwaited DEF Quiescent
  <2>2. HeaderTold(panelKind, pnCalls, w, pn[w].state)
    BY <1>1
  <2>3. pn[w].state.section = KeyIn(panelKind, pn[w].state, pn[w].state.mode)
    BY <2>1, <2>2 DEF HeaderTold
  <2> QED BY <2>3, KeyIsSection
<1>3. CacheIsHonest /\ PicksFit
  BY <1>1 DEF CacheIsHonest, PicksFit, Honest, Whole
<1>4. HiddenStays
  BY <1>1 DEF HiddenStays, Registered
<1>5. OnePanel
  <2>1. PICK S : S = {w \in PnWindows : pn[w].state.shown}
    OBVIOUS
  <2>2. Cardinality(S) <= 1
    <3>1. CASE S = {}
      BY <3>1, FS_EmptySet
    <3>2. CASE S # {}
      <4>1. PICK w \in S : TRUE
        BY <3>2
      <4>2. S = {w}
        BY <2>1, <4>1 DEF NInv, OneShown
      <4> QED BY <4>2, FS_Singleton
    <3> QED BY <3>1, <3>2
  <2>3. ASSUME NEW w \in PnWindows, pn[w].state.panel
        PROVE  (pn[w].entry = "shown") = pn[w].state.shown
    <3>1. pn[w].state.shown \in BOOLEAN /\ (pn[w].entry = "shown" <=> pn[w].state.shown)
      BY <1>1, <2>3 DEF StateType, Registered
    <3> QED BY <3>1
  <2> QED BY <2>1, <2>2, <2>3 DEF OnePanel
<1>6. PnTypeOK
  <2>1. \A c \in pnCalls : c.what \in {"init", "model", "load"} /\ c.win \in PnWindows
    BY DEF NInv, PanelTypes, AwaitedType
  <2>2. ASSUME NEW w \in PnWindows
        PROVE  /\ pn[w].entry \in {"none", "hidden", "shown"} /\ pn[w].eye \in {"none", "hidden", "visible"}
               /\ pn[w].state.run \in Runs /\ pn[w].state.line \in Lines
               /\ pn[w].state.spot \in Spots \cup {Middle(l) : l \in Lines}
               /\ pn[w].state.pick \in {"idle", "first", "second", "end"}
               /\ pn[w].state.lead \in Spots \cup {NoLead}
    BY <1>1 DEF ProfileType, StateType, AllSpots
  <2> QED BY <2>1, <2>2 DEF PnTypeOK, NInv, PanelTypes
<1> QED BY <1>2, <1>3, <1>4, <1>5, <1>6 DEF ProfilesSound

(* A panel shows the section its header tells of and its cache gives back  *)
(* what belongs to the key, one panel is on the screen, a panel that was   *)
(* hidden stays hidden, and a pick fits the panel's mode (loadMatrix,      *)
(* _renderMatrix, show, destroy of the three profile controllers).         *)
THEOREM ProfilesAreSound == PnSpec => []ProfilesSound
<1> QED BY NInvInit, NInvStep, PanelsFollow, PTL DEF PnSpec

(* Every window's panel, its settings and the calls awaited keep their     *)
(* types, whatever is opened, closed, loaded or cancelled.                 *)
THEOREM ProfilesTypeCorrect == PnSpec => []PnTypeOK
<1> QED BY NInvInit, NInvStep, PanelsFollow, PTL DEF PnSpec
=============================================================================
