------------------------------- MODULE Windows -------------------------------
(* The windows of the workstation (lib/stores/tabsCore.js, App.svelte,       *)
(* components/TabsBar.svelte): how windows are added, closed, reordered,     *)
(* split, dealt out to a contrast group and pruned, and which are visible.   *)
(*                                                                           *)
(* The tab is one record; every operation is a function of it.  What a       *)
(* window shows is abstracted to the preset it holds.                        *)
EXTENDS Sublists

CONSTANTS
    Layouts,     \* a function from the layouts offered to the windows they show
    Presets,     \* the presets a window may be loaded with
    AllocModes,  \* the allocation modes offered, without "none"
    MaxWindows,  \* bound: windows AddWindow fills the tab to
    MaxOps       \* bound: operations on the windows

Single == "1x1"
Empty == "empty"   \* a window without a preset
Nobody == -1       \* no parent, no anchor
Uids == 0 .. (3 * MaxWindows)

\* The layouts offered show some windows; the code names two of them and a mode.
ASSUME WindowsAssumption ==
    /\ Layouts \in [DOMAIN Layouts -> Nat \ {0}]
    /\ {Single, "2x2"} \subseteq DOMAIN Layouts
    /\ "model" \in AllocModes

VARIABLES
    wnTab,      \* [wins, active, anchor, mode, layout, last, preview, next]
    wnHeld,     \* windows with entries in the stores of layers and timelines
    wnLoading,  \* the presets under way, as <<window, preset, stage>>
    wnDeal,     \* the base windows of the model allocations that await the levels
    wnGone,     \* windows that were removed
    wnLate,     \* removed windows whose preset came in afterwards
    wnOps       \* operations so far
wnVars == <<wnTab, wnHeld, wnLoading, wnDeal, wnGone, wnLate, wnOps>>

\* createDefaultWindow; isAutoAllocated and isPinned start undefined.
DefaultWindow(uid) == [uid |-> uid, auto |-> "unset", pin |-> FALSE, parent |-> Nobody, preset |-> Empty]

\* A window that belongs to no group, and one of the group of base.
OutOfGroup(win) == [win EXCEPT !.auto = "no", !.parent = Nobody]
AsContrast(win, base) == [win EXCEPT !.auto = "yes", !.parent = base]

WnInit ==
    /\ wnTab = [wins |-> <<DefaultWindow(0)>>, active |-> 1, anchor |-> Nobody, mode |-> "none",
                layout |-> Single, last |-> "2x2", preview |-> FALSE, next |-> 1]
    /\ wnHeld = {0} /\ wnLoading = {} /\ wnDeal = {}
    /\ wnGone = {} /\ wnLate = {}
    /\ wnOps = 0

-----------------------------------------------------------------------------
(* What the tab shows *)

UidsOf(wins) == {wins[i].uid : i \in DOMAIN wins}
PlaceOf(wins, uid) == CHOOSE i \in DOMAIN wins : wins[i].uid = uid
WindowOf(tab, uid) == tab.wins[PlaceOf(tab.wins, uid)]
ActiveUid(tab) == tab.wins[tab.active].uid
Focused(tab, uid) == [tab EXCEPT !.active = PlaceOf(tab.wins, uid)]
Ephemeral(win) == win.auto = "yes" /\ ~win.pin

\* The windows outside a set of ids, and those of no group.
Without(wins, uids) == OnlyAt(wins, {i \in DOMAIN wins : wins[i].uid \notin uids})
OfNoGroup(wins) == OnlyAt(wins, {i \in DOMAIN wins : ~Ephemeral(wins[i])})

\* getVisibleWindows, as ids: the active window alone, every window when they
\* fit, else the first ones, with the active one in front when it is not among
\* them.
VisibleUids(tab) ==
    LET n == Layouts[tab.layout]
        first(k) == [i \in 1 .. k |-> tab.wins[i].uid]
    IN  IF tab.layout = Single \/ tab.preview THEN <<ActiveUid(tab)>>
        ELSE IF Len(tab.wins) <= n THEN first(Len(tab.wins))
        ELSE IF tab.active <= n THEN first(n)
        ELSE <<ActiveUid(tab)>> \o first(n - 1)
ShownUids(tab) == {VisibleUids(tab)[i] : i \in DOMAIN VisibleUids(tab)}

\* resolveContrastInitiator: up the parents, no window twice; a window of a
\* group that has none gives way to the anchor or the first window of its own.
Climbed(tab, c) ==
    LET w == WindowOf(tab, c.at)
    IN  IF Ephemeral(w) /\ w.parent \in UidsOf(tab.wins) \ {c.at} /\ c.at \notin c.seen
        THEN [at |-> w.parent, seen |-> c.seen \cup {c.at}] ELSE c
TopOf(tab, uid) ==
    LET climb[k \in 0 .. Len(tab.wins)] ==
            IF k = 0 THEN [at |-> uid, seen |-> {}] ELSE Climbed(tab, climb[k - 1])
    IN  climb[Len(tab.wins)].at
InitiatorOf(tab, uid) ==
    LET top == TopOf(tab, uid)
        own == OfNoGroup(tab.wins)
    IN  IF ~Ephemeral(WindowOf(tab, top)) \/ own = <<>> THEN top
        ELSE IF tab.anchor \in UidsOf(own) THEN tab.anchor
        ELSE own[1].uid

\* The window a new split starts from.
BaseOf(tab) == IF Ephemeral(tab.wins[tab.active]) THEN InitiatorOf(tab, ActiveUid(tab)) ELSE ActiveUid(tab)

-----------------------------------------------------------------------------
(* How the list of windows changes *)

\* getNextWindowUid.
NextUid(tab) ==
    LET least == {tab.next, Len(tab.wins)} \cup {u + 1 : u \in UidsOf(tab.wins)}
    IN  CHOOSE u \in least : \A v \in least : v <= u

\* The tab with n more windows like win at the end, numbered one after the other.
NewWindows(uid, win, n) == [k \in 1 .. n |-> [win EXCEPT !.uid = uid + k - 1]]
Grown(tab, win, n) ==
    IF n <= 0 THEN tab
    ELSE [tab EXCEPT !.wins = @ \o NewWindows(NextUid(tab), win, n), !.next = NextUid(tab) + n]

\* pruneAutoAllocatedWindows: the window whose group stays.
LeadOf(tab, target, promote) ==
    IF promote # Nobody
    THEN IF WindowOf(tab, promote).parent \in UidsOf(tab.wins) THEN WindowOf(tab, promote).parent
         ELSE InitiatorOf(tab, promote)
    ELSE IF target \in UidsOf(tab.wins) THEN target
    ELSE InitiatorOf(tab, ActiveUid(tab))

\* The initiator takes over the preset of the window it adopts.
Adopted(tab, lead, promote) ==
    LET preset == WindowOf(tab, promote).preset
        own == OutOfGroup(WindowOf(tab, lead))
    IN  IF promote \in {Nobody, lead} THEN tab.wins
        ELSE [tab.wins EXCEPT ![PlaceOf(tab.wins, lead)] =
                 IF preset = Empty THEN own ELSE [own EXCEPT !.preset = preset]]

\* The windows that stay: those of no group, and the first `keep` of `group`.
Survivors(wins, keep, lead, group) ==
    LET goes(w) == Ephemeral(w) /\ w.uid # lead
        ranked == {i \in DOMAIN wins : goes(wins[i]) /\ wins[i].parent \in {Nobody, group}}
        first == {i \in ranked : Cardinality({j \in ranked : j <= i}) <= keep}
    IN  OnlyAt(wins, {i \in DOMAIN wins : ~goes(wins[i])} \cup first)

\* The active window keeps the focus, else its parent or its neighbour gets it.
FocusAmong(left, old, active, lead, promote) ==
    IF promote # Nobody THEN lead
    ELSE IF old.uid \in UidsOf(left) THEN old.uid
    ELSE IF old.parent \in UidsOf(left) THEN old.parent
    ELSE IF old.parent # Nobody THEN left[IF active <= Len(left) THEN active ELSE Len(left)].uid
    ELSE lead

PrunedTo(tab, keep, left, lead, promote) ==
    [tab EXCEPT !.wins = left,
                !.active = PlaceOf(left, FocusAmong(left, tab.wins[tab.active], tab.active, lead, promote)),
                !.anchor = IF keep = 0 THEN Nobody ELSE @,
                !.preview = IF keep = 0 THEN FALSE ELSE @]

\* The windows of contrast groups go, but for the first `keep` of the group of
\* `target`; the initiator takes over the preset of `promote` before.
PrunedAround(tab, keep, lead, target, promote) ==
    PrunedTo(tab, keep, Survivors(Adopted(tab, lead, promote), keep, lead,
                                  IF target # Nobody THEN target ELSE lead), lead, promote)
Pruned(tab, keep, target, promote) ==
    PrunedAround(tab, keep, LeadOf(tab, target, promote), target, promote)

\* prepareSplitWindows: the windows that keep their place at the front, base
\* first when the tab was not split.
Least(m, n) == IF m < n THEN m ELSE n
KeptInSplit(wins, n, base, wasTab, shown) ==
    IF wasTab THEN <<wins[PlaceOf(wins, base)]>>
    ELSE SubSeq(wins, 1, Least(Least(shown, n), Len(wins)))

\* Mutant: whatever is not kept fills the split up.
BugFillers(rest, held, base, wasTab) == rest

\* The windows that fill it up: those of groups, of the same preset, and empty ones.
Fillers(rest, held, base, wasTab) ==
    LET same(w) == w.auto # "no" /\ w.preset # Empty /\ w.preset = held
        mine(w) == (Ephemeral(w) /\ w.parent = base) \/ same(w)
        free(w) == Ephemeral(w) \/ same(w) \/ w.preset = Empty
        at == {i \in DOMAIN rest : mine(rest[i])}
        others == {i \in DOMAIN rest \ at : Ephemeral(rest[i])}
        empty == {i \in DOMAIN rest \ at : ~Ephemeral(rest[i]) /\ rest[i].preset = Empty}
    IN  IF wasTab THEN OnlyAt(rest, at) \o OnlyAt(rest, others) \o OnlyAt(rest, empty)
        ELSE OnlyAt(rest, {i \in DOMAIN rest : free(rest[i])})

\* New windows make up for what is missing; the fillers that are not needed stay
\* if they belong to no group.
FilledSplit(tab, n, base, wins, kept, rest, fill) ==
    LET used == SubSeq(fill, 1, Least(n - Len(kept), Len(fill)))
        spare == OfNoGroup(SubSeq(fill, Len(used) + 1, Len(fill)))
        busy == Without(rest, UidsOf(fill))
        more == n - Len(kept) - Len(used)
        new == NewWindows(NextUid(tab), AsContrast(DefaultWindow(0), base), more)
        all == kept \o [i \in DOMAIN used |-> AsContrast(used[i], base)] \o new \o busy \o spare
    IN  [tab EXCEPT !.wins = all, !.active = PlaceOf(all, base), !.anchor = base,
                    !.next = IF more <= 0 THEN @ ELSE NextUid(tab) + more]

\* The n windows of the split in front; windows that hold something else keep
\* their place behind.
PreparedFrom(tab, n, base, wasTab, wins, kept) ==
    LET rest == Without(wins, UidsOf(kept))
    IN  FilledSplit(tab, n, base, wins, kept, rest,
                    Fillers(rest, wins[PlaceOf(wins, base)].preset, base, wasTab))
PreparedWith(tab, n, base, wasTab, shown, wins) ==
    PreparedFrom(tab, n, base, wasTab, wins, KeptInSplit(wins, n, base, wasTab, shown))
Prepared(tab, n, base, wasTab, shown) ==
    PreparedWith(tab, n, base, wasTab, shown,
                 [tab.wins EXCEPT ![PlaceOf(tab.wins, base)] = OutOfGroup(WindowOf(tab, base))])

\* applyAutoAllocation: the visible windows get the preset of the initiator and
\* belong to its group, pinned ones keep their mark.
Dealt2(tab, mode, base) ==
    LET from == IF base \in UidsOf(tab.wins) THEN base ELSE VisibleUids(tab)[1]
        lead == InitiatorOf(tab, from)
        held == WindowOf(tab, lead).preset
        deal(w) ==
            IF w.uid \notin ShownUids(tab) THEN w
            ELSE IF w.uid = lead THEN OutOfGroup(w)
            ELSE LET got == IF held = Empty THEN w ELSE [w EXCEPT !.preset = held]
                 IN  IF w.pin THEN got ELSE AsContrast(got, lead)
    IN  [tab EXCEPT !.mode = mode, !.anchor = lead,
                    !.wins = [i \in DOMAIN @ |-> deal(@[i])]]

-----------------------------------------------------------------------------
(* What a change of the tab takes along *)

\* Mutant: the stores keep what a removed window had.
BugReleased(held, gone) == held

\* cleanupWindowResources, called for every window that is removed.
Released(held, gone) == held \ gone

\* The tab becomes `tab`; `held` are the windows that are given a picture.
Becomes(tab, held) ==
    LET gone == UidsOf(wnTab.wins) \ UidsOf(tab.wins)
    IN  /\ wnTab' = tab
        /\ wnHeld' = Released(wnHeld, gone) \cup held
        /\ wnGone' = wnGone \cup gone

Op == wnOps < MaxOps /\ wnOps' = wnOps + 1
LoadsStay == UNCHANGED <<wnLoading, wnDeal, wnLate>>

\* The windows an allocation gives a picture to.
Pictured(tab) == {u \in ShownUids(tab) : WindowOf(tab, u).preset # Empty}

-----------------------------------------------------------------------------
(* The operator and the windows *)

\* handleWindowFocus.
FocusOn(uid) ==
    /\ Op
    /\ uid # ActiveUid(wnTab)
    /\ Becomes(Focused(wnTab, uid), {})
    /\ LoadsStay

\* handleAddWindow: the new window is the last one and gets the focus.
AddWindow ==
    LET grown == Grown(wnTab, DefaultWindow(0), 1)
        tab == [grown EXCEPT !.active = Len(grown.wins)]
    IN  /\ Op
        /\ Len(wnTab.wins) < MaxWindows
        /\ Becomes(tab, {})
        /\ LoadsStay

\* handleCloseWindow: the neighbour gets the focus of a closed active window;
\* with one window left the split ends.
CloseWindow(uid) ==
    LET at == PlaceOf(wnTab.wins, uid)
        left == Without(wnTab.wins, {uid})
        active == IF at = wnTab.active THEN IF at <= Len(left) THEN at ELSE Len(left)
                  ELSE PlaceOf(left, ActiveUid(wnTab))
        tab == [wnTab EXCEPT !.wins = left, !.active = active,
                             !.layout = IF Len(left) <= 1 THEN Single ELSE @]
    IN  /\ Op
        /\ Len(wnTab.wins) > 1
        /\ Becomes(tab, {})
        /\ LoadsStay

\* The window at `from` taken out and put in at `to`.
Dragged(wins, from, to) ==
    [k \in DOMAIN wins |-> wins[CASE k = to -> from
                                [] k # to /\ from <= k /\ k < to -> k + 1
                                [] k # to /\ to < k /\ k <= from -> k - 1
                                [] OTHER -> k]]

\* TabsBar: the window at `from` is dropped before the p-th one;
\* handleReorderWindows: the active window stays active.
Reorder(from, p) ==
    LET to == IF from < p THEN p - 1 ELSE p
        wins == Dragged(wnTab.wins, from, to)
        tab == [wnTab EXCEPT !.wins = wins, !.active = PlaceOf(wins, ActiveUid(wnTab))]
    IN  /\ Op
        /\ to # from
        /\ Becomes(tab, {})
        /\ LoadsStay

\* handlePinWindow, pinContrastWindow; offered for the windows of a group.
PinWindow(uid) ==
    LET at == PlaceOf(wnTab.wins, uid)
    IN  /\ Op
        /\ Ephemeral(wnTab.wins[at])
        /\ wnTab' = [wnTab EXCEPT !.wins[at] = [OutOfGroup(wnTab.wins[at]) EXCEPT !.pin = TRUE]]
        /\ UNCHANGED <<wnHeld, wnGone>>
        /\ LoadsStay

\* handleCollapseContrastGroup: back to one window; the active window of a
\* group may be adopted by its initiator, which is loaded again.
CollapseGroup(promote) ==
    LET left == [wnTab EXCEPT !.last = IF wnTab.layout # Single THEN wnTab.layout ELSE @]
        tab == [Pruned(left, 0, Nobody, promote) EXCEPT !.layout = Single, !.mode = "none",
                                                        !.preview = FALSE]
    IN  /\ Op
        /\ IF promote = Nobody THEN \E i \in DOMAIN wnTab.wins : Ephemeral(wnTab.wins[i])
           ELSE promote = ActiveUid(wnTab) /\ Ephemeral(WindowOf(wnTab, promote))
        /\ Becomes(tab, IF promote = Nobody THEN {} ELSE Pictured(tab))
        /\ LoadsStay

\* handleSelectAutoAlloc: offered in tab mode, where it sets the mode only.
SelectAutoAlloc(mode) ==
    /\ Op
    /\ wnTab.layout = Single
    /\ mode # wnTab.mode
    /\ wnTab' = [wnTab EXCEPT !.mode = mode]
    /\ UNCHANGED <<wnHeld, wnGone>>
    /\ LoadsStay

-----------------------------------------------------------------------------
(* The layout *)

\* applyAutoAllocationModeToTab: the base is read at once; a model allocation
\* awaits the levels of the models before it deals.
Allocating(tab, mode) ==
    LET base == BaseOf(tab)
        dealt == Dealt2(tab, mode, base)
    IN  IF mode = "model"
        THEN Becomes([tab EXCEPT !.mode = mode], {}) /\ wnDeal' = wnDeal \cup {base}
        ELSE Becomes(dealt, Pictured(dealt)) /\ UNCHANGED wnDeal

\* handleChangeLayout in a split without allocation: windows of groups go when
\* fewer are shown, empty ones come when there are not enough.
Resplit(tab, layout) ==
    LET base == BaseOf(tab)
        pruned == IF Layouts[tab.layout] > Layouts[layout]
                  THEN Pruned(tab, Layouts[layout] - 1, base, Nobody) ELSE tab
    IN  [Grown(pruned, DefaultWindow(0), Layouts[layout] - Len(pruned.wins)) EXCEPT !.layout = layout]

\* handleChangeLayout: `mode` is Nobody for the mode the tab is in.
ChangedTo(layout, mode) ==
    LET set == [wnTab EXCEPT !.preview = FALSE, !.mode = IF mode = "kept" THEN @ ELSE mode,
                             !.last = IF wnTab.layout # Single /\ layout = Single THEN wnTab.layout ELSE @]
    IN  IF layout = Single
        THEN LET tab == [Pruned(set, 0, Nobody, Nobody) EXCEPT !.layout = Single]
             IN  Becomes(tab, {}) /\ UNCHANGED wnDeal
        ELSE IF set.mode = "none"
        THEN LET tab == Resplit(set, layout)
             IN  Becomes(tab, {}) /\ UNCHANGED wnDeal
        ELSE LET tab == [Prepared(set, Layouts[layout], BaseOf(set), set.layout = Single, Layouts[set.layout])
                            EXCEPT !.layout = layout]
             IN  Allocating(tab, set.mode)
ChangeLayout(layout, mode) ==
    /\ Op
    /\ ChangedTo(layout, mode)
    /\ UNCHANGED <<wnLoading, wnLate>>

\* preloadModelLevels is there: the visible windows are dealt out, whatever
\* they are by now.
LevelListKnown(base) ==
    LET dealt == Dealt2(wnTab, "model", base)
    IN  /\ Becomes(dealt, Pictured(dealt))
        /\ wnDeal' = wnDeal \ {base}
        /\ UNCHANGED <<wnOps, wnLoading, wnLate>>

\* toggleTabsAndSplit: the preview in a split, else the last split again.
TogglePreview(uid) ==
    LET tab == Focused(wnTab, uid)
        shown == [tab EXCEPT !.preview = ~@]
    IN  /\ Op
        /\ UNCHANGED <<wnLoading, wnLate>>
        /\ \/ /\ tab.layout # Single
              /\ Becomes(shown, {})
              /\ UNCHANGED wnDeal
           \/ /\ tab.layout = Single
              /\ uid = ActiveUid(wnTab)
              /\ ChangedTo(tab.last, "kept")

-----------------------------------------------------------------------------
(* The presets *)

\* handleLoadData for the active window: it leaves its group at once and
\* awaits the style of its map.
LoadPreset(preset) ==
    LET at == wnTab.active
    IN  /\ Op
        /\ \A r \in wnLoading : r[1] # ActiveUid(wnTab)
        /\ wnTab' = [wnTab EXCEPT !.wins[at] = OutOfGroup(wnTab.wins[at])]
        /\ wnLoading' = wnLoading \cup {<<ActiveUid(wnTab), preset, "style">>}
        /\ UNCHANGED <<wnHeld, wnGone, wnDeal, wnLate>>

\* The style is there: applyPresetToWindow.
MapReady(r) ==
    /\ r[3] = "style"
    /\ wnLoading' = (wnLoading \ {r}) \cup {<<r[1], r[2], "data">>}
    /\ wnTab' = IF r[1] \in UidsOf(wnTab.wins)
                THEN [wnTab EXCEPT !.wins[PlaceOf(wnTab.wins, r[1])] =
                                       [WindowOf(wnTab, r[1]) EXCEPT !.preset = r[2]]]
                ELSE wnTab
    /\ UNCHANGED <<wnHeld, wnGone, wnDeal, wnLate, wnOps>>

\* The data is there, for a window that may be gone: its entries are written;
\* a split in an allocation mode is dealt out from the active window.
PresetLoaded(r) ==
    LET deals == r[1] = ActiveUid(wnTab) /\ wnTab.mode # "none" /\ wnTab.layout # Single
        live == r[1] \in UidsOf(wnTab.wins)
        base == BaseOf(wnTab)
        dealt == Dealt2(wnTab, wnTab.mode, base)
        now == deals /\ wnTab.mode # "model"
    IN  /\ r[3] = "data"
        /\ wnLoading' = wnLoading \ {r}
        /\ wnTab' = IF now THEN dealt ELSE wnTab
        /\ wnHeld' = wnHeld \cup {r[1]} \cup (IF now THEN Pictured(dealt) ELSE {})
        /\ wnDeal' = IF deals /\ ~now THEN wnDeal \cup {base} ELSE wnDeal
        /\ wnLate' = IF live THEN wnLate ELSE wnLate \cup {r[1]}
        /\ UNCHANGED <<wnGone, wnOps>>

-----------------------------------------------------------------------------
WnNext ==
    \/ \E i \in DOMAIN wnTab.wins :
          LET uid == wnTab.wins[i].uid
          IN  FocusOn(uid) \/ CloseWindow(uid) \/ PinWindow(uid) \/ TogglePreview(uid) \/ CollapseGroup(uid)
    \/ \E from \in DOMAIN wnTab.wins, p \in 1 .. Len(wnTab.wins) + 1 : Reorder(from, p)
    \/ AddWindow \/ CollapseGroup(Nobody)
    \/ \E mode \in AllocModes \cup {"none"} : SelectAutoAlloc(mode)
    \/ \E layout \in DOMAIN Layouts, mode \in AllocModes \cup {"none", "kept"} : ChangeLayout(layout, mode)
    \/ \E base \in wnDeal : LevelListKnown(base)
    \/ \E preset \in Presets : LoadPreset(preset)
    \/ \E r \in wnLoading : MapReady(r) \/ PresetLoaded(r)

WnSpec == WnInit /\ [][WnNext]_wnVars

-----------------------------------------------------------------------------
(* The types of the variables. *)
WnTypeOK ==
    /\ wnTab.active \in DOMAIN wnTab.wins
    /\ wnTab.layout \in DOMAIN Layouts
    /\ wnTab.mode \in AllocModes \cup {"none"}
    /\ UidsOf(wnTab.wins) \subseteq Uids /\ wnTab.anchor \in Uids \cup {Nobody}
    /\ wnDeal \cup wnHeld \subseteq Uids

\* A window keeps an id no other window has or ever had (getNextWindowUid),
\* through splits, prunes and drags.
OwnIds ==
    /\ \A i, j \in DOMAIN wnTab.wins : i # j => wnTab.wins[i].uid # wnTab.wins[j].uid
    /\ UidsOf(wnTab.wins) \cap wnGone = {}

\* What a window held is released when it goes, whichever way it goes
\* (cleanupWindowResources), but for a preset that came in too late; and no
\* window that shows something was cleaned up.
NothingLeaks ==
    /\ wnHeld \subseteq UidsOf(wnTab.wins) \cup wnLate
    /\ \A i \in DOMAIN wnTab.wins :
          wnTab.wins[i].preset # Empty => \/ wnTab.wins[i].uid \in wnHeld
                                         \/ \E r \in wnLoading : r[1] = wnTab.wins[i].uid

WindowsSound == OwnIds /\ NothingLeaks

\* A window the operator loaded and that has no place in the split keeps what
\* it shows: whatever is split, dealt out, pruned or dragged, it is neither
\* clobbered nor removed, and a pinned one is never removed
\* (prepareSplitWindows, pruneAutoAllocatedWindows); only the operator closes
\* it, loads it or has it adopt a window of its group.
Spared(split) ==
    \A i \in DOMAIN wnTab.wins :
        LET w == wnTab.wins[i]
            busy == w.auto = "no" /\ w.preset # Empty /\ w.uid \notin split
        IN  busy \/ w.pin =>
              \/ /\ w.uid \in UidsOf(wnTab'.wins)
                 /\ busy => WindowOf(wnTab', w.uid).preset = w.preset
              \/ CloseWindow(w.uid)
              \/ ActiveUid(wnTab') = w.uid /\ CollapseGroup(ActiveUid(wnTab))
              \/ \E r \in wnLoading : r[1] = w.uid /\ MapReady(r)

\* The split has as many places as its layout shows windows, and the active
\* window, which is shown in front when it has none.
InSplit(tab) ==
    {ActiveUid(tab)} \cup
        (IF tab.layout = Single THEN {}
         ELSE {tab.wins[i].uid : i \in 1 .. Least(Layouts[tab.layout], Len(tab.wins))})
BusyStays == Spared(InSplit(wnTab))

\* "Any windows outside the previous visible split that have layers (busyWins)
\* must NOT be clobbered" (tabsCore.js:1387): the window whose place the active
\* one takes on the screen is outside of it as well.
OnScreen(tab) == ShownUids([tab EXCEPT !.preview = FALSE])
UnseenStays == Spared(OnScreen(wnTab))

=============================================================================
