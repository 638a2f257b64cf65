------------------------------- MODULE Profiles -------------------------------
(* The floating profile panels (timeHeightController.js,                      *)
(* lineHeightController.js, hovmollerController.js with their layer facades,  *)
(* profilesCore.js and profileVisibility.js): every window has its own state  *)
(* and panel, one panel of a kind is on the screen, and the section it shows  *)
(* is loaded from the server or found in the cache of the state.              *)
(*                                                                            *)
(* The three controllers are one program with small differences; panelKind    *)
(* says which one runs.  `spot` is the point of a time-height profile, the    *)
(* lead time of a line-height section, the level and span of a Hovmoller      *)
(* diagram; `run` is the model with its cycle and, for time-height, the range.*)
EXTENDS Integers, FiniteSets, TLC

CONSTANTS
    PnKinds,    \* the controllers: "timeheight", "lineheight", "hovmoller"
    PnWindows,  \* the windows
    Runs,       \* models and cycles
    Lines,      \* the lines a section is drawn along
    Spots,      \* points, lead times or levels
    PnMaxOps    \* bound: operations by the operator and the preset loader

VARIABLES
    panelKind,  \* the controller
    pn,         \* the state of each window
    pnCalls,    \* loads and resolveForecastCycles awaited
    pnFocus,    \* the focused window
    pnEditor,   \* the configuration editor is open
    pnOps       \* operations so far
pnVars == <<panelKind, pn, pnCalls, pnFocus, pnEditor, pnOps>>

ASSUME ProfilesAssumption == PnWindows # {} /\ Runs # {} /\ Lines # {} /\ Spots # {}

NoSection == <<>>
NoLead == <<>>
First(S) == CHOOSE x \in S : TRUE

\* A new WindowState; `inst` tells it from the ones that were destroyed.
\* For the properties only: `behind`, the last load failed or was given up, or
\* the mode was changed without one (by a pick);
\* `crossed`, a section may have come under another's key.
NewState(inst) ==
    [held |-> TRUE, inst |-> inst, active |-> FALSE, panel |-> FALSE, shown |-> FALSE,
     run |-> First(Runs), mode |-> IF panelKind = "timeheight" THEN "point" ELSE "line",
     line |-> First(Lines), spot |-> First(Spots), section |-> NoSection, cache |-> {},
     seq |-> 0, lead |-> NoLead, pick |-> "idle", behind |-> FALSE, crossed |-> FALSE]
NoState(inst) == [NewState(inst) EXCEPT !.held = FALSE]

\* The key of a section (_cacheKey, _lineCacheKey), drawn in the given mode.
SectionIn(s, mode) == IF panelKind # "timeheight" THEN <<s.run, s.line, s.spot>>
                      ELSE IF mode = "line" THEN <<s.run, "line", s.line>>
                      ELSE <<s.run, "point", s.spot>>
Section(s) == SectionIn(s, s.mode)
Middle(l) == <<"middle", l>>  \* of a line

PnInit(kinds) ==
    /\ panelKind \in kinds
    \* `entry` is the registry's, `eye` the layer's in the store.  For the
    \* properties only: `strayed`, the panel was shown by an init that did not
    \* look; `hollow`, an init or setModel outlived the state it was for.
    /\ pn = [w \in PnWindows |-> [state |-> NoState(0), entry |-> "none", eye |-> "none",
                                 strayed |-> FALSE, hollow |-> FALSE]]
    /\ pnCalls = {}
    /\ pnFocus = First(PnWindows)
    /\ pnEditor = FALSE
    /\ pnOps = 0

\* A load of the state that is not superseded: seq is the one it began with.
Awaited(w, s) == {c \in pnCalls : c.what = "load" /\ c.win = w /\ c.inst = s.inst /\ c.seq = s.seq}
BugCurrentLoad(s, c) == c.inst = s.inst   \* mutant: loadingSeq is not compared
CurrentLoad(s, c) == c.inst = s.inst /\ c.seq = s.seq
CachedSection(s) == {e \in s.cache : e[1] = Section(s)}

\* loadMatrix: the section comes from the cache at once, and a load under way
\* is left alone; or a new load takes its place.  A time-height profile of a
\* point is looked up by setPoint only.
LooksUp(s) == panelKind # "timeheight" \/ s.mode = "line"
FromCache(w, s) ==
    [s EXCEPT !.section = (CHOOSE e \in CachedSection(s) : TRUE)[2], !.behind = FALSE,
              !.crossed = @ \/ Awaited(w, s) # {}]
Superseded(s) == [s EXCEPT !.seq = @ + 1]
LoadCall(w, s) == [what |-> "load", win |-> w, inst |-> s.inst, seq |-> s.seq,
                   want |-> Section(s), visible |-> TRUE]
\* The state and the awaited calls after a loadMatrix of the state s.
Loaded(w, s, looks) == IF looks /\ CachedSection(s) # {} THEN FromCache(w, s) ELSE Superseded(s)
Called(w, s, looks) == IF looks /\ CachedSection(s) # {} THEN {} ELSE {LoadCall(w, Superseded(s))}

\* show(map, win) and hide: one panel, the others are hidden.
PanelShown(ws, w) ==
    [v \in PnWindows |->
        IF v = w THEN [ws[v] EXCEPT !.entry = "shown", !.state.shown = ws[v].state.panel]
        ELSE [ws[v] EXCEPT !.state.shown = FALSE,
                           !.entry = IF ws[v].state.held THEN "hidden" ELSE @]]
PutAway(p) == [p EXCEPT !.state.shown = FALSE, !.entry = IF @ = "none" THEN @ ELSE "hidden"]
Hidden(ws, w) == [ws EXCEPT ![w] = PutAway(ws[w])]
AllHidden(ws) == [w \in PnWindows |-> PutAway(ws[w])]

\* syncProfilePanelsForWindow: the layer store decides, the registry tells
\* whether there is a panel.
SyncedPanels(ws, w) ==
    IF ws[w].eye = "visible" /\ ws[w].entry # "none" THEN PanelShown(ws, w) ELSE AllHidden(ws)

-----------------------------------------------------------------------------
Operation == pnOps < PnMaxOps /\ pnOps' = pnOps + 1 /\ UNCHANGED panelKind

\* destroy: the state, its panel and its entry go; a new state is made on demand.
Destroyed(p) == [p EXCEPT !.state = NoState(p.state.inst), !.entry = "none", !.strayed = FALSE]

\* loadTimeHeightLayer and its like: the layer is stored with its visibility
\* and init begins; a window that has one is cleared first (loadPresetGroup).
OpenProfile(w, visible) ==
    /\ Operation
    /\ LET inst == pn[w].state.inst + 1
           s == [NewState(inst) EXCEPT !.active = TRUE]
       IN  /\ pn' = [pn EXCEPT ![w] = [Destroyed(pn[w]) EXCEPT !.state = s, !.hollow = FALSE,
                                        !.eye = IF visible THEN "visible" ELSE "hidden"]]
           /\ pnCalls' = pnCalls \cup {[what |-> "init", win |-> w, inst |-> inst, seq |-> 0,
                                        want |-> NoSection, visible |-> visible]}
    /\ UNCHANGED <<pnFocus, pnEditor>>

\* removeTimeHeightLayer and handleCloseWindow.
RemoveProfile(w) ==
    /\ Operation
    /\ pn[w].eye # "none"
    /\ pn' = [pn EXCEPT ![w] = [Destroyed(pn[w]) EXCEPT !.eye = "none"]]
    /\ UNCHANGED <<pnCalls, pnFocus, pnEditor>>

\* The state a continuation finds when it asks for the window's: the one it
\* began with, a later one, or a new one made for it.
StateOf(w) == IF pn[w].state.held THEN pn[w].state ELSE NewState(pn[w].state.inst + 1)
Outlived(c) == ~pn[c.win].state.held \/ pn[c.win].state.inst # c.inst
Continued(c, s) == [pn[c.win] EXCEPT !.state = s, !.hollow = @ \/ Outlived(c),
                                     !.entry = IF @ = "none" THEN "hidden" ELSE @]

\* init goes on after resolveForecastCycles: panel, listeners, visibility and
\* the first load, without asking whether the window still has the layer.
EndInit(c) ==
    LET w == c.win
        s == [StateOf(w) EXCEPT !.panel = @ \/ ~Outlived(c)]
        ws == [pn EXCEPT ![w] = Continued(c, s)]
        us == IF c.visible THEN PanelShown(ws, w) ELSE Hidden(ws, w)
        looks == LooksUp(s)
    IN  /\ c \in pnCalls /\ c.what = "init"
        /\ pn' = [v \in PnWindows |->
                    IF v = w THEN [us[w] EXCEPT !.state = Loaded(w, us[w].state, looks),
                                                !.strayed = c.visible /\ (pnEditor \/ us[w].eye # "visible")]
                    ELSE us[v]]
        /\ pnCalls' = (pnCalls \ {c}) \cup Called(w, us[w].state, looks)
        /\ pnFocus' = pnFocus
        /\ UNCHANGED <<panelKind, pnEditor, pnOps>>

\* setModel: the model changes at once, a load of the old one is left alone
\* while the cycles are resolved.
SetModel(w, r) ==
    LET s == pn[w].state
    IN  /\ Operation
        /\ s.active /\ s.run # r
        /\ pn' = [pn EXCEPT ![w].state = [s EXCEPT !.run = r, !.crossed = @ \/ Awaited(w, s) # {}]]
        /\ pnCalls' = pnCalls \cup {[what |-> "model", win |-> w, inst |-> s.inst, seq |-> 0,
                                     want |-> NoSection, visible |-> TRUE]}
        /\ UNCHANGED <<pnFocus, pnEditor>>

EndModel(c) ==
    LET w == c.win
        s == StateOf(w)
    IN  /\ c \in pnCalls /\ c.what = "model"
        /\ pn' = [pn EXCEPT ![w] = Continued(c, Loaded(w, s, LooksUp(s)))]
        /\ pnCalls' = (pnCalls \ {c}) \cup Called(w, s, LooksUp(s))
        /\ UNCHANGED <<panelKind, pnFocus, pnEditor, pnOps>>

\* A change of the panel's settings, and the loadMatrix that follows.
Change(w, s, looks) ==
    /\ pn[w].state.panel
    /\ pn' = [pn EXCEPT ![w].state = Loaded(w, s, looks)]
    /\ pnCalls' = pnCalls \cup Called(w, s, looks)
    /\ UNCHANGED <<pnFocus, pnEditor>>

\* setCycle, and setRange of a time-height profile.
SetCycle(w, r) ==
    LET s == [pn[w].state EXCEPT !.run = r]
    IN  Operation /\ s # pn[w].state /\ Change(w, s, LooksUp(s))

\* setLine: a time-height profile becomes one of a line, and what was being
\* picked on the map is dropped.  The panel's own inputs ask for it, or the
\* click that ends a pick.
SetLine(w, l, clicked) ==
    LET s == [pn[w].state EXCEPT !.line = l, !.mode = "line",
                                 !.pick = IF clicked \/ pn[w].state.mode # "line" THEN "idle" ELSE @]
    IN  /\ Operation
        /\ clicked => pn[w].state.pick \in {"second", "end"}
        /\ Change(w, s, LooksUp(s))

\* startDraw, setAFromMap and setBFromMap arm a pick, and turn a profile of a
\* point into one of a line without a load; the first of the two clicks of a
\* drawn line; cancelPick, which does not turn it back.
Pick(w, pick) ==
    LET s == pn[w].state
    IN  /\ Operation
        /\ s.panel
        /\ \/ pick \in {"first", "end"}
           \/ pick = "second" /\ s.pick = "first"
           \/ pick = "idle" /\ s.pick # "idle"
        /\ pn' = [pn EXCEPT ![w].state =
                      [s EXCEPT !.pick = pick, !.behind = @ \/ s.mode # "line",
                                !.mode = IF pick \in {"first", "end"} THEN "line" ELSE @]]
        /\ UNCHANGED <<pnCalls, pnFocus, pnEditor>>

\* setMode of a time-height profile.
SetMode(w, mode) ==
    LET s == [pn[w].state EXCEPT !.mode = mode, !.pick = "idle"]
    IN  /\ Operation
        /\ panelKind = "timeheight"
        /\ mode # pn[w].state.mode \/ pn[w].state.section = NoSection
        /\ Change(w, s, LooksUp(s))

\* setPoint of a time-height profile, setLevel and setSpan of a Hovmoller.
SetSpot(w, x) ==
    LET p == pn[w].state
        s == [p EXCEPT !.spot = x, !.mode = IF panelKind = "timeheight" THEN "point" ELSE p.mode,
                       !.pick = IF panelKind = "timeheight" THEN "idle" ELSE p.pick]
    IN  Operation /\ panelKind # "lineheight" /\ Change(w, s, TRUE)

\* setLead of a line-height section, a moment later its timer.
SetLead(w, x) ==
    /\ Operation
    /\ panelKind = "lineheight" /\ pn[w].state.active
    /\ pn' = [pn EXCEPT ![w].state.lead = x]
    /\ UNCHANGED <<pnCalls, pnFocus, pnEditor>>
LeadTimer(w) ==
    LET s == pn[w].state
        t == [s EXCEPT !.lead = NoLead, !.spot = s.lead]
        same == s.lead = s.spot /\ s.section # NoSection
    IN  /\ s.lead # NoLead
        /\ \/ same /\ pn' = [pn EXCEPT ![w].state = t] /\ UNCHANGED pnCalls
           \/ /\ ~same
              /\ pn' = [pn EXCEPT ![w].state = Loaded(w, t, TRUE)]
              /\ pnCalls' = pnCalls \cup Called(w, t, TRUE)
        /\ UNCHANGED <<panelKind, pnFocus, pnEditor, pnOps>>

-----------------------------------------------------------------------------
\* A load that is still the current one: the section is shown and stored under
\* the key of what the panel says NOW.  A time-height profile takes its point
\* along; that of a line is its middle.
Arrived(s, want) ==
    LET t == [s EXCEPT !.spot = IF panelKind # "timeheight" THEN @
                                ELSE IF want[2] = "point" THEN want[3] ELSE Middle(want[3])]
        key == SectionIn(t, want[2])
    IN  [t EXCEPT !.section = want, !.behind = panelKind = "timeheight" /\ want[2] # s.mode,
                  !.cache = {e \in @ : e[1] # key} \cup {<<key, want>>}]
EndLoad(c, ok) ==
    LET s == pn[c.win].state
    IN  /\ c \in pnCalls /\ c.what = "load"
        /\ pnCalls' = pnCalls \ {c}
        /\ pn' = [pn EXCEPT ![c.win].state = IF ~CurrentLoad(s, c) THEN s
                                             ELSE IF ok THEN Arrived(s, c.want)
                                             ELSE [s EXCEPT !.behind = TRUE]]
        /\ UNCHANGED <<panelKind, pnFocus, pnEditor, pnOps>>

\* cancelLoad: the Cancel of the panel.
CancelLoad(w) ==
    /\ Operation
    /\ Awaited(w, pn[w].state) # {}
    /\ pn' = [pn EXCEPT ![w].state = [Superseded(pn[w].state) EXCEPT !.behind = TRUE, !.lead = NoLead]]
    /\ UNCHANGED <<pnCalls, pnFocus, pnEditor>>

\* The eye of the layer (setTimeHeightVisibility) and the panel's own close.
Eye(w, visible) ==
    /\ Operation
    /\ pn[w].eye # "none"
    /\ visible => w = pnFocus /\ ~pnEditor
    /\ pn' = LET p == [pn[w] EXCEPT !.eye = IF visible THEN "visible" ELSE "hidden", !.strayed = FALSE]
                 ws == [pn EXCEPT ![w] = p]
             IN  IF visible THEN PanelShown(ws, w) ELSE Hidden(ws, w)
    /\ UNCHANGED <<pnCalls, pnFocus, pnEditor>>

\* handleWindowFocus; the configuration editor hides the panels and brings
\* them back.
FocusProfiles(w) ==
    /\ Operation
    /\ w # pnFocus \/ pn[w].state.panel
    /\ ~pnEditor
    /\ pnFocus' = w
    /\ pn' = SyncedPanels([v \in PnWindows |-> [pn[v] EXCEPT !.strayed = FALSE]], w)
    /\ UNCHANGED <<pnCalls, pnEditor>>
Editor ==
    /\ Operation
    /\ pnEditor' = ~pnEditor
    /\ pn' = LET ws == [v \in PnWindows |-> [pn[v] EXCEPT !.strayed = FALSE]]
             IN  IF pnEditor THEN SyncedPanels(ws, pnFocus) ELSE AllHidden(ws)
    /\ UNCHANGED <<pnCalls, pnFocus>>

PnNext ==
    \/ \E c \in pnCalls : EndInit(c) \/ EndModel(c) \/ \E ok \in BOOLEAN : EndLoad(c, ok)
    \/ \E w \in PnWindows :
         \/ \E visible \in BOOLEAN : OpenProfile(w, visible) \/ Eye(w, visible)
         \/ RemoveProfile(w) \/ CancelLoad(w) \/ LeadTimer(w) \/ FocusProfiles(w)
         \/ \E r \in Runs : SetModel(w, r) \/ SetCycle(w, r)
         \/ \E l \in Lines, clicked \in BOOLEAN : SetLine(w, l, clicked)
         \/ \E x \in Spots : SetSpot(w, x) \/ SetLead(w, x)
         \/ \E mode \in {"point", "line"} : SetMode(w, mode)
         \/ \E pick \in {"idle", "first", "second", "end"} : Pick(w, pick)
    \/ Editor

PnSpec == PnInit(PnKinds) /\ [][PnNext]_pnVars
-----------------------------------------------------------------------------
PnTypeOK ==
    /\ panelKind \in PnKinds /\ pnFocus \in PnWindows /\ pnEditor \in BOOLEAN
    /\ \A w \in PnWindows :
         /\ pn[w].entry \in {"none", "hidden", "shown"} /\ pn[w].eye \in {"none", "hidden", "visible"}
         /\ pn[w].state.run \in Runs /\ pn[w].state.line \in Lines
         /\ pn[w].state.spot \in Spots \cup {Middle(l) : l \in Lines}
         /\ pn[w].state.pick \in {"idle", "first", "second", "end"}
         /\ pn[w].state.lead \in Spots \cup {NoLead}
    /\ \A c \in pnCalls : c.what \in {"init", "model", "load"} /\ c.win \in PnWindows

\* Nothing the window's panel waits for is under way.
Quiescent(w) == Awaited(w, pn[w].state) = {} /\ \A c \in pnCalls : c.win = w => c.what = "load"

\* Once nothing is under way, the panel shows the section its header tells of,
\* unless the last load failed or was cancelled (loadingSeq, and the abort of
\* the load before) -- or one of the documented crossings happened.
HeaderIsSection ==
    \A w \in PnWindows : LET s == pn[w].state IN
        s.panel /\ Quiescent(w) /\ ~s.behind /\ ~s.crossed => s.section = Section(s)

\* The cache of a state gives back what belongs to the key, in the same sense.
CacheIsHonest ==
    \A w \in PnWindows : ~pn[w].state.crossed => \A e \in pn[w].state.cache : e[1] = e[2]

\* One panel of a kind is on the screen; the registry that the focus goes by
\* says so of it and of no other window.
OnePanel ==
    /\ Cardinality({w \in PnWindows : pn[w].state.shown}) <= 1
    /\ \A w \in PnWindows : pn[w].state.panel => (pn[w].entry = "shown") = pn[w].state.shown

\* A panel the operator hid is not brought back by a change of focus, and a
\* window whose layer is gone has neither a panel nor an entry.
HiddenStays ==
    \A w \in PnWindows :
        /\ pn[w].state.shown /\ ~pn[w].strayed => pn[w].eye = "visible" /\ ~pnEditor
        /\ pn[w].eye = "none" /\ ~pn[w].hollow => pn[w].entry = "none" /\ ~pn[w].state.held

\* What a click on the map is awaited for belongs to the mode of the panel.
PicksFit == \A w \in PnWindows : pn[w].state.pick # "idle" => pn[w].state.mode = "line" /\ pn[w].state.panel

ProfilesSound == HeaderIsSection /\ CacheIsHonest /\ OnePanel /\ HiddenStays /\ PicksFit

\* The claim of the code: what the cache serves for a key is the section of
\* that key.
CacheServesItsKey == \A w \in PnWindows : \A e \in pn[w].state.cache : e[1] = e[2]
=============================================================================
