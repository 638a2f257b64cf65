------------------------------ MODULE Soundings -------------------------------
(* The T-lnP sounding panel (tlogpController.js, tlogpLayer.js, its part of   *)
(* profileVisibility.js, and cleanupWindowResources of App.svelte): one panel *)
(* and one sounding for all windows, owned by the window that used it last.   *)
(* loadSounding asks nobody whether its answer is still wanted.               *)
EXTENDS Integers, FiniteSets

CONSTANTS
    SnWindows,   \* the windows
    Stations,    \* the sounding stations
    SnMaxOps     \* bound: operations

VARIABLES
    sn,          \* the controller: active, panel, shown, owner, station, sounding
    snLayer,     \* the layer of each window in the store: eye and station
    snCalls,     \* loadSounding awaited: station, window, the station to revert to
    snFocus,     \* the focused window
    snOps,
    snGhost      \* for the properties: what happened since the last quiet moment
snVars == <<sn, snLayer, snCalls, snFocus, snOps, snGhost>>

Nobody0 == "nobody"
NoStation == "no station"
ASSUME SoundingsAssumption ==
    /\ SnWindows # {} /\ Nobody0 \notin SnWindows
    /\ Stations # {} /\ NoStation \notin Stations

Default == CHOOSE s \in Stations : TRUE
NoSounding == [active |-> FALSE, panel |-> FALSE, shown |-> FALSE, closes |-> Nobody0,
               owner |-> Nobody0, station |-> Default, sounding |-> NoStation]
NoLayer == [eye |-> "none", station |-> NoStation]

SnInit ==
    /\ sn = NoSounding
    /\ snLayer = [w \in SnWindows |-> NoLayer]
    /\ snCalls = {}
    /\ snFocus = CHOOSE w \in SnWindows : TRUE
    /\ snOps = 0
    \* lapped: two loads were under way at once; failed: the last one failed;
    \* strayed: shown for a window nobody looked at; lost: the panel went with
    \* its owner while other windows had the layer, or the wrong layer was hidden
    /\ snGhost = [lapped |-> FALSE, failed |-> FALSE, strayed |-> FALSE, lost |-> FALSE]

SnOperation == snOps < SnMaxOps /\ snOps' = snOps + 1

\* show(map, win): the window becomes the owner.
ShownFor(c, w) == [c EXCEPT !.owner = w, !.shown = c.panel]
HiddenPanel(c) == [c EXCEPT !.shown = FALSE]

\* destroy: by the owner, or when there is none; for any other window only the
\* mark on its map is removed.
TornDownBy(c, w) == IF c.owner \in {w, Nobody0} THEN NoSounding ELSE c

\* loadSounding begins.
BeginLoad(station, w, prev) ==
    /\ snCalls' = snCalls \cup {[station |-> station, win |-> w, prev |-> prev]}
    /\ snGhost' = [snGhost EXCEPT !.lapped = snCalls # {}]
LostWith(c, layer) == ~c.panel /\ \E w \in SnWindows : layer[w].eye = "visible"

-----------------------------------------------------------------------------
\* loadTLogPLayer and init; a window that has the layer is cleared first.  The
\* panel's own close stays bound to the window it was made for.
OpenSounding(w, station, visible) ==
    LET c == [TornDownBy(sn, w) EXCEPT !.active = TRUE, !.owner = w, !.station = station,
                                       !.panel = TRUE, !.closes = IF TornDownBy(sn, w).panel THEN @ ELSE w]
    IN  /\ SnOperation
        /\ sn' = IF visible THEN ShownFor(c, w) ELSE HiddenPanel(c)
        /\ snLayer' = [snLayer EXCEPT ![w] = [eye |-> IF visible THEN "visible" ELSE "hidden",
                                              station |-> station]]
        /\ snCalls' = snCalls \cup {[station |-> station, win |-> w, prev |-> NoStation]}
        /\ snGhost' = [snGhost EXCEPT !.lapped = snCalls # {},
                                      !.strayed = IF visible THEN w # snFocus ELSE @,
                                      !.lost = ~visible /\ (@ \/ sn.shown)]
        /\ UNCHANGED snFocus

\* setStation of the panel, of the layer's drawer or a click on a station.
NewStation(station) == station # sn.station \/ sn.sounding = NoStation
SetStation(w, station) ==
    /\ SnOperation
    /\ sn.active
    /\ NewStation(station)
    /\ sn' = [sn EXCEPT !.station = station]
    /\ BeginLoad(station, w, sn.station)
    /\ UNCHANGED <<snLayer, snFocus>>

\* updateCycle: a time step of a window, with the station of the moment.
StepSounding(w) ==
    /\ SnOperation
    /\ sn.active /\ snLayer[w].eye # "none"
    /\ BeginLoad(sn.station, w, NoStation)
    /\ UNCHANGED <<sn, snLayer, snFocus>>

\* The sounding is there: it is shown whatever was asked for meanwhile, and
\* stored as the station of the window it was loaded for.  A failed setStation
\* reverts to the station before.
EndSounding(call, ok) ==
    /\ call \in snCalls
    /\ snCalls' = snCalls \ {call}
    /\ \/ /\ ok
          /\ sn' = [sn EXCEPT !.sounding = call.station]
          /\ snLayer' = [snLayer EXCEPT ![call.win].station =
                            IF snLayer[call.win].eye = "none" THEN NoStation ELSE call.station]
          /\ snGhost' = [snGhost EXCEPT !.failed = FALSE]
       \/ /\ ~ok
          /\ sn' = [sn EXCEPT !.station = IF call.prev = NoStation THEN @ ELSE call.prev]
          /\ snGhost' = [snGhost EXCEPT !.failed = @ \/ call.prev = NoStation \/ sn.sounding # call.prev]
          /\ UNCHANGED snLayer
    /\ UNCHANGED <<snFocus, snOps>>

\* syncProfilePanelsForWindow: show the panel for the window and load the
\* window's station if the panel has another's.
Refocused(w, c, layer) ==
    LET visible == layer[w].eye = "visible" /\ (c.active \/ c.panel)
        station == layer[w].station
        loads == visible /\ station # c.station
    IN  /\ snFocus' = w
        /\ sn' = IF ~visible THEN HiddenPanel(c)
                 ELSE [ShownFor(c, w) EXCEPT !.station = IF loads THEN station ELSE @]
        /\ snCalls' = snCalls \cup
             (IF loads THEN {[station |-> station, win |-> w, prev |-> c.station]} ELSE {})
        /\ snGhost' = [snGhost EXCEPT !.strayed = FALSE, !.lapped = IF loads THEN snCalls # {} ELSE @,
                                         !.lost = LostWith(c, layer)]

FocusSounding(w) ==
    /\ SnOperation
    /\ Refocused(w, sn, snLayer)
    /\ UNCHANGED snLayer

\* The eye of the focused window's layer: the panel is shown as it is.
EyeSounding(visible) ==
    LET w == snFocus
    IN  /\ SnOperation
        /\ snLayer[w].eye # "none"
        /\ snLayer' = [snLayer EXCEPT ![w].eye = IF visible THEN "visible" ELSE "hidden"]
        /\ sn' = IF visible THEN ShownFor(sn, w) ELSE HiddenPanel(sn)
        /\ snGhost' = [snGhost EXCEPT !.strayed = FALSE, !.lost = ~sn.panel]
        /\ UNCHANGED <<snCalls, snFocus>>

\* handlePanelClose: the layer it hides is that of the window the panel was
\* made for.
CloseSounding ==
    /\ SnOperation
    /\ sn.shown
    /\ sn' = HiddenPanel(sn)
    /\ snLayer' = [snLayer EXCEPT ![sn.closes].eye = IF @ = "none" THEN @ ELSE "hidden"]
    /\ snGhost' = [snGhost EXCEPT !.lost = @ \/ sn.closes # snFocus]
    /\ UNCHANGED <<snCalls, snFocus>>

\* removeTLogPLayer.
RemoveSounding(w) ==
    /\ SnOperation
    /\ snLayer[w].eye # "none"
    /\ sn' = TornDownBy(sn, w)
    /\ snLayer' = [snLayer EXCEPT ![w] = NoLayer]
    /\ snGhost' = [snGhost EXCEPT !.lost = @ \/ sn.owner = w]
    /\ UNCHANGED <<snCalls, snFocus>>

\* handleCloseWindow: another window that shows the layer inherits the panel,
\* and the focus moves when it was here.
CloseSoundingWindow(w, next) ==
    LET heirs == {v \in SnWindows \ {w} : snLayer[v].eye = "visible"}
        layer == [snLayer EXCEPT ![w] = NoLayer]
    IN  /\ SnOperation
        /\ w # next
        /\ snLayer' = layer
        /\ \E heir \in IF heirs = {} THEN {Nobody0} ELSE heirs :
             LET c == IF heirs = {} THEN NoSounding
                      ELSE IF sn.owner = w THEN [sn EXCEPT !.owner = heir] ELSE sn
             IN  IF w = snFocus THEN Refocused(next, c, layer)
                 ELSE sn' = c /\ next = snFocus /\ UNCHANGED <<snCalls, snFocus, snGhost>>

SnNext ==
    \/ \E call \in snCalls, ok \in BOOLEAN : EndSounding(call, ok)
    \/ \E w \in SnWindows :
         \/ \E station \in Stations : \/ \E visible \in BOOLEAN : OpenSounding(w, station, visible)
                                      \/ w = snFocus /\ SetStation(w, station)
         \/ StepSounding(w) \/ FocusSounding(w) \/ RemoveSounding(w)
         \/ \E next \in SnWindows : CloseSoundingWindow(w, next)
    \/ CloseSounding
    \/ \E visible \in BOOLEAN : EyeSounding(visible)

SnSpec == SnInit /\ [][SnNext]_snVars

-----------------------------------------------------------------------------
SnTypeOK ==
    /\ sn.owner \in SnWindows \cup {Nobody0} /\ sn.station \in Stations
    /\ sn.sounding \in Stations \cup {NoStation}
    /\ snFocus \in SnWindows
    /\ \A w \in SnWindows : snLayer[w].eye \in {"none", "hidden", "visible"}
    /\ \A call \in snCalls : call.station \in Stations /\ call.win \in SnWindows

\* At rest the sounding is that of the station the header names, unless two
\* loads were under way at once or the last one failed (the revert of
\* setStation keeps the two together when it had the panel to itself).
SoundingIsStation ==
    sn.active /\ snCalls = {} /\ ~snGhost.lapped /\ ~snGhost.failed => sn.sounding = sn.station

\* The panel on the screen is owned by the focused window, whose layer is
\* visible: closing or clearing another window does not take it away or over.
OwnerIsLookedAt ==
    sn.shown /\ ~snGhost.strayed => sn.owner = snFocus /\ snLayer[snFocus].eye = "visible"

\* Only the owner tears the panel down: while it stands, its owner is a window
\* that has the layer.
PanelHasAnOwner == sn.panel => sn.owner \in SnWindows /\ snLayer[sn.owner].eye # "none"

\* The panel of the focused window does not vanish by what other windows do.
LookedAtIsShown ==
    snLayer[snFocus].eye = "visible" /\ ~snGhost.strayed /\ ~snGhost.lost => sn.shown

SoundingsSound == LookedAtIsShown /\ SoundingIsStation /\ OwnerIsLookedAt /\ PanelHasAnOwner
=============================================================================
