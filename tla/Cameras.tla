------------------------------- MODULE Cameras --------------------------------
(* The cameras of the maps (ui/tabs/windowMaps.js, actions/mapViewport.js and *)
(* the callers in App.svelte): in a split tab with sync on, the other visible *)
(* maps follow the one that moves.  Every map tells of its moves, and of the  *)
(* jumps it is made to do as well.                                            *)
(*                                                                            *)
(* Which windows are visible and which is active is Windows' affair; here     *)
(* they change at will, as its operations may change them.                    *)
EXTENDS Integers, FiniteSets

CONSTANTS
    Maps,       \* the windows, every one with a map, hidden or not
    Positions,  \* the positions of a map
    CmMaxMoves, \* bound: moves of a map by the operator
    CmMaxViews  \* bound: changes of what is visible

ASSUME CamerasAssumption == IsFiniteSet(Maps) /\ Maps # {} /\ Positions # {}

VARIABLES
    cmSplit,   \* tab.layout # "1x1"
    cmSync,    \* tab.syncMap
    cmShown,   \* getVisibleWindows
    cmActive,  \* the active window
    cmAt,      \* where the map of a window is
    cmDark,    \* maps whose style has not loaded
    cmFrames,  \* maps that have an animation frame requested
    cmAlign,   \* syncTabCameras is due after a change of the layout
    cmMissed,  \* a visible map was passed over, or came into view unaligned
    cmMoves, cmRuns, cmViews \* moves, frames and changes of the view so far
cmVars == <<cmSplit, cmSync, cmShown, cmActive, cmAt, cmDark, cmFrames, cmAlign, cmMissed,
            cmMoves, cmRuns, cmViews>>

\* A new split: one map has its style, the others are being mounted.
CmInit ==
    /\ cmSplit = TRUE /\ cmSync = TRUE
    /\ cmActive = CHOOSE m \in Maps : TRUE
    /\ cmShown = Maps
    /\ cmAt = [m \in Maps |-> CHOOSE p \in Positions : TRUE]
    /\ cmDark = Maps \ {cmActive}
    /\ cmFrames = {} /\ cmAlign = TRUE /\ cmMissed = FALSE
    /\ cmMoves = 0 /\ cmRuns = 0 /\ cmViews = 0

Following == cmSync /\ cmSplit

\* onMove of a map: it requests a frame, one at a time.
Requested(frames, m) == IF Following /\ m \in cmShown THEN frames \cup {m} ELSE frames

\* Mutant: a map that is made to jump asks for a frame of its own.
BugEchoed(frames, m) == frames \cup (cmShown \ {m})

\* The other visible maps jump to where m is; `busy` ones are not isStyleLoaded
\* at the moment.  The tab is in syncingTabs for as long: their moves request
\* nothing.
JumpTo(m, busy) == [o \in Maps |-> IF o \in cmShown \ (cmDark \cup busy) THEN cmAt[m] ELSE cmAt[o]]
Echoed(frames, m) == frames

-----------------------------------------------------------------------------
\* The operator moves a visible map.
MoveMap(m, p) ==
    /\ cmMoves < CmMaxMoves
    /\ m \in cmShown \ cmDark
    /\ cmAt[m] # p
    /\ cmMoves' = cmMoves + 1
    /\ cmAt' = [cmAt EXCEPT ![m] = p]
    /\ cmFrames' = Requested(cmFrames, m)
    /\ cmMissed' = (cmMissed \/ ~Following)
    /\ UNCHANGED <<cmSplit, cmSync, cmShown, cmActive, cmDark, cmAlign, cmRuns, cmViews>>

\* The frame runs, whether the map is still visible or not.
Frame(m) ==
    /\ m \in cmFrames
    /\ cmRuns' = cmRuns + 1
    /\ cmFrames' = Echoed(cmFrames \ {m}, m)
    /\ \/ /\ Following
          /\ \E busy \in {{}} \cup {{o} : o \in cmShown \ (cmDark \cup {m})} :
               /\ cmAt' = JumpTo(m, busy)
               /\ cmMissed' = (cmMissed \/ busy # {} \/ m \notin cmShown)
       \/ ~Following /\ UNCHANGED <<cmAt, cmMissed>>
    /\ UNCHANGED <<cmSplit, cmSync, cmShown, cmActive, cmDark, cmAlign, cmMoves, cmViews>>

\* syncTabCameras, a moment after a change of the layout.
Align ==
    /\ cmAlign
    /\ cmAlign' = FALSE
    /\ cmAt' = IF Following THEN JumpTo(cmActive, {}) ELSE cmAt
    /\ cmMissed' = ~Following
    /\ UNCHANGED <<cmSplit, cmSync, cmShown, cmActive, cmDark, cmFrames, cmMoves, cmRuns, cmViews>>

\* handleToggleSync: switched on, the maps align at once.
ToggleSync ==
    /\ cmViews < CmMaxViews
    /\ cmViews' = cmViews + 1
    /\ cmSync' = ~cmSync
    /\ cmAt' = IF cmSync' /\ cmSplit THEN JumpTo(cmActive, {}) ELSE cmAt
    /\ cmMissed' = (cmMissed /\ ~(cmSync' /\ cmSplit))
    /\ UNCHANGED <<cmSplit, cmShown, cmActive, cmDark, cmFrames, cmAlign, cmMoves, cmRuns>>

\* The style of a map is there: alignToActive; its jump is a move like any.
\* The map of the active window aligns with nobody.
StyleLoaded(m) ==
    LET follows == Following /\ m # cmActive
    IN  /\ m \in cmDark
        /\ cmDark' = cmDark \ {m}
        /\ cmAt' = IF follows THEN [cmAt EXCEPT ![m] = cmAt[cmActive]] ELSE cmAt
        /\ cmFrames' = IF follows THEN Requested(cmFrames, m) ELSE cmFrames
        /\ cmMissed' = (cmMissed \/ (Following /\ (~follows \/ cmActive \in cmDark)))
        /\ UNCHANGED <<cmSplit, cmSync, cmShown, cmActive, cmAlign, cmMoves, cmRuns, cmViews>>

\* handleWindowFocus: another window is active; one that was hidden comes in
\* front without an alignment.
Focus(m, shown) ==
    /\ cmViews < CmMaxViews
    /\ cmViews' = cmViews + 1
    /\ m # cmActive
    /\ cmActive' = m
    /\ cmShown' = shown
    /\ m \in shown
    /\ ~cmSplit => shown = {m}
    /\ m \in cmShown => shown = cmShown
    /\ cmMissed' = (cmMissed \/ ~(shown \subseteq cmShown))
    /\ UNCHANGED <<cmSplit, cmSync, cmAt, cmDark, cmFrames, cmAlign, cmMoves, cmRuns>>

\* handleChangeLayout, toggleTabsAndSplit and handleCollapseContrastGroup: a
\* split or the end of a preview aligns afterwards when sync is on.
ChangeView(split, shown) ==
    /\ cmViews < CmMaxViews
    /\ cmViews' = cmViews + 1
    /\ cmActive \in shown
    /\ ~split => shown = {cmActive}
    /\ <<split, shown>> # <<cmSplit, cmShown>>
    /\ cmSplit' = split
    /\ cmShown' = shown
    /\ LET aligns == split /\ cmSync
       IN  /\ cmAlign' = (cmAlign \/ aligns)
           /\ cmMissed' = (cmMissed \/ ~(shown \subseteq cmShown))
    /\ UNCHANGED <<cmSync, cmActive, cmAt, cmDark, cmFrames, cmMoves, cmRuns>>

CmNext ==
    \/ \E m \in Maps, p \in Positions : MoveMap(m, p)
    \/ \E m \in Maps : Frame(m) \/ StyleLoaded(m)
    \/ Align \/ ToggleSync
    \/ \E shown \in SUBSET Maps : \/ \E m \in Maps : Focus(m, shown)
                                  \/ \E split \in BOOLEAN : ChangeView(split, shown)

CmSpec == CmInit /\ [][CmNext]_cmVars

-----------------------------------------------------------------------------
CmTypeOK ==
    /\ cmSplit \in BOOLEAN /\ cmSync \in BOOLEAN /\ cmAlign \in BOOLEAN /\ cmMissed \in BOOLEAN
    /\ cmActive \in cmShown /\ cmShown \subseteq Maps
    /\ cmAt \in [Maps -> Positions]
    /\ cmDark \cup cmFrames \subseteq Maps

\* A map that follows does not make the others follow it in turn
\* (syncingTabs): a move, or a map that is mounted, is one frame.
NoPingPong == cmRuns + Cardinality(cmFrames) <= cmMoves + Cardinality(Maps)

\* When the frames and the alignments have run, the visible maps of a split
\* show the same place, unless one was passed over (its style was loading) or
\* came into view without an alignment.
CamerasAgree ==
    (Following /\ cmFrames = {} /\ ~cmAlign /\ ~cmMissed /\ cmShown \cap cmDark = {})
        => \A m, o \in cmShown : cmAt[m] = cmAt[o]

CamerasSound == NoPingPong /\ CamerasAgree

=============================================================================
