------------------------------- MODULE Offers -------------------------------
(* Which contrasts the browser offers for the product of the focused window,  *)
(* which it takes, and what choosing another product leaves of one; and how   *)
(* the navigation bar and the title tell the product's level                  *)
(* (NavBar.svelte, TabsBar.svelte, App.svelte, lib/services/appWorkflow.js,   *)
(* ui/tabs/windowTitles.js).  The rule stands in the source four times.       *)
(*                                                                            *)
(* Pure functions, tried on the kinds of product the configuration ships.  A  *)
(* name is the set of the fragments the code looks for in it.                 *)
EXTENDS Colours

CONSTANTS
    Products,   \* by name: id, names, category, isObservation, hasLevel, defaultLevel, levels, layers, unit
    Locales     \* the languages names are shown in

Contrasts == {"none", "time", "step", "level", "model"}
Unlevelled == 0

-----------------------------------------------------------------------------
(* What a product is, by its preset *)

ProfileKinds == {"timeheight", "lineheight", "hovmoller", "tlogp"}

\* shouldHideTimelineForGroup
ShouldHideTimelineForGroup(group) ==
    \/ group.id \cap {"composite-ec-timeheight", "composite-ec-hovmoller"} # {}
    \/ \E l \in group.layers : l.type \in {"timeheight", "hovmoller"}

\* isProfilePanelGroup
IsProfilePanelGroup(group) ==
    \/ group.id \cap ProfileKinds # {}
    \/ \E l \in group.layers : l.type \in ProfileKinds \cup {"timeline"} \/ "TLOGP" \in l.words

\* isSurfaceGroup; a shipped preset never has a model of its own
IsSurfaceGroup(group) ==
    \/ group.category = "Surface Observations"
    \/ \E l \in group.layers : l.model = "SURFACE" \/ l.words \cap {"^surface-obs", "^contour-surface-"} # {}

\* isUpperAirGroup
IsUpperAirGroup(group) ==
    \/ group.category = "Upper-Air Observations" \/ "^composite-upperair" \in group.id
    \/ \E l \in group.layers : l.model = "UPPER_AIR" \/ l.words \cap {"^upperair-", "^contour-sounding-"} # {}

\* isSatelliteGroup; FY stands for any of the ways to write the satellites' names
IsSatelliteGroup(group) ==
    \/ "FY" \in group.id \cup group.names["en"] \/ group.category = "Satellite"
    \/ \E l \in group.layers : l.model = "SATELLITE" \/ l.type = "image" \/ "FY" \in l.words

-----------------------------------------------------------------------------
(* What a window is: its preset first, its title last *)

\* applyPresetToWindow, computeFullWindowTitle: a window that has just taken a preset, in the language the page is
\* in; its title names the preset, and the level shown where the preset's own name tells one.
WindowWith(group, locale) ==
    [activeGroup |-> group, isObservation |-> group.isObservation, title |-> group.names[locale],
     level |-> IF group.hasLevel THEN group.defaultLevel ELSE Unlevelled]
LevelInTitle(win) ==
    IF "hPa" \notin win.title THEN Unlevelled
    ELSE IF win.activeGroup.hasLevel /\ win.level # Unlevelled THEN win.level
    ELSE win.activeGroup.nameLevel

\* isProfilePanelWindow, isSatelliteWindow, isRadarWindow; no window has a list of layers of its own
IsProfilePanelWindow(win) == IsProfilePanelGroup(win.activeGroup)
IsSatelliteWindow(win) == IsSatelliteGroup(win.activeGroup) \/ win.title \cap {"Satellite", "FY"} # {}
IsRadarWindow(win) == win.activeGroup.id \cap {"radar", "swan"} # {} \/ win.title \cap {"Radar", "SWAN"} # {}

\* isSurfaceWindow
IsSurfaceWindow(win) ==
    /\ ~IsSatelliteWindow(win) /\ ~IsRadarWindow(win)
    /\ \/ IsSurfaceGroup(win.activeGroup)
       \/ win.isObservation /\ ~win.activeGroup.hasLevel
       \/ "Surface" \in win.title

\* isUpperAirWindow
IsUpperAirWindow(win) ==
    /\ ~IsSatelliteWindow(win) /\ ~IsRadarWindow(win)
    /\ \/ IsUpperAirGroup(win.activeGroup)
       \/ win.isObservation /\ (win.activeGroup.hasLevel \/ win.level # Unlevelled)
       \/ "Upper" \in win.title

-----------------------------------------------------------------------------
(* The layout menu of the navigation bar *)

NavIsNwpData(win) == ~win.activeGroup.isObservation /\ ~win.isObservation
NavIsSurface(win) == "surface" \in win.activeGroup.id
NavIsUpperAir(win) == win.activeGroup.id \cap {"upper", "tlogp"} # {}
NavIsObs(win) ==
    ~NavIsNwpData(win) /\ (NavIsSurface(win) \/ NavIsUpperAir(win) \/ win.isObservation)
ObsById(group) == group.id \cap {"swan", "radar", "sat-"} # {}
\* The menu goes by the name of the product alone.
BugNavDisabled(win) ==
    IF NavIsSurface(win) \/ NavIsUpperAir(win) \/ ObsById(win.activeGroup) THEN {"step", "model"} ELSE {}
NavDisabled(win) ==
    (IF NavIsObs(win) \/ NavIsSurface(win) \/ NavIsUpperAir(win) \/ win.isObservation \/ ObsById(win.activeGroup)
     THEN {"step", "model"} ELSE {})
    \cup (IF NavIsSurface(win) \/ ~win.activeGroup.hasLevel THEN {"level"} ELSE {})
NavOffers(win) == Contrasts \ NavDisabled(win)

-----------------------------------------------------------------------------
(* The contrast box of the tab bar, before the map is split *)

BarHasNoLevel(win) == IsSurfaceWindow(win) \/ ~win.activeGroup.hasLevel
BarIsObsOrNonNwp(win) ==
    IsSurfaceWindow(win) \/ IsUpperAirWindow(win) \/ win.isObservation \/ ObsById(win.activeGroup)
BarEnables(win) ==
    IF IsProfilePanelWindow(win) THEN {}
    ELSE Contrasts \ ((IF IsSurfaceWindow(win) \/ IsUpperAirWindow(win) THEN {"step", "model"} ELSE {})
                      \cup (IF IsSurfaceWindow(win) THEN {"level"} ELSE {}))
\* The box's own guard, before it tells the application.
BarPasses(win) ==
    Contrasts \ ((IF BarHasNoLevel(win) THEN {"level"} ELSE {})
                 \cup (IF BarIsObsOrNonNwp(win) THEN {"step", "model"} ELSE {})
                 \cup (IF IsSurfaceWindow(win) THEN {"step", "level", "model"} ELSE {}))
\* What the box shows of the contrast the tab has.
EffectiveAlloc(win, mode) ==
    IF IsProfilePanelWindow(win) \/ mode \notin BarPasses(win) THEN "none" ELSE mode

-----------------------------------------------------------------------------
(* The application: handleSelectAutoAlloc, handleChangeLayout, applyAutoAllocationModeToTab, ... *)

Taken(win, mode) ==
    IF \/ IsProfilePanelWindow(win)
       \/ IsSurfaceWindow(win) /\ mode \in {"step", "level", "model"}
       \/ IsUpperAirWindow(win) /\ mode \in {"step", "model"}
    THEN "none" ELSE mode

\* handlePresetSelect: the contrast that stands once another product is chosen ...
PresetIsObs(group) == group.isObservation \/ ObsById(group)
\* Only stations are taken for observations.
BugKeptByChoice(group, mode) ==
    IF \/ IsProfilePanelGroup(group)
       \/ mode = "level" /\ (IsSurfaceGroup(group) \/ ~group.hasLevel)
       \/ mode \in {"step", "model"} /\ (IsSurfaceGroup(group) \/ IsUpperAirGroup(group))
    THEN "none" ELSE mode
KeptByChoice(group, mode) ==
    IF \/ IsProfilePanelGroup(group)
       \/ mode = "level" /\ (IsSurfaceGroup(group) \/ ~group.hasLevel)
       \/ mode \in {"step", "model"} /\ (PresetIsObs(group) \/ IsSurfaceGroup(group) \/ IsUpperAirGroup(group))
    THEN "none" ELSE mode
\* ... and handleLoadData, once it is loaded.
KeptByLoad(group, mode) ==
    IF \/ IsProfilePanelGroup(group)
       \/ IsSurfaceGroup(group) /\ mode \in {"step", "level", "model"}
       \/ IsUpperAirGroup(group) /\ mode \in {"step", "model"}
    THEN "none" ELSE mode

-----------------------------------------------------------------------------
(* The level in the navigation bar *)

ActiveLevels(group) == IF group.levels # {} THEN group.levels ELSE {1000, 850, 500, 200}
IsFY4B(group) == "fy4" \in group.id \/ group.levels = 1..15
IsMeterHeight(group) == "tdmosaic" \in group.id \/ \E l \in group.levels : l > 1050
\* formatLevelText, levelLabel
LevelUnit(group) ==
    IF IsFY4B(group) THEN "channel" ELSE IF IsMeterHeight(group) THEN "metres" ELSE "hPa"
\* Heights are told in whole kilometres.
BugLevelText(group, level) ==
    IF LevelUnit(group) = "metres" /\ level >= 1000 THEN <<"km", level \div 1000>> ELSE <<LevelUnit(group), level>>
\* What is told of a level: a channel's number, kilometres (in tenths) from a thousand metres on, or the number itself.
LevelText(group, level) ==
    CASE LevelUnit(group) = "channel" -> IF level \in 1..15 THEN <<"channel", level>> ELSE <<"bare", level>>
      [] LevelUnit(group) = "metres" -> IF level >= 1000 THEN <<"km", (level + 50) \div 100>> ELSE <<"m", level>>
      [] OTHER -> <<"hPa", level>>
ShowLevelSelector(group) == group.hasLevel

-----------------------------------------------------------------------------
(* The cases *)

OfInit == \E p \in DOMAIN Products, l \in Locales, m \in Contrasts :
    case = [kind |-> "offer", product |-> p, locale |-> l, mode |-> m]

OfCase == case # NoCase /\ case.kind = "offer"
Group == Products[case.product]
Window == WindowWith(Group, case.locale)
Titled(win) == win.title \cap {"Surface", "Upper", "Satellite", "Radar", "SWAN"} # {}

\* What the layout menu offers is what the split then gets (NavBar 223-280 and App 685-692 decide apart): except for
\* the products with a panel of their own, which the menu offers contrasts the application takes back, and a forecast
\* whose title, in the language shown, holds a word the application takes for an observation.
MenuOffersHold ==
    OfCase /\ case.mode \in NavOffers(Window) =>
        \/ Taken(Window, case.mode) = case.mode
        \/ IsProfilePanelGroup(Group)
        \/ ~Group.isObservation /\ Titled(Window)

\* What the tab bar's box lets through the application takes, whatever the product (TabsBar 461-466, App 1131-1147).
BarOffersHold ==
    OfCase /\ case.mode \in BarEnables(Window) \cap BarPasses(Window) => Taken(Window, case.mode) = case.mode

\* An option the box shows as one that can be chosen does something (TabsBar 469-473): except the levels of a product
\* without any, and step and model of an observation neither of the surface nor of the upper air.
EnabledOptionsAct ==
    OfCase /\ case.mode \in BarEnables(Window) \ BarPasses(Window) =>
        \/ case.mode = "level" /\ ~Group.hasLevel
        \/ case.mode \in {"step", "model"} /\ (Group.isObservation \/ ObsById(Group))

\* A contrast that outlives the choice and the load of another product is one the tab bar shows for it (App 1947-1968,
\* 1282-1292, TabsBar 77-86): the windows of a split are never set apart by one the bar calls "none".
KeptContrastShown ==
    OfCase =>
        LET kept == KeptByLoad(Group, KeptByChoice(Group, case.mode))
        IN  EffectiveAlloc(Window, kept) = kept \/ (~Group.isObservation /\ Titled(Window))

\* What can be contrasted does not depend on the language the page is shown in (appWorkflow 136, 151): except for the
\* products whose name in one of them holds a word for an observation.
AnyLanguage ==
    OfCase => \A l \in Locales :
        \/ Taken(WindowWith(Group, l), case.mode) = Taken(Window, case.mode)
        \/ ~Group.isObservation /\ (Titled(WindowWith(Group, l)) \/ Titled(Window))

\* The navigation bar tells a level in the unit of the product's data, and tells the levels of a product apart
\* (NavBar 137-173); the level a title tells is the level shown (windowTitles 24-26).
LevelsTold ==
    OfCase =>
        /\ Group.hasLevel => LevelUnit(Group) = Group.unit
        /\ \A a, b \in ActiveLevels(Group) : LevelText(Group, a) = LevelText(Group, b) => a = b
        /\ LevelInTitle(Window) # Unlevelled /\ Group.hasLevel => LevelInTitle(Window) = Window.level

OffersSound ==
    MenuOffersHold /\ BarOffersHold /\ EnabledOptionsAct /\ KeptContrastShown /\ AnyLanguage /\ LevelsTold
=============================================================================
