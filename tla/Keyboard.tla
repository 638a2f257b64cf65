------------------------------- MODULE Keyboard -------------------------------
(* The keyboard and the menus (App.svelte, NavBar.svelte, PresetMenu.svelte,   *)
(* CommandPalette.svelte, HelpModal.svelte): a key goes to the handlers of the *)
(* element that has the focus, from the inside out, and then to the            *)
(* application's own handler of the whole window, unless one of them stops it. *)
(* What is chosen with either hand is the preset a window is asked to load.    *)
EXTENDS Integers, Sequences, FiniteSets, SequencesExt

CONSTANTS
    KbGroups,       \* the configured presets and dividers, in order
    KbPinned,       \* the presets pinned by default
    KbMaxRecents,   \* MAX_RECENTS
    KbMatches,      \* what each text typed into the palette matches, in order; "" matches all
    KbMaxResults,   \* the matches shown
    KbMaxOps        \* keys and clicks in all

ASSUME KbAssumption == KbMaxRecents \in Nat \ {0} /\ KbMaxResults \in Nat \ {0} /\ "" \in DOMAIN KbMatches

VARIABLES
    kbMenu,      \* the menu of presets: whether it is open, the category open, the one focused, the row focused
    kbNav,       \* the application's menu and the layout menu, with the layout whose submenu is open
    kbPalette,   \* the command palette: whether it is open, the text typed, the result selected
    kbDialogs,   \* the configuration editor and the help dialog, those open
    kbFocus,     \* what has the focus, and which of its kind
    kbPrefs,     \* the pinned presets and the recent ones
    kbMap,       \* the preset last picked, the one a window was last asked to load, the level shown in the bar
    kbLast,      \* the last key, what had the focus, and what it did
    kbCount      \* keys and clicks so far
kbVars == <<kbMenu, kbNav, kbPalette, kbDialogs, kbFocus, kbPrefs, kbMap, kbLast, kbCount>>

\* F4 stands for the keys of the layout.
KbKeys == {"escape", "ctrl-k", "/", "left", "right", "up", "down", "enter", "alt-enter", "space", "tab", "home",
           "end", "f4"}
Arrows == {"left", "right", "up", "down"}
EnterKeys == {"enter", "alt-enter"}     \* the menus do not ask for the Alt key
Presses == EnterKeys \cup {"space"}

MenuClosed == [open |-> FALSE, active |-> 0, cat |-> 0, row |-> 0]
MenuOpened == [MenuClosed EXCEPT !.open = TRUE, !.cat = 1]
PaletteClosed == [open |-> FALSE, query |-> "", sel |-> 1]
PaletteOpened == [PaletteClosed EXCEPT !.open = TRUE]
NavClosed == [open |-> FALSE, layouts |-> FALSE, hover |-> "none"]
At(where, i) == [on |-> where, at |-> i]
Nowhere == At("page", 0)
SplitLayouts == {"1x2", "2x2"}

\* The items of the application's menu.
NavItems == <<"print", "screenshot", "help", "palette", "light", "dark", "brutalism", "mercator", "globe",
              "perspective", "en", "zh", "config">>

\* Presets by category, in the order the categories first occur in.
PresetsListed == SelectSeq(KbGroups, LAMBDA g : ~g.divider)
CategoryNames == FoldLeft(LAMBDA names, g : IF Contains(names, g.category) THEN names
                                            ELSE Append(names, g.category), <<>>, PresetsListed)
Categories == [c \in DOMAIN CategoryNames |-> SelectSeq(PresetsListed, LAMBDA g : g.category = CategoryNames[c])]
Ids == {PresetsListed[i].id : i \in DOMAIN PresetsListed}
PresetOf(id) == PresetsListed[CHOOSE i \in DOMAIN PresetsListed : PresetsListed[i].id = id]

KbInit ==
    /\ kbMenu = MenuClosed /\ kbNav = NavClosed /\ kbPalette = PaletteClosed /\ kbDialogs = {}
    /\ kbFocus = Nowhere
    /\ kbPrefs = [pinned |-> KbPinned, recents |-> <<>>]
    /\ kbMap = [picked |-> "none", by |-> "none", asked |-> "none", level |-> 500]
    /\ kbLast = [key |-> "none", from |-> Nowhere, lit |-> "none", nav |-> FALSE, did |-> {}]
    /\ kbCount = 0

-----------------------------------------------------------------------------
(* The menu of presets *)

InRows(m) == m.row > 0 /\ m.active > 0
Wrapped(i, n) == IF i > n THEN 1 ELSE IF i < 1 THEN n ELSE i
Delta(k) == IF k = "down" THEN 1 ELSE -1
RowsShut(m) == [m EXCEPT !.active = 0, !.row = 0]
OnCategory(m, c) == [m EXCEPT !.active = c, !.cat = c, !.row = 0]

InMenu(f) == f.on \in {"trigger", "category", "pin"}

MenuAfter(m, k) ==
    CASE ~m.open -> IF k \in Presses \cup {"down"} THEN MenuOpened ELSE m
      [] m.open /\ k = "tab" -> MenuClosed
      [] m.open /\ k = "escape" -> IF m.active > 0 THEN RowsShut(m) ELSE MenuClosed
      [] m.open /\ k # "escape" /\ InRows(m) ->
            LET n == Len(Categories[m.active])
            IN  CASE k \in {"down", "up"} -> [m EXCEPT !.row = Wrapped(m.row + Delta(k), n)]
                  [] k = "left" -> RowsShut(m)
                  [] k = "home" -> [m EXCEPT !.row = 1]
                  [] k = "end" -> [m EXCEPT !.row = n]
                  [] k \in Presses -> MenuClosed
                  [] OTHER -> m
      [] m.open /\ ~InRows(m) ->
            CASE k \in {"down", "up"} -> OnCategory(m, Wrapped(m.cat + Delta(k), Len(Categories)))
              [] k \in Presses \cup {"right"} -> [m EXCEPT !.active = m.cat, !.row = 1]
              [] k = "home" -> OnCategory(m, 1)
              [] k = "end" -> OnCategory(m, Len(Categories))
              [] OTHER -> m

\* The row whose star has the focus takes Enter and Space for itself, and the menu never hears of them.
RowTakes(f, k) == f.on = "pin" /\ k \in Presses
RowAt(m, i) == Categories[m.active][i].id
MenuPick(m, f, k) ==
    IF RowTakes(f, k) THEN RowAt(m, f.at)
    ELSE IF InMenu(f) /\ m.open /\ InRows(m) /\ k \in Presses THEN RowAt(m, m.row) ELSE "none"

\* presetFavorites
BugRemembered(recents, id) ==
    SubSeq(<<id>> \o recents, 1, IF Len(recents) < KbMaxRecents THEN Len(recents) + 1 ELSE KbMaxRecents)
Remembered(recents, id) ==
    LET others == SelectSeq(recents, LAMBDA r : r # id)
    IN  SubSeq(<<id>> \o others, 1, IF Len(others) < KbMaxRecents THEN Len(others) + 1 ELSE KbMaxRecents)
Toggled(pinned, id) ==
    IF Contains(pinned, id) THEN SelectSeq(pinned, LAMBDA p : p # id) ELSE Append(pinned, id)
RecentPills(prefs) == SelectSeq(prefs.recents, LAMBDA r : ~Contains(prefs.pinned, r) /\ r \in Ids)
PinnedPills(prefs) == SelectSeq(prefs.pinned, LAMBDA p : p \in Ids)
Pills(prefs) == PinnedPills(prefs) \o RecentPills(prefs)

\* handlePresetMenuSelect of the bar has the window asked to load; the palette calls only handlePresetSelect.
LevelShownFor(id) ==
    LET g == PresetOf(id)
    IN  IF g.level # 0 THEN g.level ELSE IF g.flat THEN 0 ELSE kbMap.level
Picked(id) == [picked |-> id, by |-> "bar", asked |-> id, level |-> LevelShownFor(id)]
PickedInPalette(id) == [kbMap EXCEPT !.picked = id, !.by = "palette", !.level = LevelShownFor(id)]

-----------------------------------------------------------------------------
(* The application's menu, the palette and the window *)

Results(query) == SubSeq(KbMatches[query], 1, IF Len(KbMatches[query]) < KbMaxResults THEN Len(KbMatches[query])
                                              ELSE KbMaxResults)
InPalette(f) == f.on \in {"query", "backdrop"}
ChosenResult(p, f, k) ==
    IF InPalette(f) /\ k \in EnterKeys /\ p.sel <= Len(Results(p.query)) THEN Results(p.query)[p.sel] ELSE "none"
PaletteAfter(p, f, k) ==
    LET n == Len(Results(p.query))
    IN  CASE InPalette(f) /\ k \in {"down", "up"} /\ n > 0 -> [p EXCEPT !.sel = Wrapped(@ + Delta(k), n)]
          [] InPalette(f) /\ ChosenResult(p, f, k) # "none" -> PaletteClosed
          [] OTHER -> p

InNav(f) == f.on \in {"navbutton", "item"}
ItemAfter(i, k) == IF k = "down" THEN (IF i < Len(NavItems) THEN i + 1 ELSE 1)
                  ELSE IF i > 1 THEN i - 1 ELSE Len(NavItems)
\* An item's key is heard by the menu and by the wrapper around it.
NavFocus(f, k) ==
    CASE k \in {"down", "up"} /\ f.on = "navbutton" -> At("item", ItemAfter(0, k))
      [] k \in {"down", "up"} /\ f.on = "item" -> At("item", ItemAfter(ItemAfter(f.at, k), k))
      [] k = "home" /\ kbNav.open -> At("item", 1)
      [] k = "end" /\ kbNav.open -> At("item", Len(NavItems))
      [] k = "escape" /\ kbNav.open -> At("navbutton", 0)
      [] OTHER -> f
NavAfter(nav, f, k) ==
    CASE InNav(f) /\ k = "escape" -> NavClosed
      [] InNav(f) /\ k \in {"down", "up"} -> [nav EXCEPT !.open = TRUE]
      [] OTHER -> nav

\* isTextInput: a checkbox is none, wherever it is; all else in the editor is.
BugIsTextInput(f) == f.on = "query"
IsTextInput(f) == f.on \in {"query", "editor"}
IsButton(f) == f.on \in {"trigger", "pin", "pill", "navbutton", "item", "layouts", "help"}
Stopped(f, k) == RowTakes(f, k) \/ (InNav(f) /\ kbNav.open /\ k = "escape")
WindowHears(f, k) == k \in {"escape", "ctrl-k"} \/ ~IsTextInput(f)
KeyDoes(f, k) ==
    CASE k \in {"ctrl-k", "/"} -> {"palette"}
      [] k \in {"left", "right"} -> {"time"}
      [] k \in {"up", "down"} -> {"level"}
      [] k = "space" -> IF IsButton(f) THEN {} ELSE {"play"}
      [] k = "alt-enter" -> {"adopt"}
      [] k = "f4" -> {"layout"}
      [] OTHER -> {}
WindowDoes(f, k) == IF Stopped(f, k) \/ ~WindowHears(f, k) THEN {} ELSE KeyDoes(f, k)

-----------------------------------------------------------------------------
(* Keys.  Enter and Space on a button of the bar are a click on it, which is an *)
(* action of its own below.                                                     *)

May == kbCount < KbMaxOps /\ kbCount' = kbCount + 1
NativeClick(f, k) == f.on \in {"pill", "navbutton", "item", "layouts", "help"} /\ k \in {"enter", "space"}
Lit == IF InRows(kbMenu) THEN RowAt(kbMenu, kbMenu.row) ELSE "none"
Did(k, things) == kbLast' = [key |-> k, from |-> kbFocus, lit |-> Lit, nav |-> kbNav.open, did |-> things]

EscapeKey ==
    LET f == kbFocus
        heard == ~Stopped(f, "escape")
        dialogs == IF heard THEN {} ELSE kbDialogs
        palette == IF heard \/ InPalette(f) THEN PaletteClosed ELSE kbPalette
    IN  /\ May
        /\ kbMenu' = IF InMenu(f) /\ kbMenu.open THEN MenuAfter(kbMenu, "escape") ELSE kbMenu
        /\ kbNav' = NavAfter(kbNav, f, "escape")
        /\ kbDialogs' = dialogs /\ kbPalette' = palette
        /\ kbFocus' = IF InNav(f) THEN NavFocus(f, "escape")
                      ELSE IF InMenu(f) /\ kbMenu.open
                      THEN (IF kbMenu.active = 0 THEN At("trigger", 0) ELSE IF f.on = "pin" THEN Nowhere ELSE f)
                      ELSE IF f.on \in {"query", "backdrop", "editor", "checkbox", "help"} THEN Nowhere ELSE f
        /\ Did("escape", {"closed"})
        /\ UNCHANGED <<kbPrefs, kbMap>>

PaletteKey ==
    \E k \in {"ctrl-k", "/"} :
        LET f == kbFocus
        IN  /\ May
            /\ IF "palette" \in WindowDoes(f, k)
               THEN /\ kbPalette' = (IF kbPalette.open THEN PaletteClosed ELSE PaletteOpened)
                    /\ kbFocus' = (IF ~kbPalette.open THEN At("query", 0) ELSE IF InPalette(f) THEN Nowhere ELSE f)
               ELSE UNCHANGED <<kbPalette, kbFocus>>
            /\ Did(k, WindowDoes(f, k))
            /\ UNCHANGED <<kbMenu, kbNav, kbDialogs, kbPrefs, kbMap>>

\* The focus after a key the preset menu hears: what is no longer shown cannot keep it.
MenuFocus(f, k, m) ==
    IF m.open THEN (IF f.on = "pin" /\ m.active # kbMenu.active THEN Nowhere ELSE f)
    ELSE IF k = "tab" THEN (IF Pills(kbPrefs) # <<>> THEN At("pill", 1) ELSE Nowhere) ELSE Nowhere

MenuKey ==
    \E k \in Arrows \cup Presses \cup {"tab", "home", "end"} :
        LET f == kbFocus
            pick == MenuPick(kbMenu, f, k)
            m == IF RowTakes(f, k) THEN MenuClosed ELSE MenuAfter(kbMenu, k)
        IN  /\ May /\ InMenu(f) /\ (kbMenu.open \/ k \in Presses \cup {"down"})
            /\ kbMenu' = m
            /\ kbFocus' = MenuFocus(f, k, m)
            /\ IF pick = "none" THEN UNCHANGED <<kbPrefs, kbMap>>
               ELSE /\ kbMap' = Picked(pick)
                    /\ kbPrefs' = [kbPrefs EXCEPT !.recents = Remembered(@, pick)]
            /\ Did(k, {"menu"} \cup WindowDoes(f, k))
            /\ UNCHANGED <<kbNav, kbPalette, kbDialogs>>

\* executeItem: the palette's own action for help sets a flag nobody reads, and that for the editor turns it over.
EditorTurned(dialogs) == IF "config" \in dialogs THEN dialogs \ {"config"} ELSE dialogs \cup {"config"}
Execute(item) ==
    /\ kbDialogs' = IF item = "config" THEN EditorTurned(kbDialogs) ELSE kbDialogs
    /\ kbFocus' = IF item = "config" /\ "config" \notin kbDialogs THEN At("editor", 0) ELSE Nowhere
    /\ kbMap' = IF item \in Ids THEN PickedInPalette(item) ELSE kbMap

PaletteKeys ==
    \E k \in {"up", "down"} \cup EnterKeys :
        LET f == kbFocus
            item == ChosenResult(kbPalette, f, k)
        IN  /\ May /\ InPalette(f)
            /\ kbPalette' = PaletteAfter(kbPalette, f, k)
            /\ IF item = "none" THEN UNCHANGED <<kbMap, kbDialogs, kbFocus>> ELSE Execute(item)
            /\ Did(k, {"palette"} \cup WindowDoes(f, k))
            /\ UNCHANGED <<kbMenu, kbNav, kbPrefs>>

NavKey ==
    \E k \in {"up", "down", "home", "end"} :
        /\ May /\ InNav(kbFocus) /\ (kbNav.open \/ k \in {"up", "down"})
        /\ kbNav' = NavAfter(kbNav, kbFocus, k)
        /\ kbFocus' = NavFocus(kbFocus, k)
        /\ Did(k, {"nav"} \cup WindowDoes(kbFocus, k))
        /\ UNCHANGED <<kbMenu, kbPalette, kbDialogs, kbPrefs, kbMap>>

\* Keys no menu hears: the window's, those of a text being typed, and Tab, which stays within the help dialog.
OtherKey ==
    \E k \in KbKeys \ {"escape", "ctrl-k", "/"} :
        LET f == kbFocus
        IN  /\ May /\ ~NativeClick(f, k)
            /\ ~(InMenu(f) /\ (kbMenu.open \/ k \in Presses \cup {"down"}))
            /\ ~(InPalette(f) /\ k \in {"up", "down"} \cup EnterKeys)
            /\ ~(InNav(f) /\ k \in {"up", "down"}) /\ ~(InNav(f) /\ kbNav.open /\ k \in {"home", "end"})
            /\ k \notin {"tab", "home", "end"}
            /\ Did(k, WindowDoes(f, k))
            /\ UNCHANGED <<kbMenu, kbNav, kbPalette, kbDialogs, kbFocus, kbPrefs, kbMap>>

-----------------------------------------------------------------------------
(* The pointer.  A press anywhere shuts the menus it is not within; the palette *)
(* and the help dialog cover all the rest.                                      *)

Uncovered == ~kbPalette.open /\ "help" \notin kbDialogs
Quiet == [kbLast EXCEPT !.key = "pointer", !.from = Nowhere, !.lit = "none", !.nav = FALSE, !.did = {}]
Press(where) ==
    /\ May
    /\ kbLast' = Quiet
    /\ where # "menu" => kbMenu' = MenuClosed
NavPressed(where) == [open |-> where = "nav" /\ kbNav.open, layouts |-> where = "layouts" /\ kbNav.layouts,
                      hover |-> IF where = "layouts" THEN kbNav.hover ELSE "none"]

ClickTrigger ==
    /\ Uncovered /\ Press("menu")
    /\ kbMenu' = IF kbMenu.open THEN MenuClosed ELSE MenuOpened
    /\ kbNav' = NavPressed("menu")
    /\ kbFocus' = At("trigger", 0)
    /\ UNCHANGED <<kbPalette, kbDialogs, kbPrefs, kbMap>>

\* The pointer over a category opens it; a click shuts it again, or opens it at its first row.
EnterCategory ==
    \E c \in DOMAIN Categories :
        /\ Uncovered /\ kbMenu.open /\ May /\ kbLast' = Quiet
        /\ kbMenu' = OnCategory(kbMenu, c)
        /\ kbFocus' = IF kbFocus.on = "pin" /\ kbFocus.at > Len(Categories[c]) THEN Nowhere ELSE kbFocus
        /\ UNCHANGED <<kbNav, kbPalette, kbDialogs, kbPrefs, kbMap>>
ClickCategory ==
    \E c \in DOMAIN Categories :
        /\ Uncovered /\ kbMenu.open /\ Press("menu") /\ kbNav' = NavPressed("menu")
        /\ kbMenu' = IF kbMenu.active = c THEN RowsShut(kbMenu) ELSE [OnCategory(kbMenu, c) EXCEPT !.row = 1]
        /\ kbFocus' = At("category", c)
        /\ UNCHANGED <<kbPalette, kbDialogs, kbPrefs, kbMap>>
EnterRow ==
    \E r \in 1..Len(PresetsListed) :
        /\ Uncovered /\ kbMenu.active > 0 /\ r <= Len(Categories[kbMenu.active]) /\ May /\ kbLast' = Quiet
        /\ kbMenu' = [kbMenu EXCEPT !.row = r]
        /\ UNCHANGED <<kbNav, kbPalette, kbDialogs, kbFocus, kbPrefs, kbMap>>
ClickRow ==
    /\ Uncovered /\ InRows(kbMenu) /\ Press("menu") /\ kbNav' = NavPressed("menu")
    /\ LET id == RowAt(kbMenu, kbMenu.row)
       IN  kbMap' = Picked(id) /\ kbPrefs' = [kbPrefs EXCEPT !.recents = Remembered(@, id)]
    /\ kbMenu' = MenuClosed /\ kbFocus' = Nowhere
    /\ UNCHANGED <<kbPalette, kbDialogs>>
ClickStar ==
    /\ Uncovered /\ InRows(kbMenu) /\ Press("menu") /\ kbNav' = NavPressed("menu")
    /\ kbPrefs' = [kbPrefs EXCEPT !.pinned = Toggled(@, RowAt(kbMenu, kbMenu.row))]
    /\ kbFocus' = At("pin", kbMenu.row)
    /\ UNCHANGED <<kbMenu, kbPalette, kbDialogs, kbMap>>
\* handleDropdownScroll, the open category scrolled out of sight.
ScrollAway ==
    /\ Uncovered /\ kbMenu.active > 0 /\ May /\ kbLast' = Quiet
    /\ kbMenu' = RowsShut(kbMenu)
    /\ kbFocus' = IF kbFocus.on = "pin" THEN Nowhere ELSE kbFocus
    /\ UNCHANGED <<kbNav, kbPalette, kbDialogs, kbPrefs, kbMap>>

\* The buttons of the bar, clicked or pressed with the key that is a click.
ClickPill ==
    \E i \in DOMAIN Pills(kbPrefs) :
        /\ Uncovered /\ Press("pills") /\ kbNav' = NavPressed("pills")
        /\ kbMap' = Picked(Pills(kbPrefs)[i])
        /\ kbFocus' = At("pill", i)
        /\ UNCHANGED <<kbPalette, kbDialogs, kbPrefs>>
ClickNav ==
    /\ Uncovered /\ Press("nav")
    /\ kbNav' = [NavPressed("nav") EXCEPT !.open = ~kbNav.open]
    /\ kbFocus' = At("navbutton", 0)
    /\ UNCHANGED <<kbPalette, kbDialogs, kbPrefs, kbMap>>
ClickItem ==
    \E i \in DOMAIN NavItems :
        LET item == NavItems[i]
            opens == item \in {"help", "config"} /\ item \notin kbDialogs
        IN  /\ Uncovered /\ kbNav.open /\ Press("nav") /\ kbNav' = NavClosed
            /\ kbDialogs' = CASE item = "help" -> kbDialogs \cup {"help"}
                              [] item = "config" -> EditorTurned(kbDialogs)
                              [] OTHER -> kbDialogs
            /\ kbPalette' = IF item = "palette" THEN PaletteOpened ELSE kbPalette
            /\ kbFocus' = CASE item = "palette" -> At("query", 0)
                            [] opens -> At(IF item = "help" THEN "help" ELSE "editor", 0)
                            [] OTHER -> Nowhere
            /\ UNCHANGED <<kbPrefs, kbMap>>
ClickLayouts ==
    /\ Uncovered /\ Press("layouts")
    /\ kbNav' = [NavPressed("layouts") EXCEPT !.layouts = ~kbNav.layouts, !.hover = "none"]
    /\ kbFocus' = At("layouts", 0)
    /\ UNCHANGED <<kbPalette, kbDialogs, kbPrefs, kbMap>>
HoverLayout ==
    \E l \in SplitLayouts \cup {"none"} :
        /\ Uncovered /\ kbNav.layouts /\ May /\ kbLast' = Quiet
        /\ kbNav' = [kbNav EXCEPT !.hover = l]
        /\ UNCHANGED <<kbMenu, kbPalette, kbDialogs, kbFocus, kbPrefs, kbMap>>
\* A split whose submenu is open, or one of its submenu, or the single view.
ChooseLayout ==
    /\ Uncovered /\ kbNav.layouts /\ Press("layouts") /\ kbNav' = NavClosed /\ kbFocus' = Nowhere
    /\ UNCHANGED <<kbPalette, kbDialogs, kbPrefs, kbMap>>

\* The palette under the pointer: a result, the text, the frame around them, or what is behind it.
TypeQuery ==
    \E q \in DOMAIN KbMatches :
        /\ kbPalette.open /\ May /\ kbLast' = Quiet
        /\ kbPalette' = [PaletteOpened EXCEPT !.query = q] /\ kbFocus' = At("query", 0)
        /\ UNCHANGED <<kbMenu, kbNav, kbDialogs, kbPrefs, kbMap>>
HoverResult ==
    \E i \in DOMAIN Results(kbPalette.query) :
        /\ kbPalette.open /\ May /\ kbLast' = Quiet
        /\ kbPalette' = [kbPalette EXCEPT !.sel = i]
        /\ UNCHANGED <<kbMenu, kbNav, kbDialogs, kbFocus, kbPrefs, kbMap>>
ClickResult ==
    /\ kbPalette.open /\ kbPalette.sel <= Len(Results(kbPalette.query)) /\ Press("palette")
    /\ kbPalette' = PaletteClosed /\ Execute(Results(kbPalette.query)[kbPalette.sel])
    /\ kbNav' = NavPressed("palette")
    /\ UNCHANGED kbPrefs
ClickFrame ==
    /\ kbPalette.open /\ Press("palette") /\ kbNav' = NavPressed("palette")
    /\ \/ kbPalette' = PaletteClosed /\ kbFocus' = Nowhere
       \/ kbPalette' = kbPalette /\ kbFocus' = At("backdrop", 0)
    /\ UNCHANGED <<kbDialogs, kbPrefs, kbMap>>

\* The page under the bar, or a field or a checkbox of the editor that covers it; the help dialog's close button.
ClickPage ==
    /\ Uncovered /\ Press("page") /\ kbNav' = NavPressed("page")
    /\ \E where \in (IF "config" \in kbDialogs THEN {"editor", "checkbox"} ELSE {"page"}) : kbFocus' = At(where, 0)
    /\ UNCHANGED <<kbPalette, kbDialogs, kbPrefs, kbMap>>
CloseHelp ==
    /\ ~kbPalette.open /\ "help" \in kbDialogs /\ Press("help") /\ kbNav' = NavPressed("help")
    /\ kbDialogs' = kbDialogs \ {"help"} /\ kbFocus' = Nowhere
    /\ UNCHANGED <<kbPalette, kbPrefs, kbMap>>
\* TabsBar: the editor's tab closes it.
CloseEditorTab ==
    /\ Uncovered /\ "config" \in kbDialogs /\ Press("tabs") /\ kbNav' = NavPressed("tabs")
    /\ kbDialogs' = kbDialogs \ {"config"} /\ kbFocus' = Nowhere
    /\ UNCHANGED <<kbPalette, kbPrefs, kbMap>>

KbNext ==
    \/ EscapeKey \/ PaletteKey \/ MenuKey \/ PaletteKeys \/ NavKey \/ OtherKey
    \/ ClickTrigger \/ EnterCategory \/ ClickCategory \/ EnterRow \/ ClickRow \/ ClickStar \/ ScrollAway
    \/ ClickPill \/ ClickNav \/ ClickItem \/ ClickLayouts \/ HoverLayout \/ ChooseLayout
    \/ TypeQuery \/ HoverResult \/ ClickResult \/ ClickFrame \/ ClickPage \/ CloseHelp \/ CloseEditorTab

-----------------------------------------------------------------------------
(* Properties *)

KbTypeOK ==
    /\ kbMenu.cat \in 0..Len(Categories) /\ kbFocus.at \in 0..Len(NavItems) /\ kbDialogs \subseteq {"config", "help"}
    /\ \A i \in DOMAIN kbPrefs.recents : kbPrefs.recents[i] \in Ids
    /\ kbCount \in 0..KbMaxOps

\* One thing of the menu is highlighted while it is open, a category or a row of the category whose rows are shown,
\* and nothing when it is shut; the submenu of a layout is open only under the layout menu.
MenuShowsOne ==
    /\ kbMenu.open <=> kbMenu.cat > 0
    /\ kbMenu.active \in {0, kbMenu.cat}
    /\ kbMenu.row > 0 => kbMenu.active > 0 /\ kbMenu.row <= Len(Categories[kbMenu.active])
    /\ kbNav.hover # "none" => kbNav.layouts

\* Enter and Space pick the row that is highlighted, unless a star has the focus: its own row is picked then, though
\* the arrows moved the highlight on, and the star is not turned.
HighlightedIsPicked ==
    kbLast.key \in Presses /\ kbLast.lit # "none" /\ kbLast.from.on \in {"trigger", "category"} =>
        kbMap.picked = kbLast.lit /\ Head(kbPrefs.recents) = kbLast.lit

\* What is picked is what a window is asked to load, and the bar shows its level, except for what is picked in the
\* palette: the bar takes on the preset's level and nothing is loaded (App.svelte:2567).
PickedIsLoaded == kbMap.by # "palette" => kbMap.asked = kbMap.picked

\* The selected result is one of those shown.
SelectionShown == kbPalette.sel \in 1..(1 + Len(Results(kbPalette.query))) /\
    (Results(kbPalette.query) # <<>> => kbPalette.sel <= Len(Results(kbPalette.query)))

\* Recent presets are distinct and no more than there is room for, and no preset has two pills.
PillsSound ==
    /\ IsInjective(kbPrefs.recents) /\ Len(kbPrefs.recents) <= KbMaxRecents
    /\ IsInjective(Pills(kbPrefs))
    /\ kbPrefs.recents # <<>> => Head(kbPrefs.recents) \in ToSet(Pills(kbPrefs))

\* A key does one thing.  Those that do two: the arrows while a menu has the focus, and the palette without its text
\* field, move in them and step the map too (App.svelte asks for no defaultPrevented); Space on a category of the
\* menu also starts or stops the animation, and Alt+Enter on the menu also adopts the window.
OneThingAKey ==
    \/ Cardinality(kbLast.did) <= 1
    \/ /\ InMenu(kbLast.from)
       /\ kbLast.key \in Arrows \cup {"alt-enter"} \/ (kbLast.key = "space" /\ kbLast.from.on = "category")
    \/ InNav(kbLast.from) /\ kbLast.key \in {"up", "down"}
    \/ kbLast.from.on = "backdrop" /\ kbLast.key \in {"up", "down", "alt-enter"}

\* Keys typed into a field leave the map, its animation and the layout alone.  A checkbox of the editor is no field.
FieldsKeepTheirKeys == kbLast.from.on \in {"query", "editor"} => kbLast.did \subseteq {"palette", "closed"}

\* Escape leaves no dialog open, except from within the open menu of the application, which takes it for itself.
EscapeClosesDialogs ==
    kbLast.key = "escape" =>
        (~kbPalette.open /\ kbDialogs = {}) \/ (InNav(kbLast.from) /\ kbLast.nav)

\* The arrows reach every item of the application's menu, though an item's key is heard twice and moves by two.
ItemsReached ==
    LET walk[n \in 0..(2 * Len(NavItems))] ==
            IF n = 0 THEN ItemAfter(0, "down") ELSE ItemAfter(ItemAfter(walk[n - 1], "down"), "down")
    IN  {walk[n] : n \in DOMAIN walk} = DOMAIN NavItems

\* What the keyboard and the menus owe the operator.
KeyboardSound ==
    /\ MenuShowsOne /\ HighlightedIsPicked /\ PickedIsLoaded /\ SelectionShown /\ PillsSound
    /\ OneThingAKey /\ FieldsKeepTheirKeys /\ EscapeClosesDialogs /\ ItemsReached
=============================================================================
