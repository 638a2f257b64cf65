---------------------------- MODULE BrowserProofs ---------------------------
(***************************************************************************)
(* What the proofs about the browser's components say of the browser as    *)
(* the runs check it: a behaviour is one of the part it starts with, and   *)
(* the invariant of that part holds of it.                                 *)
(***************************************************************************)
EXTENDS MCBrowser, ViewProofs, TimelineProofs, ConfigProofs

PartsInv ==
    /\ part = "loads" => LInv /\ SweepInv
    /\ part = "cache" => ACInv
    /\ part = "prefetch" => PInv
    /\ part = "cameras" => KInv
    /\ part = "profiles" => NInv
    /\ part = "soundings" => SInv
    /\ part = "windows" => WnInv
    /\ part = "timeline" => TInv
    /\ part = "observed" => ObInv
    /\ part = "editor" => CeInv

LEMMA PartsInvInit == BrowserInit => PartsInv
<1> SUFFICES ASSUME BrowserInit PROVE PartsInv
  OBVIOUS
<1>1. part = "loads" => LdInit
  BY DEF BrowserInit
<1>2. part = "cache" => AcInit
  BY DEF BrowserInit
<1>3. part = "prefetch" => PfInit
  BY DEF BrowserInit
<1>4. part = "cameras" => CmInit
  BY DEF BrowserInit
<1>5. part = "profiles" => PnInit(PnKinds)
  BY DEF BrowserInit
<1>6. part = "soundings" => SnInit
  BY DEF BrowserInit
<1>7. part = "windows" => WnInit
  BY DEF BrowserInit
<1>8. part = "timeline" => TlInit
  BY DEF BrowserInit
<1>9. part = "observed" => ObInit
  BY DEF BrowserInit
<1>10. part = "editor" => CeInit
  BY DEF BrowserInit
<1> QED BY <1>1, <1>2, <1>3, <1>4, <1>5, <1>6, <1>7, <1>8, <1>9, <1>10, LInvInit, SweepInit, ACInvInit, PInvInit,
        KInvInit, NInvInit, SInvInit, WnInvInit, TInvInit, ObInvInit, CeInvInit DEF PartsInv

LEMMA PartStays == [BrowserNext]_browserVars => part' = part
  BY DEF BrowserNext, browserVars

LEMMA PartsInvStep == PartsInv /\ [BrowserNext]_browserVars => PartsInv'
<1> SUFFICES ASSUME PartsInv, [BrowserNext]_browserVars PROVE PartsInv'
  OBVIOUS
<1>1. part' = part
  BY PartStays
<1>2. ASSUME part = "loads" PROVE LInv' /\ SweepInv'
  <2>1. [LdNext]_ldVars
    BY <1>2 DEF BrowserNext, browserVars
  <2> QED BY <1>2, <2>1, LInvStep, SweepStep DEF PartsInv
<1>3. ASSUME part = "cache" PROVE ACInv'
  <2>1. [AcNext]_acVars
    BY <1>3 DEF BrowserNext, browserVars
  <2> QED BY <1>3, <2>1, ACInvStep DEF PartsInv
<1>4. ASSUME part = "prefetch" PROVE PInv'
  <2>1. [PfNext]_pfVars
    BY <1>4 DEF BrowserNext, browserVars
  <2> QED BY <1>4, <2>1, PInvStep DEF PartsInv
<1>5. ASSUME part = "cameras" PROVE KInv'
  <2>1. [CmNext]_cmVars
    BY <1>5 DEF BrowserNext, browserVars
  <2> QED BY <1>5, <2>1, KInvStep DEF PartsInv
<1>6. ASSUME part = "profiles" PROVE NInv'
  <2>1. [PnNext]_pnVars
    BY <1>6 DEF BrowserNext, browserVars
  <2> QED BY <1>6, <2>1, NInvStep DEF PartsInv
<1>7. ASSUME part = "soundings" PROVE SInv'
  <2>1. [SnNext]_snVars
    BY <1>7 DEF BrowserNext, browserVars
  <2> QED BY <1>7, <2>1, SInvStep DEF PartsInv
<1>8. ASSUME part = "windows" PROVE WnInv'
  <2>1. [WnNext]_wnVars
    BY <1>8 DEF BrowserNext, browserVars
  <2> QED BY <1>8, <2>1, WnInvStep DEF PartsInv
<1>9. ASSUME part = "timeline" PROVE TInv'
  <2>1. [TlNext]_tlVars
    BY <1>9 DEF BrowserNext, browserVars
  <2> QED BY <1>9, <2>1, TInvStep DEF PartsInv
<1>10. ASSUME part = "observed" PROVE ObInv'
  <2>1. [ObNext]_obVars
    BY <1>10 DEF BrowserNext, browserVars
  <2> QED BY <1>10, <2>1, ObInvStep DEF PartsInv
<1>11. ASSUME part = "editor" PROVE CeInv'
  <2>1. [CeNext]_ceVars
    BY <1>11 DEF BrowserNext, browserVars
  <2> QED BY <1>11, <2>1, CeInvStep DEF PartsInv
<1> QED BY <1>1, <1>2, <1>3, <1>4, <1>5, <1>6, <1>7, <1>8, <1>9, <1>10, <1>11 DEF PartsInv

(* The inductive invariant of the part a behaviour starts with holds of it *)
(* throughout: the windows (tabsCore.js) and their loads (App.svelte,      *)
(* presetLoader.js), their cameras, panels and sliders, the files a window *)
(* of observations is given, the cache of the data (apiClient.js), the     *)
(* prefetch service and the configuration editor.                          *)
THEOREM PartsInvHolds == BrowserSpec => []PartsInv
  BY PartsInvInit, PartsInvStep, PTL DEF BrowserSpec

(* At rest every window shows what it is set to, and the windows of a      *)
(* split keep step (handleTimeChange, stepVerticalLevel, loadPresetGroup   *)
(* with their loadSeq and _sweepGen).                                      *)
THEOREM LoadsAreSound == BrowserSpec => []LoadsSound
<1>1. PartsInv => LoadsSound
  <2> SUFFICES ASSUME LInv, SweepInv PROVE IntentShown /\ SweepsCover
    BY DEF PartsInv, LoadsSound
  <2> QED BY IntentFollows, CoverFollows
<1> QED BY <1>1, PartsInvHolds, PTL

(* A field handed to the map is the one asked for and fresh, and a window  *)
(* at rest has the neighbours of what it shows warmed (fetchBinary,        *)
(* getCachedEntry; prefetchService.scheduleForecastPrefetch).              *)
THEOREM FetchesAreSound == BrowserSpec => []FetchesSound
<1>1. PartsInv => FetchesSound
  BY SettledFollows, CacheFollows DEF PartsInv, FetchesSound
<1> QED BY <1>1, PartsInvHolds, PTL

(* A window keeps an id of its own and its entries as long as it is there, *)
(* and the maps of a split show the same view (tabsCore.js; App.svelte,    *)
(* cleanupWindowResources; windowMaps.js, syncingTabs).                    *)
THEOREM TabsAreSound == BrowserSpec => []TabsSound
<1>1. PartsInv => TabsSound
  BY WindowsFollow, CamerasSoundFollows DEF PartsInv, TabsSound
<1> QED BY <1>1, PartsInvHolds, PTL

(* The chip that is highlighted is the one asked for, one interval fires   *)
(* while the slider plays (TimeSlider.svelte, emitTimeChange, start), and  *)
(* the map of a window of observations shows the file of its time, one     *)
(* there is, but for what the operator did that keeps them apart           *)
(* (presetLoader.js, syncObservationTimeline).                             *)
THEOREM TimelineIsSound == BrowserSpec => []TimelineSound
<1>1. PartsInv => TimelineSound
  <2>1. TInv => AskedIsShown /\ OneTicker
    BY DEF TInv
  <2>2. ObInv => ObservationsSound
    BY DEF ObInv
  <2> QED BY <2>1, <2>2 DEF PartsInv, TimelineSound
<1> QED BY <1>1, PartsInvHolds, PTL

(* A panel shows the section or the sounding its header tells of, and one  *)
(* panel of a kind is on the screen, that of the window looked at          *)
(* (profilesCore.js, tlogpController.js, profileVisibility.js).            *)
THEOREM PanelsAreSound == BrowserSpec => []PanelsSound
<1>1. PartsInv => PanelsSound
  <2>1. SInv => SoundingsSound
    BY DEF SInv
  <2> QED BY <2>1, PanelsFollow DEF PartsInv, PanelsSound
<1> QED BY <1>1, PartsInvHolds, PTL

(* No edit of the configuration is lost, and what is saved is what runs    *)
(* and what the server holds, but for the orders that are named            *)
(* (ConfigEditor.svelte, formState.js, presets.js).                        *)
THEOREM EditorOfBrowserIsSound == BrowserSpec => []EditorSound
<1>1. PartsInv => EditorSound
  BY EditorFollows DEF PartsInv, EditorSound
<1> QED BY <1>1, PartsInvHolds, PTL

(* No tick of the playback stays where it is or leaves the loop, and no    *)
(* change of the windows takes or changes one that is not part of it       *)
(* (stepWindowTimeline; tabsCore.js, prepareSplitWindows and its like).    *)
THEOREM StepsAreSound == BrowserSpec => StepsSound
<1>1. PartsInv /\ [BrowserNext]_browserVars =>
         [/\ part = "timeline" => TicksMoveOn
          /\ part = "windows" => BusyStays]_browserVars
  <2> SUFFICES ASSUME PartsInv, BrowserNext
               PROVE  /\ part = "timeline" => TicksMoveOn
                      /\ part = "windows" => BusyStays
    OBVIOUS
  <2>1. ASSUME part = "timeline" PROVE TicksMoveOn
    BY <2>1, TickKept DEF PartsInv, TicksMoveOn
  <2>2. ASSUME part = "windows" PROVE BusyStays
    <3>1. [WnNext]_wnVars
      BY <2>2 DEF BrowserNext
    <3> QED BY <2>2, <3>1, BusyKept DEF PartsInv
  <2> QED BY <2>1, <2>2
<1> QED BY <1>1, PartsInvHolds, PTL DEF BrowserSpec, StepsSound
=============================================================================
