----------------------------- MODULE MCWindows -----------------------------
(* TLC instance of Windows on its own; the run browser explores it beside the *)
(* other parts.                                                               *)
EXTENDS Windows, TLC

MCLayouts == [l \in {"1x1", "1x2", "2x2"} |->
                CASE l = "1x1" -> 1 [] l = "1x2" -> 2 [] l = "2x2" -> 4]

\* The presets are alike.
PresetSymmetry == Permutations(Presets)

\* The search for a counterexample leaves out pins, removals and the preview, which
\* it does not need.
Plain == /\ \A i \in DOMAIN wnTab.wins : ~wnTab.wins[i].pin
         /\ wnGone = {}
         /\ ~wnTab.preview

\* What the comment of prepareSplitWindows says of the windows that were not
\* visible before it (UnseenStays).
HiddenKept == [][UnseenStays]_wnVars
=============================================================================
