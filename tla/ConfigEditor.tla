---------------------------- MODULE ConfigEditor -----------------------------
(* The configuration editor (ConfigEditor.svelte, formState.js, presets.js,   *)
(* JSONFallbackForm.svelte): a draft that is edited, saved and thrown away,   *)
(* the configuration the program runs with, and the one the server holds.     *)
(* Saving makes the draft itself the running configuration; the layer panel   *)
(* writes into the running configuration and saves it 400 ms later; a saved   *)
(* draft is loaded again from the server.                                     *)
EXTENDS Integers, Sequences, FiniteSets, SequencesExt

CONSTANTS
    CeMaxEdits,    \* edits of the draft
    CeMaxChanges,  \* changes by the layer panel
    CeMaxOps       \* clicks of the operator that are no edits

\* The counts are counts.
ASSUME ConfigEditorAssumption == CeMaxEdits \in Nat /\ CeMaxChanges \in Nat /\ CeMaxOps \in Nat

VARIABLES
    ce,          \* the editor and the running configuration
    ceServer,    \* what the server holds
    ceSaves,     \* the saves under way
    ceLoads,     \* the loads under way: what each has read, or Unread
    ceTimer,     \* whether an automatic save is due
    ceCount,     \* the edits, the changes and the clicks so far
    ceOdd        \* what has crossed what
ceVars == <<ce, ceServer, ceSaves, ceLoads, ceTimer, ceCount, ceOdd>>

\* A configuration: the edits its colormaps and the rest of it hold, and the
\* changes of the layer panel; edits and changes are numbered as they are made.
Configs == [maps : SUBSET (1..CeMaxEdits), form : SUBSET (1..CeMaxEdits),
            auto : SUBSET (1..CeMaxChanges)]
Pristine == [maps |-> {}, form |-> {}, auto |-> {}]
Unread == [maps |-> {}, form |-> {}, auto |-> {0}]

\* Objects: a draft that is cloned is a new object, a draft that is saved is not.
Objects == 1..5
InUse(e, saves) == {e.draft, e.live} \cup {saves[i].obj : i \in DOMAIN saves}
Fresh(e, saves) == CHOOSE o \in Objects : o \notin InUse(e, saves)

\* An object nobody holds is forgotten.
Swept(e, saves) ==
    [e EXCEPT !.heap = [o \in Objects |-> IF o \in InUse(e, saves) THEN e.heap[o] ELSE Pristine]]

Draft(e) == e.heap[e.draft]
Live(e) == e.heap[e.live]
NoText == [at |-> "closed", cfg |-> Pristine]

CeInit ==
    /\ ce = [open |-> FALSE, text |-> NoText, draft |-> 1, live |-> 2,
             heap |-> [o \in Objects |-> Pristine], saved |-> Pristine, dirty |-> FALSE]
    /\ ceServer = Pristine
    /\ ceSaves = <<>>
    /\ ceLoads = <<>>
    /\ ceTimer = FALSE
    /\ ceCount = [edits |-> 0, autos |-> 0, ops |-> 0]
    /\ ceOdd = {}

\* What every call of the draft's listeners ends in (updateStatus); a JSON form
\* whose text parses follows the draft.
Notified(e) ==
    [e EXCEPT !.dirty = Draft(e) # e.saved,
              !.text = IF @.at = "valid" THEN [@ EXCEPT !.cfg = Draft(e)] ELSE @]

\* setDraft: an object of its own becomes the draft.
Drafted(e, saves, cfg) ==
    LET o == Fresh(e, saves)
    IN  Notified([e EXCEPT !.draft = o, !.heap[o] = cfg])

\* reset: the draft is a clone, and counts as saved.
Reset(e, saves, cfg) == Drafted([e EXCEPT !.saved = cfg], saves, cfg)

\* syncToDraft: the text is the draft if it parses.
TextTaken(e, saves) == IF e.text.at = "valid" THEN Drafted(e, saves, e.text.cfg) ELSE e

\* A listener that forgets to look at the draft's edits.
BugFollowed(e, saves) == Reset(e, saves, Live(e))

\* onConfigLoaded: a draft without unsaved edits follows the configuration.
Followed(e, saves) == IF e.dirty THEN e ELSE Reset(e, saves, Live(e))

Click == /\ ceCount.ops < CeMaxOps
         /\ ceCount' = [ceCount EXCEPT !.ops = @ + 1]

FormSaves == {i \in DOMAIN ceSaves : ceSaves[i].who = "form"}

-----------------------------------------------------------------------------
(* The editor *)

\* Opening takes the running configuration unless there are unsaved edits.
OpenEditor ==
    /\ Click
    /\ ~ce.open
    /\ ce' = Swept(Followed([ce EXCEPT !.open = TRUE], ceSaves), ceSaves)
    /\ UNCHANGED <<ceServer, ceSaves, ceLoads, ceTimer, ceOdd>>

\* The form goes, a JSON form with a last sync of its text. The close button
\* asks whether to discard unsaved edits, Escape and a click on a tab do not;
\* either way the draft is left as it is.
CloseEditor(button) ==
    /\ Click
    /\ ce.open
    /\ ce' = Swept([TextTaken(ce, ceSaves) EXCEPT !.open = FALSE, !.text = NoText], ceSaves)
    /\ ceOdd' = ceOdd \cup (IF button /\ ce.dirty THEN {"discarded"} ELSE {})
    /\ UNCHANGED <<ceServer, ceSaves, ceLoads, ceTimer>>

\* A JSON form that opens with what was saved.
BugSelectSubtab ==
    /\ Click
    /\ ce.open
    /\ ce' = Swept(IF ce.text.at = "closed" THEN [ce EXCEPT !.text = [at |-> "valid", cfg |-> ce.saved]]
                   ELSE Notified([TextTaken(ce, ceSaves) EXCEPT !.text = NoText]), ceSaves)
    /\ UNCHANGED <<ceServer, ceSaves, ceLoads, ceTimer, ceOdd>>

\* selectSubtab: to the JSON form, which shows the draft, or away from it.
SelectSubtab ==
    /\ Click
    /\ ce.open
    /\ ce' = Swept(IF ce.text.at = "closed"
                   THEN Notified([ce EXCEPT !.text = [at |-> "valid", cfg |-> Draft(ce)]])
                   ELSE Notified([TextTaken(ce, ceSaves) EXCEPT !.text = NoText]), ceSaves)
    /\ UNCHANGED <<ceServer, ceSaves, ceLoads, ceTimer, ceOdd>>

\* An edit while a draft is being saved, or of a draft that is running.
Astray(e) ==
    (IF FormSaves # {} THEN {"slipped"} ELSE {})
    \cup (IF e.draft = e.live THEN {"leaked"} ELSE {})

NextEdit == ceCount.edits + 1
CountEdit == /\ ceCount.edits < CeMaxEdits
             /\ ceCount' = [ceCount EXCEPT !.edits = @ + 1]

\* updateDraft: a form writes into the draft.
EditForm(half) ==
    /\ CountEdit
    /\ ce.open /\ ce.text.at = "closed"
    /\ ce' = Notified([ce EXCEPT !.heap[ce.draft][half] = @ \cup {NextEdit}])
    /\ ceOdd' = ceOdd \cup Astray(ce)
    /\ UNCHANGED <<ceServer, ceSaves, ceLoads, ceTimer>>

\* handleInput: what is typed is the draft from the moment it parses.
TypeText(parses) ==
    /\ CountEdit
    /\ ce.open /\ ce.text.at # "closed"
    /\ LET typed == [ce.text.cfg EXCEPT !.form = @ \cup {NextEdit}]
       IN  IF parses
           THEN /\ ce' = Swept(TextTaken([ce EXCEPT !.text = [at |-> "valid", cfg |-> typed]],
                                         ceSaves), ceSaves)
                /\ ceOdd' = ceOdd \cup (Astray(ce) \ {"leaked"})
           ELSE /\ ce' = [ce EXCEPT !.text = [at |-> "broken", cfg |-> typed]]
                /\ ceOdd' = ceOdd \cup {"broken"}
    /\ UNCHANGED <<ceServer, ceSaves, ceLoads, ceTimer>>

\* handleReload: the running configuration again, whatever the draft held.
ReloadDraft ==
    /\ Click
    /\ ce.open
    /\ ce' = Swept(Reset(ce, ceSaves, Live(ce)), ceSaves)
    /\ ceOdd' = ceOdd \cup (IF Draft(ce) # Live(ce) THEN {"discarded"} ELSE {})
    /\ UNCHANGED <<ceServer, ceSaves, ceLoads, ceTimer>>

-----------------------------------------------------------------------------
(* Saving *)

\* A save begins: the colormaps are sent, read from the object now.
SaveBegun(who, obj) == Append(ceSaves, [who |-> who, obj |-> obj, step |-> "maps", stored |-> FALSE,
                                    body |-> ce.heap[obj]])
Overlap == IF ceSaves # <<>> \/ ceLoads # <<>> THEN {"overlap"} ELSE {}

\* handleSaveApply with a valid draft.
SaveApply ==
    /\ Click
    /\ ce.open
    /\ Len(ceSaves) < 2
    /\ ceSaves' = SaveBegun("form", ce.draft)
    /\ ceOdd' = ceOdd \cup Overlap
                \cup (IF Draft(ce).auto # Live(ce).auto THEN {"outdated"} ELSE {})
    /\ UNCHANGED <<ce, ceServer, ceLoads, ceTimer>>

\* autoSaveLayerConfig: the layer panel writes into the running configuration.
PanelChange ==
    /\ ceCount.autos < CeMaxChanges
    /\ ceCount' = [ceCount EXCEPT !.autos = @ + 1]
    /\ ce' = [ce EXCEPT !.heap[ce.live].auto = @ \cup {ceCount.autos + 1}]
    /\ ceTimer' = TRUE
    /\ ceOdd' = ceOdd \cup (IF FormSaves # {} \/ ceLoads # <<>> THEN {"dropped"} ELSE {})
    /\ UNCHANGED <<ceServer, ceSaves, ceLoads>>

\* Its timer: the configuration that runs then is saved.
AutoSave ==
    /\ ceTimer
    /\ Len(ceSaves) < 2
    /\ ceTimer' = FALSE
    /\ ceSaves' = SaveBegun("panel", ce.live)
    /\ ceOdd' = ceOdd \cup Overlap
    /\ UNCHANGED <<ce, ceServer, ceLoads, ceCount>>

\* The server stores what it was sent.
ServerStores(i) ==
    /\ ~ceSaves[i].stored
    /\ ceSaves' = [ceSaves EXCEPT ![i].stored = TRUE]
    /\ ceServer' = LET b == ceSaves[i].body
                   IN  IF ceSaves[i].step = "maps" THEN [ceServer EXCEPT !.maps = b.maps]
                       ELSE [b EXCEPT !.maps = ceServer.maps]
    /\ UNCHANGED <<ce, ceLoads, ceTimer, ceCount, ceOdd>>

\* The colormaps are stored: the rest is sent, read from the object now.
SendRest(i) ==
    /\ ceSaves[i].step = "maps" /\ ceSaves[i].stored
    /\ ceSaves' = [ceSaves EXCEPT ![i].step = "rest", ![i].stored = FALSE,
                                  ![i].body = ce.heap[ceSaves[i].obj]]
    /\ UNCHANGED <<ce, ceServer, ceLoads, ceTimer, ceCount, ceOdd>>

\* markSaved: the draft, as it is now, counts as saved.
MarkSaved(e) == Notified([e EXCEPT !.saved = Draft(e)])

\* The object becomes the running configuration, and the listeners hear of it;
\* the editor marks its draft and has the configuration loaded again.
SaveDone(i) ==
    /\ ceSaves[i].step = "rest" /\ ceSaves[i].stored
    /\ LET s == ceSaves[i]
           heard == Followed([ce EXCEPT !.live = s.obj], ceSaves)
           rest == RemoveAt(ceSaves, i)
       IN  /\ ceSaves' = rest
           /\ ce' = Swept(IF s.who = "form" THEN MarkSaved(heard) ELSE heard, rest)
           /\ ceLoads' = IF s.who = "form" THEN Append(ceLoads, Unread) ELSE ceLoads
    /\ UNCHANGED <<ceServer, ceTimer, ceCount, ceOdd>>

\* A request that fails ends the save where it is.
SaveFails(i) ==
    /\ ceSaves' = RemoveAt(ceSaves, i)
    /\ ce' = Swept(ce, RemoveAt(ceSaves, i))
    /\ ceOdd' = ceOdd \cup {"failed"}
    /\ UNCHANGED <<ceServer, ceLoads, ceTimer, ceCount>>

-----------------------------------------------------------------------------
(* Loading *)

\* loadPresetGroups: the server is read, and the answer becomes what runs.
LoadReads(i) ==
    /\ ceLoads[i] = Unread
    /\ ceLoads' = [ceLoads EXCEPT ![i] = ceServer]
    /\ UNCHANGED <<ce, ceServer, ceSaves, ceTimer, ceCount, ceOdd>>

LoadDone(i) ==
    /\ ceLoads[i] # Unread
    /\ LET o == Fresh(ce, ceSaves)
           e == [ce EXCEPT !.live = o, !.heap[o] = ceLoads[i]]
       IN  ce' = Swept(Followed(e, ceSaves), ceSaves)
    /\ ceLoads' = RemoveAt(ceLoads, i)
    /\ ceOdd' = ceOdd \cup (IF ceTimer THEN {"dropped"} ELSE {})
    /\ UNCHANGED <<ceServer, ceSaves, ceTimer, ceCount>>

LoadFails(i) ==
    /\ ceLoads' = RemoveAt(ceLoads, i)
    /\ ceOdd' = ceOdd \cup {"failed"}
    /\ UNCHANGED <<ce, ceServer, ceSaves, ceTimer, ceCount>>

CeNext ==
    \/ OpenEditor \/ SelectSubtab \/ ReloadDraft \/ SaveApply
    \/ \E half \in {"maps", "form"} : EditForm(half)
    \/ \E yes \in BOOLEAN : TypeText(yes) \/ CloseEditor(yes)
    \/ PanelChange \/ AutoSave
    \/ \E i \in DOMAIN ceSaves : ServerStores(i) \/ SendRest(i) \/ SaveDone(i) \/ SaveFails(i)
    \/ \E i \in DOMAIN ceLoads : LoadReads(i) \/ LoadDone(i) \/ LoadFails(i)

CeSpec == CeInit /\ [][CeNext]_ceVars

-----------------------------------------------------------------------------
CeTypeOK ==
    /\ ce \in [open : BOOLEAN, text : [at : {"closed", "valid", "broken"}, cfg : Configs],
               draft : Objects, live : Objects, heap : [Objects -> Configs], saved : Configs,
               dirty : BOOLEAN]
    /\ ceServer \in Configs
    /\ Len(ceSaves) <= 2
    /\ \A i \in DOMAIN ceSaves : ceSaves[i].obj \in Objects /\ ceSaves[i].body \in Configs
    /\ ce.text.at # "closed" => ce.open
    /\ ceOdd \subseteq {"slipped", "leaked", "overlap", "outdated", "dropped", "failed",
                  "discarded", "broken"}

CeAtRest == ceSaves = <<>> /\ ceLoads = <<>> /\ ~ceTimer

\* An editor that says "saved" has its draft on the server once all is at rest
\* (handleSaveApply, markSaved, onConfigLoaded), unless an edit slipped in
\* between sending a draft and marking it saved or ran before it was saved,
\* saves overlapped, or a request failed.
SavedIsStored ==
    CeAtRest /\ ~ce.dirty /\ ceOdd \cap {"slipped", "leaked", "overlap", "failed"} = {} =>
        Draft(ce).maps = ceServer.maps /\ Draft(ce).form = ceServer.form

\* The program runs with what the server holds once all is at rest, unless a
\* draft ran before it was saved, saves overlapped, or a request failed.
RunningIsStored ==
    CeAtRest /\ ceOdd \cap {"leaked", "overlap", "failed"} = {} => Live(ce) = ceServer

\* What the layer panel changed stays changed: no save of the editor puts an
\* older draft over it, unless the draft was opened before or a load crossed it.
PanelChangesKept ==
    CeAtRest /\ ceOdd \cap {"outdated", "dropped", "overlap", "failed"} = {} =>
        ceServer.auto = 1..ceCount.autos

\* No edit is lost but by the operator's own word (reload, or the close button's
\* "Discard and close editor?"): every edit that was made is in the draft,
\* whatever is saved, loaded, closed by Escape or fails meanwhile, but for an
\* edit that slipped in between sending a draft and marking it saved, that ran
\* before it was saved, that does not parse, or of saves that overlap.
EditsKept ==
    ceOdd \cap {"discarded", "broken", "slipped", "leaked", "overlap"} = {} =>
        Draft(ce).maps \cup Draft(ce).form = 1..ceCount.edits

ConfigEditorSound == SavedIsStored /\ RunningIsStored /\ PanelChangesKept /\ EditsKept
=============================================================================
