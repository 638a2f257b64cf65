---------------------------- MODULE ConfigProofs ----------------------------
(***************************************************************************)
(* Proofs about the configuration editor, for any number of edits, changes *)
(* of the layer panel and clicks.                                          *)
(*                                                                         *)
(* The editor's draft, what runs, what is being saved and what the server  *)
(* holds are copies that overtake each other.  CeInv says which of them    *)
(* agree as long as nothing has crossed: each of its parts drops the       *)
(* orders (ceOdd) after which it would not hold.                           *)
(***************************************************************************)
EXTENDS ConfigEditor, TLAPS

-----------------------------------------------------------------------------
(* The configuration editor: types *)

\* The editor, a save under way and the saves of a state.
EditorType == [open : BOOLEAN, text : [at : {"closed", "valid", "broken"}, cfg : Configs],
               draft : Objects, live : Objects, heap : [Objects -> Configs], saved : Configs,
               dirty : BOOLEAN]
SaveType == [who : {"form", "panel"}, obj : Objects, step : {"maps", "rest"}, stored : BOOLEAN,
             body : Configs]
SavesType == {s \in Seq(SaveType) : Len(s) <= 2}

\* The types of a state, in full.
CeTyped ==
    /\ ce \in EditorType
    /\ ce.text.at # "closed" => ce.open
    /\ ceServer \in Configs
    /\ ceSaves \in SavesType
    /\ ceLoads \in Seq(Configs \cup {Unread})
    /\ ceTimer \in BOOLEAN
    /\ ceCount \in [edits : 0 .. CeMaxEdits, autos : 0 .. CeMaxChanges, ops : Nat]
    /\ ceOdd \subseteq {"slipped", "leaked", "overlap", "outdated", "dropped", "failed",
                  "discarded", "broken"}

\* What a load has not read yet is no configuration.
LEMMA ConfigTypes ==
    /\ Pristine \in Configs
    /\ Unread \notin Configs
    /\ \A c \in Configs : c.auto \subseteq 1 .. CeMaxChanges
BY ConfigEditorAssumption DEF Configs, Pristine, Unread

\* What is numbered next comes after what was numbered.
LEMMA NumberedNext == ASSUME NEW n \in Nat PROVE (1 .. n) \cup {n + 1} = 1 .. (n + 1)
OBVIOUS

\* The second of two sequences begins where the first ends.
LEMMA JoinedAt ==
    ASSUME NEW S, NEW p \in Seq(S), NEW q \in Seq(S), NEW j \in Len(p) + 1 .. Len(p) + Len(q)
    PROVE  (p \o q)[j] = q[j - Len(p)]
OBVIOUS

\* A sequence without one of its members: those behind it move up.
LEMMA RemoveAtIs ==
    ASSUME NEW S, NEW s \in Seq(S), NEW i \in DOMAIN s
    PROVE  /\ RemoveAt(s, i) \in Seq(S)
           /\ Len(RemoveAt(s, i)) = Len(s) - 1
           /\ DOMAIN RemoveAt(s, i) = 1 .. Len(s) - 1
           /\ \A j \in 1 .. Len(s) - 1 : RemoveAt(s, i)[j] = IF j < i THEN s[j] ELSE s[j + 1]
           /\ Len(s) = 1 => RemoveAt(s, i) = <<>>
<1> DEFINE p == SubSeq(s, 1, i - 1)
           q == SubSeq(s, i + 1, Len(s))
<1>1. i \in 1 .. Len(s) /\ Len(s) \in Nat /\ \A j \in 1 .. Len(s) : s[j] \in S
  OBVIOUS
<1>2. p \in Seq(S) /\ Len(p) = i - 1 /\ \A j \in 1 .. i - 1 : p[j] = s[j]
  BY <1>1
<1>3. q \in Seq(S) /\ Len(q) = Len(s) - i /\ \A j \in 1 .. Len(s) - i : q[j] = s[i + j]
  BY <1>1
<1>4. RemoveAt(s, i) = p \o q
  BY DEF RemoveAt
<1> HIDE DEF p, q
<1>5. p \o q \in Seq(S) /\ Len(p \o q) = Len(s) - 1
  BY <1>1, <1>2, <1>3
<1>6. \A j \in 1 .. Len(s) - 1 : (p \o q)[j] = IF j < i THEN s[j] ELSE s[j + 1]
  <2> TAKE j \in 1 .. Len(s) - 1
  <2>1. CASE j < i
    BY <2>1, <1>1, <1>2, <1>3
  <2>2. CASE ~(j < i)
    <3>1. j - (i - 1) \in 1 .. Len(s) - i /\ i + (j - (i - 1)) = j + 1
      BY <2>2, <1>1
    <3>2. j \in Len(p) + 1 .. Len(p) + Len(q) /\ j - Len(p) = j - (i - 1)
      BY <2>2, <1>1, <1>2, <1>3
    <3>3. (p \o q)[j] = q[j - Len(p)]
      BY <1>2, <1>3, <3>2, JoinedAt
    <3> QED BY <2>2, <3>1, <3>2, <3>3, <1>3
  <2> QED BY <2>1, <2>2
<1>7. \A x \in Seq(S) : DOMAIN x = 1 .. Len(x) /\ (Len(x) = 0 => x = <<>>)
  OBVIOUS
<1>8. DOMAIN (p \o q) = 1 .. Len(s) - 1 /\ (Len(s) = 1 => p \o q = <<>>)
  BY <1>5, <1>7
<1> QED BY <1>4, <1>5, <1>6, <1>8

\* What is in use are the draft, what runs and what is being saved.
LEMMA UsedAreObjects ==
    ASSUME NEW e \in EditorType, NEW saves \in SavesType
    PROVE  /\ InUse(e, saves) \subseteq Objects
           /\ e.draft \in InUse(e, saves) /\ e.live \in InUse(e, saves)
           /\ \A i \in DOMAIN saves : saves[i].obj \in InUse(e, saves) /\ saves[i] \in SaveType
<1>1. \A i \in DOMAIN saves : saves[i] \in SaveType
  BY DEF SavesType
<1>2. e.draft \in Objects /\ e.live \in Objects
  BY DEF EditorType
<1>3. \A i \in DOMAIN saves : saves[i].obj \in Objects
  BY <1>1 DEF SaveType
<1> QED BY <1>1, <1>2, <1>3 DEF InUse

\* Five objects are enough: at most four are in use.
LEMMA FreshIsNew ==
    ASSUME NEW e \in EditorType, NEW saves \in SavesType
    PROVE  Fresh(e, saves) \in Objects /\ Fresh(e, saves) \notin InUse(e, saves)
<1>1. InUse(e, saves) \subseteq {e.draft, e.live, saves[1].obj, saves[2].obj}
  BY DEF InUse, SavesType
<1>2. \E o \in Objects : o \notin InUse(e, saves)
  BY <1>1 DEF Objects
<1> QED BY <1>2 DEF Fresh

\* A sweep leaves what is in use alone.
LEMMA SweptIs ==
    ASSUME NEW e \in EditorType, NEW saves \in SavesType
    PROVE  /\ Swept(e, saves) \in EditorType
           /\ \A o \in InUse(e, saves) : Swept(e, saves).heap[o] = e.heap[o]
           /\ Swept(e, saves).open = e.open /\ Swept(e, saves).text = e.text
           /\ Swept(e, saves).draft = e.draft /\ Swept(e, saves).live = e.live
           /\ Swept(e, saves).saved = e.saved /\ Swept(e, saves).dirty = e.dirty
           /\ Draft(Swept(e, saves)) = Draft(e) /\ Live(Swept(e, saves)) = Live(e)
<1> DEFINE h == [o \in Objects |-> IF o \in InUse(e, saves) THEN e.heap[o] ELSE Pristine]
<1>1. Swept(e, saves) = [e EXCEPT !.heap = h]
  BY DEF Swept
<1>2. h \in [Objects -> Configs] /\ \A o \in InUse(e, saves) \cap Objects : h[o] = e.heap[o]
  BY ConfigTypes DEF EditorType
<1>3. InUse(e, saves) \subseteq Objects /\ e.draft \in InUse(e, saves) /\ e.live \in InUse(e, saves)
  BY UsedAreObjects
<1> HIDE DEF h
<1> QED BY <1>1, <1>2, <1>3 DEF EditorType, Draft, Live

\* What the draft's listeners leave alone, and what they set.
LEMMA NotifiedIs ==
    ASSUME NEW e \in EditorType
    PROVE  /\ Notified(e) \in EditorType
           /\ Notified(e).open = e.open /\ Notified(e).heap = e.heap
           /\ Notified(e).draft = e.draft /\ Notified(e).live = e.live
           /\ Notified(e).saved = e.saved /\ (Notified(e).dirty <=> Draft(e) # e.saved)
           /\ Notified(e).text.at = e.text.at
           /\ e.text.at = "valid" => Notified(e).text.cfg = Draft(e)
           /\ e.text.at # "valid" => Notified(e).text = e.text
<1>1. Draft(e) \in Configs
  BY DEF Draft, EditorType
<1>2. CASE e.text.at = "valid"
  <2>1. Notified(e) = [e EXCEPT !.dirty = Draft(e) # e.saved, !.text = [e.text EXCEPT !.cfg = Draft(e)]]
    BY <1>2 DEF Notified
  <2> DEFINE t == [e.text EXCEPT !.cfg = Draft(e)]
  <2>2. /\ t \in [at : {"closed", "valid", "broken"}, cfg : Configs] /\ t.at = e.text.at
        /\ t.cfg = Draft(e)
    BY <1>1 DEF EditorType
  <2>3. Notified(e) = [e EXCEPT !.dirty = Draft(e) # e.saved, !.text = t]
    BY <2>1
  <2> HIDE DEF t
  <2>4. (Draft(e) # e.saved) \in BOOLEAN
    OBVIOUS
  <2> QED BY <1>2, <2>2, <2>3, <2>4 DEF EditorType
<1>3. CASE e.text.at # "valid"
  <2>1. Notified(e) = [e EXCEPT !.dirty = Draft(e) # e.saved, !.text = e.text]
    BY <1>3 DEF Notified
  <2> QED BY <1>1, <1>3, <2>1 DEF EditorType
<1> QED BY <1>2, <1>3

\* The draft becomes an object of its own.
LEMMA DraftedIs ==
    ASSUME NEW e \in EditorType, NEW saves \in SavesType, NEW cfg \in Configs
    PROVE  /\ Drafted(e, saves, cfg) \in EditorType
           /\ Drafted(e, saves, cfg).open = e.open
           /\ Drafted(e, saves, cfg).draft \notin InUse(e, saves)
           /\ Drafted(e, saves, cfg).live = e.live
           /\ Drafted(e, saves, cfg).saved = e.saved
           /\ Drafted(e, saves, cfg).dirty <=> cfg # e.saved
           /\ Draft(Drafted(e, saves, cfg)) = cfg
           /\ Live(Drafted(e, saves, cfg)) = Live(e)
           /\ \A o \in InUse(e, saves) : Drafted(e, saves, cfg).heap[o] = e.heap[o]
           /\ Drafted(e, saves, cfg).text.at = e.text.at
           /\ e.text.at = "valid" => Drafted(e, saves, cfg).text.cfg = cfg
           /\ e.text.at # "valid" => Drafted(e, saves, cfg).text = e.text
<1> DEFINE o == Fresh(e, saves)
           d == [e EXCEPT !.draft = o, !.heap[o] = cfg]
<1>1. o \in Objects /\ o \notin InUse(e, saves)
  BY FreshIsNew
<1>2. Drafted(e, saves, cfg) = Notified(d)
  BY DEF Drafted
<1> HIDE DEF o
<1>3. /\ d \in EditorType /\ d.draft = o /\ d.live = e.live /\ d.saved = e.saved /\ d.text = e.text
      /\ d.open = e.open /\ d.heap = [e.heap EXCEPT ![o] = cfg]
  BY <1>1 DEF EditorType
<1>4. InUse(e, saves) \subseteq Objects /\ e.live \in InUse(e, saves)
  BY UsedAreObjects
<1>5. e.heap \in [Objects -> Configs]
  BY DEF EditorType
<1> HIDE DEF d
<1>6. d.heap[o] = cfg /\ \A u \in InUse(e, saves) : d.heap[u] = e.heap[u]
  BY <1>1, <1>3, <1>4, <1>5
<1>7. Draft(d) = cfg /\ Live(d) = Live(e)
  BY <1>3, <1>4, <1>6 DEF Draft, Live
<1>8. Draft(Notified(d)) = Draft(d) /\ Live(Notified(d)) = Live(d)
  BY <1>3, NotifiedIs DEF Draft, Live
<1>9. /\ Notified(d) \in EditorType
      /\ Notified(d).open = d.open /\ Notified(d).heap = d.heap
      /\ Notified(d).draft = d.draft /\ Notified(d).live = d.live
      /\ Notified(d).saved = d.saved /\ (Notified(d).dirty <=> Draft(d) # d.saved)
      /\ Notified(d).text.at = d.text.at
      /\ d.text.at = "valid" => Notified(d).text.cfg = Draft(d)
      /\ d.text.at # "valid" => Notified(d).text = d.text
  BY ONLY <1>3, NotifiedIs
<1> QED BY ONLY <1>1, <1>2, <1>3, <1>6, <1>7, <1>8, <1>9

\* A reset leaves a draft of its own, which counts as saved.
LEMMA ResetIs ==
    ASSUME NEW e \in EditorType, NEW saves \in SavesType, NEW cfg \in Configs
    PROVE  /\ Reset(e, saves, cfg) \in EditorType
           /\ Reset(e, saves, cfg).open = e.open
           /\ Reset(e, saves, cfg).draft \notin InUse(e, saves)
           /\ Reset(e, saves, cfg).live = e.live
           /\ Reset(e, saves, cfg).saved = cfg
           /\ ~Reset(e, saves, cfg).dirty
           /\ Draft(Reset(e, saves, cfg)) = cfg
           /\ Live(Reset(e, saves, cfg)) = Live(e)
           /\ \A o \in InUse(e, saves) : Reset(e, saves, cfg).heap[o] = e.heap[o]
           /\ Reset(e, saves, cfg).text.at = e.text.at
           /\ e.text.at = "valid" => Reset(e, saves, cfg).text.cfg = cfg
<1> DEFINE d == [e EXCEPT !.saved = cfg]
<1>1. /\ d \in EditorType /\ d.open = e.open /\ d.draft = e.draft /\ d.live = e.live /\ d.saved = cfg
      /\ d.heap = e.heap /\ d.text = e.text
  BY DEF EditorType
<1>2. Reset(e, saves, cfg) = Drafted(d, saves, cfg)
  BY DEF Reset
<1> HIDE DEF d
<1>3. InUse(d, saves) = InUse(e, saves) /\ Live(d) = Live(e)
  BY <1>1 DEF InUse, Live
<1> QED BY ONLY <1>1, <1>2, <1>3, DraftedIs, saves \in SavesType, cfg \in Configs

\* A draft that counts as saved follows what runs, any other stays.
LEMMA FollowedIs ==
    ASSUME NEW e \in EditorType, NEW saves \in SavesType
    PROVE  /\ Followed(e, saves) \in EditorType
           /\ Followed(e, saves).open = e.open
           /\ Followed(e, saves).live = e.live
           /\ Live(Followed(e, saves)) = Live(e)
           /\ \A o \in InUse(e, saves) : Followed(e, saves).heap[o] = e.heap[o]
           /\ Followed(e, saves).text.at = e.text.at
           /\ e.dirty => Followed(e, saves) = e
           /\ ~e.dirty => /\ Followed(e, saves).draft \notin InUse(e, saves)
                          /\ Draft(Followed(e, saves)) = Live(e)
                          /\ Followed(e, saves).saved = Live(e)
                          /\ ~Followed(e, saves).dirty
                          /\ e.text.at = "valid" => Followed(e, saves).text.cfg = Live(e)
<1>1. Live(e) \in Configs
  BY DEF Live, EditorType
<1>2. CASE e.dirty
  BY <1>2 DEF Followed
<1>3. CASE ~e.dirty
  <2>1. Followed(e, saves) = Reset(e, saves, Live(e))
    BY <1>3 DEF Followed
  <2> QED BY ONLY <1>1, <1>3, <2>1, ResetIs, e \in EditorType, saves \in SavesType
<1> QED BY <1>2, <1>3

\* A text that parses becomes the draft.
LEMMA TextTakenIs ==
    ASSUME NEW e \in EditorType, NEW saves \in SavesType
    PROVE  /\ TextTaken(e, saves) \in EditorType
           /\ TextTaken(e, saves).open = e.open
           /\ TextTaken(e, saves).live = e.live
           /\ Live(TextTaken(e, saves)) = Live(e)
           /\ \A o \in InUse(e, saves) : TextTaken(e, saves).heap[o] = e.heap[o]
           /\ TextTaken(e, saves).text.at = e.text.at
           /\ TextTaken(e, saves).saved = e.saved
           /\ e.text.at # "valid" => TextTaken(e, saves) = e
           /\ e.text.at = "valid" => /\ TextTaken(e, saves).draft \notin InUse(e, saves)
                                     /\ Draft(TextTaken(e, saves)) = e.text.cfg
                                     /\ TextTaken(e, saves).text.cfg = e.text.cfg
                                     /\ TextTaken(e, saves).dirty <=> e.text.cfg # e.saved
<1>1. e.text.cfg \in Configs
  BY DEF EditorType
<1>2. CASE e.text.at # "valid"
  BY <1>2 DEF TextTaken
<1>3. CASE e.text.at = "valid"
  <2>1. TextTaken(e, saves) = Drafted(e, saves, e.text.cfg)
    BY <1>3 DEF TextTaken
  <2> QED BY ONLY <1>1, <1>3, <2>1, DraftedIs, e \in EditorType, saves \in SavesType
<1> QED BY <1>2, <1>3

-----------------------------------------------------------------------------
(* The configuration editor: the invariant *)

\* The same colormaps and presets.
CeAlike(c, d) == c.maps = d.maps /\ c.form = d.form
CeWithout(odd) == ceOdd \cap odd = {}
CeFormSave(i) == ceSaves[i].who = "form"
CeKept(i) == ce.heap[ceSaves[i].obj]

\* A draft that counts as saved is what was saved, unless it runs too (the panel
\* may write into it then); a text that parses is the draft, and one that does
\* not is noted.
CeDrafts ==
    /\ ~ce.dirty /\ ce.draft # ce.live => Draft(ce) = ce.saved
    /\ ~ce.dirty /\ ce.draft # ce.live /\ ce.text.at = "valid" => ce.text.cfg = Draft(ce)
    /\ ce.text.at = "valid" => CeAlike(ce.text.cfg, Draft(ce))
    /\ ce.text.at = "broken" => "broken" \in ceOdd
\* Saves that never overlapped: one is under way at most, and the panel saves
\* what runs.
CeOneAtATime ==
    CeWithout({"overlap"}) =>
        /\ Len(ceSaves) + Len(ceLoads) <= 1
        /\ \A i \in DOMAIN ceSaves : ~CeFormSave(i) => ceSaves[i].obj = ce.live
        /\ \A i \in DOMAIN ceLoads : ceLoads[i] \in {Unread, ceServer}
\* What a save has sent is what its object holds, and the server what was sent.
CeSentIsKept ==
    CeWithout({"overlap", "leaked"}) =>
        \A i \in DOMAIN ceSaves : (CeFormSave(i) => CeWithout({"slipped"})) =>
            /\ ceSaves[i].step = "maps" =>
                 /\ ceSaves[i].body.maps = CeKept(i).maps
                 /\ ceSaves[i].stored => ceServer.maps = CeKept(i).maps
            /\ ceSaves[i].step = "rest" =>
                 /\ ceServer.maps = CeKept(i).maps
                 /\ CeAlike(ceSaves[i].body, CeKept(i))
                 /\ ceSaves[i].stored => CeAlike(ceServer, CeKept(i))
\* Without a save of the editor or a load under way, what runs has the colormaps
\* and presets of the server, and the panel's changes too unless its timer waits.
CeRuns ==
    CeWithout({"overlap", "leaked", "failed"}) /\ FormSaves = {} /\ ceLoads = <<>> =>
        /\ CeAlike(Live(ce), ceServer)
        /\ ~ceTimer => /\ ceSaves = <<>> => Live(ce) = ceServer
                       /\ \A i \in DOMAIN ceSaves : ceSaves[i].step = "rest" =>
                            /\ ceSaves[i].body = Live(ce)
                            /\ ceSaves[i].stored => ceServer = Live(ce)
\* Only a save that is not loaded again yet makes the draft run.
CeApart == CeWithout({"overlap", "failed"}) /\ ceLoads = <<>> => ce.draft # ce.live
\* The editor's mark is what the server holds, and a draft that is being saved
\* still is what is saved.
CeMarks ==
    CeWithout({"overlap", "leaked", "failed", "slipped"}) =>
        /\ FormSaves = {} => CeAlike(Live(ce), ceServer) /\ CeAlike(ce.saved, ceServer)
        /\ ce.dirty => \A i \in FormSaves : CeAlike(Draft(ce), CeKept(i))
\* The panel's changes are in what runs, in what is being saved and, once its
\* timer has fired and the save is done, with the server.
CeAutos ==
    CeWithout({"overlap", "outdated", "dropped", "failed"}) =>
        /\ Live(ce).auto = 1 .. ceCount.autos
        /\ \A i \in DOMAIN ceSaves :
             /\ CeKept(i).auto = 1 .. ceCount.autos
             /\ ceSaves[i].step = "rest" /\ (CeFormSave(i) \/ ~ceTimer) =>
                  /\ ceSaves[i].body.auto = 1 .. ceCount.autos
                  /\ ceSaves[i].stored => ceServer.auto = 1 .. ceCount.autos
        /\ ceSaves = <<>> /\ (ceLoads # <<>> \/ ~ceTimer) => ceServer.auto = 1 .. ceCount.autos
\* Every edit is in the draft and in every save of it.
CeEdits ==
    CeWithout({"overlap", "leaked", "slipped", "discarded", "broken"}) =>
        /\ CeAlike(ce.saved, Live(ce))
        /\ Draft(ce).maps \cup Draft(ce).form = 1 .. ceCount.edits
        /\ \A i \in FormSaves : CeAlike(Draft(ce), CeKept(i))
        /\ ceLoads # <<>> => CeAlike(ceServer, Live(ce))
\* The inductive invariant: each part holds but for what has crossed what.
CeInv == /\ CeTyped /\ CeDrafts /\ CeOneAtATime /\ CeSentIsKept /\ CeRuns /\ CeApart /\ CeMarks /\ CeAutos /\ CeEdits

\* The editor starts with nothing to save.
LEMMA CeInvInit == CeInit => CeInv
<1> SUFFICES ASSUME CeInit PROVE CeInv
  OBVIOUS
<1>1. Pristine \in Configs
  BY ConfigTypes
<1>2. /\ ce \in EditorType /\ ce.draft = 1 /\ ce.live = 2 /\ ce.saved = Pristine /\ ~ce.dirty /\ ~ce.open
      /\ ce.text.at = "closed" /\ Draft(ce) = Pristine /\ Live(ce) = Pristine
  BY <1>1 DEF CeInit, EditorType, Objects, NoText, Draft, Live
<1>3. /\ ceSaves = <<>> /\ ceLoads = <<>> /\ ~ceTimer /\ ceTimer \in BOOLEAN /\ ceOdd = {} /\ ceServer = Pristine
      /\ ceCount.edits = 0 /\ ceCount.autos = 0
      /\ ceCount \in [edits : 0 .. CeMaxEdits, autos : 0 .. CeMaxChanges, ops : Nat]
  <2>1. ceCount = [edits |-> 0, autos |-> 0, ops |-> 0]
    BY DEF CeInit
  <2>2. 0 \in 0 .. CeMaxEdits /\ 0 \in 0 .. CeMaxChanges /\ 0 \in Nat
    BY ConfigEditorAssumption
  <2>3. /\ ceSaves = <<>> /\ ceLoads = <<>> /\ ~ceTimer /\ ceTimer \in BOOLEAN /\ ceOdd = {}
        /\ ceServer = Pristine
    BY DEF CeInit
  <2> QED BY <2>1, <2>2, <2>3
<1>4. Pristine.auto = 1 .. 0 /\ Pristine.maps \cup Pristine.form = 1 .. 0
  BY DEF Pristine
<1>5. CeTyped
  BY <1>1, <1>2, <1>3 DEF CeTyped, SavesType
<1>6. FormSaves = {} /\ DOMAIN ceSaves = {} /\ DOMAIN ceLoads = {} /\ Len(ceSaves) + Len(ceLoads) = 0
  BY <1>3 DEF FormSaves
<1>7. CeDrafts /\ CeOneAtATime /\ CeSentIsKept
  BY <1>2, <1>3, <1>6 DEF CeDrafts, CeOneAtATime, CeSentIsKept
<1>8. CeRuns /\ CeApart /\ CeMarks /\ CeAutos /\ CeEdits
  BY <1>2, <1>3, <1>4, <1>6 DEF CeRuns, CeApart, CeMarks, CeAutos, CeEdits, CeAlike
<1> QED BY <1>5, <1>7, <1>8 DEF CeInv

-----------------------------------------------------------------------------
(* The editor *)

\* Whatever the editor does by itself: nothing that runs, is stored or on its way
\* changes, and the draft and its mark stay what they say.
LEMMA EditorKeeps ==
    ASSUME CeInv, CeTyped', CeDrafts', UNCHANGED <<ceServer, ceSaves, ceLoads, ceTimer>>,
           ceOdd \subseteq ceOdd', ceCount'.autos = ceCount.autos, ce'.live = ce.live,
           ce'.draft = ce.draft \/ ce'.draft # ce.live,
           Live(ce').auto = Live(ce).auto, "leaked" \notin ceOdd' => Live(ce') = Live(ce),
           \A i \in DOMAIN ceSaves : CeKept(i)'.auto = CeKept(i).auto,
           CeWithout({"overlap", "leaked"})' =>
               \A i \in DOMAIN ceSaves :
                   (CeFormSave(i) => "slipped" \notin ceOdd') => CeKept(i)' = CeKept(i),
           ce'.saved \in {ce.saved, Live(ce)},
           ce'.dirty /\ "slipped" \notin ceOdd' /\ FormSaves # {} /\ ce.draft # ce.live =>
               ce.dirty /\ CeAlike(Draft(ce'), Draft(ce)),
           CeWithout({"overlap", "leaked", "slipped", "discarded", "broken"})' /\ CeAlike(ce.saved, Live(ce)) =>
               \/ ceCount'.edits = ceCount.edits /\ CeAlike(Draft(ce'), Draft(ce))
               \/ /\ FormSaves = {}
                  /\ Draft(ce).maps \cup Draft(ce).form = 1 .. ceCount.edits =>
                       Draft(ce').maps \cup Draft(ce').form = 1 .. ceCount'.edits
    PROVE  CeInv'
<1>1. \A X : CeWithout(X)' => CeWithout(X)
  BY DEF CeWithout
<1>2. FormSaves' = FormSaves /\ FormSaves \subseteq DOMAIN ceSaves /\ \A i \in DOMAIN ceSaves : CeFormSave(i)' <=> CeFormSave(i)
  BY DEF FormSaves, CeFormSave
<1>3. \A i \in DOMAIN ceSaves : i \in FormSaves <=> CeFormSave(i)
  BY DEF FormSaves, CeFormSave
<1>4. CeOneAtATime'
  BY <1>1, <1>2 DEF CeInv, CeOneAtATime
<1>5. CeSentIsKept'
  <2> SUFFICES ASSUME CeWithout({"overlap", "leaked"})', NEW i \in DOMAIN ceSaves,
                      CeFormSave(i) => CeWithout({"slipped"})'
               PROVE  /\ ceSaves[i].step = "maps" =>
                           /\ ceSaves[i].body.maps = CeKept(i)'.maps
                           /\ ceSaves[i].stored => ceServer.maps = CeKept(i)'.maps
                      /\ ceSaves[i].step = "rest" =>
                           /\ ceServer.maps = CeKept(i)'.maps
                           /\ CeAlike(ceSaves[i].body, CeKept(i)')
                           /\ ceSaves[i].stored => CeAlike(ceServer, CeKept(i)')
    BY <1>2 DEF CeSentIsKept
  <2>1. CeKept(i)' = CeKept(i)
    BY DEF CeWithout
  <2>2. CeFormSave(i) => CeWithout({"slipped"})
    BY <1>1
  <2> QED BY <1>1, <2>1, <2>2 DEF CeInv, CeSentIsKept
<1>6. CeRuns'
  <2> SUFFICES ASSUME CeWithout({"overlap", "leaked", "failed"})', FormSaves = {}, ceLoads = <<>>
               PROVE  /\ CeAlike(Live(ce'), ceServer)
                      /\ ~ceTimer => /\ ceSaves = <<>> => Live(ce') = ceServer
                                     /\ \A i \in DOMAIN ceSaves : ceSaves[i].step = "rest" =>
                                          /\ ceSaves[i].body = Live(ce')
                                          /\ ceSaves[i].stored => ceServer = Live(ce')
    BY <1>2 DEF CeRuns
  <2>1. Live(ce') = Live(ce)
    BY DEF CeWithout
  <2> QED BY <1>1, <2>1 DEF CeInv, CeRuns
<1>7. CeApart'
  BY <1>1 DEF CeInv, CeApart
<1>8. CeMarks'
  <2> SUFFICES ASSUME CeWithout({"overlap", "leaked", "failed", "slipped"})'
               PROVE  /\ FormSaves = {} => CeAlike(Live(ce'), ceServer) /\ CeAlike(ce'.saved, ceServer)
                      /\ ce'.dirty => \A i \in FormSaves : CeAlike(Draft(ce'), CeKept(i)')
    BY <1>2 DEF CeMarks
  <2>1. Live(ce') = Live(ce) /\ "slipped" \notin ceOdd'
    BY DEF CeWithout
  <2>2. /\ FormSaves = {} => CeAlike(Live(ce), ceServer) /\ CeAlike(ce.saved, ceServer)
        /\ ce.dirty => \A i \in FormSaves : CeAlike(Draft(ce), CeKept(i))
    BY <1>1 DEF CeInv, CeMarks
  <2>3. ASSUME ce'.dirty, NEW i \in FormSaves
        PROVE  CeAlike(Draft(ce'), CeKept(i)')
    <3>1. CeWithout({"overlap", "leaked"})' /\ CeWithout({"overlap", "failed"})
      BY <1>1 DEF CeWithout
    <3>2. CeKept(i)' = CeKept(i)
      BY <1>2, <2>1, <3>1
    <3>3. ceLoads = <<>>
      <4>1. CeWithout({"overlap"}) /\ Len(ceSaves) + Len(ceLoads) <= 1 /\ i \in DOMAIN ceSaves
        BY <1>2, <3>1 DEF CeInv, CeOneAtATime, CeWithout
      <4>2. ceSaves \in Seq(SaveType) /\ ceLoads \in Seq(Configs \cup {Unread})
        BY DEF CeInv, CeTyped, SavesType
      <4> QED BY <4>1, <4>2
    <3>4. ce.draft # ce.live
      BY <3>1, <3>3 DEF CeInv, CeApart
    <3> QED BY <2>1, <2>2, <2>3, <3>2, <3>4 DEF CeAlike
  <2> QED BY <2>1, <2>2, <2>3
<1>9. CeAutos'
  BY <1>1, <1>2 DEF CeInv, CeAutos
<1>10. CeEdits'
  <2> SUFFICES ASSUME CeWithout({"overlap", "leaked", "slipped", "discarded", "broken"})'
               PROVE  /\ CeAlike(ce'.saved, Live(ce'))
                      /\ Draft(ce').maps \cup Draft(ce').form = 1 .. ceCount'.edits
                      /\ \A i \in FormSaves : CeAlike(Draft(ce'), CeKept(i)')
                      /\ ceLoads # <<>> => CeAlike(ceServer, Live(ce'))
    BY <1>2 DEF CeEdits
  <2>1. Live(ce') = Live(ce) /\ "slipped" \notin ceOdd' /\ CeWithout({"overlap", "leaked"})'
    BY DEF CeWithout
  <2>2. /\ CeAlike(ce.saved, Live(ce))
        /\ Draft(ce).maps \cup Draft(ce).form = 1 .. ceCount.edits
        /\ \A i \in FormSaves : CeAlike(Draft(ce), CeKept(i))
        /\ ceLoads # <<>> => CeAlike(ceServer, Live(ce))
    BY <1>1 DEF CeInv, CeEdits
  <2>3. \A i \in FormSaves : CeKept(i)' = CeKept(i)
    BY <1>2, <2>1
  <2>4. CeAlike(ce'.saved, Live(ce')) /\ (ceLoads # <<>> => CeAlike(ceServer, Live(ce')))
    BY <2>1, <2>2 DEF CeAlike
  <2>5. CASE ceCount'.edits = ceCount.edits /\ CeAlike(Draft(ce'), Draft(ce))
    BY <2>2, <2>3, <2>4, <2>5 DEF CeAlike
  <2>6. CASE /\ FormSaves = {}
             /\ Draft(ce).maps \cup Draft(ce).form = 1 .. ceCount.edits =>
                  Draft(ce').maps \cup Draft(ce').form = 1 .. ceCount'.edits
    BY <2>2, <2>4, <2>6
  <2> QED BY <2>2, <2>5, <2>6
<1> QED BY <1>4, <1>5, <1>6, <1>7, <1>8, <1>9, <1>10 DEF CeInv

\* What a click and an edit count.
LEMMA ClickIs ==
    ASSUME CeTyped, Click
    PROVE  /\ ceCount' \in [edits : 0 .. CeMaxEdits, autos : 0 .. CeMaxChanges, ops : Nat]
           /\ ceCount'.edits = ceCount.edits /\ ceCount'.autos = ceCount.autos
BY DEF CeTyped, Click

LEMMA CountEditIs ==
    ASSUME CeTyped, CountEdit
    PROVE  /\ ceCount' \in [edits : 0 .. CeMaxEdits, autos : 0 .. CeMaxChanges, ops : Nat]
           /\ ceCount'.edits = NextEdit /\ ceCount'.autos = ceCount.autos
           /\ NextEdit \in 1 .. CeMaxEdits
           /\ 1 .. ceCount'.edits = (1 .. ceCount.edits) \cup {NextEdit}
<1>1. ceCount' = [ceCount EXCEPT !.edits = NextEdit] /\ ceCount.edits < CeMaxEdits
  BY DEF CountEdit, NextEdit
<1>2. NextEdit \in 1 .. CeMaxEdits /\ NextEdit \in 0 .. CeMaxEdits /\ ceCount.edits \in Nat
  BY <1>1, ConfigEditorAssumption DEF CeTyped, NextEdit
<1>3. (1 .. ceCount.edits) \cup {NextEdit} = 1 .. NextEdit
  BY <1>2, NumberedNext DEF NextEdit
<1>4. /\ ceCount' \in [edits : 0 .. CeMaxEdits, autos : 0 .. CeMaxChanges, ops : Nat]
      /\ ceCount'.edits = NextEdit /\ ceCount'.autos = ceCount.autos
  BY <1>1, <1>2 DEF CeTyped
<1> QED BY <1>2, <1>3, <1>4

\* An editor that becomes the state: what the saves hold is in use, and stays.
LEMMA EditorLanded ==
    ASSUME CeTyped, NEW d \in EditorType, d.live = ce.live, Live(d) = Live(ce),
           \A o \in InUse(ce, ceSaves) : d.heap[o] = ce.heap[o],
           ce' = Swept(d, ceSaves), UNCHANGED ceSaves
    PROVE  /\ ce' \in EditorType
           /\ ce'.open = d.open /\ ce'.text = d.text /\ ce'.draft = d.draft /\ ce'.live = ce.live
           /\ ce'.saved = d.saved /\ ce'.dirty = d.dirty
           /\ Draft(ce') = Draft(d) /\ Live(ce') = Live(ce)
           /\ \A i \in DOMAIN ceSaves : CeKept(i)' = CeKept(i)
<1>1. ce \in EditorType /\ ceSaves \in SavesType
  BY DEF CeTyped
<1>2. \A i \in DOMAIN ceSaves : ceSaves[i].obj \in InUse(ce, ceSaves) /\ ceSaves[i].obj \in InUse(d, ceSaves)
  BY <1>1, UsedAreObjects
<1>3. \A o \in InUse(d, ceSaves) : ce'.heap[o] = d.heap[o]
  BY <1>1, SweptIs
<1>4. \A i \in DOMAIN ceSaves : ce'.heap[ceSaves[i].obj] = ce.heap[ceSaves[i].obj]
  BY <1>2, <1>3
<1> QED BY <1>1, <1>4, SweptIs DEF CeKept

\* A draft that is not running follows or is kept by what a save of it holds.
LEMMA FollowingIsAlike ==
    ASSUME CeInv, ~ce.dirty, CeAlike(ce.saved, Live(ce))
    PROVE  CeAlike(Live(ce), Draft(ce))
<1>1. CASE ce.draft = ce.live
  BY <1>1 DEF Draft, Live, CeAlike
<1>2. CASE ce.draft # ce.live
  BY <1>2 DEF CeInv, CeDrafts, CeAlike
<1> QED BY <1>1, <1>2

\* The clicks and the edits, one after the other.
LEMMA OpenEditorKeeps == CeInv /\ OpenEditor => CeInv'
<1> SUFFICES ASSUME CeInv, OpenEditor PROVE CeInv'
  OBVIOUS
<1> DEFINE e == [ce EXCEPT !.open = TRUE]
           d == Followed(e, ceSaves)
<1>1. CeTyped /\ ce \in EditorType /\ ceSaves \in SavesType /\ CeDrafts
  BY DEF CeInv, CeTyped
<1>2. /\ e \in EditorType /\ e.open /\ e.text = ce.text /\ e.draft = ce.draft /\ e.live = ce.live
      /\ e.saved = ce.saved /\ e.dirty = ce.dirty /\ e.heap = ce.heap
  BY <1>1 DEF EditorType
<1>3. /\ Click /\ ce' = Swept(d, ceSaves) /\ ~ce.open
      /\ UNCHANGED <<ceServer, ceSaves, ceLoads, ceTimer, ceOdd>>
  BY DEF OpenEditor
<1> HIDE DEF e
<1>4. Live(e) = Live(ce) /\ Draft(e) = Draft(ce) /\ InUse(e, ceSaves) = InUse(ce, ceSaves)
  BY <1>2 DEF Live, Draft, InUse
<1>5. /\ d \in EditorType /\ d.open /\ d.live = ce.live /\ Live(d) = Live(ce) /\ d.text.at = ce.text.at
      /\ \A o \in InUse(ce, ceSaves) : d.heap[o] = ce.heap[o]
      /\ ce.dirty => d = e
      /\ ~ce.dirty => /\ d.draft # ce.live /\ Draft(d) = Live(ce) /\ d.saved = Live(ce) /\ ~d.dirty
                      /\ ce.text.at = "valid" => d.text.cfg = Live(ce)
  <2>1. ce.live \in InUse(ce, ceSaves)
    BY <1>1, UsedAreObjects
  <2> QED BY ONLY <1>1, <1>2, <1>4, <2>1, FollowedIs
<1> HIDE DEF d
<1>6. /\ ce' \in EditorType /\ ce'.open = d.open /\ ce'.text = d.text /\ ce'.draft = d.draft
      /\ ce'.live = ce.live /\ ce'.saved = d.saved /\ ce'.dirty = d.dirty
      /\ Draft(ce') = Draft(d) /\ Live(ce') = Live(ce)
      /\ \A i \in DOMAIN ceSaves : CeKept(i)' = CeKept(i)
  BY ONLY <1>1, <1>3, <1>5, EditorLanded
<1>7. CeTyped' /\ ceCount'.edits = ceCount.edits /\ ceCount'.autos = ceCount.autos
  BY <1>1, <1>3, <1>5, <1>6, ClickIs DEF CeTyped
<1>8. CASE ce.dirty
  <2>1. d.draft = ce.draft /\ d.saved = ce.saved /\ d.dirty /\ Draft(d) = Draft(ce) /\ d.text = ce.text
    BY <1>2, <1>4, <1>5, <1>8
  <2>2. CeDrafts'
    BY <1>1, <1>3, <1>6, <1>8, <2>1 DEF CeDrafts
  <2> QED BY <1>3, <1>6, <1>7, <1>8, <2>1, <2>2, EditorKeeps DEF CeAlike
<1>9. CASE ~ce.dirty
  <2>1. CeDrafts'
    BY <1>1, <1>3, <1>5, <1>6, <1>9 DEF CeDrafts, CeAlike
  <2>2. CeAlike(ce.saved, Live(ce)) => CeAlike(Draft(ce'), Draft(ce))
    BY <1>5, <1>6, <1>9, FollowingIsAlike
  <2> QED BY <1>3, <1>5, <1>6, <1>7, <1>9, <2>1, <2>2, EditorKeeps
<1> QED BY <1>8, <1>9

LEMMA CloseEditorKeeps == ASSUME CeInv, NEW button \in BOOLEAN, CloseEditor(button) PROVE CeInv'
<1> DEFINE t == TextTaken(ce, ceSaves)
           d == [t EXCEPT !.open = FALSE, !.text = NoText]
<1>1. CeTyped /\ ce \in EditorType /\ ceSaves \in SavesType /\ CeDrafts
  BY DEF CeInv, CeTyped
<1>2. /\ Click /\ ce' = Swept(d, ceSaves)
      /\ ceOdd \subseteq ceOdd' /\ ceOdd' \subseteq ceOdd \cup {"discarded"}
      /\ UNCHANGED <<ceServer, ceSaves, ceLoads, ceTimer>>
  BY DEF CloseEditor
<1>3. /\ t \in EditorType /\ t.live = ce.live /\ Live(t) = Live(ce) /\ t.saved = ce.saved
      /\ \A o \in InUse(ce, ceSaves) : t.heap[o] = ce.heap[o]
      /\ ce.text.at # "valid" => t = ce
      /\ ce.text.at = "valid" => /\ t.draft # ce.live /\ Draft(t) = ce.text.cfg
                                 /\ t.dirty <=> ce.text.cfg # ce.saved
  <2>1. ce.live \in InUse(ce, ceSaves)
    BY <1>1, UsedAreObjects
  <2> QED BY ONLY <1>1, <2>1, TextTakenIs
<1> HIDE DEF t
<1>4. /\ d \in EditorType /\ d.open = FALSE /\ d.text.at = "closed" /\ d.draft = t.draft /\ d.live = t.live
      /\ d.saved = t.saved /\ d.dirty = t.dirty /\ d.heap = t.heap
  BY <1>3, ConfigTypes DEF EditorType, NoText
<1> HIDE DEF d
<1>5. Live(d) = Live(ce) /\ Draft(d) = Draft(t)
  BY <1>3, <1>4 DEF Live, Draft
<1>6. /\ ce' \in EditorType /\ ce'.open = d.open /\ ce'.text = d.text /\ ce'.draft = d.draft
      /\ ce'.live = ce.live /\ ce'.saved = d.saved /\ ce'.dirty = d.dirty
      /\ Draft(ce') = Draft(d) /\ Live(ce') = Live(ce)
      /\ \A i \in DOMAIN ceSaves : CeKept(i)' = CeKept(i)
  BY ONLY <1>1, <1>2, <1>3, <1>4, <1>5, EditorLanded
<1>7. CeTyped' /\ ceCount'.edits = ceCount.edits /\ ceCount'.autos = ceCount.autos
  BY <1>1, <1>2, <1>4, <1>6, ClickIs DEF CeTyped
<1>8. CASE ce.text.at = "valid"
  <2>1. CeDrafts'
    BY <1>3, <1>4, <1>5, <1>6, <1>8 DEF CeDrafts
  <2>2. CeAlike(Draft(ce'), Draft(ce))
    BY <1>1, <1>3, <1>5, <1>6, <1>8 DEF CeDrafts
  <2>3. ce'.dirty /\ ce.draft # ce.live => ce.dirty
    BY <1>1, <1>3, <1>4, <1>6, <1>8 DEF CeDrafts
  <2> QED BY <1>2, <1>3, <1>4, <1>6, <1>7, <2>1, <2>2, <2>3, EditorKeeps
<1>9. CASE ce.text.at # "valid"
  <2>1. CeDrafts'
    BY <1>1, <1>3, <1>4, <1>5, <1>6, <1>9 DEF CeDrafts
  <2>2. CeAlike(Draft(ce'), Draft(ce))
    BY <1>3, <1>5, <1>6, <1>9 DEF CeAlike
  <2> QED BY <1>2, <1>3, <1>4, <1>6, <1>7, <1>9, <2>1, <2>2, EditorKeeps
<1> QED BY <1>8, <1>9

LEMMA SelectSubtabKeeps == CeInv /\ SelectSubtab => CeInv'
<1> SUFFICES ASSUME CeInv, SelectSubtab PROVE CeInv'
  OBVIOUS
<1> DEFINE t == IF ce.text.at = "closed" THEN ce ELSE TextTaken(ce, ceSaves)
           u == IF ce.text.at = "closed" THEN [at |-> "valid", cfg |-> Draft(ce)] ELSE NoText
           e == [t EXCEPT !.text = u]
           d == Notified(e)
<1>1. CeTyped /\ ce \in EditorType /\ ceSaves \in SavesType /\ CeDrafts
  BY DEF CeInv, CeTyped
<1>2. /\ Click /\ ce' = Swept(d, ceSaves) /\ ce.open
      /\ UNCHANGED <<ceServer, ceSaves, ceLoads, ceTimer, ceOdd>>
  <2>1. CASE ce.text.at = "closed"
    BY <2>1 DEF SelectSubtab
  <2>2. CASE ce.text.at # "closed"
    BY <2>2 DEF SelectSubtab
  <2> QED BY <2>1, <2>2
<1>3. /\ t \in EditorType /\ t.open = ce.open /\ t.live = ce.live /\ Live(t) = Live(ce) /\ t.saved = ce.saved
      /\ \A o \in InUse(ce, ceSaves) : t.heap[o] = ce.heap[o]
      /\ ce.text.at # "valid" => t = ce
      /\ ce.text.at = "valid" => t.draft # ce.live /\ Draft(t) = ce.text.cfg
  <2>1. ce.live \in InUse(ce, ceSaves)
    BY <1>1, UsedAreObjects
  <2>2. CASE ce.text.at = "closed"
    BY <1>1, <2>2
  <2>3. CASE ce.text.at # "closed"
    BY ONLY <1>1, <2>1, <2>3, TextTakenIs
  <2> QED BY <2>2, <2>3
<1>4. /\ u \in [at : {"closed", "valid", "broken"}, cfg : Configs]
      /\ u.at = "valid" => ce.text.at = "closed" /\ u.cfg = Draft(ce)
      /\ u.at # "broken"
  BY <1>1, ConfigTypes DEF NoText, EditorType, Draft
<1> HIDE DEF t, u
<1>5. /\ e \in EditorType /\ e.open = t.open /\ e.text = u /\ e.draft = t.draft /\ e.live = t.live
      /\ e.saved = t.saved /\ e.heap = t.heap /\ Draft(e) = Draft(t) /\ Live(e) = Live(t)
  BY <1>3, <1>4 DEF EditorType, Draft, Live
<1> HIDE DEF e
<1>6. /\ d \in EditorType /\ d.open = ce.open /\ d.draft = t.draft /\ d.live = ce.live /\ Live(d) = Live(ce)
      /\ d.saved = ce.saved /\ (d.dirty <=> Draft(t) # ce.saved) /\ Draft(d) = Draft(t)
      /\ d.heap = t.heap /\ (d.text.at = "valid" => d.text.cfg = Draft(t)) /\ d.text.at = u.at
  <2>1. /\ d \in EditorType /\ d.open = e.open /\ d.draft = e.draft /\ d.live = e.live /\ d.heap = e.heap
        /\ d.saved = e.saved /\ (d.dirty <=> Draft(e) # e.saved)
        /\ d.text.at = e.text.at /\ (e.text.at = "valid" => d.text.cfg = Draft(e))
    BY ONLY <1>5, NotifiedIs
  <2>2. Draft(d) = Draft(e) /\ Live(d) = Live(e)
    BY <2>1 DEF Draft, Live
  <2> QED BY ONLY <1>3, <1>5, <2>1, <2>2
<1> HIDE DEF d
<1>7. /\ ce' \in EditorType /\ ce'.open = d.open /\ ce'.text = d.text /\ ce'.draft = d.draft
      /\ ce'.live = ce.live /\ ce'.saved = d.saved /\ ce'.dirty = d.dirty
      /\ Draft(ce') = Draft(d) /\ Live(ce') = Live(ce)
      /\ \A i \in DOMAIN ceSaves : CeKept(i)' = CeKept(i)
  BY ONLY <1>1, <1>2, <1>3, <1>6, EditorLanded
<1>8. CeTyped' /\ ceCount'.edits = ceCount.edits /\ ceCount'.autos = ceCount.autos
  BY <1>1, <1>2, <1>6, <1>7, ClickIs DEF CeTyped
<1>9. CeDrafts'
  BY <1>4, <1>6, <1>7 DEF CeDrafts, CeAlike
<1>10. CeAlike(Draft(ce'), Draft(ce)) /\ (ce'.dirty /\ ce.draft # ce.live => ce.dirty)
  <2>1. CASE ce.text.at = "valid"
    BY <1>1, <1>3, <1>6, <1>7, <2>1 DEF CeDrafts
  <2>2. CASE ce.text.at # "valid"
    BY <1>1, <1>3, <1>6, <1>7, <2>2 DEF CeDrafts, CeAlike
  <2> QED BY <2>1, <2>2
<1> QED BY <1>2, <1>3, <1>6, <1>7, <1>8, <1>9, <1>10, EditorKeeps

LEMMA ReloadDraftKeeps == CeInv /\ ReloadDraft => CeInv'
<1> SUFFICES ASSUME CeInv, ReloadDraft PROVE CeInv'
  OBVIOUS
<1> DEFINE d == Reset(ce, ceSaves, Live(ce))
<1>1. CeTyped /\ ce \in EditorType /\ ceSaves \in SavesType /\ Live(ce) \in Configs
  BY DEF CeInv, CeTyped, EditorType, Live
<1>2. /\ Click /\ ce' = Swept(d, ceSaves) /\ ce.open
      /\ ceOdd' = ceOdd \cup (IF Draft(ce) # Live(ce) THEN {"discarded"} ELSE {})
      /\ UNCHANGED <<ceServer, ceSaves, ceLoads, ceTimer>>
  BY DEF ReloadDraft
<1>3. /\ d \in EditorType /\ d.open = ce.open /\ d.draft # ce.live /\ d.live = ce.live /\ d.saved = Live(ce)
      /\ ~d.dirty /\ Draft(d) = Live(ce) /\ Live(d) = Live(ce)
      /\ \A o \in InUse(ce, ceSaves) : d.heap[o] = ce.heap[o]
      /\ d.text.at = ce.text.at /\ (ce.text.at = "valid" => d.text.cfg = Live(ce))
  <2>1. ce.live \in InUse(ce, ceSaves)
    BY <1>1, UsedAreObjects
  <2> QED BY ONLY <1>1, <2>1, ResetIs
<1> HIDE DEF d
<1>4. /\ ce' \in EditorType /\ ce'.open = d.open /\ ce'.text = d.text /\ ce'.draft = d.draft
      /\ ce'.live = ce.live /\ ce'.saved = d.saved /\ ce'.dirty = d.dirty
      /\ Draft(ce') = Draft(d) /\ Live(ce') = Live(ce)
      /\ \A i \in DOMAIN ceSaves : CeKept(i)' = CeKept(i)
  BY ONLY <1>1, <1>2, <1>3, EditorLanded
<1>5. ceOdd \subseteq ceOdd' /\ ceOdd' \subseteq ceOdd \cup {"discarded"}
  BY <1>2
<1>6. CeTyped' /\ ceCount'.edits = ceCount.edits /\ ceCount'.autos = ceCount.autos
  BY <1>1, <1>2, <1>3, <1>4, <1>5, ClickIs DEF CeTyped
<1>7. CeDrafts'
  BY <1>1, <1>3, <1>4, <1>5 DEF CeInv, CeDrafts, CeAlike
<1>8. CeWithout({"overlap", "leaked", "slipped", "discarded", "broken"})' => CeAlike(Draft(ce'), Draft(ce))
  BY <1>2, <1>3, <1>4 DEF CeWithout, CeAlike
<1> QED BY <1>2, <1>3, <1>4, <1>5, <1>6, <1>7, <1>8, EditorKeeps

\* An edit astray is marked as one.
LEMMA AstrayIs ==
    ASSUME NEW e
    PROVE  /\ FormSaves # {} => "slipped" \in Astray(e)
           /\ e.draft = e.live => "leaked" \in Astray(e)
           /\ Astray(e) \subseteq {"slipped", "leaked"}
BY DEF Astray

LEMMA EditFormKeeps == ASSUME CeInv, NEW half \in {"maps", "form"}, EditForm(half) PROVE CeInv'
<1> DEFINE c == [Draft(ce) EXCEPT ![half] = @ \cup {NextEdit}]
           e == [ce EXCEPT !.heap[ce.draft] = c]
           d == Notified(e)
<1>1. CeTyped /\ ce \in EditorType /\ ceSaves \in SavesType /\ CeOneAtATime
  BY DEF CeInv, CeTyped
<1>2. /\ CountEdit /\ ce.open /\ ce.text.at = "closed" /\ ceOdd' = ceOdd \cup Astray(ce)
      /\ UNCHANGED <<ceServer, ceSaves, ceLoads, ceTimer>>
  BY DEF EditForm
<1>3. ce' = d
  <2>1. [ce EXCEPT !.heap[ce.draft][half] = @ \cup {NextEdit}] = e
    BY <1>1 DEF EditorType, Draft
  <2> QED BY <2>1 DEF EditForm
<1>4. /\ ceCount' \in [edits : 0 .. CeMaxEdits, autos : 0 .. CeMaxChanges, ops : Nat]
      /\ ceCount'.edits = NextEdit /\ ceCount'.autos = ceCount.autos /\ NextEdit \in 1 .. CeMaxEdits
      /\ 1 .. ceCount'.edits = (1 .. ceCount.edits) \cup {NextEdit}
  BY <1>1, <1>2, CountEditIs
<1>5. /\ c \in Configs /\ c.auto = Draft(ce).auto
      /\ c.maps \cup c.form = Draft(ce).maps \cup Draft(ce).form \cup {NextEdit}
  <2>1. Draft(ce) \in Configs
    BY <1>1 DEF EditorType, Draft
  <2>2. CASE half = "maps"
    BY <1>4, <2>1, <2>2 DEF Configs
  <2>3. CASE half = "form"
    BY <1>4, <2>1, <2>3 DEF Configs
  <2> QED BY <2>2, <2>3
<1> HIDE DEF c
<1>6. /\ e \in EditorType /\ e.open = ce.open /\ e.text = ce.text /\ e.draft = ce.draft /\ e.live = ce.live
      /\ e.saved = ce.saved /\ e.heap = [ce.heap EXCEPT ![ce.draft] = c]
  BY <1>1, <1>5 DEF EditorType
<1> HIDE DEF e
<1>7. /\ d \in EditorType /\ d.open = ce.open /\ d.text = ce.text /\ d.draft = ce.draft /\ d.live = ce.live
      /\ d.saved = ce.saved /\ (d.dirty <=> Draft(e) # ce.saved) /\ d.heap = [ce.heap EXCEPT ![ce.draft] = c]
  BY ONLY <1>2, <1>6, NotifiedIs
<1>8. ce.draft \in Objects /\ ce.live \in Objects /\ ce.heap \in [Objects -> Configs]
  BY <1>1 DEF EditorType
<1>9. Draft(e) = c /\ Draft(d) = c
  BY <1>6, <1>7, <1>8 DEF Draft
<1> HIDE DEF d
<1>10. Live(d).auto = Live(ce).auto /\ (ce.draft # ce.live => Live(d) = Live(ce))
  BY <1>5, <1>7, <1>8 DEF Live, Draft
<1>11. \A i \in DOMAIN ceSaves : ceSaves[i].obj \in Objects
  BY <1>1, UsedAreObjects
<1>12. \A i \in DOMAIN ceSaves :
         /\ CeKept(i)'.auto = CeKept(i).auto
         /\ ceSaves[i].obj # ce.draft => CeKept(i)' = CeKept(i)
  BY <1>2, <1>3, <1>5, <1>7, <1>8, <1>11 DEF CeKept, Draft
<1>13. /\ FormSaves # {} => "slipped" \in ceOdd'
       /\ ce.draft = ce.live => "leaked" \in ceOdd'
       /\ ceOdd \subseteq ceOdd' /\ ceOdd' \subseteq ceOdd \cup {"slipped", "leaked"}
  BY <1>2, AstrayIs
<1>14. ASSUME CeWithout({"overlap", "leaked"})', NEW i \in DOMAIN ceSaves,
              CeFormSave(i) => "slipped" \notin ceOdd'
       PROVE  CeKept(i)' = CeKept(i)
  <2>1. ~CeFormSave(i)
    BY <1>13, <1>14 DEF CeFormSave, FormSaves
  <2>2. CeWithout({"overlap"}) /\ ce.draft # ce.live
    BY <1>13, <1>14 DEF CeWithout
  <2>3. ceSaves[i].obj = ce.live
    BY <1>1, <2>1, <2>2 DEF CeOneAtATime
  <2> QED BY <1>12, <2>2, <2>3
<1>15. CeTyped'
  BY <1>1, <1>2, <1>3, <1>4, <1>7, <1>13 DEF CeTyped
<1>16. CeDrafts'
  BY <1>2, <1>3, <1>7, <1>9 DEF CeDrafts
<1>17. CeWithout({"overlap", "leaked", "slipped", "discarded", "broken"})' =>
           /\ FormSaves = {}
           /\ Draft(ce).maps \cup Draft(ce).form = 1 .. ceCount.edits =>
                Draft(ce').maps \cup Draft(ce').form = 1 .. ceCount'.edits
  BY <1>3, <1>4, <1>5, <1>9, <1>13 DEF CeWithout
<1> QED BY <1>2, <1>3, <1>4, <1>7, <1>10, <1>12, <1>13, <1>14, <1>15, <1>16, <1>17, EditorKeeps

LEMMA TypeTextKeeps == ASSUME CeInv, NEW parses \in BOOLEAN, TypeText(parses) PROVE CeInv'
<1> DEFINE typed == [ce.text.cfg EXCEPT !.form = @ \cup {NextEdit}]
<1>1. CeTyped /\ ce \in EditorType /\ ceSaves \in SavesType /\ CeDrafts
  BY DEF CeInv, CeTyped
<1>2. /\ CountEdit /\ ce.open /\ ce.text.at # "closed"
      /\ UNCHANGED <<ceServer, ceSaves, ceLoads, ceTimer>>
  BY DEF TypeText
<1>3. /\ ceCount' \in [edits : 0 .. CeMaxEdits, autos : 0 .. CeMaxChanges, ops : Nat]
      /\ ceCount'.edits = NextEdit /\ ceCount'.autos = ceCount.autos /\ NextEdit \in 1 .. CeMaxEdits
      /\ 1 .. ceCount'.edits = (1 .. ceCount.edits) \cup {NextEdit}
  BY <1>1, <1>2, CountEditIs
<1>4. typed \in Configs /\ typed.maps \cup typed.form = ce.text.cfg.maps \cup ce.text.cfg.form \cup {NextEdit}
  BY <1>1, <1>3 DEF EditorType, Configs
<1>5. CASE parses
  <2> DEFINE e == [ce EXCEPT !.text = [at |-> "valid", cfg |-> typed]]
             d == TextTaken(e, ceSaves)
  <2>1. ce' = Swept(d, ceSaves) /\ ceOdd' = ceOdd \cup (Astray(ce) \ {"leaked"})
    BY <1>5 DEF TypeText
  <2> HIDE DEF typed
  <2>2. /\ e \in EditorType /\ e.open = ce.open /\ e.text.at = "valid" /\ e.text.cfg = typed
        /\ e.draft = ce.draft /\ e.live = ce.live /\ e.saved = ce.saved /\ e.heap = ce.heap
    BY <1>1, <1>4 DEF EditorType
  <2> HIDE DEF e
  <2>3. Live(e) = Live(ce) /\ InUse(e, ceSaves) = InUse(ce, ceSaves) /\ ce.live \in InUse(ce, ceSaves)
    BY <1>1, <2>2, UsedAreObjects DEF Live, InUse
  <2>4. /\ d \in EditorType /\ d.open = ce.open /\ d.live = ce.live /\ Live(d) = Live(ce)
        /\ \A o \in InUse(ce, ceSaves) : d.heap[o] = ce.heap[o]
        /\ d.text.at = "valid" /\ d.saved = ce.saved /\ d.draft # ce.live /\ Draft(d) = typed
        /\ d.text.cfg = typed /\ (d.dirty <=> typed # ce.saved)
    BY ONLY <1>1, <2>2, <2>3, TextTakenIs
  <2> HIDE DEF d
  <2>5. /\ ce' \in EditorType /\ ce'.open = d.open /\ ce'.text = d.text /\ ce'.draft = d.draft
        /\ ce'.live = ce.live /\ ce'.saved = d.saved /\ ce'.dirty = d.dirty
        /\ Draft(ce') = Draft(d) /\ Live(ce') = Live(ce)
        /\ \A i \in DOMAIN ceSaves : CeKept(i)' = CeKept(i)
    BY ONLY <1>1, <1>2, <2>1, <2>4, EditorLanded
  <2>6. /\ FormSaves # {} => "slipped" \in ceOdd'
        /\ ceOdd \subseteq ceOdd' /\ ceOdd' \subseteq ceOdd \cup {"slipped"}
    BY <2>1, AstrayIs
  <2>7. CeTyped'
    BY <1>1, <1>2, <1>3, <2>4, <2>5, <2>6 DEF CeTyped
  <2>8. CeDrafts'
    BY <2>4, <2>5 DEF CeDrafts, CeAlike
  <2>9. CeWithout({"overlap", "leaked", "slipped", "discarded", "broken"})' =>
            /\ FormSaves = {}
            /\ Draft(ce).maps \cup Draft(ce).form = 1 .. ceCount.edits =>
                 Draft(ce').maps \cup Draft(ce').form = 1 .. ceCount'.edits
    <3> SUFFICES ASSUME CeWithout({"overlap", "leaked", "slipped", "discarded", "broken"})'
                 PROVE  /\ FormSaves = {}
                        /\ Draft(ce').maps \cup Draft(ce').form =
                             Draft(ce).maps \cup Draft(ce).form \cup {NextEdit}
      BY <1>3
    <3>1. FormSaves = {} /\ "broken" \notin ceOdd
      BY <2>6 DEF CeWithout
    <3>2. ce.text.at = "valid"
      BY <1>1, <1>2, <3>1 DEF CeDrafts, EditorType
    <3>3. ce.text.cfg.maps = Draft(ce).maps /\ ce.text.cfg.form = Draft(ce).form
      BY <1>1, <3>2 DEF CeDrafts, CeAlike
    <3> QED BY <1>4, <2>4, <2>5, <3>1, <3>3
  <2> QED BY <1>2, <1>3, <2>4, <2>5, <2>6, <2>7, <2>8, <2>9, EditorKeeps
<1>6. CASE ~parses
  <2>1. ce' = [ce EXCEPT !.text = [at |-> "broken", cfg |-> typed]] /\ ceOdd' = ceOdd \cup {"broken"}
    BY <1>6 DEF TypeText
  <2> HIDE DEF typed
  <2>2. /\ ce' \in EditorType /\ ce'.open = ce.open /\ ce'.text.at = "broken" /\ ce'.draft = ce.draft
        /\ ce'.live = ce.live /\ ce'.saved = ce.saved /\ ce'.dirty = ce.dirty /\ ce'.heap = ce.heap
    BY <1>1, <1>4, <2>1 DEF EditorType
  <2>3. Draft(ce') = Draft(ce) /\ Live(ce') = Live(ce) /\ \A i \in DOMAIN ceSaves : CeKept(i)' = CeKept(i)
    BY <1>2, <2>2 DEF Draft, Live, CeKept
  <2>4. CeTyped'
    BY <1>1, <1>2, <1>3, <2>1, <2>2 DEF CeTyped
  <2>5. CeDrafts'
    BY <1>1, <2>1, <2>2, <2>3 DEF CeDrafts
  <2>6. ~CeWithout({"overlap", "leaked", "slipped", "discarded", "broken"})'
    BY <2>1 DEF CeWithout
  <2> QED BY <1>2, <1>3, <2>1, <2>2, <2>3, <2>4, <2>5, <2>6, EditorKeeps DEF CeAlike
<1> QED BY <1>5, <1>6

-----------------------------------------------------------------------------
(* The panel, and saving *)

LEMMA PanelChangeKeeps == CeInv /\ PanelChange => CeInv'
<1> SUFFICES ASSUME CeInv, PanelChange PROVE CeInv'
  OBVIOUS
<1> DEFINE c == [Live(ce) EXCEPT !.auto = @ \cup {ceCount.autos + 1}]
<1>1. CeTyped /\ ce \in EditorType /\ ceSaves \in SavesType /\ CeDrafts
  BY DEF CeInv, CeTyped
<1>2. /\ ceTimer' = TRUE /\ ceCount.autos < CeMaxChanges
      /\ ceCount' = [ceCount EXCEPT !.autos = ceCount.autos + 1]
      /\ ceOdd' = ceOdd \cup (IF FormSaves # {} \/ ceLoads # <<>> THEN {"dropped"} ELSE {})
      /\ UNCHANGED <<ceServer, ceSaves, ceLoads>>
  BY DEF PanelChange
<1>3. ce' = [ce EXCEPT !.heap[ce.live] = c]
  <2>1. [ce EXCEPT !.heap[ce.live].auto = @ \cup {ceCount.autos + 1}] = [ce EXCEPT !.heap[ce.live] = c]
    BY <1>1 DEF EditorType, Live
  <2> QED BY <2>1 DEF PanelChange
<1>4. /\ ceCount' \in [edits : 0 .. CeMaxEdits, autos : 0 .. CeMaxChanges, ops : Nat]
      /\ ceCount'.edits = ceCount.edits /\ ceCount'.autos = ceCount.autos + 1
      /\ ceCount.autos + 1 \in 1 .. CeMaxChanges
      /\ 1 .. ceCount'.autos = (1 .. ceCount.autos) \cup {ceCount.autos + 1}
  <2>1. ceCount.autos + 1 \in 1 .. CeMaxChanges /\ ceCount.autos + 1 \in 0 .. CeMaxChanges /\ ceCount.autos \in Nat
    BY <1>1, <1>2, ConfigEditorAssumption DEF CeTyped
  <2>2. /\ ceCount' \in [edits : 0 .. CeMaxEdits, autos : 0 .. CeMaxChanges, ops : Nat]
        /\ ceCount'.edits = ceCount.edits /\ ceCount'.autos = ceCount.autos + 1
    BY <1>1, <1>2, <2>1 DEF CeTyped
  <2> QED BY <2>1, <2>2, NumberedNext
<1>5. c \in Configs /\ c.auto = Live(ce).auto \cup {ceCount.autos + 1} /\ CeAlike(c, Live(ce))
  <2>1. Live(ce) \in Configs
    BY <1>1 DEF EditorType, Live
  <2> QED BY <1>4, <2>1 DEF Configs, CeAlike
<1> HIDE DEF c
<1>6. /\ ce' \in EditorType /\ ce'.open = ce.open /\ ce'.text = ce.text /\ ce'.draft = ce.draft
      /\ ce'.live = ce.live /\ ce'.saved = ce.saved /\ ce'.dirty = ce.dirty
      /\ ce'.heap = [ce.heap EXCEPT ![ce.live] = c]
  BY <1>1, <1>3, <1>5 DEF EditorType
<1>7. ce.draft \in Objects /\ ce.live \in Objects /\ ce.heap \in [Objects -> Configs]
  BY <1>1 DEF EditorType
<1>8. Live(ce') = c /\ CeAlike(Live(ce'), Live(ce))
  BY <1>5, <1>6, <1>7 DEF Live
<1>9. CeAlike(Draft(ce'), Draft(ce)) /\ (ce.draft # ce.live => Draft(ce') = Draft(ce))
  BY <1>5, <1>6, <1>7 DEF Live, Draft, CeAlike
<1>10. \A i \in DOMAIN ceSaves : ceSaves[i].obj \in Objects
  BY <1>1, UsedAreObjects
<1>11. \A i \in DOMAIN ceSaves :
         /\ CeAlike(CeKept(i)', CeKept(i))
         /\ ceSaves[i].obj = ce.live => CeKept(i)' = c
  BY <1>2, <1>5, <1>6, <1>7, <1>10 DEF CeKept, Live, CeAlike
<1>12. ceOdd \subseteq ceOdd' /\ ceOdd' \subseteq ceOdd \cup {"dropped"}
  BY <1>2
<1>13. \A X : CeWithout(X)' => CeWithout(X)
  BY <1>12 DEF CeWithout
<1>14. FormSaves' = FormSaves /\ FormSaves = {i \in DOMAIN ceSaves : CeFormSave(i)}
       /\ \A i \in DOMAIN ceSaves : CeFormSave(i)' <=> CeFormSave(i)
  BY <1>2 DEF FormSaves, CeFormSave
<1>15. CeTyped'
  BY <1>1, <1>2, <1>4, <1>6, <1>12 DEF CeTyped
<1>16. CeDrafts'
  BY <1>1, <1>6, <1>9, <1>12 DEF CeDrafts, CeAlike
<1>17. CeOneAtATime'
  BY <1>2, <1>6, <1>13, <1>14 DEF CeInv, CeOneAtATime
<1>18. CeSentIsKept'
  BY <1>2, <1>11, <1>13, <1>14 DEF CeInv, CeSentIsKept, CeAlike
<1>19. CeRuns'
  BY <1>2, <1>8, <1>13, <1>14 DEF CeInv, CeRuns, CeAlike
<1>20. CeApart'
  BY <1>2, <1>6, <1>13 DEF CeInv, CeApart
<1>21. CeMarks'
  <2> SUFFICES ASSUME CeWithout({"overlap", "leaked", "failed", "slipped"})'
               PROVE  /\ FormSaves = {} => CeAlike(Live(ce'), ceServer) /\ CeAlike(ce.saved, ceServer)
                      /\ ce.dirty => \A i \in FormSaves : CeAlike(Draft(ce'), CeKept(i)')
    BY <1>2, <1>6, <1>14 DEF CeMarks
  <2>1. /\ FormSaves = {} => CeAlike(Live(ce), ceServer) /\ CeAlike(ce.saved, ceServer)
        /\ ce.dirty => \A i \in FormSaves : CeAlike(Draft(ce), CeKept(i))
    BY <1>13 DEF CeInv, CeMarks
  <2> QED BY <1>8, <1>9, <1>11, <1>14, <2>1 DEF CeAlike
<1>22. CeAutos'
  <2> SUFFICES ASSUME CeWithout({"overlap", "outdated", "dropped", "failed"})'
               PROVE  /\ Live(ce').auto = 1 .. ceCount'.autos
                      /\ \A i \in DOMAIN ceSaves : CeKept(i)'.auto = 1 .. ceCount'.autos /\ ~CeFormSave(i)
                      /\ ceLoads = <<>>
    BY <1>2, <1>14 DEF CeAutos
  <2>1. FormSaves = {} /\ ceLoads = <<>>
    BY <1>2 DEF CeWithout
  <2>2. CeWithout({"overlap"})
    BY <1>13 DEF CeWithout
  <2>3. \A i \in DOMAIN ceSaves : ~CeFormSave(i) /\ ceSaves[i].obj = ce.live
    BY <1>14, <2>1, <2>2 DEF CeInv, CeOneAtATime
  <2>4. Live(ce).auto = 1 .. ceCount.autos
    BY <1>13 DEF CeInv, CeAutos
  <2> QED BY <1>4, <1>5, <1>8, <1>11, <2>1, <2>3, <2>4
<1>23. CeEdits'
  <2> SUFFICES ASSUME CeWithout({"overlap", "leaked", "slipped", "discarded", "broken"})'
               PROVE  /\ CeAlike(ce.saved, Live(ce'))
                      /\ Draft(ce').maps \cup Draft(ce').form = 1 .. ceCount.edits
                      /\ \A i \in FormSaves : CeAlike(Draft(ce'), CeKept(i)')
                      /\ ceLoads # <<>> => CeAlike(ceServer, Live(ce'))
    BY <1>2, <1>4, <1>6, <1>14 DEF CeEdits
  <2>1. /\ CeAlike(ce.saved, Live(ce))
        /\ Draft(ce).maps \cup Draft(ce).form = 1 .. ceCount.edits
        /\ \A i \in FormSaves : CeAlike(Draft(ce), CeKept(i))
        /\ ceLoads # <<>> => CeAlike(ceServer, Live(ce))
    BY <1>13 DEF CeInv, CeEdits
  <2> QED BY <1>8, <1>9, <1>11, <1>14, <2>1 DEF CeAlike
<1> QED BY <1>15, <1>16, <1>17, <1>18, <1>19, <1>20, <1>21, <1>22, <1>23 DEF CeInv

\* While saves and loads do not overlap, the one under way is alone.
LEMMA SaveAlone ==
    ASSUME CeTyped, CeOneAtATime, CeWithout({"overlap"})
    PROVE  /\ \A i \in DOMAIN ceSaves : i = 1 /\ Len(ceSaves) = 1 /\ DOMAIN ceSaves = {1} /\ ceLoads = <<>>
           /\ \A i \in DOMAIN ceLoads : i = 1 /\ Len(ceLoads) = 1 /\ DOMAIN ceLoads = {1} /\ ceSaves = <<>>
<1>1. ceSaves \in Seq(SaveType) /\ ceLoads \in Seq(Configs \cup {Unread}) /\ Len(ceSaves) + Len(ceLoads) <= 1
  BY DEF CeTyped, SavesType, CeOneAtATime
<1>2. /\ DOMAIN ceSaves = 1 .. Len(ceSaves) /\ Len(ceSaves) \in Nat
      /\ DOMAIN ceLoads = 1 .. Len(ceLoads) /\ Len(ceLoads) \in Nat
      /\ (Len(ceSaves) = 0 => ceSaves = <<>>) /\ (Len(ceLoads) = 0 => ceLoads = <<>>)
  BY <1>1
<1> QED BY <1>1, <1>2

\* A save that begins, of a draft or of what runs.
LEMMA SaveBeginsKeeps ==
    ASSUME CeInv, CeTyped', NEW who \in {"form", "panel"}, UNCHANGED <<ce, ceServer, ceLoads>>,
           LET obj == IF who = "form" THEN ce.draft ELSE ce.live
           IN  ceSaves' = SaveBegun(who, obj),
           ceCount'.edits = ceCount.edits, ceCount'.autos = ceCount.autos,
           ceOdd \subseteq ceOdd', Overlap \subseteq ceOdd',
           who = "form" /\ "outdated" \notin ceOdd' => Draft(ce).auto = Live(ce).auto
    PROVE  CeInv'
<1> DEFINE obj == IF who = "form" THEN ce.draft ELSE ce.live
           s == [who |-> who, obj |-> obj, step |-> "maps", stored |-> FALSE, body |-> ce.heap[obj]]
<1>1. \A X : CeWithout(X)' => CeWithout(X)
  BY DEF CeWithout
<1>2. ceSaves' = Append(ceSaves, s)
  BY DEF SaveBegun
<1>3. CeWithout({"overlap"})' => ceSaves = <<>> /\ ceLoads = <<>>
  BY DEF Overlap, CeWithout
<1>4. /\ s.who = who /\ s.obj = obj /\ s.step = "maps" /\ s.stored = FALSE /\ s.body = ce.heap[obj]
      /\ ce.heap[obj] = IF who = "form" THEN Draft(ce) ELSE Live(ce)
  BY DEF Draft, Live
<1> HIDE DEF s
<1>5. ASSUME CeWithout({"overlap"})'
      PROVE  /\ ceSaves = <<>> /\ ceLoads = <<>> /\ ceSaves' # <<>> /\ Len(ceSaves') = 1
             /\ DOMAIN ceSaves' = {1} /\ ceSaves'[1] = s /\ ceLoads' = <<>>
             /\ FormSaves = {} /\ FormSaves' = (IF who = "form" THEN {1} ELSE {})
             /\ CeFormSave(1)' <=> who = "form"
             /\ CeKept(1)' = ce.heap[obj]
  <2>1. ceSaves = <<>> /\ ceLoads = <<>> /\ ceSaves' = <<s>>
    BY <1>2, <1>3, <1>5
  <2>2. DOMAIN ceSaves' = {1} /\ ceSaves'[1] = s /\ Len(ceSaves') = 1 /\ ceSaves' # <<>>
    BY <2>1
  <2> QED BY <1>4, <2>1, <2>2 DEF FormSaves, CeFormSave, CeKept
<1> HIDE DEF obj
<1>6. CeDrafts' /\ CeOneAtATime'
  <2>1. CeDrafts'
    BY DEF CeInv, CeDrafts
  <2>2. ASSUME CeWithout({"overlap"})' PROVE Len(ceLoads') = 0 /\ DOMAIN ceLoads' = {}
    BY <1>5, <2>2
  <2>3. ~CeFormSave(1)' /\ CeWithout({"overlap"})' => ceSaves'[1].obj = ce'.live
    BY <1>4, <1>5 DEF obj
  <2>4. CeWithout({"overlap"})' => Len(ceSaves') + Len(ceLoads') <= 1
    <3> SUFFICES ASSUME CeWithout({"overlap"})' PROVE Len(ceSaves') + Len(ceLoads') <= 1
      OBVIOUS
    <3>1. Len(ceSaves') = 1
      BY <1>5
    <3>2. Len(ceLoads') = 0
      BY <2>2
    <3> QED BY ONLY <3>1, <3>2
  <2>5. CeOneAtATime'
    BY ONLY <1>5, <2>2, <2>3, <2>4 DEF CeOneAtATime
  <2> QED BY <2>1, <2>5
<1>7. CeSentIsKept'
  <2>1. CeWithout({"overlap", "leaked"})' => CeWithout({"overlap"})'
    BY DEF CeWithout
  <2> QED BY <1>4, <1>5, <2>1 DEF CeSentIsKept
<1>8. CeRuns'
  <2> SUFFICES ASSUME CeWithout({"overlap", "leaked", "failed"})', FormSaves' = {} PROVE CeAlike(Live(ce), ceServer)
    <3>1. CeWithout({"overlap", "leaked", "failed"})' => CeWithout({"overlap"})'
      BY DEF CeWithout
    <3> QED BY <1>4, <1>5, <3>1 DEF CeRuns
  <2>1. CeWithout({"overlap"})'
    BY DEF CeWithout
  <2> QED BY <1>1, <1>5, <2>1 DEF CeInv, CeRuns
<1>9. CeApart'
  BY <1>1 DEF CeInv, CeApart
<1>10. CeMarks'
  <2> SUFFICES ASSUME CeWithout({"overlap", "leaked", "failed", "slipped"})'
               PROVE  /\ CeAlike(Live(ce), ceServer) /\ CeAlike(ce.saved, ceServer)
                      /\ \A i \in FormSaves' : CeAlike(Draft(ce), CeKept(i)')
    BY DEF CeMarks
  <2>1. CeWithout({"overlap"})'
    BY DEF CeWithout
  <2> QED BY <1>1, <1>4, <1>5, <2>1 DEF CeInv, CeMarks, CeAlike
<1>11. CeAutos'
  <2> SUFFICES ASSUME CeWithout({"overlap", "outdated", "dropped", "failed"})'
               PROVE  /\ Live(ce).auto = 1 .. ceCount.autos
                      /\ DOMAIN ceSaves' = {1} /\ CeKept(1)'.auto = 1 .. ceCount.autos /\ ceSaves'[1].step = "maps"
                      /\ ceSaves' # <<>>
    BY DEF CeAutos
  <2>1. CeWithout({"overlap"})' /\ "outdated" \notin ceOdd'
    BY DEF CeWithout
  <2>2. Live(ce).auto = 1 .. ceCount.autos
    BY <1>1 DEF CeInv, CeAutos
  <2> QED BY <1>4, <1>5, <2>1, <2>2
<1>12. CeEdits'
  <2> SUFFICES ASSUME CeWithout({"overlap", "leaked", "slipped", "discarded", "broken"})'
               PROVE  /\ CeAlike(ce.saved, Live(ce))
                      /\ Draft(ce).maps \cup Draft(ce).form = 1 .. ceCount.edits
                      /\ \A i \in FormSaves' : CeAlike(Draft(ce), CeKept(i)')
                      /\ ceLoads # <<>> => CeAlike(ceServer, Live(ce))
    BY DEF CeEdits
  <2>1. CeWithout({"overlap"})'
    BY DEF CeWithout
  <2> QED BY <1>1, <1>4, <1>5, <2>1 DEF CeInv, CeEdits, CeAlike
<1> QED BY <1>6, <1>7, <1>8, <1>9, <1>10, <1>11, <1>12 DEF CeInv

\* A save that begins has its types.
LEMMA BegunIsTyped ==
    ASSUME CeTyped, Len(ceSaves) < 2, NEW who \in {"form", "panel"}, NEW obj \in Objects
    PROVE  SaveBegun(who, obj) \in SavesType
<1> DEFINE s == [who |-> who, obj |-> obj, step |-> "maps", stored |-> FALSE, body |-> ce.heap[obj]]
<1>1. s \in SaveType
  BY DEF CeTyped, EditorType, SaveType
<1>2. SaveBegun(who, obj) = Append(ceSaves, s) /\ ceSaves \in Seq(SaveType)
  BY DEF SaveBegun, CeTyped, SavesType
<1> HIDE DEF s
<1> QED BY <1>1, <1>2 DEF SavesType

\* A save that begins: the operator's and the timer's.
LEMMA SaveApplyKeeps == CeInv /\ SaveApply => CeInv'
<1> SUFFICES ASSUME CeInv, SaveApply PROVE CeInv'
  OBVIOUS
<1>1. /\ Click /\ ce.open /\ Len(ceSaves) < 2 /\ ceSaves' = SaveBegun("form", ce.draft)
      /\ ceOdd' = ceOdd \cup Overlap
                  \cup (IF Draft(ce).auto # Live(ce).auto THEN {"outdated"} ELSE {})
      /\ UNCHANGED <<ce, ceServer, ceLoads, ceTimer>>
  BY DEF SaveApply
<1>2. CeTyped
  BY DEF CeInv
<1>3. ceSaves' \in SavesType
  BY <1>1, <1>2, BegunIsTyped DEF CeTyped, EditorType
<1>4. Overlap \subseteq {"overlap"}
  BY DEF Overlap
<1>5. CeTyped' /\ ceCount'.edits = ceCount.edits /\ ceCount'.autos = ceCount.autos
  BY <1>1, <1>2, <1>3, <1>4, ClickIs DEF CeTyped
<1> QED BY <1>1, <1>5, SaveBeginsKeeps

LEMMA AutoSaveKeeps == CeInv /\ AutoSave => CeInv'
<1> SUFFICES ASSUME CeInv, AutoSave PROVE CeInv'
  OBVIOUS
<1>1. /\ Len(ceSaves) < 2 /\ ceTimer' = FALSE /\ ceSaves' = SaveBegun("panel", ce.live)
      /\ ceOdd' = ceOdd \cup Overlap
      /\ UNCHANGED <<ce, ceServer, ceLoads, ceCount>>
  BY DEF AutoSave
<1>2. CeTyped
  BY DEF CeInv
<1>3. ceSaves' \in SavesType
  BY <1>1, <1>2, BegunIsTyped DEF CeTyped, EditorType
<1>4. Overlap \subseteq {"overlap"}
  BY DEF Overlap
<1>5. CeTyped'
  BY <1>1, <1>2, <1>3, <1>4 DEF CeTyped
<1> QED BY <1>1, <1>5, SaveBeginsKeeps

\* One save moves on: another body, or stored.
LEMMA SaveMoved ==
    ASSUME CeTyped, NEW i \in DOMAIN ceSaves, NEW t \in SaveType, t.who = ceSaves[i].who, t.obj = ceSaves[i].obj,
           ceSaves' = [ceSaves EXCEPT ![i] = t], UNCHANGED ce
    PROVE  /\ ceSaves' \in SavesType /\ DOMAIN ceSaves' = DOMAIN ceSaves /\ Len(ceSaves') = Len(ceSaves)
           /\ ceSaves'[i] = t /\ ceSaves' # <<>>
           /\ FormSaves' = FormSaves
           /\ \A j \in DOMAIN ceSaves : /\ (CeFormSave(j)' <=> CeFormSave(j)) /\ CeKept(j)' = CeKept(j)
                                        /\ ceSaves'[j].obj = ceSaves[j].obj
<1>1. ceSaves \in Seq(SaveType) /\ Len(ceSaves) <= 2
  BY DEF CeTyped, SavesType
<1>2. /\ ceSaves' \in Seq(SaveType) /\ DOMAIN ceSaves' = DOMAIN ceSaves /\ Len(ceSaves') = Len(ceSaves)
      /\ \A j \in DOMAIN ceSaves : ceSaves'[j] = IF j = i THEN t ELSE ceSaves[j]
  BY <1>1
<1>3. \A j \in DOMAIN ceSaves : ceSaves'[j].who = ceSaves[j].who /\ ceSaves'[j].obj = ceSaves[j].obj
  BY <1>2
<1>4. ceSaves' # <<>>
  BY <1>1, <1>2
<1> QED BY <1>1, <1>2, <1>3, <1>4 DEF SavesType, FormSaves, CeFormSave, CeKept

\* The halves of a save: stored, and the other one sent.
LEMMA ServerStoresKeeps == ASSUME CeInv, NEW i \in DOMAIN ceSaves, ServerStores(i) PROVE CeInv'
<1> DEFINE t == [ceSaves[i] EXCEPT !.stored = TRUE]
           s == ceSaves[i]
<1>1. CeTyped /\ CeOneAtATime /\ s \in SaveType
  BY DEF CeInv, CeTyped, SavesType
<1>2. /\ ceSaves' = [ceSaves EXCEPT ![i] = t]
      /\ ceServer' = IF s.step = "maps" THEN [ceServer EXCEPT !.maps = s.body.maps]
                     ELSE [s.body EXCEPT !.maps = ceServer.maps]
      /\ UNCHANGED <<ce, ceLoads, ceTimer, ceCount, ceOdd>>
  <2>1. [ceSaves EXCEPT ![i].stored = TRUE] = [ceSaves EXCEPT ![i] = t]
    BY <1>1 DEF CeTyped, SavesType
  <2> QED BY <2>1 DEF ServerStores
<1>3. /\ t \in SaveType /\ t.who = s.who /\ t.obj = s.obj /\ t.step = s.step /\ t.body = s.body /\ t.stored
  BY <1>1 DEF SaveType
<1> HIDE DEF t
<1>4. /\ ceSaves' \in SavesType /\ DOMAIN ceSaves' = DOMAIN ceSaves /\ Len(ceSaves') = Len(ceSaves)
      /\ ceSaves'[i] = t /\ ceSaves' # <<>>
      /\ FormSaves' = FormSaves
      /\ \A j \in DOMAIN ceSaves : /\ (CeFormSave(j)' <=> CeFormSave(j)) /\ CeKept(j)' = CeKept(j)
                                   /\ ceSaves'[j].obj = ceSaves[j].obj
  BY <1>1, <1>2, <1>3, SaveMoved
<1>5. s.body \in Configs /\ ceServer \in Configs /\ s.step \in {"maps", "rest"}
  BY <1>1 DEF SaveType, CeTyped
<1>6. ceServer' \in Configs
  BY <1>2, <1>5 DEF Configs
<1>7. /\ s.step = "maps" => /\ ceServer'.maps = s.body.maps /\ ceServer'.form = ceServer.form
      /\ s.step = "rest" => /\ ceServer'.maps = ceServer.maps /\ ceServer'.form = s.body.form
                            /\ ceServer'.auto = s.body.auto
                            /\ s.body.maps = ceServer.maps => ceServer' = s.body
  BY <1>2, <1>5 DEF Configs
<1>8. \A X : CeWithout(X)' <=> CeWithout(X)
  BY <1>2 DEF CeWithout
<1>9. CeWithout({"overlap"}) => /\ i = 1 /\ Len(ceSaves) = 1 /\ DOMAIN ceSaves = {1} /\ ceLoads = <<>>
                              /\ DOMAIN ceLoads = {}
  BY <1>1, SaveAlone
<1>10. CeTyped'
  BY <1>1, <1>2, <1>4, <1>6 DEF CeTyped
<1>11. CeDrafts'
  BY <1>2 DEF CeInv, CeDrafts
<1>12. CeOneAtATime'
  BY <1>1, <1>2, <1>4, <1>8, <1>9 DEF CeOneAtATime
<1>13. ASSUME CeWithout({"overlap", "leaked"}), CeFormSave(i) => CeWithout({"slipped"})
       PROVE  /\ s.step = "maps" => ceServer'.maps = CeKept(i).maps
              /\ s.step = "rest" => CeAlike(s.body, CeKept(i)) /\ CeAlike(ceServer', CeKept(i)) /\ ceServer.maps = CeKept(i).maps
  BY <1>7, <1>13 DEF CeInv, CeSentIsKept, CeAlike
<1>14. CeSentIsKept'
  <2> SUFFICES ASSUME CeWithout({"overlap", "leaked"})', CeFormSave(1)' => CeWithout({"slipped"})',
                      i = 1, DOMAIN ceSaves = {1}
               PROVE  /\ t.step = "maps" => t.body.maps = CeKept(1)'.maps /\ ceServer'.maps = CeKept(1)'.maps
                      /\ t.step = "rest" => /\ ceServer'.maps = CeKept(1)'.maps
                                            /\ CeAlike(t.body, CeKept(1)') /\ CeAlike(ceServer', CeKept(1)')
    <3>1. CeWithout({"overlap", "leaked"})' => i = 1 /\ DOMAIN ceSaves = {1}
      BY <1>8, <1>9 DEF CeWithout
    <3> QED BY <1>4, <3>1 DEF CeSentIsKept
  <2>1. CeWithout({"overlap", "leaked"}) /\ (CeFormSave(i) => CeWithout({"slipped"}))
    BY <1>4, <1>8
  <2>2. s.step = "maps" => s.body.maps = CeKept(i).maps
    BY <2>1 DEF CeInv, CeSentIsKept
  <2> QED BY <1>3, <1>4, <1>13, <2>1, <2>2 DEF CeAlike
<1>15. CeRuns'
  <2> SUFFICES ASSUME CeWithout({"overlap", "leaked", "failed"}), FormSaves = {}
               PROVE  /\ CeAlike(Live(ce), ceServer')
                      /\ ~ceTimer /\ t.step = "rest" => t.body = Live(ce) /\ ceServer' = Live(ce)
    <3>1. CeWithout({"overlap", "leaked", "failed"}) => i = 1 /\ DOMAIN ceSaves = {1}
      BY <1>9 DEF CeWithout
    <3> QED BY <1>2, <1>4, <1>8, <3>1 DEF CeRuns
  <2>1. CeWithout({"overlap"}) /\ CeWithout({"overlap", "leaked"}) /\ ~CeFormSave(i)
    BY DEF CeWithout, FormSaves, CeFormSave
  <2>2. CeKept(i) = Live(ce)
    BY <1>1, <2>1 DEF CeOneAtATime, CeKept, Live
  <2>3. /\ CeAlike(Live(ce), ceServer)
        /\ ~ceTimer /\ s.step = "rest" => s.body = Live(ce)
    BY <1>9, <2>1 DEF CeInv, CeRuns
  <2>4. CeAlike(Live(ce), ceServer')
    BY <1>5, <1>7, <1>13, <2>1, <2>2, <2>3 DEF CeAlike
  <2>5. ~ceTimer /\ s.step = "rest" => s.body.maps = ceServer.maps
    BY <2>3 DEF CeAlike
  <2> QED BY <1>3, <1>7, <2>3, <2>4, <2>5
<1>16. CeApart'
  BY <1>2, <1>8 DEF CeInv, CeApart
<1>17. CeMarks'
  <2> SUFFICES ASSUME CeWithout({"overlap", "leaked", "failed", "slipped"})
               PROVE  /\ FormSaves = {} => CeAlike(Live(ce), ceServer') /\ CeAlike(ce.saved, ceServer')
                      /\ ce.dirty => \A j \in FormSaves : CeAlike(Draft(ce), CeKept(j)')
    BY <1>2, <1>4, <1>8 DEF CeMarks
  <2>1. /\ FormSaves = {} => CeAlike(Live(ce), ceServer) /\ CeAlike(ce.saved, ceServer)
        /\ ce.dirty => \A j \in FormSaves : CeAlike(Draft(ce), CeKept(j))
    BY DEF CeInv, CeMarks
  <2>2. \A j \in FormSaves : j \in DOMAIN ceSaves
    BY DEF FormSaves
  <2>3. ASSUME FormSaves = {} PROVE CeAlike(Live(ce), ceServer')
    <3>1. CeWithout({"overlap"}) /\ CeWithout({"overlap", "leaked"}) /\ ~CeFormSave(i)
      BY <2>3 DEF CeWithout, FormSaves, CeFormSave
    <3>2. CeKept(i) = Live(ce)
      BY <1>1, <3>1 DEF CeOneAtATime, CeKept, Live
    <3> QED BY <1>5, <1>7, <1>13, <2>1, <2>3, <3>1, <3>2 DEF CeAlike
  <2> QED BY <1>4, <2>1, <2>2, <2>3 DEF CeAlike
<1>18. CeAutos'
  <2> SUFFICES ASSUME CeWithout({"overlap", "outdated", "dropped", "failed"})
               PROVE  /\ Live(ce).auto = 1 .. ceCount.autos /\ CeKept(1).auto = 1 .. ceCount.autos
                      /\ t.step = "rest" /\ (CeFormSave(1) \/ ~ceTimer) =>
                           t.body.auto = 1 .. ceCount.autos /\ ceServer'.auto = 1 .. ceCount.autos
    <3>1. CeWithout({"overlap", "outdated", "dropped", "failed"}) => i = 1 /\ DOMAIN ceSaves = {1}
      BY <1>9 DEF CeWithout
    <3> QED BY <1>2, <1>4, <1>8, <3>1 DEF CeAutos
  <2>1. i = 1 /\ DOMAIN ceSaves = {1}
    BY <1>9 DEF CeWithout
  <2>2. /\ Live(ce).auto = 1 .. ceCount.autos /\ CeKept(1).auto = 1 .. ceCount.autos
        /\ s.step = "rest" /\ (CeFormSave(1) \/ ~ceTimer) => s.body.auto = 1 .. ceCount.autos
    BY <2>1 DEF CeInv, CeAutos
  <2> QED BY <1>3, <1>7, <2>1, <2>2
<1>19. CeEdits'
  <2> SUFFICES ASSUME CeWithout({"overlap", "leaked", "slipped", "discarded", "broken"})
               PROVE  /\ CeAlike(ce.saved, Live(ce))
                      /\ Draft(ce).maps \cup Draft(ce).form = 1 .. ceCount.edits
                      /\ \A j \in FormSaves : CeAlike(Draft(ce), CeKept(j)')
                      /\ ceLoads = <<>>
    BY <1>2, <1>4, <1>8 DEF CeEdits
  <2>1. CeWithout({"overlap"})
    BY DEF CeWithout
  <2>2. \A j \in FormSaves : j \in DOMAIN ceSaves
    BY DEF FormSaves
  <2> QED BY <1>4, <1>9, <2>1, <2>2 DEF CeInv, CeEdits
<1> QED BY <1>10, <1>11, <1>12, <1>14, <1>15, <1>16, <1>17, <1>18, <1>19 DEF CeInv

LEMMA SendRestKeeps == ASSUME CeInv, NEW i \in DOMAIN ceSaves, SendRest(i) PROVE CeInv'
<1> DEFINE s == ceSaves[i]
           t == [s EXCEPT !.step = "rest", !.stored = FALSE, !.body = CeKept(i)]
<1>1. CeTyped /\ CeOneAtATime /\ s \in SaveType
  BY DEF CeInv, CeTyped, SavesType
<1>2. /\ s.step = "maps" /\ s.stored /\ ceSaves' = [ceSaves EXCEPT ![i] = t]
      /\ UNCHANGED <<ce, ceServer, ceLoads, ceTimer, ceCount, ceOdd>>
  <2>1. [ceSaves EXCEPT ![i].step = "rest", ![i].stored = FALSE, ![i].body = ce.heap[ceSaves[i].obj]]
            = [ceSaves EXCEPT ![i] = t]
    BY <1>1 DEF CeTyped, SavesType, CeKept
  <2> QED BY <2>1 DEF SendRest
<1>3. CeKept(i) \in Configs
  BY <1>1 DEF CeKept, CeTyped, EditorType, SaveType
<1>4. t \in SaveType /\ t.who = s.who /\ t.obj = s.obj /\ t.step = "rest" /\ t.body = CeKept(i) /\ ~t.stored
  BY <1>1, <1>3 DEF SaveType
<1> HIDE DEF t
<1>5. /\ ceSaves' \in SavesType /\ DOMAIN ceSaves' = DOMAIN ceSaves /\ Len(ceSaves') = Len(ceSaves)
      /\ ceSaves'[i] = t /\ ceSaves' # <<>>
      /\ FormSaves' = FormSaves
      /\ \A j \in DOMAIN ceSaves : /\ (CeFormSave(j)' <=> CeFormSave(j)) /\ CeKept(j)' = CeKept(j)
                                   /\ ceSaves'[j].obj = ceSaves[j].obj
  BY <1>1, <1>2, <1>4, SaveMoved
<1>6. \A X : CeWithout(X)' <=> CeWithout(X)
  BY <1>2 DEF CeWithout
<1>7. CeWithout({"overlap"}) => i = 1 /\ DOMAIN ceSaves = {1} /\ ceLoads = <<>> /\ DOMAIN ceLoads = {}
  BY <1>1, SaveAlone
<1>8. CeTyped'
  BY <1>1, <1>2, <1>5 DEF CeTyped
<1>9. CeDrafts' /\ CeApart'
  BY <1>2, <1>6 DEF CeInv, CeDrafts, CeApart
<1>10. CeOneAtATime'
  BY <1>1, <1>2, <1>5, <1>6, <1>7 DEF CeOneAtATime
<1>11. CeSentIsKept'
  <2> SUFFICES ASSUME CeWithout({"overlap", "leaked"}), CeFormSave(1) => CeWithout({"slipped"}),
                      i = 1, DOMAIN ceSaves = {1}
               PROVE  ceServer.maps = CeKept(1).maps /\ CeAlike(t.body, CeKept(1))
    <3>1. CeWithout({"overlap", "leaked"}) => i = 1 /\ DOMAIN ceSaves = {1}
      BY <1>7 DEF CeWithout
    <3> QED BY <1>2, <1>4, <1>5, <1>6, <3>1 DEF CeSentIsKept
  <2>1. ceServer.maps = CeKept(1).maps
    BY <1>2 DEF CeInv, CeSentIsKept
  <2> QED BY <1>4, <2>1 DEF CeAlike
<1>12. CeRuns'
  <2> SUFFICES ASSUME CeWithout({"overlap", "leaked", "failed"}), FormSaves = {}
               PROVE  CeAlike(Live(ce), ceServer) /\ t.body = Live(ce)
    <3>1. CeWithout({"overlap", "leaked", "failed"}) => i = 1 /\ DOMAIN ceSaves = {1}
      BY <1>7 DEF CeWithout
    <3> QED BY <1>2, <1>4, <1>5, <1>6, <3>1 DEF CeRuns
  <2>1. CeWithout({"overlap"}) /\ ~CeFormSave(i)
    BY DEF CeWithout, FormSaves, CeFormSave
  <2>2. CeKept(i) = Live(ce)
    BY <1>1, <2>1 DEF CeOneAtATime, CeKept, Live
  <2> QED BY <1>4, <1>7, <2>1, <2>2 DEF CeInv, CeRuns
<1>13. CeMarks'
  <2>1. \A j \in FormSaves : j \in DOMAIN ceSaves
    BY DEF FormSaves
  <2> QED BY <1>2, <1>5, <1>6, <2>1 DEF CeInv, CeMarks
<1>14. CeAutos'
  <2> SUFFICES ASSUME CeWithout({"overlap", "outdated", "dropped", "failed"})
               PROVE  /\ Live(ce).auto = 1 .. ceCount.autos /\ CeKept(1).auto = 1 .. ceCount.autos
                      /\ t.body.auto = 1 .. ceCount.autos
    <3>1. CeWithout({"overlap", "outdated", "dropped", "failed"}) => i = 1 /\ DOMAIN ceSaves = {1}
      BY <1>7 DEF CeWithout
    <3> QED BY <1>2, <1>4, <1>5, <1>6, <3>1 DEF CeAutos
  <2>1. i = 1 /\ DOMAIN ceSaves = {1}
    BY <1>7 DEF CeWithout
  <2> QED BY <1>4, <2>1 DEF CeInv, CeAutos
<1>15. CeEdits'
  <2>1. \A j \in FormSaves : j \in DOMAIN ceSaves
    BY DEF FormSaves
  <2> QED BY <1>2, <1>5, <1>6, <2>1 DEF CeInv, CeEdits
<1> QED BY <1>8, <1>9, <1>10, <1>11, <1>12, <1>13, <1>14, <1>15 DEF CeInv

\* A save or a load that is over.
LEMMA SaveEnded ==
    ASSUME CeTyped
    PROVE  /\ \A i \in DOMAIN ceSaves : /\ RemoveAt(ceSaves, i) \in SavesType
                                        /\ InUse(ce, RemoveAt(ceSaves, i)) \subseteq InUse(ce, ceSaves)
           /\ \A i \in DOMAIN ceLoads : RemoveAt(ceLoads, i) \in Seq(Configs \cup {Unread})
<1>1. ceSaves \in Seq(SaveType) /\ Len(ceSaves) <= 2 /\ ceLoads \in Seq(Configs \cup {Unread})
  BY DEF CeTyped, SavesType
<1>2. ASSUME NEW i \in DOMAIN ceSaves
      PROVE  /\ RemoveAt(ceSaves, i) \in SavesType
             /\ InUse(ce, RemoveAt(ceSaves, i)) \subseteq InUse(ce, ceSaves)
  <2> DEFINE r == RemoveAt(ceSaves, i)
  <2>1. /\ r \in Seq(SaveType) /\ Len(r) = Len(ceSaves) - 1 /\ DOMAIN r = 1 .. Len(ceSaves) - 1
        /\ \A j \in 1 .. Len(ceSaves) - 1 : r[j] = IF j < i THEN ceSaves[j] ELSE ceSaves[j + 1]
    BY <1>1, RemoveAtIs
  <2> HIDE DEF r
  <2>2. r \in SavesType
    BY <1>1, <2>1 DEF SavesType
  <2>3. \A j \in DOMAIN r : \E k \in DOMAIN ceSaves : r[j] = ceSaves[k]
    BY <1>1, <2>1
  <2>4. InUse(ce, r) \subseteq InUse(ce, ceSaves)
    BY <2>3 DEF InUse
  <2> QED BY <2>2, <2>4 DEF r
<1>3. ASSUME NEW i \in DOMAIN ceLoads PROVE RemoveAt(ceLoads, i) \in Seq(Configs \cup {Unread})
  BY <1>1, RemoveAtIs
<1> QED BY <1>2, <1>3

\* CeWithout overlaps, when one is over there is none.
LEMMA NoSaveLeft ==
    ASSUME CeTyped, CeOneAtATime, CeWithout({"overlap"})
    PROVE  /\ \A i \in DOMAIN ceSaves : RemoveAt(ceSaves, i) = <<>> /\ ceLoads = <<>>
           /\ \A i \in DOMAIN ceLoads : RemoveAt(ceLoads, i) = <<>> /\ ceSaves = <<>>
<1>1. ceSaves \in Seq(SaveType) /\ ceLoads \in Seq(Configs \cup {Unread})
  BY DEF CeTyped, SavesType
<1> QED BY <1>1, SaveAlone, RemoveAtIs

\* A request that fails leaves what the editor holds.
LEMMA SaveFailureKeeps ==
    ASSUME CeInv, CeTyped', "failed" \in ceOdd', ceOdd \subseteq ceOdd',
           UNCHANGED <<ceServer, ceTimer, ceCount>>,
           Draft(ce') = Draft(ce), Live(ce') = Live(ce), ce'.draft = ce.draft, ce'.live = ce.live,
           ce'.saved = ce.saved, ce'.dirty = ce.dirty, ce'.text = ce.text,
           CeWithout({"overlap"}) => ceSaves' = <<>> /\ ceLoads' = <<>>
    PROVE  CeInv'
<1>1. \A X : CeWithout(X)' => CeWithout(X)
  BY DEF CeWithout
<1>2. ASSUME CeWithout({"overlap"})'
      PROVE  /\ ceSaves' = <<>> /\ ceLoads' = <<>> /\ DOMAIN ceSaves' = {} /\ DOMAIN ceLoads' = {}
             /\ FormSaves' = {} /\ Len(ceSaves') + Len(ceLoads') <= 1
  <2>1. ceSaves' = <<>> /\ ceLoads' = <<>>
    BY <1>1, <1>2
  <2>2. DOMAIN ceSaves' = {} /\ DOMAIN ceLoads' = {} /\ Len(ceSaves') + Len(ceLoads') <= 1
    BY <2>1
  <2> QED BY <2>1, <2>2 DEF FormSaves
<1>3. CeDrafts'
  BY DEF CeInv, CeDrafts
<1>4. CeOneAtATime'
  BY <1>2 DEF CeOneAtATime
<1>5. CeSentIsKept'
  BY <1>2 DEF CeSentIsKept, CeWithout
<1>6. CeRuns' /\ CeApart' /\ CeMarks' /\ CeAutos'
  BY DEF CeRuns, CeApart, CeMarks, CeAutos, CeWithout
<1>7. CeEdits'
  <2> SUFFICES ASSUME CeWithout({"overlap", "leaked", "slipped", "discarded", "broken"})'
               PROVE  /\ CeAlike(ce.saved, Live(ce))
                      /\ Draft(ce).maps \cup Draft(ce).form = 1 .. ceCount.edits
                      /\ FormSaves' = {} /\ ceLoads' = <<>>
    BY DEF CeEdits
  <2>1. CeWithout({"overlap"})'
    BY DEF CeWithout
  <2> QED BY <1>1, <1>2, <2>1 DEF CeInv, CeEdits
<1> QED BY <1>3, <1>4, <1>5, <1>6, <1>7 DEF CeInv

LEMMA SaveFailsKeeps == ASSUME CeInv, NEW i \in DOMAIN ceSaves, SaveFails(i) PROVE CeInv'
<1>1. CeTyped /\ CeOneAtATime /\ ce \in EditorType
  BY DEF CeInv, CeTyped
<1>2. /\ ceSaves' = RemoveAt(ceSaves, i) /\ ce' = Swept(ce, ceSaves') /\ ceOdd' = ceOdd \cup {"failed"}
      /\ UNCHANGED <<ceServer, ceLoads, ceTimer, ceCount>>
  BY DEF SaveFails
<1>3. ceSaves' \in SavesType
  BY <1>1, <1>2, SaveEnded
<1>4. /\ ce' \in EditorType
      /\ ce'.open = ce.open /\ ce'.text = ce.text /\ ce'.draft = ce.draft /\ ce'.live = ce.live
      /\ ce'.saved = ce.saved /\ ce'.dirty = ce.dirty /\ Draft(ce') = Draft(ce) /\ Live(ce') = Live(ce)
  BY ONLY <1>1, <1>2, <1>3, SweptIs
<1>5. CeTyped'
  BY <1>1, <1>2, <1>3, <1>4 DEF CeTyped
<1>6. CeWithout({"overlap"}) => ceSaves' = <<>> /\ ceLoads' = <<>>
  BY <1>1, <1>2, NoSaveLeft
<1> QED BY <1>2, <1>4, <1>5, <1>6, SaveFailureKeeps

\* A load that fails or reads.
LEMMA LoadFailsKeeps == ASSUME CeInv, NEW i \in DOMAIN ceLoads, LoadFails(i) PROVE CeInv'
<1>1. CeTyped /\ CeOneAtATime
  BY DEF CeInv
<1>2. /\ ceLoads' = RemoveAt(ceLoads, i) /\ ceOdd' = ceOdd \cup {"failed"}
      /\ UNCHANGED <<ce, ceServer, ceSaves, ceTimer, ceCount>>
  BY DEF LoadFails
<1>3. CeTyped'
  BY <1>1, <1>2, SaveEnded DEF CeTyped
<1>4. CeWithout({"overlap"}) => ceSaves' = <<>> /\ ceLoads' = <<>>
  BY <1>1, <1>2, NoSaveLeft
<1> QED BY <1>2, <1>3, <1>4, SaveFailureKeeps

LEMMA LoadReadsKeeps == ASSUME CeInv, NEW i \in DOMAIN ceLoads, LoadReads(i) PROVE CeInv'
<1>1. CeTyped /\ CeOneAtATime /\ ceLoads \in Seq(Configs \cup {Unread})
  BY DEF CeInv, CeTyped
<1>2. /\ ceLoads' = [ceLoads EXCEPT ![i] = ceServer]
      /\ UNCHANGED <<ce, ceServer, ceSaves, ceTimer, ceCount, ceOdd>>
  BY DEF LoadReads
<1>3. /\ ceLoads' \in Seq(Configs \cup {Unread}) /\ Len(ceLoads') = Len(ceLoads) /\ DOMAIN ceLoads' = DOMAIN ceLoads
      /\ \A j \in DOMAIN ceLoads : ceLoads'[j] = IF j = i THEN ceServer ELSE ceLoads[j]
  BY <1>1, <1>2 DEF CeTyped
<1>4. ceLoads' # <<>> /\ ceLoads # <<>>
  BY <1>1, <1>3
<1>5. \A X : CeWithout(X)' <=> CeWithout(X)
  BY <1>2 DEF CeWithout
<1>6. FormSaves' = FormSaves /\ \A j \in DOMAIN ceSaves : (CeFormSave(j)' <=> CeFormSave(j)) /\ CeKept(j)' = CeKept(j)
  BY <1>2 DEF FormSaves, CeFormSave, CeKept
<1>7. \A j \in FormSaves : j \in DOMAIN ceSaves
  BY DEF FormSaves
<1>8. CeTyped'
  BY <1>1, <1>2, <1>3 DEF CeTyped
<1>9. CeDrafts' /\ CeOneAtATime'
  BY <1>1, <1>2, <1>3, <1>5, <1>6 DEF CeInv, CeDrafts, CeOneAtATime
<1>10. CeSentIsKept'
  BY <1>2, <1>5, <1>6 DEF CeInv, CeSentIsKept
<1>11. CeRuns' /\ CeApart'
  BY <1>4 DEF CeRuns, CeApart
<1>12. CeMarks' /\ CeAutos' /\ CeEdits'
  BY <1>2, <1>4, <1>5, <1>6, <1>7 DEF CeInv, CeMarks, CeAutos, CeEdits
<1> QED BY <1>8, <1>9, <1>10, <1>11, <1>12 DEF CeInv

\* A save that is done: its object runs, and the draft follows or is marked.
LEMMA SaveDoneKeeps == ASSUME CeInv, NEW i \in DOMAIN ceSaves, SaveDone(i) PROVE CeInv'
<1> DEFINE s == ceSaves[i]
           e == [ce EXCEPT !.live = s.obj]
           heard == Followed(e, ceSaves)
           marked == [heard EXCEPT !.saved = Draft(heard)]
           m == IF s.who = "form" THEN Notified(marked) ELSE heard
           rest == RemoveAt(ceSaves, i)
<1>1. CeTyped /\ CeOneAtATime /\ CeDrafts /\ ce \in EditorType /\ ceSaves \in SavesType /\ s \in SaveType
  BY DEF CeInv, CeTyped, SavesType
<1>2. /\ s.step = "rest" /\ s.stored /\ ceSaves' = rest /\ ce' = Swept(m, rest)
      /\ ceLoads' = IF s.who = "form" THEN Append(ceLoads, Unread) ELSE ceLoads
      /\ UNCHANGED <<ceServer, ceTimer, ceCount, ceOdd>>
  BY DEF SaveDone, MarkSaved
<1>3. rest \in SavesType
  BY <1>1, SaveEnded
<1>4. /\ e \in EditorType /\ e.open = ce.open /\ e.text = ce.text /\ e.draft = ce.draft /\ e.live = s.obj
      /\ e.saved = ce.saved /\ e.dirty = ce.dirty /\ e.heap = ce.heap
  BY <1>1 DEF EditorType, SaveType
<1> HIDE DEF e
<1>5. Draft(e) = Draft(ce) /\ Live(e) = CeKept(i) /\ Live(e) \in Configs /\ s.obj \in InUse(e, ceSaves)
  BY <1>1, <1>4, UsedAreObjects DEF Draft, Live, CeKept, EditorType
<1>6. /\ heard \in EditorType /\ heard.open = ce.open /\ heard.live = s.obj /\ Live(heard) = CeKept(i)
      /\ heard.text.at = ce.text.at
      /\ ce.dirty => heard = e
      /\ ~ce.dirty => /\ heard.draft # s.obj /\ Draft(heard) = CeKept(i) /\ heard.saved = CeKept(i) /\ ~heard.dirty
                      /\ ce.text.at = "valid" => heard.text.cfg = CeKept(i)
  BY ONLY <1>1, <1>4, <1>5, FollowedIs
<1> HIDE DEF heard
<1>7. Draft(heard) = IF ce.dirty THEN Draft(ce) ELSE CeKept(i)
  BY <1>5, <1>6
<1>8. /\ marked \in EditorType /\ marked.open = heard.open /\ marked.text = heard.text
      /\ marked.draft = heard.draft /\ marked.live = heard.live /\ marked.heap = heard.heap
      /\ marked.saved = Draft(heard) /\ Draft(marked) = Draft(heard)
  <2>1. Draft(heard) \in Configs
    BY <1>6 DEF Draft, EditorType
  <2> QED BY <1>6, <2>1 DEF EditorType, Draft
<1> HIDE DEF marked
<1>9. /\ Notified(marked) \in EditorType /\ Notified(marked).open = heard.open
      /\ Notified(marked).draft = heard.draft /\ Notified(marked).live = heard.live
      /\ Draft(Notified(marked)) = Draft(heard) /\ Live(Notified(marked)) = Live(heard)
      /\ Notified(marked).saved = Draft(heard) /\ ~Notified(marked).dirty
      /\ Notified(marked).text.at = heard.text.at
      /\ heard.text.at = "valid" => Notified(marked).text.cfg = Draft(heard)
  <2>1. /\ Notified(marked) \in EditorType
        /\ Notified(marked).open = marked.open /\ Notified(marked).heap = marked.heap
        /\ Notified(marked).draft = marked.draft /\ Notified(marked).live = marked.live
        /\ Notified(marked).saved = marked.saved /\ (Notified(marked).dirty <=> Draft(marked) # marked.saved)
        /\ Notified(marked).text.at = marked.text.at
        /\ marked.text.at = "valid" => Notified(marked).text.cfg = Draft(marked)
    BY ONLY <1>8, NotifiedIs
  <2>2. Draft(Notified(marked)) = Draft(heard) /\ Live(Notified(marked)) = Live(heard)
    BY <1>8, <2>1 DEF Draft, Live
  <2> QED BY ONLY <1>8, <2>1, <2>2
<1>10. /\ m \in EditorType /\ m.open = ce.open /\ m.live = s.obj /\ m.draft = heard.draft
       /\ Live(m) = CeKept(i) /\ Draft(m) = Draft(heard) /\ m.text.at = ce.text.at
       /\ s.who = "form" => /\ m.saved = Draft(heard) /\ ~m.dirty
                            /\ ce.text.at = "valid" => m.text.cfg = Draft(heard)
       /\ s.who # "form" => m.saved = heard.saved /\ m.dirty = heard.dirty /\ m.text = heard.text
  <2>1. CASE s.who = "form"
    BY <1>6, <1>9, <2>1
  <2>2. CASE s.who # "form"
    BY <1>6, <2>2
  <2> QED BY <2>1, <2>2
<1> HIDE DEF m
<1>11. /\ ce' \in EditorType /\ ce'.open = m.open /\ ce'.text = m.text /\ ce'.draft = m.draft /\ ce'.live = m.live
       /\ ce'.saved = m.saved /\ ce'.dirty = m.dirty /\ Draft(ce') = Draft(m) /\ Live(ce') = Live(m)
  BY ONLY <1>2, <1>3, <1>10, SweptIs
<1>12. Live(ce') = CeKept(i) /\ ce'.live = s.obj /\ Draft(ce') = IF ce.dirty THEN Draft(ce) ELSE CeKept(i)
  BY <1>7, <1>10, <1>11
<1>13. s.who = "form" => /\ ce'.saved = Draft(ce') /\ ~ce'.dirty
                         /\ ce'.text.at = "valid" => ce'.text.cfg = Draft(ce')
  BY <1>10, <1>11
<1>14. s.who # "form" /\ ce.dirty =>
         ce'.draft = ce.draft /\ ce'.saved = ce.saved /\ ce'.dirty /\ ce'.text = ce.text
  BY <1>4, <1>6, <1>10, <1>11
<1>15. s.who # "form" /\ ~ce.dirty =>
         /\ ce'.draft # s.obj /\ ce'.saved = CeKept(i) /\ ~ce'.dirty
         /\ ce'.text.at = "valid" => ce'.text.cfg = CeKept(i)
  BY <1>6, <1>10, <1>11
<1>16. CeTyped'
  <2>1. ceLoads' \in Seq(Configs \cup {Unread})
    BY <1>1, <1>2 DEF CeTyped
  <2>2. ce'.text.at # "closed" => ce'.open
    BY <1>1, <1>10, <1>11 DEF CeTyped
  <2> QED BY <1>1, <1>2, <1>3, <1>11, <2>1, <2>2 DEF CeTyped
<1>17. CeDrafts'
  <2>1. ce'.text.at = "broken" => "broken" \in ceOdd'
    BY <1>1, <1>2, <1>10, <1>11 DEF CeDrafts
  <2>2. CASE s.who = "form"
    BY <1>13, <2>2, <2>1 DEF CeDrafts, CeAlike
  <2>3. CASE s.who # "form" /\ ce.dirty
    BY <1>1, <1>12, <1>14, <2>3, <2>1 DEF CeDrafts, CeAlike
  <2>4. CASE s.who # "form" /\ ~ce.dirty
    BY <1>12, <1>15, <2>4, <2>1 DEF CeDrafts, CeAlike
  <2> QED BY <2>2, <2>3, <2>4
<1> HIDE DEF rest
<1>18. \A X : CeWithout(X)' <=> CeWithout(X)
  BY <1>2 DEF CeWithout
<1>19. ASSUME CeWithout({"overlap"})
       PROVE  /\ ceSaves' = <<>> /\ DOMAIN ceSaves' = {} /\ FormSaves' = {} /\ ceLoads = <<>> /\ i = 1
              /\ s.who = "form" => /\ ceLoads' # <<>> /\ Len(ceLoads') = 1
                                   /\ \A j \in DOMAIN ceLoads' : ceLoads'[j] = Unread
              /\ s.who # "form" => ceLoads' = <<>> /\ s.obj = ce.live /\ CeKept(i) = Live(ce)
  <2>1. ceSaves' = <<>> /\ ceLoads = <<>> /\ i = 1
    BY <1>1, <1>2, <1>19, SaveAlone, NoSaveLeft DEF rest
  <2>2. DOMAIN ceSaves' = {} /\ FormSaves' = {}
    BY <2>1 DEF FormSaves
  <2>3. s.who = "form" => ceLoads' = <<Unread>>
    BY <1>2, <2>1
  <2>4. s.who # "form" => ceLoads' = <<>> /\ s.obj = ce.live
    BY <1>1, <1>2, <1>19, <2>1 DEF CeOneAtATime, CeFormSave
  <2>5. s.obj = ce.live => CeKept(i) = Live(ce)
    BY DEF CeKept, Live
  <2> QED BY <2>1, <2>2, <2>3, <2>4, <2>5
<1>20. FormSaves = {} \/ s.who # "form" \/ i \in FormSaves
  BY DEF FormSaves
<1>21. CeOneAtATime' /\ CeSentIsKept'
  <2>1. ASSUME CeWithout({"overlap"}) PROVE Len(ceSaves') + Len(ceLoads') <= 1 /\ \A j \in DOMAIN ceLoads' : ceLoads'[j] = Unread
    <3>1. Len(ceSaves') = 0
      BY <1>19, <2>1
    <3>2. Len(ceLoads') = 0 \/ Len(ceLoads') = 1
      BY <1>19, <2>1
    <3>3. \A j \in DOMAIN ceLoads' : ceLoads'[j] = Unread
      BY <1>19, <2>1
    <3>4. Len(ceSaves') + Len(ceLoads') <= 1
      <4>1. CASE Len(ceLoads') = 0
        BY ONLY <3>1, <4>1
      <4>2. CASE Len(ceLoads') = 1
        BY ONLY <3>1, <4>2
      <4> QED BY ONLY <3>2, <4>1, <4>2
    <3> QED BY <3>3, <3>4
  <2>2. CeOneAtATime'
    BY <1>18, <1>19, <2>1 DEF CeOneAtATime
  <2>3. CeWithout({"overlap", "leaked"}) => CeWithout({"overlap"})
    BY DEF CeWithout
  <2>4. CeSentIsKept'
    BY <1>18, <1>19, <2>3 DEF CeSentIsKept
  <2> QED BY <2>2, <2>4
<1>22. ASSUME CeWithout({"overlap"}), s.who # "form"
       PROVE  FormSaves = {} /\ DOMAIN ceSaves = {i}
  BY <1>1, <1>22, SaveAlone DEF FormSaves
<1>23. CeRuns'
  <2> SUFFICES ASSUME CeWithout({"overlap", "leaked", "failed"}), s.who # "form"
               PROVE  CeAlike(Live(ce'), ceServer) /\ (~ceTimer => Live(ce') = ceServer)
    <3>1. CeWithout({"overlap", "leaked", "failed"}) => CeWithout({"overlap"})
      BY DEF CeWithout
    <3> QED BY <1>2, <1>18, <1>19, <3>1 DEF CeRuns
  <2>1. CeWithout({"overlap"})
    BY DEF CeWithout
  <2> QED BY <1>2, <1>12, <1>19, <1>22, <2>1 DEF CeInv, CeRuns
<1>24. CeApart'
  <2> SUFFICES ASSUME CeWithout({"overlap", "failed"}), s.who # "form" PROVE ce'.draft # ce'.live
    <3>1. CeWithout({"overlap", "failed"}) => CeWithout({"overlap"})
      BY DEF CeWithout
    <3> QED BY <1>18, <1>19, <3>1 DEF CeApart
  <2>1. CeWithout({"overlap"})
    BY DEF CeWithout
  <2> QED BY <1>12, <1>14, <1>15, <1>19, <2>1 DEF CeInv, CeApart
<1>25. CeMarks'
  <2> SUFFICES ASSUME CeWithout({"overlap", "leaked", "failed", "slipped"})
               PROVE  CeAlike(Live(ce'), ceServer) /\ CeAlike(ce'.saved, ceServer)
    <3>1. CeWithout({"overlap", "leaked", "failed", "slipped"}) => CeWithout({"overlap"})
      BY DEF CeWithout
    <3> QED BY <1>2, <1>18, <1>19, <3>1 DEF CeMarks
  <2>1. CeWithout({"overlap"}) /\ CeWithout({"overlap", "leaked"}) /\ CeWithout({"slipped"})
    BY DEF CeWithout
  <2>2. /\ FormSaves = {} => CeAlike(Live(ce), ceServer) /\ CeAlike(ce.saved, ceServer)
        /\ ce.dirty => \A j \in FormSaves : CeAlike(Draft(ce), CeKept(j))
    BY DEF CeInv, CeMarks
  <2>3. CeAlike(ceServer, CeKept(i))
    BY <1>2, <2>1 DEF CeInv, CeSentIsKept
  <2>4. CASE s.who = "form"
    BY <1>12, <1>13, <1>20, <2>2, <2>3, <2>4 DEF CeAlike, FormSaves
  <2>5. CASE s.who # "form"
    BY <1>12, <1>14, <1>15, <1>22, <2>1, <2>2, <2>3, <2>5 DEF CeAlike
  <2> QED BY <2>4, <2>5
<1>26. CeAutos'
  <2> SUFFICES ASSUME CeWithout({"overlap", "outdated", "dropped", "failed"})
               PROVE  /\ Live(ce').auto = 1 .. ceCount.autos
                      /\ s.who = "form" \/ ~ceTimer => ceServer.auto = 1 .. ceCount.autos
    <3>1. CeWithout({"overlap", "outdated", "dropped", "failed"}) => CeWithout({"overlap"})
      BY DEF CeWithout
    <3> QED BY <1>2, <1>18, <1>19, <3>1 DEF CeAutos
  <2> QED BY <1>2, <1>12 DEF CeInv, CeAutos, CeFormSave
<1>27. CeEdits'
  <2> SUFFICES ASSUME CeWithout({"overlap", "leaked", "slipped", "discarded", "broken"})
               PROVE  /\ CeAlike(ce'.saved, Live(ce'))
                      /\ Draft(ce').maps \cup Draft(ce').form = 1 .. ceCount.edits
                      /\ s.who = "form" => CeAlike(ceServer, Live(ce'))
    <3>1. CeWithout({"overlap", "leaked", "slipped", "discarded", "broken"}) => CeWithout({"overlap"})
      BY DEF CeWithout
    <3> QED BY <1>2, <1>18, <1>19, <3>1 DEF CeEdits
  <2>1. CeWithout({"overlap"}) /\ CeWithout({"overlap", "leaked"}) /\ CeWithout({"slipped"})
    BY DEF CeWithout
  <2>2. /\ CeAlike(ce.saved, Live(ce))
        /\ Draft(ce).maps \cup Draft(ce).form = 1 .. ceCount.edits
        /\ \A j \in FormSaves : CeAlike(Draft(ce), CeKept(j))
    BY DEF CeInv, CeEdits
  <2>3. CeAlike(ceServer, CeKept(i))
    BY <1>2, <2>1 DEF CeInv, CeSentIsKept
  <2>4. CASE s.who = "form"
    <3>1. CeAlike(Draft(ce), CeKept(i))
      BY <2>2, <2>4 DEF FormSaves
    <3> QED BY <1>12, <1>13, <2>2, <2>3, <2>4, <3>1 DEF CeAlike
  <2>5. CASE s.who # "form"
    <3>1. CeKept(i) = Live(ce)
      BY <1>19, <2>1, <2>5
    <3>2. ~ce.dirty => CeAlike(Live(ce), Draft(ce))
      BY <2>2, FollowingIsAlike
    <3> QED BY <1>12, <1>14, <1>15, <2>2, <2>5, <3>1, <3>2 DEF CeAlike
  <2> QED BY <2>4, <2>5
<1> QED BY <1>16, <1>17, <1>21, <1>23, <1>24, <1>25, <1>26, <1>27 DEF CeInv

\* What a load has read runs, and the draft follows if it counts as saved.
LEMMA LoadDoneKeeps == ASSUME CeInv, NEW i \in DOMAIN ceLoads, LoadDone(i) PROVE CeInv'
<1> DEFINE cfg == ceLoads[i]
           o == Fresh(ce, ceSaves)
           e == [ce EXCEPT !.live = o, !.heap[o] = cfg]
           d == Followed(e, ceSaves)
<1>1. CeTyped /\ CeOneAtATime /\ CeDrafts /\ ce \in EditorType /\ ceSaves \in SavesType
  BY DEF CeInv, CeTyped
<1>2. /\ cfg # Unread /\ ce' = Swept(d, ceSaves) /\ ceLoads' = RemoveAt(ceLoads, i)
      /\ ceOdd' = ceOdd \cup (IF ceTimer THEN {"dropped"} ELSE {})
      /\ UNCHANGED <<ceServer, ceSaves, ceTimer, ceCount>>
  BY DEF LoadDone
<1>3. cfg \in Configs
  BY <1>1, <1>2 DEF CeTyped
<1>4. o \in Objects /\ o \notin InUse(ce, ceSaves) /\ ce.draft \in InUse(ce, ceSaves)
  BY <1>1, FreshIsNew, UsedAreObjects
<1> HIDE DEF o, cfg
<1>5. /\ e \in EditorType /\ e.open = ce.open /\ e.text = ce.text /\ e.draft = ce.draft /\ e.live = o
      /\ e.saved = ce.saved /\ e.dirty = ce.dirty /\ e.heap = [ce.heap EXCEPT ![o] = cfg]
  BY <1>1, <1>3, <1>4 DEF EditorType
<1> HIDE DEF e
<1>6. /\ Draft(e) = Draft(ce) /\ Live(e) = cfg /\ ce.draft # o /\ o \in InUse(e, ceSaves)
  <2>1. ce.heap \in [Objects -> Configs] /\ ce.draft \in Objects
    BY <1>1 DEF EditorType
  <2>2. o \in InUse(e, ceSaves)
    BY <1>1, <1>5, UsedAreObjects
  <2> QED BY <1>4, <1>5, <2>1, <2>2 DEF Draft, Live
<1>7. /\ d \in EditorType /\ d.open = ce.open /\ d.live = o /\ Live(d) = cfg /\ d.text.at = ce.text.at
      /\ ce.dirty => d = e
      /\ ~ce.dirty => /\ d.draft # o /\ Draft(d) = cfg /\ d.saved = cfg /\ ~d.dirty
                      /\ ce.text.at = "valid" => d.text.cfg = cfg
  BY ONLY <1>1, <1>5, <1>6, FollowedIs
<1> HIDE DEF d
<1>8. /\ ce' \in EditorType /\ ce'.open = d.open /\ ce'.text = d.text /\ ce'.draft = d.draft /\ ce'.live = d.live
      /\ ce'.saved = d.saved /\ ce'.dirty = d.dirty /\ Draft(ce') = Draft(d) /\ Live(ce') = Live(d)
  BY ONLY <1>1, <1>2, <1>7, SweptIs
<1>9. Live(ce') = cfg /\ ce'.live = o /\ ce'.draft # o
  BY <1>5, <1>6, <1>7, <1>8
<1>10. ce.dirty => Draft(ce') = Draft(ce) /\ ce'.saved = ce.saved /\ ce'.dirty /\ ce'.text = ce.text
  BY <1>5, <1>6, <1>7, <1>8
<1>11. ~ce.dirty => /\ Draft(ce') = cfg /\ ce'.saved = cfg /\ ~ce'.dirty
                    /\ ce'.text.at = "valid" => ce'.text.cfg = cfg
  BY <1>7, <1>8
<1>12. ceOdd \subseteq ceOdd' /\ ceOdd' \subseteq ceOdd \cup {"dropped"}
  BY <1>2
<1>13. CeTyped'
  <2>1. ceLoads' \in Seq(Configs \cup {Unread})
    BY <1>1, <1>2, SaveEnded
  <2>2. ce'.text.at # "closed" => ce'.open
    BY <1>1, <1>7, <1>8 DEF CeTyped
  <2> QED BY <1>1, <1>2, <1>8, <1>12, <2>1, <2>2 DEF CeTyped
<1>14. CeDrafts'
  <2>1. ce'.text.at = "broken" => "broken" \in ceOdd'
    BY <1>1, <1>7, <1>8, <1>12 DEF CeDrafts
  <2>2. CASE ce.dirty
    BY <1>1, <1>10, <2>1, <2>2 DEF CeDrafts
  <2>3. CASE ~ce.dirty
    BY <1>11, <2>1, <2>3 DEF CeDrafts, CeAlike
  <2> QED BY <2>2, <2>3
<1>15. \A X : CeWithout(X)' => CeWithout(X)
  BY <1>12 DEF CeWithout
<1>16. ASSUME CeWithout({"overlap"})
       PROVE  /\ ceSaves = <<>> /\ DOMAIN ceSaves' = {} /\ FormSaves = {} /\ FormSaves' = {}
              /\ ceLoads' = <<>> /\ DOMAIN ceLoads' = {} /\ ceLoads # <<>> /\ cfg = ceServer
  <2>1. ceSaves = <<>> /\ ceLoads' = <<>>
    BY <1>1, <1>2, <1>16, NoSaveLeft
  <2>2. DOMAIN ceSaves' = {} /\ DOMAIN ceLoads' = {} /\ FormSaves = {} /\ FormSaves' = {}
    BY <1>2, <2>1 DEF FormSaves
  <2>3. ceLoads # <<>>
    OBVIOUS
  <2>4. cfg = ceServer
    BY <1>1, <1>2, <1>16 DEF CeOneAtATime, cfg
  <2> QED BY <2>1, <2>2, <2>3, <2>4
<1>17. CeOneAtATime' /\ CeSentIsKept'
  <2>1. CeWithout({"overlap"})' => CeWithout({"overlap"}) /\ Len(ceSaves') + Len(ceLoads') <= 1
    <3>1. CeWithout({"overlap"})' => CeWithout({"overlap"})
      BY <1>15
    <3>2. CeWithout({"overlap"}) => Len(ceSaves') = 0 /\ Len(ceLoads') = 0
      BY <1>2, <1>16
    <3> QED BY <3>1, <3>2
  <2>2. CeOneAtATime'
    BY <1>16, <2>1 DEF CeOneAtATime
  <2>3. CeWithout({"overlap", "leaked"})' => CeWithout({"overlap"})
    BY <1>15 DEF CeWithout
  <2> QED BY <1>16, <2>2, <2>3 DEF CeSentIsKept
<1>18. CeRuns'
  <2>1. CeWithout({"overlap", "leaked", "failed"})' => CeWithout({"overlap"})
    BY <1>15 DEF CeWithout
  <2> QED BY <1>2, <1>9, <1>16, <2>1 DEF CeRuns, CeAlike
<1>19. CeApart'
  BY <1>9 DEF CeApart
<1>20. CeMarks'
  <2> SUFFICES ASSUME CeWithout({"overlap", "leaked", "failed", "slipped"})'
               PROVE  FormSaves' = {} /\ CeAlike(Live(ce'), ceServer) /\ CeAlike(ce'.saved, ceServer)
    BY <1>2 DEF CeMarks
  <2>1. CeWithout({"overlap"}) /\ CeWithout({"overlap", "leaked", "failed", "slipped"})
    BY <1>15 DEF CeWithout
  <2>2. CeAlike(ce.saved, ceServer)
    BY <1>16, <2>1 DEF CeInv, CeMarks
  <2> QED BY <1>9, <1>10, <1>11, <1>16, <2>1, <2>2 DEF CeAlike
<1>21. CeAutos'
  <2> SUFFICES ASSUME CeWithout({"overlap", "outdated", "dropped", "failed"})'
               PROVE  DOMAIN ceSaves' = {} /\ cfg.auto = 1 .. ceCount.autos /\ ceServer.auto = 1 .. ceCount.autos
    BY <1>2, <1>9 DEF CeAutos
  <2>1. CeWithout({"overlap"}) /\ CeWithout({"overlap", "outdated", "dropped", "failed"})
    BY <1>15 DEF CeWithout
  <2> QED BY <1>16, <2>1 DEF CeInv, CeAutos
<1>22. CeEdits'
  <2> SUFFICES ASSUME CeWithout({"overlap", "leaked", "slipped", "discarded", "broken"})'
               PROVE  /\ CeAlike(ce'.saved, cfg)
                      /\ Draft(ce').maps \cup Draft(ce').form = 1 .. ceCount.edits
                      /\ FormSaves' = {} /\ ceLoads' = <<>>
    BY <1>2, <1>9 DEF CeEdits
  <2>1. CeWithout({"overlap"}) /\ CeWithout({"overlap", "leaked", "slipped", "discarded", "broken"})
    BY <1>15 DEF CeWithout
  <2>2. /\ CeAlike(ce.saved, Live(ce))
        /\ Draft(ce).maps \cup Draft(ce).form = 1 .. ceCount.edits
        /\ CeAlike(ceServer, Live(ce))
    BY <1>16, <2>1 DEF CeInv, CeEdits
  <2>3. ~ce.dirty => CeAlike(Live(ce), Draft(ce))
    BY <2>2, FollowingIsAlike
  <2> QED BY <1>10, <1>11, <1>16, <2>1, <2>2, <2>3 DEF CeAlike
<1> QED BY <1>13, <1>14, <1>17, <1>18, <1>19, <1>20, <1>21, <1>22 DEF CeInv

-----------------------------------------------------------------------------
\* Every step.
LEMMA CeInvStep == CeInv /\ [CeNext]_ceVars => CeInv'
<1> SUFFICES ASSUME CeInv, [CeNext]_ceVars PROVE CeInv'
  OBVIOUS
<1>1. CASE OpenEditor \/ SelectSubtab \/ ReloadDraft
  BY <1>1, OpenEditorKeeps, SelectSubtabKeeps, ReloadDraftKeeps
<1>2. ASSUME NEW half \in {"maps", "form"}, EditForm(half) PROVE CeInv'
  BY <1>2, EditFormKeeps
<1>3. ASSUME NEW yes \in BOOLEAN, TypeText(yes) \/ CloseEditor(yes) PROVE CeInv'
  BY <1>3, TypeTextKeeps, CloseEditorKeeps
<1>4. CASE PanelChange \/ AutoSave \/ SaveApply
  BY <1>4, PanelChangeKeeps, AutoSaveKeeps, SaveApplyKeeps
<1>5. ASSUME NEW i \in DOMAIN ceSaves, ServerStores(i) \/ SendRest(i) \/ SaveDone(i) \/ SaveFails(i)
      PROVE  CeInv'
  BY <1>5, ServerStoresKeeps, SendRestKeeps, SaveDoneKeeps, SaveFailsKeeps
<1>6. ASSUME NEW i \in DOMAIN ceLoads, LoadReads(i) \/ LoadDone(i) \/ LoadFails(i)
      PROVE  CeInv'
  BY <1>6, LoadReadsKeeps, LoadDoneKeeps, LoadFailsKeeps
<1>7. CASE UNCHANGED ceVars
  BY <1>7 DEF ceVars, CeInv, CeTyped, CeDrafts, CeOneAtATime, CeSentIsKept, CeRuns, CeApart, CeMarks, CeAutos, CeEdits,
              CeWithout, FormSaves, CeFormSave, CeKept, Draft, Live
<1> QED BY <1>1, <1>2, <1>3, <1>4, <1>5, <1>6, <1>7 DEF CeNext

\* What the invariant says of a state.
LEMMA EditorFollows == CeInv => CeTypeOK /\ ConfigEditorSound
<1> SUFFICES ASSUME CeInv PROVE CeTypeOK /\ ConfigEditorSound
  OBVIOUS
<1>1. CeTyped /\ ce \in EditorType /\ CeDrafts /\ CeOneAtATime
  BY DEF CeInv, CeTyped
<1>2. CeTypeOK
  BY <1>1, UsedAreObjects DEF CeTyped, CeTypeOK, EditorType, SavesType, SaveType
<1>3. FormSaves = {} \/ ceSaves # <<>>
  BY DEF FormSaves
<1>4. Draft(ce) \in Configs /\ Live(ce) \in Configs /\ ceServer \in Configs /\ ce.saved \in Configs
  BY <1>1 DEF EditorType, Draft, Live, CeTyped
<1>5. SavedIsStored
  <2> SUFFICES ASSUME CeAtRest, ~ce.dirty, CeWithout({"slipped", "leaked", "overlap", "failed"})
               PROVE  CeAlike(Draft(ce), ceServer)
    BY DEF SavedIsStored, CeWithout, CeAlike
  <2>1. CeWithout({"overlap", "leaked", "failed", "slipped"}) /\ ceSaves = <<>>
    BY DEF CeWithout, CeAtRest
  <2>2. CeAlike(Live(ce), ceServer) /\ CeAlike(ce.saved, ceServer)
    BY <1>3, <2>1 DEF CeInv, CeMarks
  <2>3. CASE ce.draft = ce.live
    BY <2>2, <2>3 DEF Draft, Live
  <2>4. CASE ce.draft # ce.live
    BY <1>1, <2>2, <2>4 DEF CeDrafts
  <2> QED BY <2>3, <2>4
<1>6. RunningIsStored
  <2> SUFFICES ASSUME CeAtRest, CeWithout({"leaked", "overlap", "failed"}) PROVE Live(ce) = ceServer
    BY DEF RunningIsStored, CeWithout
  <2>1. CeWithout({"overlap", "leaked", "failed"}) /\ ceSaves = <<>> /\ ceLoads = <<>> /\ ~ceTimer
    BY DEF CeWithout, CeAtRest
  <2> QED BY <1>3, <2>1 DEF CeInv, CeRuns
<1>7. PanelChangesKept
  <2> SUFFICES ASSUME CeAtRest, CeWithout({"outdated", "dropped", "overlap", "failed"})
               PROVE  ceServer.auto = 1 .. ceCount.autos
    BY DEF PanelChangesKept, CeWithout
  <2>1. CeWithout({"overlap", "outdated", "dropped", "failed"}) /\ ceSaves = <<>> /\ ~ceTimer
    BY DEF CeWithout, CeAtRest
  <2> QED BY <2>1 DEF CeInv, CeAutos
<1>8. EditsKept
  <2> SUFFICES ASSUME CeWithout({"discarded", "broken", "slipped", "leaked", "overlap"})
               PROVE  Draft(ce).maps \cup Draft(ce).form = 1 .. ceCount.edits
    BY DEF EditsKept, CeWithout
  <2>1. CeWithout({"overlap", "leaked", "slipped", "discarded", "broken"})
    BY DEF CeWithout
  <2> QED BY <2>1 DEF CeInv, CeEdits
<1> QED BY <1>2, <1>5, <1>6, <1>7, <1>8 DEF ConfigEditorSound

\* Every edit of the draft is kept, an editor that says "saved" has its draft on the
\* server, and the program runs with what the server holds, whatever is saved,
\* loaded, closed by Escape or fails meanwhile, but for the orders ceOdd names
\* (handleSaveApply, autoSaveLayerConfig, loadPresetGroups, onConfigLoaded): for
\* any number of edits, changes of the layer panel and clicks.
THEOREM EditorIsSound == CeSpec => [](CeTypeOK /\ ConfigEditorSound)
BY CeInvInit, CeInvStep, EditorFollows, PTL DEF CeSpec
=============================================================================
