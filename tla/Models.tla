------------------------------- MODULE Models -------------------------------
(***************************************************************************)
(* The model tab of the GUI (qt_gui/ltr_model.cpp), the window that makes  *)
(* a model, the guardian that warns when model and device do not fit       *)
(* (guardian.cpp), and the tracker that reads the model when its change    *)
(* was announced (pref_global.c, tracking.c:40-53), on a thread of its own.*)
(***************************************************************************)
EXTENDS Integers

CONSTANTS Names,      \* of models
          Files,      \* preferences to start with
          DevTypes,   \* devices that may be chosen
          MaxSteps    \* bound: what the user does

VARIABLES conf,       \* sections and Global/Model, in memory
          disk,
          current, items, selected, tweaker,  \* ModelEdit: section, selector's list and text, editor
          offered,    \* the type ModelCreate shows, "first" while it has no editor yet
          mdl, dev, warned,                   \* Guardian, and what it last told
          changed,    \* model_changed
          guiPc, trPc, using,                 \* the two threads, the model the tracker has
          stale,      \* preferences were replaced under the tab
          blank,      \* sections made without an editor
          mdSteps

vars == <<conf, disk, current, items, selected, tweaker, offered, mdl, dev, warned, changed, guiPc,
          trPc, using, stale, blank, mdSteps>>

NoName == ""
Types == {"Cap", "Clip", "SinglePoint", "Face", "Absolute"}
NoType == "none"

\* What setup_cap and setup_clip need of a section, and what the editors write to it.
Needed(type) ==
    CASE type = "Cap" -> {"Cap-X", "Cap-Y", "Cap-Z", "Head-Y", "Head-Z"}
      [] type = "Clip" -> {"Clip-Y1", "Clip-Y2", "Clip-Z1", "Clip-Z2", "Head-X", "Head-Y", "Head-Z"}
      [] OTHER -> {}

\* Mutant: the editor of a cap leaves a key out.
DumpedShort(type) == Needed(type) \ (IF type = "Cap" THEN {"Head-Z"} ELSE {})

\* CapEdit::dump, ClipEdit::dump, SingleEdit::dump
Dumped(type) ==
    CASE type = "Cap" -> {"Cap-Y", "Cap-X", "Cap-Z", "Head-Y", "Head-Z", "Active"}
      [] type = "Clip" -> {"Clip-Y1", "Clip-Y2", "Clip-Z1", "Clip-Z2", "Head-X", "Head-Y", "Head-Z", "Active"}
      [] type = "SinglePoint" -> {"Active"}
      [] OTHER -> {}

Missing == [exists |-> FALSE, type |-> NoType, keys |-> {}, val |-> 0]
SectionOf(type) == [exists |-> TRUE, type |-> type, keys |-> Dumped(type), val |-> 1]
TypeOf(c) == IF c.active = NoName THEN NoType ELSE c.sections[c.active].type

\* PrefProxy::getModelList: sections with a type
ModelList(c) == {n \in Names : c.sections[n].type # NoType}

\* ltr_int_get_model_setup
Setup(c) == <<c.active, c.sections[c.active].type, c.sections[c.active].val>>

\* Guardian::checkDeviceNModel
Fits(d, m) ==
    CASE d = "Webcam Face Tracker" -> m = "Face"
      [] d = "Joystick" -> m = "Absolute"
      [] OTHER -> m \notin {"Face", "Absolute"}

Verdict(d, m) == IF d = NoType \/ m = NoType THEN warned ELSE ~Fits(d, m)

\* ModelEdit::refresh in the constructor, before there are devices; DeviceSetup then chooses one.
Init ==
    /\ disk \in Files /\ conf = disk
    /\ items = ModelList(conf) /\ current = conf.active /\ selected = conf.active
    /\ tweaker = (IF TypeOf(conf) \in {"Cap", "Clip"} THEN conf.active ELSE NoName)
    /\ mdl = TypeOf(conf) /\ dev \in DevTypes /\ warned = (mdl # NoType /\ ~Fits(dev, mdl))
    /\ offered = "first" /\ changed = TRUE /\ guiPc = "idle" /\ trPc = "idle" /\ using = <<>>
    /\ stale = FALSE /\ blank = {} /\ mdSteps = 0

User == guiPc = "idle" /\ mdSteps < MaxSteps /\ mdSteps' = mdSteps + 1 /\ UNCHANGED <<trPc, using>>

\* ModelEdit::on_ModelSelector_activated with preferences c; the change is announced in a step of its own.
\* A list from before the preferences were replaced may offer a model that is gone: it is selected, and
\* nothing else follows.
Activated(c, name) ==
    LET type == c.sections[name].type IN
    /\ current' = name /\ selected' = name
    /\ IF type = NoType THEN conf' = c /\ stale' = TRUE /\ UNCHANGED <<tweaker, guiPc, mdl, warned>>
       ELSE /\ tweaker' = (IF type \in {"Cap", "Clip"} THEN name ELSE NoName)
            /\ conf' = [c EXCEPT !.active = name] /\ guiPc' = "announce"
            /\ mdl' = type /\ warned' = Verdict(dev, type) /\ stale' = FALSE

Select(name) ==
    /\ User /\ name \in items /\ Activated(conf, name)
    /\ UNCHANGED <<disk, items, offered, dev, changed, blank>>

\* Mutant: the guardian is told only of the user's own choice.
ShownOnly(c, name) ==
    /\ current' = name /\ selected' = name /\ tweaker' = NoName /\ UNCHANGED <<guiPc, mdl, warned, stale>>
    /\ conf' = [c EXCEPT !.active = name]

\* Mutant: the new model is selected, and activated only if there is no other.
ModelCreatedShown(c, name) ==
    /\ items' = ModelList(c)
    /\ IF name \in items' /\ current \notin items' THEN ShownOnly(c, name)
       ELSE selected' = name /\ conf' = c /\ UNCHANGED <<current, tweaker, guiPc, mdl, warned, stale>>

\* ModelEdit::ModelCreated: what was selected stays so.
ModelCreated(c, name) ==
    /\ items' = ModelList(c)
    /\ IF current \in items' \/ name \notin items'
       THEN /\ selected' = (IF current \in items' THEN current ELSE NoName)
            /\ conf' = c /\ UNCHANGED <<current, tweaker, guiPc, mdl, warned, stale>>
       ELSE Activated(c, name)

\* ModelCreate: the window, and its button with a name that is not taken.
Offer(type) ==
    /\ User /\ type # offered /\ offered' = type
    /\ UNCHANGED <<conf, disk, current, items, selected, tweaker, mdl, dev, warned, changed, guiPc, stale, blank>>

Create(name) ==
    /\ User /\ ~conf.sections[name].exists
    /\ ModelCreated([conf EXCEPT !.sections[name] = IF offered = "first" THEN [Missing EXCEPT !.exists = TRUE]
                                                    ELSE SectionOf(offered)], name)
    /\ blank' = (IF offered = "first" THEN blank \cup {name} ELSE blank)
    /\ UNCHANGED <<disk, offered, dev, changed>>

\* CapTweaking::on_CapHy_valueChanged and its like, one key for all; a section that is gone is made again,
\* with this key alone.
Tweaked(section, v) == [section EXCEPT !.exists = TRUE, !.val = v, !.keys = @ \cup {"Head-Y"}]

\* Mutant: a change is not announced.
TweakQuiet(v) ==
    /\ User /\ tweaker # NoName
    /\ conf' = [conf EXCEPT !.sections[tweaker] = Tweaked(@, v)]
    /\ UNCHANGED <<disk, current, items, selected, tweaker, offered, mdl, dev, warned, changed, guiPc, stale, blank>>

\* CapTweaking and ClipTweaking
Tweak(v) ==
    /\ User /\ tweaker # NoName
    /\ conf' = [conf EXCEPT !.sections[tweaker] = Tweaked(@, v)]
    /\ blank' = (IF conf.sections[tweaker].exists THEN blank ELSE blank \cup {tweaker})
    /\ guiPc' = "announce"
    /\ UNCHANGED <<disk, current, items, selected, tweaker, offered, mdl, dev, warned, changed, stale>>

\* DeviceSetup::deviceTypeChanged
ChooseDevice(d) ==
    /\ User /\ dev' = d /\ warned' = Verdict(d, mdl)
    /\ UNCHANGED <<conf, disk, current, items, selected, tweaker, offered, mdl, changed, guiPc, stale, blank>>

Save ==
    /\ User /\ disk' = conf
    /\ UNCHANGED <<conf, current, items, selected, tweaker, offered, mdl, dev, warned, changed, guiPc, stale, blank>>

\* PrefProxy::rereadPrefs: the tab is not told and nothing is announced.  The button is disabled while
\* the tracker runs (LinuxtrackGui::trackerStateHandler).
Discard ==
    /\ User /\ trPc = "idle" /\ conf' = disk /\ stale' = (stale \/ disk # conf)
    /\ blank' = {n \in blank : disk.sections[n].exists}
    /\ UNCHANGED <<disk, current, items, selected, tweaker, offered, mdl, dev, warned, changed, guiPc>>

others == <<conf, disk, current, items, selected, tweaker, offered, mdl, dev, warned, stale, blank, mdSteps>>

\* ltr_int_announce_model_change
Announce == guiPc = "announce" /\ guiPc' = "idle" /\ changed' = TRUE /\ UNCHANGED <<others, trPc, using>>

\* ltr_int_check_pose: the flag is lowered, then the model read.  It asserts that there is one.
Notice ==
    /\ trPc = "idle" /\ changed /\ conf.active # NoName
    /\ changed' = FALSE /\ trPc' = "read" /\ UNCHANGED <<others, guiPc, using>>

ReadModel ==
    /\ trPc = "read" /\ trPc' = "idle" /\ using' = Setup(conf) /\ UNCHANGED <<others, guiPc, changed>>

Next ==
    \/ \E n \in Names : Select(n) \/ Create(n)
    \/ \E t \in Types : Offer(t)
    \/ \E v \in {1, 2} : Tweak(v)
    \/ \E d \in DevTypes : ChooseDevice(d)
    \/ Save \/ Discard \/ Announce \/ Notice \/ ReadModel

Spec == Init /\ [][Next]_vars

-----------------------------------------------------------------------

\* Types and bounds.
TypeOK ==
    /\ \A c \in {conf, disk} : /\ c.active \in Names \cup {NoName}
                               /\ \A n \in Names : c.sections[n].type \in Types \cup {NoType}
    /\ {current, selected, tweaker} \subseteq Names \cup {NoName} /\ items \subseteq Names /\ blank \subseteq Names
    /\ offered \in Types \cup {"first"} /\ mdl \in Types \cup {NoType} /\ dev \in DevTypes
    /\ {warned, changed, stale} \subseteq BOOLEAN /\ mdSteps \in 0 .. MaxSteps
    /\ guiPc \in {"idle", "announce"} /\ trPc \in {"idle", "read"}

\* Whenever neither thread is in the middle of it and no change is left to be noticed, the tracker has the
\* model and the values that are set (ltr_int_announce_model_change, ltr_int_check_pose).
ModelTaken ==
    ~changed /\ guiPc = "idle" /\ trPc = "idle" /\ ~stale /\ conf.active # NoName => using = Setup(conf)

\* A model the window made with an editor is one that can be chosen and set up (dump, setup_cap, setup_clip);
\* the one in use always is.
ModelsWhole ==
    \A n \in Names : /\ conf.sections[n].exists /\ n \notin blank => conf.sections[n].type # NoType
                     /\ conf.sections[n].type # NoType => Needed(conf.sections[n].type) \subseteq conf.sections[n].keys

\* The tab shows the model in use and edits its section (ModelCreated, on_ModelSelector_activated).
TabShowsModel ==
    ~stale => /\ current = conf.active /\ selected = current
              /\ tweaker = IF TypeOf(conf) \in {"Cap", "Clip"} THEN conf.active ELSE NoName

\* What the guardian last said is true of the device and the model in use.
GuardianRight == ~stale /\ conf.active # NoName => warned = ~Fits(dev, TypeOf(conf))

\* Not so: the list may offer models that are gone, when Discard came between and another was selected
\* since; the one selected then is not the one in use.
OffersModels == ~stale => items = ModelList(conf)
=============================================================================
