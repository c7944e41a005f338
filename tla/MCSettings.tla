----------------------------- MODULE MCSettings -----------------------------
(***************************************************************************)
(* The preferences and what the GUI keeps in them: the file (Prefs) and    *)
(* the settings of module Prefs_proofs, which share nothing: a behaviour   *)
(* is one of a single module, as subject says, and never leaves the        *)
(* initial state of the others.                                            *)
(***************************************************************************)
EXTENDS Prefs_proofs, TLC

VARIABLE subject

\* The default profile and another, and what a section is made with.
SomeProfiles == "Default" :> "Default" @@ "P" :> "Profile"
SomeDefaults == [filter |-> [a \in {"x", "y"} |-> IF a = "x" THEN 0 ELSE 1],
                 inverted |-> "No"]
SomeAxis == [l : {1, 2}, r : {1, 2}, mult : {2, 3, 4}, enabled : BOOLEAN]

\* Devices: a TrackIR, two joysticks with axes in common, a PS3 Eye with and without the face
\* tracker, a webcam.
Tir == <<"Tir", "Tir">>
Stick == <<"Joystick", "j1">>
Wheel == <<"Joystick", "j2">>
Eye == <<"Ps3Eye", "Ps3Eye">>
EyeFace == <<"Ps3Eye-face", "Ps3Eye-face">>
Cam == <<"Webcam", "cam">>
CamFace == <<"Webcam-face", "cam">>
SomeAxesOf == Stick :> <<2, 3>> @@ Wheel :> <<3>>

\* The preferences that come with the package, and those of somebody with a joystick.
DeviceSection(owner, key, val) ==
    [link |-> owner, vals |-> [k \in {"Pitch", "Running-indication", "Threshold"} |-> IF k = key THEN val ELSE 0]]
PackageConf == [sections |-> <<DeviceSection(<<"Wiimote", "Wiimote">>, "Running-indication", 1),
                               DeviceSection(Tir, "Threshold", 1)>>, input |-> 0]
StickConf == [sections |-> <<DeviceSection(Stick, "Pitch", 2), DeviceSection(Eye, "Threshold", 3)>>, input |-> 1]

\* A cap in use, a face model in use beside a clip, no model.
CapKeys == {"Cap-X", "Cap-Y", "Cap-Z", "Head-Y", "Head-Z", "Active"}
ClipKeys == {"Clip-Y1", "Clip-Y2", "Clip-Z1", "Clip-Z2", "Head-X", "Head-Y", "Head-Z", "Active"}
Kept(type, keys) == [exists |-> TRUE, type |-> type, keys |-> keys, val |-> 1]
NoModel == [exists |-> FALSE, type |-> "none", keys |-> {}, val |-> 0]
SomeModels == {[sections |-> "a" :> Kept("Cap", CapKeys) @@ "b" :> NoModel, active |-> "a"],
               [sections |-> "a" :> Kept("Face", {}) @@ "b" :> Kept("Clip", ClipKeys), active |-> "a"],
               [sections |-> "a" :> NoModel @@ "b" :> NoModel, active |-> ""]}

\* A file of this program, one from elsewhere, one of the old name, none.
Stored(who, opt, prefix) == [who |-> who, opt |-> opt, prefix |-> prefix]
NoFile == Stored("nobody", "absent", FALSE)
SomeStarts == {<<Stored("user", "yes", TRUE), NoFile>>, <<Stored("user", "no", FALSE), NoFile>>,
               <<NoFile, Stored("user", "yes", TRUE)>>, <<NoFile, NoFile>>}

SomeCandidates == <<"s", "s0000">>
SomeLinks == {Tir, Stick, Wheel, Eye, EyeFace, Cam, CamFace}
SomeConfs == {PackageConf, StickConf}

mcVars == <<subject, vars, allVars>>

\* Where a module has several initial states the others need one of them only.
MCInit ==
    /\ subject \in {"prefs", "settings", "form", "device", "model", "store", "window"}
    /\ Init
    /\ AxisSettings!Init
    /\ subject = "settings" \/ (\A s \in DOMAIN axDisk : axDisk[s] = AxisSettings!NoSection)
    /\ Form!Init /\ (subject = "form" \/ afOpened = [l |-> 1, r |-> 1, mult |-> 2, enabled |-> TRUE])
    /\ DeviceTab!Init /\ (subject = "device" \/ (plugged = {} /\ dvDisk = PackageConf))
    /\ ModelTab!Init /\ (subject = "model" \/ (mdDisk.active = "" /\ dev = "Wiimote"))
    /\ Store!Init
    /\ MainWindow!Init /\ (subject = "window" \/ (mainFile = prefs /\ prefs.opt = "yes" /\ ~mwFlag))

UsePrefs == subject = "prefs" /\ Next /\ UNCHANGED <<subject, allVars>>
UseSettings ==
    /\ \/ subject = "settings" /\ ChangeSettings
       \/ subject = "form" /\ EditForm
       \/ subject = "device" /\ ChooseDevices
       \/ subject = "model" /\ EditModels
       \/ subject = "store" /\ UseStore
       \/ subject = "window" /\ UseWindow
    /\ UNCHANGED <<subject, vars>>

\* The user may leave everything as it is.
Rest == subject # "prefs" /\ UNCHANGED mcVars

MCNext == UsePrefs \/ UseSettings \/ Rest

MCSpec == MCInit /\ [][MCNext]_mcVars
=============================================================================
