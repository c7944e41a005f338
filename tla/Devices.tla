------------------------------ MODULE Devices ------------------------------
(***************************************************************************)
(* The device tab of the GUI: the list of devices (device_setup.cpp), the  *)
(* form of the chosen one (tir_prefs.cpp and its like), the values that    *)
(* the drivers keep of their section (tir_driver_prefs.c and its like) and *)
(* the preferences, where Global/Input names the section in use.  A form   *)
(* does not remember its section: whatever it changes goes to the section  *)
(* that Global/Input names by then.                                        *)
(***************************************************************************)
EXTENDS Integers, Sequences

CONSTANTS Links,        \* what may be plugged in, as <<type, id>>
          AxesOf,       \* the axes of a joystick, out of Values
          Confs,        \* preference files the GUI may start with
          DefaultConf,  \* src/linuxtrack1.conf: sections of two devices, no Input
          MaxChanges    \* bound: what the user does

VARIABLES gui,          \* preferences in memory, drivers' values, the form shown
          plugged, combo, disk,
          crashed,      \* a section of no name was written to
          strayed,      \* looking again took another device although the one in use was there
          dvChanges

vars == <<gui, plugged, combo, disk, crashed, strayed, dvChanges>>

Wiimote == <<"Wiimote", "Wiimote">>
Nothing == <<"none", "none">>

\* A value of a device: the one it is made with (no axis, for a joystick), or another.
Made == 1
Values == {Made, 2, 3}
Absent == 0

\* The key of a section that a form's driver reads and writes.
KeyOf(type) == CASE type = "Joystick" -> "Pitch" [] type = "Wiimote" -> "Running-indication"
                 [] OTHER -> "Threshold"
Keys == {"Pitch", "Running-indication", "Threshold"}

Cameras == {"Webcam", "Webcam-face", "Ps3Eye", "Ps3Eye-face"}
DriverOf(type) == IF type \in Cameras THEN "wc" ELSE type
Drivers == {"Wiimote", "Tir", "Joystick", "wc"}

Section(link, vals) == [link |-> link, vals |-> [k \in Keys |-> IF k \in DOMAIN vals THEN vals[k] ELSE Absent]]

\* What addKeyVal puts in a new section; those of a joystick have other names than the ones read.
NewSection(link) ==
    Section(link, IF link[1] = "Joystick" THEN <<>> ELSE [k \in {KeyOf(link[1])} |-> Made])

\* PrefProxy::getActiveDevice
InUse(conf) == IF conf.input = 0 THEN Nothing ELSE conf.sections[conf.input].link

\* getFirstDeviceSection without an id
FoundType(conf, type) == {i \in DOMAIN conf.sections : conf.sections[i].link[1] = type}

\* Mutant: the id is not looked at.
FoundByType(conf, link) == FoundType(conf, link[1])

\* getFirstDeviceSection with an id
Found(conf, link) == {i \in DOMAIN conf.sections : conf.sections[i].link = link}

First(set) == CHOOSE i \in set : \A j \in set : i <= j

\* What a driver keeps of the value v of its key: without the key the one it is made with, but a
\* Wiimote's stays what it was, and a joystick has no axis.
TirInitPrefs(v) == IF v = Absent THEN Made ELSE v
WcInitPrefs(v) == IF v = Absent THEN Made ELSE v
Ps3InitPrefs(v) == WcInitPrefs(v)
JoyInitPrefs(v) == IF v = Absent THEN Made ELSE v
WiiInitPrefs(v, old) == IF v = Absent THEN old ELSE v

\* They read the section in use, ltr_int_get_device_section.
InitPrefs(conf, type, old) ==
    LET v == conf.sections[conf.input].vals[KeyOf(type)] IN
    CASE type = "Wiimote" -> WiiInitPrefs(v, old) [] type = "Tir" -> TirInitPrefs(v)
      [] type = "Joystick" -> JoyInitPrefs(v) [] type \in {"Ps3Eye", "Ps3Eye-face"} -> Ps3InitPrefs(v)
      [] OTHER -> WcInitPrefs(v)

\* A driver's setter: its own value, and ltr_int_change_key in the section in use.
SetValue(g, type, v) ==
    LET h == [g EXCEPT !.static[DriverOf(type)] = v]
    IN  IF g.conf.input = 0 THEN h ELSE [h EXCEPT !.conf.sections[g.conf.input].vals[KeyOf(type)] = v]
TirSet(g, v) == SetValue(g, "Tir", v)
WcSet(g, v) == SetValue(g, "Webcam", v)
Ps3Set(g, v) == SetValue(g, "Ps3Eye", v)
JoySet(g, v) == SetValue(g, "Joystick", v)
WiiSet(g, v) == SetValue(g, "Wiimote", v)

\* Items of an axis combo box, and axisComboMap, where the first entry of an axis stays for good.
Items(link) == IF link[1] = "Joystick" THEN <<Made>> \o AxesOf[link] ELSE <<>>
WithItems(map, items) ==
    [v \in Values |-> IF map[v] # 0 THEN map[v]
                      ELSE IF \E i \in DOMAIN items : items[i] = v
                      THEN CHOOSE i \in DOMAIN items : items[i] = v ELSE 0]
\* axisComboMap[v], which makes the entry of an axis that has none: the first item.
Indexed(map, v) == [map EXCEPT ![v] = IF @ = 0 THEN 1 ELSE @]
Shown(map, items, v) == IF map[v] \in DOMAIN items THEN items[map[v]] ELSE Absent

\* The section found is put in use, or one made; the driver reads it and the widgets show that.
Taken(g, found, link) ==
    LET conf == IF found # {} THEN [g.conf EXCEPT !.input = First(found)]
                ELSE [sections |-> Append(g.conf.sections, NewSection(link)),
                      input |-> Len(g.conf.sections) + 1]
        d == DriverOf(link[1])
        v == InitPrefs(conf, link[1], g.static[d])
    IN  [g EXCEPT !.conf = conf, !.static[d] = v, !.widget = v, !.ready = TRUE, !.fresh = FALSE]

\* Activate of TirPrefs and WiimotePrefs, whose section is found by type, and of WebcamPrefs,
\* WebcamFtPrefs, MacP3ePrefs and MacP3eFtPrefs.
ActivateTir(g) == Taken(g, FoundType(g.conf, "Tir"), <<"Tir", "Tir">>)
ActivateWiimote(g) == Taken(g, FoundType(g.conf, "Wiimote"), Wiimote)
ActivateWebcam(g, id) == Taken(g, Found(g.conf, <<"Webcam", id>>), <<"Webcam", id>>)
ActivateFace(g, id) == Taken(g, Found(g.conf, <<"Webcam-face", id>>), <<"Webcam-face", id>>)
ActivateEye(g, id) == Taken(g, Found(g.conf, <<"Ps3Eye", id>>), <<"Ps3Eye", id>>)
ActivateEyeFace(g, id) == Taken(g, Found(g.conf, <<"Ps3Eye-face", id>>), <<"Ps3Eye-face", id>>)

\* The rest of JoyPrefs::Activate: enumerateAxes fails when it is not there any more.
ShowAxes(g, link) ==
    LET map == Indexed(WithItems(g.comboMap, Items(link)), g.static["Joystick"])
    IN  IF link \in plugged
        THEN [g EXCEPT !.comboMap = map, !.widget = Shown(map, Items(link), g.static["Joystick"]), !.ready = TRUE]
        ELSE [g EXCEPT !.widget = Absent, !.ready = FALSE]

\* JoyPrefs::Activate: for a new section the driver's values are read before it is in use.
ActivateJoy(g, link) ==
    LET found == Found(g.conf, link)
        chosen == [g.conf EXCEPT !.input = First(found)]
        empty == [g.conf EXCEPT !.sections = Append(@, Section(Nothing, <<>>))]
        made == [sections |-> Append(g.conf.sections, NewSection(link)), input |-> Len(g.conf.sections) + 1]
    IN  IF found # {}
        THEN ShowAxes([g EXCEPT !.conf = chosen, !.fresh = FALSE,
                                !.static["Joystick"] = InitPrefs(chosen, "Joystick", @)], link)
        ELSE IF g.conf.input = 0 THEN [g EXCEPT !.conf = empty, !.widget = Absent, !.ready = FALSE]
        ELSE ShowAxes([g EXCEPT !.conf = made, !.fresh = TRUE,
                                !.static["Joystick"] = InitPrefs(g.conf, "Joystick", @)], link)

\* DeviceSetup::on_DeviceSelector_activated
Activated(g, link) ==
    LET h == [g EXCEPT !.form = link, !.stale = FALSE]
    IN  CASE link[1] = "Joystick" -> ActivateJoy(h, link)
          [] link[1] = "Tir" -> ActivateTir(h)
          [] link[1] = "Wiimote" -> ActivateWiimote(h)
          [] link[1] = "Webcam" -> ActivateWebcam(h, link[2])
          [] link[1] = "Webcam-face" -> ActivateFace(h, link[2])
          [] link[1] = "Ps3Eye" -> ActivateEye(h, link[2])
          [] link[1] = "Ps3Eye-face" -> ActivateEyeFace(h, link[2])

\* AddAvailableDevices of each form: its items, and which of them is the device l in use.
TirListed(p, l) == p[1] = "Tir" /\ l[1] = "Tir"
WiimoteListed(p, l) == p[1] = "Wiimote" /\ l[1] = "Wiimote"
JoyListed(p, l) == p[1] = "Joystick" /\ p = l
WebcamListed(p, l) == p[1] = "Webcam" /\ p = l
FaceListed(p, l) == p[1] = "Webcam-face" /\ p = l
EyeListed(p, l) == p[1] = "Ps3Eye" /\ l[1] = "Ps3Eye"
EyeFaceListed(p, l) == p[1] = "Ps3Eye-face" /\ l[1] = "Ps3Eye-face"
Listed(p, l) == \/ TirListed(p, l) \/ WiimoteListed(p, l) \/ JoyListed(p, l) \/ WebcamListed(p, l)
                \/ FaceListed(p, l) \/ EyeListed(p, l) \/ EyeFaceListed(p, l)

\* Mutant: the list starts at its first item whatever device is in use.
CurrentFirst(conf) == Wiimote

\* DeviceSetup::refresh: the item of the device in use becomes the current one, else the first, which is
\* the Wiimote, always there.
Current(conf) ==
    LET mine == {p \in plugged \cup {Wiimote} : Listed(p, InUse(conf))}
    IN  IF mine = {} THEN Wiimote ELSE CHOOSE p \in mine : TRUE

Init ==
    /\ plugged \in {{}, Links} /\ disk \in Confs
    /\ combo = plugged \cup {Wiimote}
    /\ gui = Activated([conf |-> disk, static |-> [d \in Drivers |-> Absent], comboMap |-> [v \in Values |-> 0],
                        form |-> Nothing, ready |-> FALSE, fresh |-> FALSE, stale |-> FALSE, widget |-> Absent],
                       Current(disk))
    /\ crashed = FALSE /\ strayed = FALSE /\ dvChanges = 0

Change == ~crashed /\ dvChanges < MaxChanges /\ dvChanges' = dvChanges + 1

\* DeviceSetup::refresh on preferences conf
Refreshed(conf) ==
    /\ combo' = plugged \cup {Wiimote}
    /\ gui' = Activated([gui EXCEPT !.conf = conf], Current(conf))

Refresh ==
    /\ Change /\ Refreshed(gui.conf) /\ UNCHANGED <<plugged, disk, crashed>>
    /\ strayed' = (strayed \/ (InUse(gui.conf) \in plugged \cup {Wiimote} /\ gui'.conf # gui.conf))

Choose(link) ==
    /\ Change /\ link \in combo /\ gui' = Activated(gui, link)
    /\ UNCHANGED <<plugged, combo, disk, crashed, strayed>>

\* The slots of the forms' widgets.
TirSlot(g, v) == TirSet(g, v)
WiimoteSlot(g, v) == WiiSet(g, v)
JoySlot(g, v) == JoySet(g, v)
WebcamSlot(g, v) == WcSet(g, v)
FaceSlot(g, v) == WcSet(g, v)
EyeSlot(g, v) == Ps3Set(g, v)
EyeFaceSlot(g, v) == Ps3Set(g, v)

Slot(g, v) ==
    CASE g.form[1] = "Tir" -> TirSlot(g, v) [] g.form[1] = "Wiimote" -> WiimoteSlot(g, v)
      [] g.form[1] = "Joystick" -> JoySlot(g, v) [] g.form[1] = "Webcam" -> WebcamSlot(g, v)
      [] g.form[1] = "Webcam-face" -> FaceSlot(g, v) [] g.form[1] = "Ps3Eye" -> EyeSlot(g, v)
      [] g.form[1] = "Ps3Eye-face" -> EyeFaceSlot(g, v)

\* A widget of the form is changed.
Edit(v) ==
    /\ Change /\ gui.widget \notin {v, Absent}
    /\ gui.form[1] = "Joystick" => \E i \in DOMAIN Items(gui.form) : Items(gui.form)[i] = v
    /\ gui' = [Slot(gui, v) EXCEPT !.widget = v, !.fresh = FALSE]
    /\ crashed' = (gui.conf.input = 0)
    /\ UNCHANGED <<plugged, combo, disk, strayed>>

\* LinuxtrackGui::on_SaveButton_pressed, on_DefaultsButton_pressed, on_DiscardChangesButton_pressed: the
\* last does not look at the devices again, as LinuxtrackGui::initialized is never set.
Save == Change /\ disk' = gui.conf /\ UNCHANGED <<gui, plugged, combo, crashed, strayed>>
Discard ==
    /\ Change /\ gui' = [gui EXCEPT !.conf = disk, !.stale = gui.stale \/ disk # gui.conf]
    /\ UNCHANGED <<plugged, combo, disk, crashed, strayed>>
Defaults ==
    Change /\ disk' = DefaultConf /\ Refreshed(DefaultConf) /\ UNCHANGED <<plugged, crashed, strayed>>

PlugIn(link) == Change /\ plugged' = plugged \cup {link} /\ link \notin plugged /\ UNCHANGED <<gui, combo, disk, crashed, strayed>>
PullOut(link) == Change /\ plugged' = plugged \ {link} /\ link \in plugged /\ UNCHANGED <<gui, combo, disk, crashed, strayed>>

Next ==
    \/ Refresh \/ Save \/ Discard \/ Defaults
    \/ \E l \in Links \cup {Wiimote} : Choose(l)
    \/ \E l \in Links : PlugIn(l) \/ PullOut(l)
    \/ \E v \in Values : Edit(v)

Spec == Init /\ [][Next]_vars

-----------------------------------------------------------------------

\* Types and bounds.
TypeOK ==
    /\ plugged \subseteq Links /\ combo \subseteq Links \cup {Wiimote} /\ dvChanges \in 0 .. MaxChanges
    /\ \A c \in {gui.conf, disk} :
          /\ c.input \in 0 .. Len(c.sections)
          /\ \A i \in DOMAIN c.sections : \A k \in Keys : c.sections[i].vals[k] \in Values \cup {Absent}
    /\ gui.form \in Links \cup {Wiimote} /\ gui.widget \in Values \cup {Absent}
    /\ {crashed, strayed, gui.ready, gui.fresh, gui.stale} \subseteq BOOLEAN

\* A form that came up and whose preferences were not replaced since edits the section of its own device
\* (every Activate), and shows what that section and its driver have.  A joystick's axes are excepted:
\* they are shown through axisComboMap, and a new one starts with values of the device before it.
FormIsOfDevice ==
    LET s == gui.conf.sections[gui.conf.input].vals[KeyOf(gui.form[1])]
        v == gui.static[DriverOf(gui.form[1])]
    IN  gui.ready /\ ~gui.stale =>
            /\ InUse(gui.conf) = gui.form
            /\ gui.form[1] # "Joystick" => gui.widget = v /\ v = s
            /\ gui.form[1] = "Joystick" /\ ~gui.fresh => v = IF s = Absent THEN Made ELSE s

\* However often a device is chosen, plugged and discarded, it has one section (createSection).
OneSection ==
    \A i, j \in DOMAIN gui.conf.sections :
        gui.conf.sections[i].link = gui.conf.sections[j].link /\ gui.conf.sections[i].link # Nothing => i = j

\* To look for devices changes nothing while the one in use is there (AddAvailableDevices).
RefreshKeeps == ~strayed

\* It is not so that a setting always goes to a section: after Discard with preferences that name no
\* Input, as the default ones do, the form shown writes to a section of no name, and the program ends.
NeverNowhere == ~crashed
=============================================================================
