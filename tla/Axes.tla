------------------------------- MODULE Axes -------------------------------
(***************************************************************************)
(* The settings of the axes, in the three places that hold them: the       *)
(* preferences (axis.c reads and writes a profile's section of them), the  *)
(* axes of the GUI (qt_gui/tracker.cpp) and the axes of a slave            *)
(* (ltr_srv_slave.c), which starts from the file on disk and is then told  *)
(* of changes through the master.  "filter" stands for the numeric         *)
(* parameters, "inverted" for the two switches.                            *)
(***************************************************************************)
EXTENDS Integers, Sequences, SequencesExt

CONSTANTS Axes,          \* PITCH, YAW, ...
          SectionOf,     \* profile title -> name of its section; "Default" is a profile and a section
          Filters,       \* 0 .. 4 in the code: the GUI may set up to its largest
          LoadCap,       \* 2.0: set_axis_field takes no larger filter from a section
          MaxCommon,     \* 1.0: the common part of the filters starts at most there
          Defaults,      \* def_section: [filter, inverted]
          MaxChanges     \* bound: what the user does

Unset == -1

VARIABLES
    file, disk,          \* preferences of the GUI, and as they were saved last: section -> values
    handle,              \* axes of the tracker: [section, values]
    profile, profileSection, ffs, common,   \* class Tracker
    slave,               \* [profile, values, announced], None when there is none
    joining,             \* signalNewSlave at work: the axes it loaded
    channel,             \* from the master to the slave: <<parameter, axis, value>>
    posing,              \* handle the device thread entered ltr_int_postprocess_axes with
    defaulted, raced,    \* fromDefault was used; a change was made while a slave was announced
    changes

prefs == <<file, disk>>
tracker == <<profile, profileSection, ffs, common>>
far == <<slave, joining, channel>>
vars == <<prefs, handle, tracker, far, posing, defaulted, raced, changes>>

None == [none |-> TRUE]
NoSection == [filter |-> [a \in Axes |-> Unset], inverted |-> "missing"]
Empty == [filter |-> [a \in Axes |-> Unset], inverted |-> "unset"]
Profiles == DOMAIN SectionOf
Sections == {SectionOf[p] : p \in Profiles}
Least(a, b) == IF a < b THEN a ELSE b
MaxFilter == CHOOSE m \in Filters : \A f \in Filters : f <= m
Change == changes < MaxChanges /\ changes' = changes + 1

-----------------------------------------------------------------------
(* axis.c, on a copy f of the preferences. *)

\* ltr_int_prepare_section: the default section and the profile's exist afterwards.
Prepared(f, sec) ==
    LET g == IF f["Default"] = NoSection THEN [f EXCEPT !["Default"] = Defaults] ELSE f
    IN  IF g[sec] = NoSection THEN [g EXCEPT ![sec] = Empty] ELSE g

\* ltr_int_axis_get_key: what a section lacks comes from the default one and is written into it.
Filled(f, sec) ==
    LET g == Prepared(f, sec)
        flt(a) == IF g[sec].filter[a] = Unset THEN g["Default"].filter[a] ELSE g[sec].filter[a]
        inv == IF g[sec].inverted = "unset" THEN g["Default"].inverted ELSE g[sec].inverted
    IN  [g EXCEPT ![sec] = [filter |-> [a \in Axes |-> flt(a)], inverted |-> inv]]

\* ltr_int_get_axis, set_axis_field
Loaded(f, sec) ==
    LET g == Filled(f, sec)
    IN  [filter |-> [a \in Axes |-> Least(g[sec].filter[a], LoadCap)], inverted |-> g[sec].inverted]

-----------------------------------------------------------------------

\* The first run finds no section; later ones those saved.  The tracker, the selector of profiles and the
\* form in it have each called setProfile("Default") when the windows are up.
Init ==
    /\ disk \in [Sections -> {NoSection, Defaults}]
    /\ (disk["Default"] = NoSection => \A s \in Sections : disk[s] = NoSection)
    /\ file = Filled(disk, "Default") /\ profile = "Default" /\ profileSection = "Default"
    /\ handle = [section |-> "Default", values |-> Loaded(disk, "Default")]
    /\ LET values == {handle.values.filter[a] : a \in Axes} \cup {MaxCommon}
       IN  common = (CHOOSE m \in values : \A v \in values : m <= v)
    /\ ffs = [a \in Axes |-> handle.values.filter[a] - common]
    /\ slave = None /\ joining = None /\ channel = <<>> /\ posing = None
    /\ defaulted = FALSE /\ raced = FALSE /\ changes = 0

\* Profile::addProfile: axes opened and closed again, for the section.
AddProfile(p) ==
    /\ Change /\ file' = Filled(file, SectionOf[p])
    /\ UNCHANGED <<disk, handle, tracker, far, posing, defaulted, raced>>

\* What the windows offer: the profiles there are.
Known == {p \in Profiles : file[SectionOf[p]] # NoSection}

\* Mutant: each axis keeps its whole filter beside the common part.
SetProfileWhole(p) ==
    /\ Change /\ p \in Known /\ profile' = p /\ profileSection' = SectionOf[p]
    /\ handle' = [section |-> SectionOf[p], values |-> Loaded(file, SectionOf[p])]
    /\ file' = Filled(file, SectionOf[p])
    /\ common' = (CHOOSE m \in Filters \cup {MaxCommon} : m = MaxCommon) /\ ffs' = handle'.values.filter
    /\ defaulted' = FALSE /\ UNCHANGED <<disk, far, posing, raced>>

\* Tracker::setProfile
SetProfile(p) ==
    LET sec == SectionOf[p]
        flt == Loaded(file, sec).filter
        values == {flt[a] : a \in Axes} \cup {MaxCommon}
    IN  /\ Change /\ p \in Known /\ profile' = p
        /\ profileSection' = sec
        /\ handle' = [section |-> sec, values |-> Loaded(file, sec)] /\ file' = Filled(file, sec)
        /\ common' = (CHOOSE m \in values : \A v \in values : m <= v)
        /\ ffs' = [a \in Axes |-> flt[a] - common']
        /\ defaulted' = FALSE /\ UNCHANGED <<disk, far, posing, raced>>

\* ltr_int_change: to every slave registered by this name.
Told(name, messages) ==
    channel' = IF slave # None /\ slave.profile = name THEN channel \o messages ELSE channel

\* limit_ff
Limit(v) == IF v < 0 THEN 0 ELSE Least(v, MaxFilter)

\* Mutant: the section gets the axis' own part only.
SetFilterPart(a, v) ==
    /\ Change /\ ffs' = [ffs EXCEPT ![a] = v]
    /\ handle' = [handle EXCEPT !.values.filter[a] = Limit(v + common)]
    /\ file' = [file EXCEPT ![handle.section].filter[a] = v]
    /\ Told(profileSection, <<<<"filter", a, Limit(v + common)>>>>) /\ raced' = (raced \/ joining # None)
    /\ UNCHANGED <<disk, profile, profileSection, common, slave, joining, posing, defaulted>>

\* Tracker::axisChange(AXIS_FILTER), ltr_int_set_axis_param: in memory, in the section, to the slaves.
SetFilter(a, v) ==
    LET val == Limit(v + common)
    IN  /\ Change /\ ffs' = [ffs EXCEPT ![a] = v]
        /\ handle' = [handle EXCEPT !.values.filter[a] = val]
        /\ file' = [file EXCEPT ![handle.section].filter[a] = val]
        /\ Told(profileSection, <<<<"filter", a, val>>>>) /\ raced' = (raced \/ joining # None)
        /\ UNCHANGED <<disk, profile, profileSection, common, slave, joining, posing, defaulted>>

\* Tracker::setCommonFilterFactor
SetCommon(c) ==
    LET val == [a \in Axes |-> Limit(ffs[a] + c)]
    IN  /\ Change /\ common' = c
        /\ handle' = [handle EXCEPT !.values.filter = val]
        /\ file' = [file EXCEPT ![handle.section].filter = val]
        /\ Told(profileSection, SetToSeq({<<"filter", a, val[a]>> : a \in Axes}))
        /\ raced' = (raced \/ joining # None)
        /\ UNCHANGED <<disk, profile, profileSection, ffs, slave, joining, posing, defaulted>>

\* Tracker::axisChange(AXIS_INVERTED), ltr_int_set_axis_bool_param
Invert(v) ==
    /\ Change /\ handle' = [handle EXCEPT !.values.inverted = v]
    /\ file' = [file EXCEPT ![handle.section].inverted = v]
    /\ Told(profileSection, <<<<"inverted", "all", v>>>>) /\ raced' = (raced \/ joining # None)
    /\ UNCHANGED <<disk, tracker, slave, joining, posing, defaulted>>

\* ltr_int_axes_from_default: values of the default section under the profile's name.  The widgets of
\* the main form (profile_setup.cpp, initAxes) hand on what they show, the switches among it.
FromDefault ==
    LET values == Loaded(file, "Default")
    IN  /\ Change /\ handle' = [handle EXCEPT !.values = values]
        /\ file' = [Filled(file, "Default") EXCEPT ![handle.section].inverted = values.inverted]
        /\ defaulted' = TRUE
        /\ UNCHANGED <<disk, tracker, far, posing, raced>>

\* PrefProxy::savePrefs, when the user agrees
Save == Change /\ disk' = file /\ UNCHANGED <<file, handle, tracker, far, posing, defaulted, raced>>

-----------------------------------------------------------------------

\* ltr_int_slave: a process with a copy of its own, read from the disk.
SlaveStarts(p) ==
    /\ Change /\ slave = None /\ slave' = [profile |-> p, values |-> Loaded(disk, SectionOf[p]), announced |-> FALSE]
    /\ UNCHANGED <<prefs, handle, tracker, joining, channel, posing, defaulted, raced>>

\* ltr_int_register_slave and the start of signalNewSlave, on the master's thread.
Join ==
    /\ slave # None /\ ~slave.announced /\ joining = None /\ joining' = [values |-> Loaded(file, SectionOf[slave.profile])]
    /\ file' = Filled(file, SectionOf[slave.profile])
    /\ UNCHANGED <<disk, handle, tracker, slave, channel, posing, defaulted, raced, changes>>

\* Mutant: only the switches are announced.
AnnounceSwitches ==
    /\ joining # None /\ channel' = channel \o <<<<"inverted", "all", joining.values.inverted>>>>
    /\ joining' = None /\ slave' = [slave EXCEPT !.announced = TRUE]
    /\ UNCHANGED <<prefs, handle, tracker, posing, defaulted, raced, changes>>

\* The rest of signalNewSlave: "axes might have changed (so better send through all)".
Announce ==
    /\ joining # None /\ joining' = None /\ slave' = [slave EXCEPT !.announced = TRUE]
    /\ channel' = channel \o <<<<"inverted", "all", joining.values.inverted>>>>
                          \o SetToSeq({<<"filter", a, joining.values.filter[a]>> : a \in Axes})
    /\ UNCHANGED <<prefs, handle, tracker, posing, defaulted, raced, changes>>

\* ltr_int_process_message, CMD_PARAM: of the switches it knows AXIS_ENABLED alone; the other is
\* handed to ltr_int_set_axis_param, which refuses it.
Hear ==
    /\ channel # <<>> /\ channel' = Tail(channel)
    /\ LET m == Head(channel)
       IN  slave' = IF m[1] = "filter" THEN [slave EXCEPT !.values.filter[m[2]] = m[3]] ELSE slave
    /\ UNCHANGED <<prefs, handle, tracker, joining, posing, defaulted, raced, changes>>

SlaveEnds ==
    /\ slave # None /\ joining = None /\ slave' = None /\ channel' = <<>>
    /\ UNCHANGED <<prefs, handle, tracker, joining, posing, defaulted, raced, changes>>

\* signalNewPose, on the device thread: the handle is passed by value.
Pose ==
    /\ posing' = (IF posing = None THEN handle ELSE None)
    /\ UNCHANGED <<prefs, handle, tracker, far, defaulted, raced, changes>>

Next ==
    \/ \E p \in Profiles : AddProfile(p) \/ SetProfile(p) \/ SlaveStarts(p)
    \/ \E a \in Axes, v \in Filters : SetFilter(a, v)
    \/ \E c \in Filters : SetCommon(c)
    \/ \E v \in {"Yes", "No"} : Invert(v)
    \/ FromDefault \/ Save \/ Join \/ Announce \/ Hear \/ SlaveEnds \/ Pose

Spec == Init /\ [][Next]_vars

-----------------------------------------------------------------------

\* Types and bounds.
TypeOK ==
    /\ profile \in Profiles /\ profileSection \in Sections /\ common \in Filters
    /\ \A a \in Axes : ffs[a] \in Filters
    /\ handle.section \in Sections /\ handle.values.filter \in [Axes -> Filters]
    /\ \A s \in Sections : file[s].inverted \in {"Yes", "No", "unset", "missing"}
    /\ changes \in 0 .. MaxChanges

\* What the tracker works with is what its section says, as far as a section may say it: a change made in
\* the GUI is not lost with the program (axis.c, set_axis_param with save_val_flt; tracker.cpp).
MemoryIsSection ==
    ~defaulted =>
        LET f == Filled(file, handle.section)[handle.section]
        IN  /\ file[handle.section] = f /\ handle.values.inverted = f.inverted
            /\ \A a \in Axes : Least(handle.values.filter[a], LoadCap) = Least(f.filter[a], LoadCap)

\* The filter of an axis is its own part and the common one, within its limits (tracker.cpp:218-256).
FilterIsSum ==
    ~defaulted => \A a \in Axes : handle.values.filter[a] = Limit(ffs[a] + common)

\* A slave of the default profile that has been announced and has heard everything filters as the tracker
\* does, however the changes, the save and its start fell, unless one fell into its announcement.
SlaveFilters ==
    handle.section = "Default" /\ profileSection = "Default" /\ ~defaulted /\ ~raced
    /\ slave # None /\ slave.profile = "Default" /\ slave.announced /\ channel = <<>>
        => \A a \in Axes : Least(slave.values.filter[a], LoadCap) = Least(handle.values.filter[a], LoadCap)

=============================================================================
