---------------------------------- MODULE Prefs ----------------------------------
(***************************************************************************)
(* The preferences of one process (pref.cpp): the settings in memory, the  *)
(* flag that says they differ from the file, and the three files the save  *)
(* goes through.  Threads are the threads of the process that change       *)
(* settings: in the GUI its own thread, and the thread of its master loop, *)
(* which creates a profile when a slave registers.  Only Saver saves and   *)
(* rereads.  The process may die between any two steps of a save and be    *)
(* started again (qt_gui/ltr_gui_prefs.cpp).                               *)
(*                                                                         *)
(* A setting is a member of Settings: which settings a file holds is all   *)
(* that is kept of its text.  A file the disk had no room for holds some   *)
(* of them; it may still parse, because it may end between two lines.      *)
(***************************************************************************)
EXTENDS FiniteSets

CONSTANTS
    Settings,   \* what can be set
    Prefix,     \* the setting checkPrefix looks for
    Default,    \* the settings of the file that comes with the program
    Threads,    \* the threads that change settings
    Saver,      \* the one that saves
    DiskFull    \* whether the disk may run out of room

ASSUME PrefixAssumption == Prefix \in Settings /\ Default \subseteq Settings
ASSUME SaverAssumption == Saver \in Threads

VARIABLES
    live,     \* the singleton: the settings in memory
    flag,     \* changed_flag
    disk,     \* "main": the preference file, "new" and "old" beside it
    pc,       \* where Saver is
    saved,    \* the settings of the last save that said it succeeded
    serving   \* the threads other than Saver run

vars == <<live, flag, disk, pc, saved, serving>>

File == [there: BOOLEAN, whole: BOOLEAN, has: SUBSET Settings]

Missing == [there |-> FALSE, whole |-> TRUE, has |-> {}]
Whole(s) == [there |-> TRUE, whole |-> TRUE, has |-> s]

Pcs == {"down", "read", "prefix", "idle", "reread", "open", "write", "parse",
        "remove", "keep", "install", "reset"}

TypeOK ==
    /\ live \subseteq Settings
    /\ flag \in BOOLEAN
    /\ disk \in [main: File, new: File, old: File]
    /\ pc \in Pcs
    /\ saved \subseteq Settings
    /\ serving \in BOOLEAN
    /\ disk.main.there \/ disk.old.there

\* A machine on which the program was started before.
Init ==
    /\ live = {} /\ flag = FALSE
    /\ disk = [main |-> Whole(Default), new |-> Missing, old |-> Missing]
    /\ pc = "down"
    /\ saved = Default
    /\ serving = FALSE

GoTo(from, to) == pc = from /\ pc' = to

-----------------------------------------------------------------------------
\* Reading.

\* The parser takes a whole file, and a cut one that happens to end well.
Parses(f) == f.there /\ (f.whole \/ DiskFull)
Rejects(f) == ~f.there \/ ~f.whole

\* PrefProxy::PrefProxy, ltr_int_read_prefs: the preference file is read; when
\* that fails, the default file is put in its place and read instead.
ReadOwn ==
    /\ GoTo("read", "prefix")
    /\ Parses(disk.main)
    /\ live' = disk.main.has
    /\ flag' = FALSE
    /\ UNCHANGED <<disk, saved, serving>>

CopyDefault ==
    /\ GoTo("read", "prefix")
    /\ Rejects(disk.main)
    /\ disk' = [disk EXCEPT !.main = Whole(Default)]
    /\ live' = Default
    /\ flag' = FALSE
    /\ saved' = Default
    /\ UNCHANGED serving

Start ==
    /\ GoTo("down", "read")
    /\ UNCHANGED <<live, flag, disk, saved, serving>>

\* PrefProxy::checkPrefix: a file written by a program installed elsewhere is
\* corrected and saved at once.
CheckPrefix ==
    /\ pc = "prefix"
    /\ IF Prefix \in live
       THEN pc' = "idle" /\ UNCHANGED <<live, flag>>
       ELSE pc' = "open" /\ live' = live \cup {Prefix} /\ flag' = TRUE
    /\ UNCHANGED <<disk, saved, serving>>

\* PrefProxy::rereadPrefs: the singleton is freed and made again from the file, or
\* left empty when the file cannot be read.
Reread ==
    /\ GoTo("reread", "prefix")
    /\ \/ Parses(disk.main) /\ live' = disk.main.has
       \/ Rejects(disk.main) /\ live' = {}
    /\ flag' = FALSE
    /\ UNCHANGED <<disk, saved, serving>>

\* The user discards what was changed since the last save...
Discard ==
    /\ GoTo("idle", "reread")
    /\ UNCHANGED <<live, flag, disk, saved, serving>>

\* ...or asks for the default settings.
LoadDefaults ==
    /\ GoTo("idle", "reread")
    /\ disk' = [disk EXCEPT !.main = Whole(Default)]
    /\ saved' = Default
    /\ UNCHANGED <<live, flag, serving>>

-----------------------------------------------------------------------------
\* Changing.

\* The GUI starts its master loop, in a thread of its own (tracker.cpp), from a
\* button or a timer of its window.
Serve ==
    /\ pc = "idle" /\ Threads # {Saver}
    /\ serving' = TRUE
    /\ UNCHANGED <<live, flag, disk, pc, saved>>

\* Mutant: the flag is left to addItem, which only a new section goes through.
SetValueUnflagged(t) ==
    /\ IF t = Saver THEN pc = "idle" ELSE serving
    /\ \E s \in Settings \ live : live' = live \cup {s}
    /\ UNCHANGED <<flag, disk, pc, saved, serving>>

\* prefs::setValue, with the section it may have to add (prefs::addItem).
SetValue(t) ==
    /\ IF t = Saver THEN pc = "idle" ELSE serving
    /\ \E s \in Settings \ live : live' = live \cup {s}
    /\ flag' = TRUE
    /\ UNCHANGED <<disk, pc, saved, serving>>

-----------------------------------------------------------------------------
\* ltr_int_save_prefs.

\* The Save button; the question on exit asks it only when flag is set, and so
\* does the master when a slave has registered.
Save ==
    /\ GoTo("idle", "open")
    /\ UNCHANGED <<live, flag, disk, saved, serving>>

\* ltr_int_dump_prefs: the stream empties the file...
OpenNew ==
    /\ GoTo("open", "write")
    /\ disk' = [disk EXCEPT !.new = [there |-> TRUE, whole |-> FALSE, has |-> {}]]
    /\ UNCHANGED <<live, flag, saved, serving>>

\* ...and is written under the read lock; how the write ended is not looked at.
WriteNew ==
    /\ GoTo("write", "parse")
    /\ \/ disk' = [disk EXCEPT !.new = Whole(live)]
       \/ /\ DiskFull
          /\ \E s \in SUBSET live :
                disk' = [disk EXCEPT !.new = [there |-> TRUE, whole |-> FALSE, has |-> s]]
    /\ UNCHANGED <<live, flag, saved, serving>>

\* The file is parsed back into preferences of its own.
ParseBack ==
    /\ GoTo("parse", "remove")
    /\ Parses(disk.new)
    /\ UNCHANGED <<live, flag, disk, saved, serving>>

\* parse_prefs frees the singleton, whatever it was parsing into: the process goes
\* on with no settings at all.
ParseFails ==
    /\ GoTo("parse", "idle")
    /\ Rejects(disk.new)
    /\ live' = {} /\ flag' = FALSE
    /\ UNCHANGED <<disk, saved, serving>>

\* Mutant: the file itself is removed.
RemoveMain ==
    /\ GoTo("remove", "keep")
    /\ disk' = [disk EXCEPT !.main = Missing]
    /\ UNCHANGED <<live, flag, saved, serving>>

RemoveOld ==
    /\ GoTo("remove", "keep")
    /\ disk' = [disk EXCEPT !.old = Missing]
    /\ UNCHANGED <<live, flag, saved, serving>>

\* The first rename; that it fails is reported and otherwise ignored.
KeepOld ==
    /\ GoTo("keep", "install")
    /\ IF disk.main.there
       THEN disk' = [disk EXCEPT !.old = disk.main, !.main = Missing]
       ELSE UNCHANGED disk
    /\ UNCHANGED <<live, flag, saved, serving>>

\* Mutant: the wrong file is renamed.
InstallOld ==
    /\ GoTo("install", "reset")
    /\ disk' = [disk EXCEPT !.main = disk.old, !.new = Missing]
    /\ saved' = disk.new.has
    /\ UNCHANGED <<live, flag, serving>>

Install ==
    /\ GoTo("install", "reset")
    /\ disk' = [disk EXCEPT !.main = disk.new, !.new = Missing]
    /\ saved' = disk.new.has
    /\ UNCHANGED <<live, flag, serving>>

ResetFlag ==
    /\ GoTo("reset", "idle")
    /\ flag' = FALSE
    /\ UNCHANGED <<live, disk, saved, serving>>

-----------------------------------------------------------------------------
\* The process is killed, or ends.
Crash ==
    /\ pc # "down"
    /\ pc' = "down"
    /\ live' = {} /\ flag' = FALSE /\ serving' = FALSE
    /\ UNCHANGED <<disk, saved>>

Next ==
    \/ Start \/ ReadOwn \/ CopyDefault \/ CheckPrefix
    \/ Discard \/ LoadDefaults \/ Reread
    \/ Save \/ OpenNew \/ WriteNew \/ ParseBack \/ ParseFails
    \/ RemoveOld \/ KeepOld \/ Install \/ ResetFlag
    \/ Crash \/ Serve
    \/ \E t \in Threads : SetValue(t)

Spec == Init /\ [][Next]_vars

-----------------------------------------------------------------------------
\* Whatever step of a save the process is killed in, the settings of the last save
\* are whole in the preference file or in the one kept beside it, unless one of the
\* two was cut short (pref.cpp:509-532: written apart, parsed back, then renamed).
Recoverable ==
    disk.main.whole /\ disk.old.whole =>
        \E f \in {disk.main, disk.old} : f.there /\ saved \subseteq f.has

\* What the user is asked about on exit (ltr_gui_prefs.cpp:177) and what the master
\* saves when a slave has registered (ltr_srv_master.cpp:176) is told by the flag
\* alone: while it is down no setting is missing from the file.
NothingForgotten ==
    pc = "idle" /\ ~flag /\ disk.main.whole => live \subseteq disk.main.has

\* So it is in a process that serves nobody, whatever was changed, saved, discarded,
\* failed to be written or left behind by a process that was killed (pref.cpp:312-345,
\* 532).
AloneForgetsNothing == ~serving => NothingForgotten

-----------------------------------------------------------------------------
(* What the documentation promises and the code does not keep: TLC refutes each  *)
(* of the following, and NothingForgotten by itself; README.md tells how.        *)

\* A save that succeeds has stored all it was asked to (pref.cpp:509-512: it gives
\* up when the preferences cannot be stored).
StoredWhole == pc = "reset" => disk.main.whole

\* Settings once saved go only when the user asks for the default ones
\* (ltr_gui.cpp:226).
SettingsKept == [][saved \subseteq saved' \/ LoadDefaults]_vars
==================================================================================
