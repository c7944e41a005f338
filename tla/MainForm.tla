------------------------------ MODULE MainForm ------------------------------
(***************************************************************************)
(* The main window (ltr_gui.cpp) and the tracking window (ltr_show.cpp):   *)
(* the check boxes of the Misc tab with the caches of pref_global.c, the   *)
(* preferences and their file (ltr_gui_prefs.cpp), the buttons that follow *)
(* the tracker's state, told by it (tracker.cpp) or polled (ltr_state.cpp),*)
(* and a slave that hears of the options.  One box stands for all.         *)
(***************************************************************************)
EXTENDS Integers, Sequences

CONSTANTS Starts,     \* files the GUI may find, as <<main, legacy>>
          MaxUser     \* bound: what the user does

VARIABLES box, cache,            \* the box, and what ltr_int_use_alter returns
          prefs, flag,           \* preferences in memory, need_saving
          mainFile, backup,      \* linuxtrack1.conf and linuxtrack1.conf.backup
          tracking, told,        \* the tracker's state, announced and not delivered yet
          polled, buttonsFor,    \* TrackerState::prev_state, state the tracking window shows
          sending,               \* the GUI has changed the cache and not yet told the slaves
          listener, option,      \* a slave: gone, joining (what the cache held then), there; its option
          zip,                   \* the button that packages the logs
          ended, answer,         \* closeEvent is over, what the user said when asked to save
          outdated, crossed, dropped,  \* caches older than prefs; slave told out of order; a file lost
          mfSteps

vars == <<box, cache, prefs, flag, mainFile, backup, tracking, told, polled, buttonsFor, sending,
          listener, option, zip, ended, answer, outdated, crossed, dropped, mfSteps>>

files == <<mainFile, backup>>
states == <<tracking, told, polled, buttonsFor>>
slaves == <<listener, option, crossed>>

\* Contents: whose settings, the option (or no key), and whether Prefix is that of this program.
NoFile == [who |-> "nobody", opt |-> "absent", prefix |-> FALSE]
DefaultFile == [who |-> "package", opt |-> "absent", prefix |-> FALSE]

\* ltr_int_use_alter and its like: no key is a no.
Reads(content) == content.opt = "yes"
Key(b) == IF b THEN "yes" ELSE "no"
Joining(b) == IF b THEN "joining yes" ELSE "joining no"

\* PrefProxy::checkPrefix(true) on preferences just read, those of a missing file being empty: without
\* this Prefix it is set and all is saved.
Prefixed(content) == [content EXCEPT !.prefix = TRUE]

\* ltr_int_save_prefs: saved; nothing written that can be read back; or the file renamed and not replaced.
Results == {"done", "failed", "lost"}
Stored(content, there, result) ==
    CASE result = "done" -> content [] result = "lost" -> NoFile [] OTHER -> there
FlagAfter(content, dirty, result) == IF content.prefix THEN dirty ELSE result # "done"
FileAfter(content, there, result) == IF content.prefix THEN there ELSE Stored(Prefixed(content), there, result)

\* PrefProxy::PrefProxy: the file, or one of the old name, which is a change, or a copy of the default
\* one; a failing copy ends the program.
Init ==
    /\ \E s \in Starts, result \in Results :
          LET content == IF s[1] # NoFile THEN s[1] ELSE IF s[2] # NoFile THEN s[2] ELSE DefaultFile
              legacy == s[1] = NoFile /\ s[2] # NoFile
          IN  /\ prefs = Prefixed(content) /\ flag = FlagAfter(content, legacy, result)
              /\ mainFile = FileAfter(content, IF legacy THEN NoFile ELSE content, result)
    /\ backup = NoFile /\ cache = Reads(prefs) /\ box = cache
    /\ tracking = "stopped" /\ told = <<>> /\ polled = "stopped" /\ buttonsFor = "stopped"
    /\ sending = FALSE /\ listener = "gone" /\ option = FALSE /\ zip = "ready"
    /\ ended = FALSE /\ answer = "none" /\ outdated = FALSE /\ crossed = FALSE /\ dropped = FALSE /\ mfSteps = 0

User == ~ended /\ ~sending /\ mfSteps < MaxUser /\ mfSteps' = mfSteps + 1

\* Mutant: the box changes the preferences and forgets the cache.
CheckKeyOnly(b) ==
    /\ User /\ box # b /\ box' = b /\ prefs' = [prefs EXCEPT !.opt = Key(b)] /\ flag' = TRUE
    /\ outdated' = FALSE /\ sending' = TRUE
    /\ UNCHANGED <<cache, files, states, slaves, zip, ended, answer, dropped>>

\* on_LegacyPose_stateChanged and its like: cache and key, then the slaves in a step of its own.
Check(b) ==
    /\ User /\ box # b /\ box' = b /\ cache' = b /\ prefs' = [prefs EXCEPT !.opt = Key(b)] /\ flag' = TRUE
    /\ outdated' = FALSE /\ sending' = TRUE
    /\ UNCHANGED <<files, states, slaves, zip, ended, answer, dropped>>

\* Tracker::miscChange, ltr_int_change; a slave that joins meanwhile will be told what the cache held
\* before, and after this.
MiscChange ==
    /\ sending /\ sending' = FALSE
    /\ option' = (IF listener = "gone" THEN option ELSE cache)
    /\ crossed' = (listener = Joining(~cache))
    /\ UNCHANGED <<box, cache, prefs, flag, files, states, listener, zip, ended, answer, outdated, dropped, mfSteps>>

\* Mutant: the flag is lowered whatever came of it.
SavePrefsSure == flag' = FALSE /\ \E result \in Results : mainFile' = Stored(prefs, mainFile, result)

\* PrefProxy::savePrefs, whose result nobody looks at.
SavePrefs ==
    \E result \in Results :
        /\ mainFile' = Stored(prefs, mainFile, result)
        /\ flag' = (flag /\ result # "done")

Save ==
    /\ User /\ SavePrefs
    /\ UNCHANGED <<box, cache, prefs, backup, states, sending, slaves, zip, ended, answer, outdated, dropped>>

\* LinuxtrackGui::rereadPrefs when the file is content: boxes and caches stay.
Reread(content) ==
    /\ \E result \in Results : /\ flag' = FlagAfter(content, FALSE, result)
                               /\ mainFile' = FileAfter(content, content, result)
    /\ prefs' = Prefixed(content)
    /\ outdated' = (Reads(content) # cache)

Resettable == polled = "stopped"

Discard ==
    /\ User /\ Resettable /\ Reread(mainFile)
    /\ UNCHANGED <<box, cache, backup, states, sending, slaves, zip, ended, answer, dropped>>

\* Mutant: the file is not moved out of the way.
CopyDefaultOver(fails) == <<IF fails = "copy" THEN mainFile ELSE DefaultFile, backup>>

\* PrefProxy::copyDefaultPrefs with the step that fails: the file and its backup afterwards.
CopyDefault(fails) ==
    IF mainFile = NoFile THEN <<IF fails = "copy" THEN NoFile ELSE DefaultFile, backup>>
    ELSE CASE fails = "remove" /\ backup # NoFile -> <<mainFile, backup>>
           [] fails = "rename" -> <<mainFile, NoFile>>
           [] fails = "copy" -> <<NoFile, mainFile>>
           [] OTHER -> <<DefaultFile, mainFile>>

Same(a, b) == a.who = b.who /\ a.opt = b.opt

\* on_DefaultsButton_pressed: whatever came of it the file is read again.
Defaults ==
    /\ User /\ Resettable
    /\ \E fails \in {"nothing", "remove", "rename", "copy"} :
          LET f == CopyDefault(fails) IN
          /\ Reread(f[1]) /\ backup' = f[2]
          /\ dropped' = (dropped \/ (mainFile # NoFile /\ ~Same(mainFile, f[1]) /\ ~Same(mainFile, f[2])))
    /\ UNCHANGED <<box, cache, states, sending, slaves, zip, ended, answer>>

\* The tracking window's buttons; what the tracker does about it is a step of its own.
Enabled == CASE buttonsFor \in {"initializing", "running"} -> {"pause", "stop", "recenter"}
             [] buttonsFor = "paused" -> {"wake", "stop"}
             [] OTHER -> {"start"}

rest == <<box, cache, prefs, flag, files, zip, answer, outdated, dropped>>

\* ltr_int_cal_set_state: the state, and a signal that is queued for the GUI's thread.
Change(to) == tracking' = to /\ told' = Append(told, to)

Start ==
    /\ User /\ "start" \in Enabled /\ tracking = "stopped" /\ Change("initializing")
    /\ UNCHANGED <<rest, polled, buttonsFor, sending, slaves, ended>>
Run ==
    /\ tracking = "initializing" /\ Change("running") /\ UNCHANGED <<rest, polled, buttonsFor, sending, slaves, ended, mfSteps>>
Pause ==
    /\ User /\ "pause" \in Enabled /\ tracking = "running" /\ Change("paused")
    /\ UNCHANGED <<rest, polled, buttonsFor, sending, slaves, ended>>
Wake ==
    /\ User /\ "wake" \in Enabled /\ tracking = "paused" /\ Change("running")
    /\ UNCHANGED <<rest, polled, buttonsFor, sending, slaves, ended>>

\* The session ends: the user stops it (Tracker::stop waits), or the device fails.
Ended ==
    /\ IF tracking = "stopped" THEN UNCHANGED <<tracking, told>> ELSE Change("stopped")
    /\ listener' = "gone" /\ crossed' = FALSE /\ UNCHANGED option
Stop == User /\ "stop" \in Enabled /\ Ended /\ UNCHANGED <<rest, polled, buttonsFor, sending, ended>>
Fail == tracking # "stopped" /\ Ended /\ UNCHANGED <<rest, polled, buttonsFor, sending, ended, mfSteps>>

\* Mutant: a signal that comes while others wait is dropped.
DeliverFirst ==
    /\ told # <<>> /\ buttonsFor' = Head(told) /\ told' = <<>>
    /\ UNCHANGED <<rest, tracking, polled, sending, slaves, ended, mfSteps>>

\* LtrGuiForm::stateChanged
Deliver ==
    /\ told # <<>> /\ buttonsFor' = Head(told) /\ told' = Tail(told)
    /\ UNCHANGED <<rest, tracking, polled, sending, slaves, ended, mfSteps>>

\* TrackerState::pollState and LinuxtrackGui::trackerStateHandler
PollState ==
    /\ ~ended /\ polled # tracking /\ polled' = tracking
    /\ UNCHANGED <<rest, tracking, told, buttonsFor, sending, slaves, ended, mfSteps>>

\* A slave registers with the preferences it read, and Tracker::signalNewSlave takes the cache ...
Join ==
    /\ ~ended /\ tracking # "stopped" /\ listener = "gone"
    /\ listener' = Joining(cache) /\ option' = Reads(mainFile) /\ UNCHANGED crossed
    /\ UNCHANGED <<rest, states, sending, ended, mfSteps>>

\* Mutant: a slave that joins is left with what it read.
SignalNewSlaveAxes ==
    /\ listener \in {Joining(TRUE), Joining(FALSE)} /\ listener' = "there" /\ UNCHANGED option
    /\ UNCHANGED <<rest, states, sending, crossed, ended, mfSteps>>

\* ... and tells it.
SignalNewSlave ==
    /\ listener \in {Joining(TRUE), Joining(FALSE)} /\ listener' = "there" /\ option' = (listener = Joining(TRUE))
    /\ UNCHANGED <<rest, states, sending, crossed, ended, mfSteps>>

\* on_PackageLogsButton_pressed, given up or not, and logsPackaged
Package ==
    /\ User /\ zip = "ready" /\ zip' \in {"disabled", "packing"}
    /\ UNCHANGED <<box, cache, prefs, flag, files, states, sending, slaves, ended, answer, outdated, dropped>>
LogsPackaged ==
    /\ zip = "packing" /\ zip' = "ready"
    /\ UNCHANGED <<box, cache, prefs, flag, files, states, sending, slaves, ended, answer, outdated, dropped, mfSteps>>

\* Mutant: nobody is asked.
ExitUnasked == UNCHANGED <<mainFile, flag, answer>>

\* PrefProxy::SavePrefsOnExit
SaveOnExit ==
    IF ~flag THEN UNCHANGED <<mainFile, flag, answer>>
    ELSE \/ answer' = "close" /\ UNCHANGED <<mainFile, flag>>
         \/ answer' = "save" /\ SavePrefs

\* LinuxtrackGui::closeEvent
Close ==
    /\ User /\ ended' = TRUE /\ Ended /\ SaveOnExit
    /\ UNCHANGED <<box, cache, prefs, backup, polled, buttonsFor, sending, zip, outdated, dropped>>

Next ==
    \/ \E b \in BOOLEAN : Check(b)
    \/ MiscChange \/ Save \/ Discard \/ Defaults \/ Close
    \/ Start \/ Run \/ Pause \/ Wake \/ Stop \/ Fail \/ Deliver \/ PollState
    \/ Join \/ SignalNewSlave \/ Package \/ LogsPackaged

Spec == Init /\ [][Next]_vars

-----------------------------------------------------------------------

TrackerStates == {"stopped", "initializing", "running", "paused"}

\* Types and bounds.
TypeOK ==
    /\ {box, cache, flag, sending, option, ended, outdated, crossed, dropped} \subseteq BOOLEAN
    /\ answer \in {"none", "close", "save"}
    /\ {tracking, polled, buttonsFor} \subseteq TrackerStates /\ zip \in {"ready", "disabled", "packing"}
    /\ \A i \in DOMAIN told : told[i] \in TrackerStates
    /\ listener \in {"gone", Joining(TRUE), Joining(FALSE), "there"} /\ mfSteps \in 0 .. MaxUser

\* The box shows what the tracker does, and the preferences say the same unless they were replaced since
\* (ltr_int_use_alter, on_LegacyPose_stateChanged).
OptionAgrees == box = cache /\ (~outdated => Reads(prefs) = cache)

\* When nothing says that there are changes to save, there are none in the file, whichever save failed
\* and however far it came; so none are left behind on the way out without a question
\* (ltr_int_need_saving, SavePrefsOnExit).
NothingUnsaved == /\ ~flag => mainFile \in {prefs, NoFile}
                  /\ ended /\ answer = "none" => mainFile \in {prefs, NoFile}

\* Default preferences never replace the only copy of those before (copyDefaultPrefs).
LastKept == ~dropped

\* A slave that was told has the option of the GUI, whatever it read from the file (signalNewSlave, miscChange).
SlaveHears == listener = "there" /\ ~sending /\ ~crossed => option = cache

\* The tracking window comes to offer what the state of the tracker allows (stateChanged).
ButtonsFollow == told = <<>> => buttonsFor = tracking

\* Not so: the user who wants the changes saved is not told that they were not.  And a save of what is
\* saved already may lose the file between its two renames, which raises no flag.
SavedAsAsked == ended /\ answer = "save" => prefs = mainFile
FileStays == ~flag => prefs = mainFile

\* Nor is it so that the slave agrees in the end: it may be told the older value last.  The GUI may read the preferences again while a
\* session starts, as the buttons follow a poll.  And the button that packages logs stays disabled.
NeverCrossed == listener = "there" /\ ~sending => option = cache
CachesFresh == ~outdated
QuietReset == [][outdated' # outdated /\ outdated' => tracking = "stopped"]_vars
PackagesAgain == zip # "disabled"

\* Nor is the user's own file kept when a copy failed once and the defaults are asked for again.
OriginalKept == mainFile.who = "nobody" /\ mainFile.prefix => backup.who # "nobody"
=============================================================================
