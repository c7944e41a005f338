------------------------------ MODULE Mickey ------------------------------
(***************************************************************************)
(* Mickey, the head mouse (mickey/mickey.cpp, transform.cpp): the state of *)
(* the program, the countdown dialogs of the calibration and of settings   *)
(* on trial, and the range of head movement that spans the screen, with    *)
(* the copies the transformation, its backup and the window keep of it.    *)
(* One axis stands for both.  Everything runs on the thread of the window; *)
(* what interleaves are timers, hotkeys and the user.                      *)
(***************************************************************************)
EXTENDS Integers

CONSTANTS Angles,        \* raw angles of the head, small integers around 0
          Ranges,        \* ranges the preferences may hold
          Setups,        \* settings of the response curve
          CentreDelay, CalDelay, TryDelay,   \* seconds counted down (at least 1)
          MaxPresses     \* bound: buttons and hotkeys pressed

VARIABLES
    state,               \* "STANDBY", "TRACKING", "CALIBRATING"
    updating,            \* updateTimer runs
    asked,               \* what linuxtrack was asked for last: "wakeup" or "suspend"
    tracker, lastTracker, label,   \* tracking state, as seen last, and the line in the window
    recenterFlag, settle,          \* initTimer: "never" started, "counting", "past"
    cal,                 \* MickeyCalibration: [step, cntr, runs, shown]
    apl,                 \* MickeyApplyDialog: [cntr, runs, shown]
    calibrating, high, low, prevHigh,   \* MickeyTransform: maxVal, minVal, prevMaxVal
    guiRange,            \* maxVal of the window, which is what is saved
    setup, oldSetup, newSetup,     \* MickeysAxis
    kept,                \* [range, setup] the user agreed to last
    escaped,             \* a dialog was hidden by the Escape key, its timer running
    presses

dialogs == <<cal, apl>>
transform == <<calibrating, high, low, prevHigh, guiRange>>
axis == <<setup, oldSetup, newSetup>>
status == <<tracker, lastTracker, label>>
first == <<recenterFlag, settle>>
ghosts == <<kept, escaped>>
vars == <<state, updating, asked, status, first, dialogs, transform, axis, ghosts, presses>>

\* Mickey::Mickey: linuxtrack_init and changeState(TRACKING).
Init ==
    /\ state = "TRACKING" /\ updating = TRUE /\ asked = "wakeup"
    /\ tracker = "INITIALIZING" /\ lastTracker = "none" /\ label = "Tracking"
    /\ recenterFlag = TRUE /\ settle = "never"
    /\ cal = [step |-> "none", cntr |-> 0, runs |-> FALSE, shown |-> FALSE]
    /\ apl = [cntr |-> 0, runs |-> FALSE, shown |-> FALSE]
    /\ high \in Ranges /\ prevHigh = high /\ guiRange = high /\ low = 0 /\ calibrating = FALSE
    /\ setup \in Setups /\ newSetup = setup /\ oldSetup = setup
    /\ kept = [range |-> high, setup |-> setup] /\ escaped = FALSE /\ presses = 0

\* The line in the window: of the program's state, and of a tracker that does not run.
StateLabel == [STANDBY |-> "Paused", TRACKING |-> "Tracking", CALIBRATING |-> "Calibrating"]
TrackerLabel == [INITIALIZING |-> "Initializing", error |-> "Error", PAUSED |-> "Inactive"]

Press == presses < MaxPresses /\ presses' = presses + 1

-----------------------------------------------------------------------

\* Mutant: a calibration does not wake the tracker up.
ChangeStateAsleep(new) ==
    LET next == IF state = "CALIBRATING" /\ new = "STANDBY" THEN "CALIBRATING" ELSE new
    IN  /\ state' = next
        /\ IF state = "TRACKING" /\ next = "STANDBY" THEN updating' = FALSE /\ asked' = "suspend"
           ELSE IF state = "STANDBY" /\ next = "TRACKING" THEN updating' = TRUE /\ asked' = "wakeup"
           ELSE UNCHANGED <<updating, asked>>
        /\ label' = label

\* changeState, with pause and wakeup.  "don't let this happen" from CALIBRATING to STANDBY.
ChangeState(new) ==
    LET next == IF state = "CALIBRATING" /\ new = "STANDBY" THEN "CALIBRATING" ELSE new
    IN  /\ state' = next
        /\ IF state = "TRACKING" /\ next = "STANDBY" THEN updating' = FALSE /\ asked' = "suspend"
           ELSE IF state = "STANDBY" /\ next # "STANDBY" THEN updating' = TRUE /\ asked' = "wakeup"
           ELSE UNCHANGED <<updating, asked>>
        /\ label' = StateLabel[next]

\* hotKey_activated with id 0; id 3 and recenterNow only ask linuxtrack to recentre.
Toggle ==
    /\ Press /\ state # "CALIBRATING"
    /\ ChangeState(IF state = "TRACKING" THEN "STANDBY" ELSE "TRACKING")
    /\ settle' = (IF state = "STANDBY" THEN "counting" ELSE settle)
    /\ UNCHANGED <<tracker, lastTracker, recenterFlag, dialogs, transform, axis, ghosts>>

\* Buttons of the main window work while no modal dialog is shown.
Reachable == ~cal.shown /\ ~apl.shown

\* trySettings, and applySettings of the transformation and its axis.
ApplySettings ==
    /\ apl' = [cntr |-> TryDelay, runs |-> TRUE, shown |-> TRUE]
    /\ oldSetup' = setup /\ setup' = newSetup /\ UNCHANGED newSetup

OnApplyButton ==
    /\ Press /\ Reachable /\ newSetup # setup /\ ApplySettings
    /\ UNCHANGED <<state, updating, asked, status, first, cal, transform, ghosts>>

\* A slider: the window's value reaches newSetup by axisChanged.
Slider ==
    /\ Press /\ Reachable /\ newSetup' \in Setups \ {newSetup}
    /\ UNCHANGED <<state, updating, asked, status, first, dialogs, transform, setup, oldSetup, ghosts>>

\* MickeyCalibration::calibrate and recenter: timeout is called at once, which makes it the delay.
Calibrate(step) ==
    /\ Press /\ Reachable /\ ChangeState("CALIBRATING")
    /\ cal' = [step |-> step, cntr |-> CentreDelay, runs |-> TRUE, shown |-> TRUE]
    /\ UNCHANGED <<tracker, lastTracker, first, apl, transform, axis, ghosts>>

-----------------------------------------------------------------------
(* MickeyCalibration::timeout: *)

CountDown ==
    /\ cal.runs /\ cal.cntr > 1 /\ cal' = [cal EXCEPT !.cntr = cal.cntr - 1]
    /\ UNCHANGED <<state, updating, asked, status, first, apl, transform, axis, ghosts, presses>>

Closed(dialog) == [dialog EXCEPT !.cntr = 0, !.runs = FALSE, !.shown = FALSE]

\* recenterNow(TRUE)
CentredOnly ==
    /\ cal.runs /\ cal.cntr = 1 /\ cal.step = "CENTER_ONLY" /\ ChangeState("TRACKING") /\ cal' = Closed(cal)
    /\ UNCHANGED <<tracker, lastTracker, first, apl, transform, axis, ghosts, presses>>

\* recenterNow(FALSE) and startCalibration
Centred ==
    /\ cal.runs /\ cal.cntr = 1 /\ cal.step = "CENTER"
    /\ cal' = [cal EXCEPT !.step = "CALIBRATE", !.cntr = CalDelay]
    /\ calibrating' = TRUE /\ prevHigh' = high /\ high' = 0 /\ low' = 0
    /\ UNCHANGED <<state, updating, asked, status, first, apl, guiRange, axis, ghosts, presses>>

\* finishCalibration: the smaller side; the new range goes on trial with the settings.
Calibrated ==
    /\ cal.runs /\ cal.cntr = 1 /\ cal.step = "CALIBRATE" /\ cal' = Closed(cal)
    /\ calibrating' = FALSE /\ low' = -low
    /\ high' = (IF low' > high THEN high ELSE low') /\ guiRange' = high'
    /\ ChangeState("TRACKING") /\ ApplySettings
    /\ UNCHANGED <<tracker, lastTracker, first, prevHigh, ghosts, presses>>

\* Mutant: the range is left as the calibration has it so far.
CancelKeeping ==
    /\ Press /\ cal.shown /\ cal' = [Closed(cal) EXCEPT !.cntr = cal.cntr]
    /\ calibrating' = (IF cal.step = "CALIBRATE" THEN FALSE ELSE calibrating)
    /\ ChangeState("TRACKING")
    /\ UNCHANGED <<tracker, lastTracker, first, apl, high, low, prevHigh, guiRange, axis, ghosts>>

\* cancelPressed, by its button or by closing the dialog, and cancelCalibration
Cancel ==
    /\ Press /\ cal.shown /\ cal' = [Closed(cal) EXCEPT !.cntr = cal.cntr]
    /\ IF cal.step = "CALIBRATE" THEN calibrating' = FALSE /\ high' = guiRange
       ELSE UNCHANGED <<calibrating, high>>
    /\ ChangeState("TRACKING")
    /\ UNCHANGED <<tracker, lastTracker, first, apl, low, prevHigh, guiRange, axis, ghosts>>

-----------------------------------------------------------------------
(* MickeyApplyDialog: *)

\* The button, or closing the dialog: keepSettings.
Keep ==
    /\ Press /\ apl.shown /\ apl' = [Closed(apl) EXCEPT !.cntr = apl.cntr]
    /\ prevHigh' = high /\ oldSetup' = setup /\ kept' = [range |-> high, setup |-> setup]
    /\ UNCHANGED <<state, updating, asked, status, first, cal, calibrating, high, low, guiRange,
                   setup, newSetup, escaped>>

\* Mutant: the window keeps the range that was on trial.
RevertedOnlyHere ==
    /\ high' = prevHigh /\ setup' = oldSetup /\ newSetup' = oldSetup
    /\ UNCHANGED <<state, updating, asked, status, first, cal, calibrating, low, prevHigh, guiRange, oldSetup, ghosts>>

\* revertSettings; setting the sliders back brings newSetup along.
Reverted ==
    /\ high' = prevHigh /\ guiRange' = prevHigh /\ setup' = oldSetup /\ newSetup' = oldSetup
    /\ UNCHANGED <<state, updating, asked, status, first, cal, calibrating, low, prevHigh, oldSetup, ghosts>>

Revert == Press /\ apl.shown /\ apl' = [Closed(apl) EXCEPT !.cntr = apl.cntr] /\ Reverted

\* timeout: nobody agreed.
TryOut ==
    /\ apl.runs /\ UNCHANGED presses
    /\ IF apl.cntr = 1 THEN apl' = Closed(apl) /\ Reverted
       ELSE /\ apl' = [apl EXCEPT !.cntr = apl.cntr - 1]
            /\ UNCHANGED <<state, updating, asked, status, first, cal, transform, axis, ghosts>>

\* QDialog::reject on the Escape key hides a dialog without the close event that stops its timer.
Escape ==
    /\ Press /\ (cal.shown \/ apl.shown) /\ escaped' = TRUE
    /\ IF apl.shown THEN apl' = [apl EXCEPT !.shown = FALSE] /\ UNCHANGED cal
       ELSE cal' = [cal EXCEPT !.shown = FALSE] /\ UNCHANGED apl
    /\ UNCHANGED <<state, updating, asked, status, first, transform, axis, kept>>

-----------------------------------------------------------------------
(* updateTimer_activated: *)

\* The line in the window follows changes of the tracking state.
Status ==
    /\ updating /\ lastTracker' = tracker
    /\ label' = (IF lastTracker = tracker THEN label
                 ELSE IF tracker = "RUNNING" THEN StateLabel[state] ELSE TrackerLabel[tracker])

\* initTimer was never started unless the hotkey did: elapsed() then returns anything.
FirstRecenter ==
    \/ recenterFlag /\ settle # "counting" /\ recenterFlag' = FALSE
    \/ ~recenterFlag /\ UNCHANGED recenterFlag

\* MickeyTransform::update for a pose with angle a; the pointer moves when TRACKING.
Update(a) ==
    /\ Status /\ tracker = "RUNNING" /\ FirstRecenter
    /\ high' = (IF calibrating /\ a > high THEN a ELSE high)
    /\ low' = (IF calibrating /\ a < low THEN a ELSE low)
    /\ UNCHANGED <<state, updating, asked, tracker, settle, dialogs, calibrating, prevHigh, guiRange,
                   axis, ghosts, presses>>

NoUpdate ==
    /\ Status /\ (tracker # "RUNNING" \/ (recenterFlag /\ settle # "past"))
    /\ UNCHANGED <<state, updating, asked, tracker, first, dialogs, transform, axis, ghosts, presses>>

Settled ==
    /\ settle = "counting" /\ settle' = "past"
    /\ UNCHANGED <<state, updating, asked, status, recenterFlag, dialogs, transform, axis, ghosts, presses>>

\* linuxtrack and its slave, on their own time.
TrackerMoves ==
    /\ tracker' \in (IF asked = "wakeup" THEN {"INITIALIZING", "RUNNING", "error"} ELSE {"PAUSED", "error"})
    /\ tracker # "error" /\ tracker' # tracker
    /\ UNCHANGED <<state, updating, asked, lastTracker, label, first, dialogs, transform, axis, ghosts, presses>>

Next ==
    \/ Toggle \/ OnApplyButton \/ Slider \/ \E step \in {"CENTER", "CENTER_ONLY"} : Calibrate(step)
    \/ CountDown \/ CentredOnly \/ Centred \/ Calibrated \/ Cancel \/ Keep \/ Revert \/ TryOut \/ Escape
    \/ \E a \in Angles : Update(a)
    \/ NoUpdate \/ Settled \/ TrackerMoves

Spec == Init /\ [][Next]_vars

\* Timers fire while the program's loop runs.
FairSpec == Spec /\ WF_vars(CountDown) /\ WF_vars(CentredOnly \/ Centred \/ Calibrated) /\ WF_vars(TryOut)

-----------------------------------------------------------------------

\* Types and bounds.
TypeOK ==
    /\ state \in {"STANDBY", "TRACKING", "CALIBRATING"} /\ asked \in {"wakeup", "suspend"}
    /\ cal.step \in {"none", "CENTER", "CALIBRATE", "CENTER_ONLY"} /\ cal.cntr \in 0 .. CentreDelay + CalDelay
    /\ apl.cntr \in 0 .. TryDelay /\ {setup, oldSetup, newSetup} \subseteq Setups
    /\ settle \in {"never", "counting", "past"} /\ presses \in 0 .. MaxPresses
    /\ label \in {"Tracking", "Calibrating", "Paused", "Initializing", "Error", "Inactive"}

\* A paused Mickey is at rest: its timer is stopped and the tracker was asked to suspend, and in no other
\* state is it (changeState, mickey.cpp:381-437, called by hotkeys, dialogs and their timers).
PausedAtRest == (state = "STANDBY") = ~updating /\ (state = "STANDBY") = (asked = "suspend")

\* A calibration is watched: while the state says so its timer runs, and unless Escape was used the
\* transformation gathers a range only then (the two are kept by different objects).
CalibrationWatched ==
    /\ state = "CALIBRATING" => cal.runs
    /\ calibrating /\ ~escaped => state = "CALIBRATING" /\ cal.step = "CALIBRATE"

\* Outside of a calibration the range in use is the one the window saves; and with nothing on trial the
\* range and the curve in use are those the user agreed to last, whichever way the trial or the
\* calibration ended (unless Escape was used, which leaves a trial running unseen).
OnlyWhatWasKept ==
    /\ ~calibrating => high = guiRange
    /\ ~escaped /\ ~apl.runs /\ ~calibrating => kept = [range |-> high, setup |-> setup]

\* Every calibration comes to its end (mickey.cpp:193-221; the user may start another).
Begun == state = "CALIBRATING" /\ presses = MaxPresses
Over == state # "CALIBRATING"
CalibrationEnds == Begun ~> Over

=============================================================================
