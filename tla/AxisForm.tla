----------------------------- MODULE AxisForm -----------------------------
(***************************************************************************)
(* The forms that edit one axis: the sliders of a profile                  *)
(* (qt_gui/profile_setup.cpp) and its detailed curve (qt_gui/scurve.cpp),  *)
(* both on one tracker.  A widget that is given a new value signals it,    *)
(* the slot changes the tracker, the tracker signals the change to both    *)
(* forms, and they set their widgets.  An operator is all that a signal    *)
(* leads to, until nothing changes any more.                               *)
(***************************************************************************)
EXTENDS Integers

CONSTANTS Axis,          \* values of an axis: [l, r (limits), mult (sensitivity), enabled]
          Mults, Limits, \* what the widgets offer
          MaxEdits       \* bound: what the user does

VARIABLES form,          \* the tracker's axis and the widgets
          opened,        \* the axis as it was when its form opened
          touched,       \* the user has done something since
          file,          \* an exported profile
          edits

vars == <<form, opened, touched, file, edits>>

\* A slider has whole steps, of which two sensitivities share one.
Slider(mult) == mult \div 2

\* The slot of a widget that has moved changes the tracker, and when that signals the change the widget
\* itself has nothing more to say: one round is all.  A sensitivity reaches the slider of the other
\* form too, to which 2 * w is w as well, however it was before.
Moved(s, w) == [s EXCEPT !.sens = w, !.factor = w, !.mult = 2 * w]

\* ProfileSetup::axisChanged with its slot on_PitchSens_valueChanged
ShowSens(s) ==
    LET w == Slider(s.mult)
    IN  IF s.sens = w THEN s ELSE IF s.starting THEN [s EXCEPT !.sens = w] ELSE Moved(s, w)

\* SCurve::axisChanged with its slot on_SCFactor_valueChanged
ShowFactor(s) ==
    LET w == Slider(s.mult)
    IN  IF s.factor = w THEN s ELSE IF s.initializing THEN [s EXCEPT !.factor = w] ELSE Moved(s, w)

\* Tracker::axisChange(AXIS_MULT); the forms hear of it in the order they were connected.
SetMult(s, v) == ShowFactor(ShowSens([s EXCEPT !.mult = v]))

\* The widgets of the limits with the first half of their slots, which changes the tracker ...
MoveL(s, v) == [s EXCEPT !.left = v, !.l = IF s.initializing \/ s.left = v THEN @ ELSE v]
MoveR(s, v) == [s EXCEPT !.right = v, !.r = IF s.initializing \/ s.right = v THEN @ ELSE v]

\* ... and all of SCurve::on_SCLeftLimit_valueChanged: a symmetrical curve moves its other side along,
\* which finds this one moved.
ShowL(s, v) == IF s.symetrical /\ s.left # v THEN MoveR(MoveL(s, v), v) ELSE MoveL(s, v)
ShowR(s, v) == IF s.symetrical /\ s.right # v THEN MoveL(MoveR(s, v), v) ELSE MoveR(s, v)

\* Tracker::axisChange(AXIS_LLIMIT) and (AXIS_RLIMIT)
SetL(s, v) == ShowL([s EXCEPT !.l = v], v)
SetR(s, v) == ShowR([s EXCEPT !.r = v], v)

\* on_SCSymetrical_stateChanged
Symetrical(s, b) ==
    IF s.symetrical = b THEN s
    ELSE IF b THEN ShowR([s EXCEPT !.symetrical = TRUE], s.left) ELSE [s EXCEPT !.symetrical = FALSE]

\* Tracker::axisChange(AXIS_ENABLED): the curve looks again whether it is symmetrical.
SetEnabled(s, b) == LET t == [s EXCEPT !.enabled = b] IN Symetrical([t EXCEPT !.enable = b], t.l = t.r)

\* Mutant: the curve's form hands on what it is told to show.
InitCurveLoud(s) == ShowL(ShowR(ShowFactor(Symetrical(s, s.l = s.r)), s.r), s.l)

\* SCurve::initAxes, setup_gui
InitCurve(s) ==
    LET t == Symetrical([s EXCEPT !.initializing = TRUE], s.l = s.r)
        u == ShowL(ShowR(ShowFactor(t), s.r), s.l)
    IN  [u EXCEPT !.initializing = FALSE]

\* ProfileSetup::initAxes
InitProfile(s) == ShowSens(IF s.enable = s.enabled THEN s ELSE
                           IF s.starting THEN [s EXCEPT !.enable = s.enabled] ELSE SetEnabled(s, s.enabled))

With(s, a) == [s EXCEPT !.l = a.l, !.r = a.r, !.mult = a.mult, !.enabled = a.enabled]

\* ProfileSetup::ProfileSetup: widgets as new, the curve shows the profile before, then setProfile.
Fresh(old, a) ==
    LET new == [l |-> old.l, r |-> old.r, mult |-> old.mult, enabled |-> old.enabled, left |-> 0, right |-> 0,
                sens |-> 0, factor |-> 0, enable |-> FALSE, symetrical |-> (old.l = old.r),
                starting |-> TRUE, initializing |-> FALSE]
    IN  [InitCurve(InitProfile(With(InitCurve(new), a))) EXCEPT !.starting = FALSE]

TrackerOf(s) == [l |-> s.l, r |-> s.r, mult |-> s.mult, enabled |-> s.enabled]

Init ==
    /\ opened \in Axis /\ form = Fresh(opened, opened) /\ touched = FALSE /\ file = opened /\ edits = 0

Edit == edits < MaxEdits /\ edits' = edits + 1

Open(a) == Edit /\ form' = Fresh(form, a) /\ opened' = a /\ touched' = FALSE /\ UNCHANGED file

\* The user at the widgets; the right limit is disabled on a symmetrical curve.
Touch == Edit /\ touched' = TRUE /\ UNCHANGED <<opened, file>>

EditLeft(v) == Touch /\ form' = ShowL(form, v)
EditRight(v) == Touch /\ ~form.symetrical /\ form' = ShowR(form, v)
EditSens(w) == Touch /\ form.sens # w /\ form' = SetMult([form EXCEPT !.sens = w], 2 * w)
EditFactor(w) == Touch /\ form.factor # w /\ form' = SetMult([form EXCEPT !.factor = w], 2 * w)
CheckSymetrical(b) == Touch /\ form' = Symetrical(form, b)
CheckEnable(b) == Touch /\ form.enable # b /\ form' = SetEnabled(form, b)

\* copyFromDefault: fromDefault signals initAxes to both forms.
FromDefault(a) == Touch /\ form' = InitCurve(InitProfile(With(form, a)))

\* exportProfile and importProfile, in the order of the file
Export == Edit /\ file' = TrackerOf(form) /\ UNCHANGED <<form, opened, touched>>
Import == Touch /\ form' = SetR(SetL(SetMult(SetEnabled(form, file.enabled), file.mult), file.l), file.r)

Next ==
    \/ \E a \in Axis : Open(a) \/ FromDefault(a)
    \/ \E v \in Limits : EditLeft(v) \/ EditRight(v)
    \/ \E m \in Mults : EditSens(Slider(m)) \/ EditFactor(Slider(m))
    \/ \E b \in BOOLEAN : CheckSymetrical(b) \/ CheckEnable(b)
    \/ Export \/ Import

Spec == Init /\ [][Next]_vars

-----------------------------------------------------------------------

\* Types and bounds.
TypeOK ==
    /\ {form.l, form.r, form.left, form.right} \subseteq Limits /\ form.mult \in Mults
    /\ {form.sens, form.factor} \subseteq {Slider(m) : m \in Mults}
    /\ {form.enabled, form.enable, form.symetrical, touched} \subseteq BOOLEAN /\ edits \in 0 .. MaxEdits

\* However signals run between the forms and the tracker, when they have run out both forms show what the
\* tracker has, and a curve checked as symmetrical is (scurve.cpp, profile_setup.cpp).
FormsShow ==
    /\ form.left = form.l /\ form.right = form.r /\ form.enable = form.enabled
    /\ form.sens = Slider(form.mult) /\ form.factor = Slider(form.mult)
    /\ form.symetrical => form.l = form.r

\* To look at a profile changes nothing in it, although every widget is set and signals it, and the curve
\* was first built on the profile before (the two flags called initializing).
LookingIsFree == ~touched => TrackerOf(form) = opened

=============================================================================
