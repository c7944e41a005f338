----------------------------- MODULE MCDrivers -----------------------------
(***************************************************************************)
(* The drivers of module Drivers and the image processing.  They share     *)
(* nothing and only one is loaded at a time, so a behaviour is one of a    *)
(* single module, as subject says, and never leaves the initial state of   *)
(* the others.  Some steps have a bound besides the constants.  (The       *)
(* TrackIRs' driver is checked in module Frames.)                          *)
(***************************************************************************)
EXTENDS Drivers

VARIABLE subject

\* All small pictures, and arches over all that may be below them: the inner
\* areas join an outer one that is already drawn further left.
Line(y, xs) == {<<x, y>> : x \in xs}
Small == SUBSET ((0 .. 2) \X (0 .. 2))
Arches == {Line(0, 0 .. 4) \cup {<<0, 1>>, <<4, 1>>} \cup below :
              below \in SUBSET ((0 .. 4) \X {2, 3})}
SomePictures == Small \cup Arches

\* Webcams: one with all kinds of sizes, one with an unusual rate, one that tells
\* no intervals, and one that tells nothing.
Discrete(width, steps) == [size |-> width, kind |-> "discrete", intervals |-> steps]
Ranges(width, steps) == [size |-> width, kind |-> "range", intervals |-> steps]
Other == [size |-> 0, kind |-> "other", intervals |-> <<<<1, 30>>>>]
SomeWebcams ==
    {<<[fourcc |-> "YUYV", sizes |-> <<Discrete(160, <<<<1, 30>>, <<1, 15>>>>), Discrete(320, <<<<1, 15>>>>)>>],
       [fourcc |-> "YU12", sizes |-> <<Ranges(320, <<<<1, 30>>, <<1, 20>>, <<1, 15>>>>), Other,
                                       Discrete(640, <<<<1, 5>>>>)>>]>>,
     <<[fourcc |-> "MJPG", sizes |-> <<Other>>], [fourcc |-> "RGB3", sizes |-> <<Discrete(160, <<<<2, 15>>>>)>>]>>,
     <<[fourcc |-> "YUYV", sizes |-> <<Discrete(160, <<>>), Discrete(320, <<>>)>>]>>,
     <<>>}

\* The range of each axis of the joystick.
SomeLowest == [c \in {0, 1} |-> IF c = 0 THEN 0 ELSE -1]
SomeHighest == [c \in {0, 1} |-> IF c = 0 THEN 3 ELSE 1]
PitchAndYaw == <<"pitch", "yaw">>

mcVars == <<subject, vars, driverVars>>

\* Where a module has several initial states the others need one of them only.
MCInit ==
    /\ subject \in {"blobs", "formats", "webcam", "ps3eye", "joystick", "qt_cam", "wiimote"}
    /\ Init /\ DriversInit
    /\ subject = "formats" \/ webcam = <<>>
    /\ subject = "joystick" \/ assigned = [i \in DOMAIN Coordinates |-> Stick!Unused]
    /\ subject = "ps3eye" \/ \A v \in {val, local, psCamera, stored} : v = CHOOSE w \in PsValues : TRUE

FindAreas == subject = "blobs" /\ Next /\ UNCHANGED <<subject, driverVars>>

ChooseFormat == subject = "formats" /\ FormatStep /\ UNCHANGED <<subject, vars>>

TakePictures == subject = "webcam" /\ CameraStep /\ UNCHANGED <<subject, vars>>

ReadEye ==
    /\ subject = "ps3eye" /\ EyeStep /\ UNCHANGED <<subject, vars>>
    /\ sets' + shows' > 0 => frame' <= 2

ReadStick ==
    /\ subject = "joystick" /\ StickStep /\ UNCHANGED <<subject, vars>>
    /\ jsSessions' > 1 => moves' <= 2

RunHelper ==
    /\ subject = "qt_cam" /\ HelperStep /\ UNCHANGED <<subject, vars>>
    /\ session' = 2 => coPictures' <= 2 /\ coPauses' = 0

RunServer == subject = "wiimote" /\ RemoteStep /\ UNCHANGED <<subject, vars>>

MCNext ==
    FindAreas \/ ChooseFormat \/ TakePictures \/ ReadEye \/ ReadStick \/ RunHelper \/ RunServer

MCSpec == MCInit /\ [][MCNext]_mcVars
=============================================================================
