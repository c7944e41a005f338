-------------------------- MODULE WebcamFormats --------------------------
(***************************************************************************)
(* From what a webcam offers to what it is asked for: the driver           *)
(* enumerates formats, sizes and frame intervals (webcam_driver.c), the    *)
(* GUI lists them and writes a choice to the preferences (webcam_info.cpp, *)
(* webcam_prefs.cpp, wc_driver_prefs.c), finds it again when it is opened  *)
(* the next time, and the driver sets what the preferences say.  A frame   *)
(* interval of the camera is a frame rate, upside down, everywhere else.   *)
(***************************************************************************)
EXTENDS Integers, Sequences, SequencesExt

CONSTANTS Webcams,    \* what cameras offer: sequences of [fourcc, sizes]
          MaxChoices, \* bound: choices made in the dialog
          MaxOpenings \* bound: times it is opened

VARIABLES
    webcam,            \* the camera plugged in
    dialog,            \* it is open
    fmt, res,          \* the rows selected there
    prefs,             \* Pixel-format, Resolution and Fps of the section, or NoPrefs
    asked,             \* what the driver asked the camera for
    chosen,            \* the entry the user pointed at last
    choices, openings

vars == <<webcam, dialog, fmt, res, prefs, asked, chosen, choices, openings>>

NoPrefs == [fourcc |-> "", size |-> 0, fps |-> <<>>]
Nothing == [fourcc |-> "", size |-> 0, interval |-> <<>>]

Init ==
    /\ webcam \in Webcams /\ dialog = FALSE /\ fmt = 0 /\ res = 0
    /\ prefs = NoPrefs /\ asked = Nothing /\ chosen = Nothing
    /\ choices = 0 /\ openings = 0

-----------------------------------------------------------------------
(* ltr_int_enum_webcam_formats.  Rows are numbered from 1 here. *)

Entry(f, s, interval) == [fourcc |-> f.fourcc, size |-> s.size, interval |-> interval]

\* The intervals of one size: discrete ones, or the ends of a range, or, from a
\* camera that does not tell, 30 seconds in place of 30 frames a second.
Intervals(s) ==
    IF s.kind = "range" THEN <<s.intervals[1], s.intervals[Len(s.intervals)]>>
    ELSE IF s.intervals = <<>> THEN <<<<30, 1>>>> ELSE s.intervals

SizeEntries(f, s) == [j \in DOMAIN Intervals(s) |-> Entry(f, s, Intervals(s)[j])]

\* Sizes are taken up to the first that is not a discrete one.
FormatEntries(f) ==
    FlattenSeq([k \in DOMAIN f.sizes |->
        IF \E l \in 1 .. k : f.sizes[l].kind = "other" THEN <<>> ELSE SizeEntries(f, f.sizes[k])])

\* The WebcamInfo: one row for each format that has entries; when nothing was
\* enumerated there is one, whose code is cut to its first letter.
Default == <<[fourcc |-> "Y", size |-> 160, interval |-> <<1, 30>>]>>

Found == FlattenSeq([i \in DOMAIN webcam |-> IF FormatEntries(webcam[i]) = <<>> THEN <<>> ELSE <<i>>])

Rows == IF Found = <<>> THEN <<Default>> ELSE [i \in DOMAIN Found |-> FormatEntries(webcam[Found[i]])]

\* What is offered: three sizes of the default, of which one can be looked up.
Offered(i) == IF Rows = <<Default>> THEN 3 ELSE Len(Rows[i])

-----------------------------------------------------------------------
(* The dialog. *)

\* findFourcc, findRes: the first row when there is none that fits.
First(fitting) == IF fitting = {} THEN 1 ELSE CHOOSE i \in fitting : \A j \in fitting : i <= j

FindFourcc == First({i \in DOMAIN Rows : Rows[i][1].fourcc = prefs.fourcc})

UpsideDown(pair) == <<pair[2], pair[1]>>

\* Mutant: a rate is compared to an interval.
FindResStraight(i) == First({j \in DOMAIN Rows[i] : Rows[i][j].size = prefs.size /\ Rows[i][j].interval = prefs.fps})

FindRes(i) ==
    First({j \in DOMAIN Rows[i] : /\ Rows[i][j].size = prefs.size /\ prefs.fps # <<>>
                                  /\ Rows[i][j].interval = UpsideDown(prefs.fps)})

\* findFmtSpecs, decodeRes, decodeFps and the setters: nothing is written for a
\* size that is not there.
Write(i, j) ==
    prefs' = IF j \in DOMAIN Rows[i]
             THEN [fourcc |-> Rows[i][1].fourcc, size |-> Rows[i][j].size,
                   fps |-> UpsideDown(Rows[i][j].interval)]
             ELSE prefs

\* Activate: with preferences for this camera they are shown and nothing is
\* written, without them the first entry is.
OpenDialog ==
    /\ ~dialog /\ dialog' = TRUE /\ openings < MaxOpenings /\ openings' = openings + 1
    /\ IF prefs = NoPrefs
         THEN fmt' = 1 /\ res' = 1 /\ Write(1, 1) /\ chosen' = Rows[1][1]
         ELSE fmt' = FindFourcc /\ res' = FindRes(FindFourcc) /\ UNCHANGED <<prefs, chosen>>
    /\ UNCHANGED <<webcam, asked, choices>>

\* on_WebcamFormats_activated: the same size and rate in the new format, or its first.
ChooseFormat ==
    /\ dialog /\ choices < MaxChoices /\ choices' = choices + 1
    /\ \E i \in DOMAIN Rows :
          /\ fmt' = i /\ res' = FindRes(i) /\ Write(i, FindRes(i))
          /\ chosen' = Rows[i][FindRes(i)]
    /\ UNCHANGED <<webcam, dialog, asked, openings>>

\* on_WebcamResolutions_activated
ChooseResolution ==
    /\ dialog /\ choices < MaxChoices /\ choices' = choices + 1
    /\ \E j \in 1 .. Offered(fmt) :
          /\ res' = j /\ Write(fmt, j)
          /\ chosen' = IF j \in DOMAIN Rows[fmt] THEN Rows[fmt][j]
                       ELSE [Default[1] EXCEPT !.size = 320]
    /\ UNCHANGED <<webcam, dialog, fmt, asked, openings>>

CloseDialog == dialog /\ dialog' = FALSE /\ UNCHANGED <<webcam, fmt, res, prefs, asked, chosen, choices, openings>>

-----------------------------------------------------------------------
(* set_capture_format and set_stream_params *)

\* Mutant: the rate is set as it is.
StreamIntervalStraight == prefs.fps

StreamInterval == UpsideDown(prefs.fps)

StartDriver ==
    /\ prefs # NoPrefs
    /\ asked' = [fourcc |-> prefs.fourcc, size |-> prefs.size, interval |-> StreamInterval]
    /\ UNCHANGED <<webcam, dialog, fmt, res, prefs, chosen, choices, openings>>

Next == OpenDialog \/ ChooseFormat \/ ChooseResolution \/ CloseDialog \/ StartDriver

Spec == Init /\ [][Next]_vars

-----------------------------------------------------------------------
(* Properties *)

Offers(f, s, interval) == s.kind # "other" /\ \E k \in DOMAIN s.intervals : s.intervals[k] = interval

\* What the driver asks a camera for is something that camera offers, whatever
\* was chosen, in whatever order; for a camera that tells its intervals
\* (webcam_driver.c:186-320, 466-471).
AsksForOffered ==
    asked # Nothing /\ Rows # <<Default>>
      /\ (\A i \in DOMAIN webcam : \A k \in DOMAIN webcam[i].sizes : webcam[i].sizes[k].intervals # <<>>) =>
        \E i \in DOMAIN webcam : \E k \in DOMAIN webcam[i].sizes :
            /\ webcam[i].fourcc = asked.fourcc /\ webcam[i].sizes[k].size = asked.size
            /\ Offers(webcam[i], webcam[i].sizes[k], asked.interval)

\* The entry shown as selected is the one that was chosen, also after the
\* dialog was closed and opened again (webcam_info.cpp:193-213).
ChoiceShown ==
    dialog => \/ Rows = <<Default>>
              \/ /\ Rows[fmt][res] = chosen
                 /\ prefs.fps = UpsideDown(chosen.interval) /\ prefs.size = chosen.size

(* What the code does not keep. *)

\* What is chosen is written (webcam_info.cpp:76-82).
ChoiceWritten == dialog => prefs.size = chosen.size

\* A camera that tells no intervals is asked for a usable one (webcam_driver.c:252).
UsableRate == asked # Nothing => asked.interval[1] <= asked.interval[2]
=======================================================================
