------------------------------- MODULE Ps3Eye -------------------------------
(***************************************************************************)
(* The PlayStation Eye (ps3eye_driver.c, ps3_prefs.c).  The camera sends a *)
(* frame as payloads, each with the time (PTS) and the parity (FID) of its *)
(* frame, the last one marked; payloads get damaged or lost, and the       *)
(* camera is paused and started again in the middle of a frame.  A control *)
(* is changed by the GUI's thread, and carried to the camera by the        *)
(* driver's before it asks for data; the GUI fills its page with the       *)
(* controls whenever it is opened or refreshed.  The control here is any   *)
(* but the frame rate, whose mark is lowered and which is written at a     *)
(* start only.  After one transfer that fails no register is written any   *)
(* more.                                                                   *)
(***************************************************************************)
EXTENDS Integers, Sequences, SequencesExt, FiniteSets

CONSTANTS Payloads,      \* payloads in a frame
          MaxTransfer,   \* payloads in one transfer (8)
          MaxFrames,     \* bound: frames the camera begins
          MaxLosses,     \* bound: payloads damaged or lost
          Values,        \* of the control
          Default,       \* its default
          MaxSets,       \* bound: times the control is set
          MaxShows,      \* bound: times the GUI fills its page
          MaxPauses,     \* bound: pauses
          MaxErrors      \* bound: register accesses that fail

VARIABLES
    phase,                       \* "closed", "init", "running", "paused", "failed"
    pc,                          \* of the device thread within a call
    streaming,                   \* the camera sends
    frame, next,                 \* the frame the camera is at, its next payload
    losses,
    lastPts, lastFid, pos,       \* statics; pos stands for what lies in frame1 up to there
    frameCounter, currentFrame,
    got,                         \* the payloads of the last transfer still to be looked at
    told,                        \* contents handed on
    val, changed, ctrlChanged,   \* ps3_prefs.c
    stored,                      \* the control in the preferences
    setPc, asked, sets, shows,   \* of the GUI's thread
    shown,                       \* the page was filled since the control was set or the camera started
    seen, local,                 \* the device thread's copies of ctrl_changed and val
    camera,                      \* the value the camera has
    usbErr, errors, pauses

sending == <<streaming, frame, next, losses>>
packet == <<lastPts, lastFid, pos, frameCounter, currentFrame, got, told>>
gui == <<stored, setPc, asked, sets, shows, shown>>
control == <<val, changed, ctrlChanged, gui>>
refresh == <<seen, local, camera>>
vars == <<phase, pc, sending, packet, control, refresh, usbErr, errors, pauses>>

Init ==
    /\ phase = "closed" /\ pc = "" /\ streaming = FALSE
    /\ frame = 1 /\ next = 1 /\ losses = 0
    /\ lastPts = 0 /\ lastFid = 0 /\ pos = <<>> /\ frameCounter = 0 /\ currentFrame = 0
    /\ got = <<>> /\ told = <<>>
    /\ val \in Values /\ changed = FALSE /\ ctrlChanged = 0 /\ stored \in Values /\ asked = Default
    /\ setPc = "" /\ sets = 0 /\ shows = 0 /\ shown = FALSE
    /\ seen = 0 /\ local \in Values /\ camera \in Values
    /\ usbErr = FALSE /\ errors = 0 /\ pauses = 0

-----------------------------------------------------------------------
(* Registers: what is written arrives, fails, or is skipped after a failure. *)

Access(effect, none) ==
    \/ ~usbErr /\ effect /\ UNCHANGED <<usbErr, errors>>
    \/ ~usbErr /\ none /\ errors < MaxErrors /\ errors' = errors + 1 /\ usbErr' = TRUE
    \/ usbErr /\ none /\ UNCHANGED <<usbErr, errors>>

\* ltr_int_tracker_init up to the preferences, which give the controls and mark them.
Open ==
    /\ phase = "closed" /\ pc = ""
    /\ Access(TRUE, TRUE)
    /\ IF usbErr' THEN phase' = "failed" /\ UNCHANGED <<pc, val, changed>>
                  ELSE phase' = "init" /\ pc' = "start read" /\ val' = stored /\ changed' = TRUE
    /\ UNCHANGED <<sending, packet, ctrlChanged, gui, refresh, pauses>>

\* Where the GUI's thread is while it fills its page.
Showing == {"mark", "stored", "read"}

\* sd_start, from the initialization and after a pause: the controls, then the stream.
StartReads ==
    /\ pc = "start read" /\ pc' = "start value" /\ changed' = FALSE
    /\ shown' = (setPc \in Showing)
    /\ UNCHANGED <<phase, sending, packet, val, ctrlChanged, stored, setPc, asked, sets, shows,
                   refresh, usbErr, errors, pauses>>

StartWrites ==
    /\ pc = "start value" /\ pc' = "start stream"
    /\ Access(camera' = val, UNCHANGED camera)
    /\ UNCHANGED <<phase, sending, packet, control, seen, local, pauses>>

\* The camera begins with a new frame.
StartStream ==
    /\ pc = "start stream" /\ pc' = "" /\ phase' = "running"
    /\ Access(streaming' = TRUE /\ frame' = frame + 1 /\ next' = 1, UNCHANGED <<streaming, frame, next>>)
    /\ UNCHANGED <<losses, packet, control, refresh, pauses>>

\* sd_stopN
Pause ==
    /\ phase = "running" /\ pc = "" /\ pauses < MaxPauses /\ pauses' = pauses + 1
    /\ phase' = "paused"
    /\ Access(streaming' = FALSE, UNCHANGED streaming)
    /\ UNCHANGED <<pc, frame, next, losses, packet, control, refresh>>

Resume ==
    /\ phase = "paused" /\ phase' = "running" /\ pc' = "start read"
    /\ UNCHANGED <<sending, packet, control, refresh, usbErr, errors, pauses>>

Close ==
    /\ phase \in {"running", "paused"} /\ pc = "" /\ phase' = "closed"
    /\ Access(streaming' = FALSE, UNCHANGED streaming)
    /\ pc' = "ended" /\ UNCHANGED <<frame, next, losses, packet, control, refresh, pauses>>

-----------------------------------------------------------------------
(* ltr_int_refresh_ctrls, at the begin of ltr_int_tracker_get_frame *)

ReadChanged ==
    /\ phase = "running" /\ pc = "" /\ frame <= MaxFrames /\ pc' = "clear" /\ seen' = ctrlChanged
    /\ UNCHANGED <<phase, sending, packet, control, local, camera, usbErr, errors, pauses>>

ClearChanged ==
    /\ pc = "clear" /\ ctrlChanged' = 0 /\ pc' = IF seen = 0 THEN "receive" ELSE "flag"
    /\ UNCHANGED <<phase, sending, packet, val, changed, gui, refresh, usbErr, errors, pauses>>

\* The flag is lowered by reading the value, and before.
ReadFlag ==
    /\ pc = "flag" /\ pc' = IF changed THEN "value" ELSE "receive"
    /\ changed' = FALSE
    /\ UNCHANGED <<phase, sending, packet, val, ctrlChanged, gui, refresh, usbErr, errors, pauses>>

ReadValue ==
    /\ pc = "value" /\ pc' = "write" /\ local' = val
    /\ UNCHANGED <<phase, sending, packet, control, seen, camera, usbErr, errors, pauses>>

\* Mutant: the flag is lowered when the camera has the value.
WriteControlClearing ==
    /\ pc = "write" /\ pc' = "receive" /\ changed' = FALSE
    /\ Access(camera' = local, UNCHANGED camera)
    /\ UNCHANGED <<phase, sending, packet, val, ctrlChanged, gui, seen, local, pauses>>

WriteControl ==
    /\ pc = "write" /\ pc' = "receive"
    /\ Access(camera' = local, UNCHANGED camera)
    /\ UNCHANGED <<phase, sending, packet, control, seen, local, pauses>>

\* ltr_int_ps3_set_ctrl_val, called by the GUI: the value, the mark, the count, and
\* the preferences.
device == <<phase, pc, sending, packet, refresh, usbErr, errors, pauses>>

SetValue ==
    /\ setPc = "" /\ sets < MaxSets /\ sets' = sets + 1 /\ setPc' = "flag"
    /\ asked' \in Values /\ val' = asked'
    /\ UNCHANGED <<device, changed, ctrlChanged, stored, shows, shown>>

SetFlag ==
    /\ setPc = "flag" /\ setPc' = "count" /\ changed' = TRUE /\ shown' = FALSE
    /\ UNCHANGED <<device, val, ctrlChanged, stored, asked, sets, shows>>

SetCount ==
    /\ setPc = "count" /\ setPc' = "store" /\ ctrlChanged' = ctrlChanged + 1
    /\ UNCHANGED <<device, val, changed, stored, asked, sets, shows, shown>>

SetStored ==
    /\ setPc = "store" /\ setPc' = "" /\ stored' = asked
    /\ UNCHANGED <<device, val, changed, ctrlChanged, asked, sets, shows, shown>>

\* The page of the PS3 Eye is made: ltr_int_ps3_init_prefs gives the control its
\* default, marks it and reads the preferences; then the page reads the value, which
\* lowers the mark.
ShowDefault ==
    /\ setPc = "" /\ shows < MaxShows /\ shows' = shows + 1 /\ setPc' = "mark"
    /\ val' = Default /\ shown' = TRUE
    /\ UNCHANGED <<device, changed, ctrlChanged, stored, asked, sets>>

ShowMark ==
    /\ setPc = "mark" /\ setPc' = "stored" /\ changed' = TRUE
    /\ UNCHANGED <<device, val, ctrlChanged, stored, asked, sets, shows, shown>>

ShowStored ==
    /\ setPc = "stored" /\ setPc' = "read" /\ val' = stored
    /\ UNCHANGED <<device, changed, ctrlChanged, stored, asked, sets, shows, shown>>

ShowRead ==
    /\ setPc = "read" /\ setPc' = "" /\ changed' = FALSE
    /\ UNCHANGED <<device, val, ctrlChanged, stored, asked, sets, shows, shown>>

-----------------------------------------------------------------------
(* The data.  A frame's PTS stands as its number, its FID as its parity. *)

Payload(f, i) == [pts |-> f, fid |-> f % 2, part |-> <<f, i>>, eof |-> i = Payloads, err |-> FALSE]

\* A transfer ends with the last payload of a frame, which is shorter, when it
\* is full, or with nothing.
Ends == {n \in next .. Payloads : n - next < MaxTransfer}

\* What became of the payloads: some come with the error mark, and so do here those
\* that do not come, for the scan does nothing with the ones as with the others.
Arrived(from, to, bad) ==
    [i \in 1 .. to - from + 1 |-> [Payload(frame, from + i - 1) EXCEPT !.err = (from + i - 1) \in bad]]

Receive ==
    /\ pc = "receive" /\ pc' = "scan"
    /\ IF ~streaming THEN got' = <<>> /\ UNCHANGED <<frame, next, losses>>
       ELSE \E to \in {n \in Ends : n = Payloads \/ n - next + 1 = MaxTransfer} :
            \E bad \in SUBSET (next .. to) :
              /\ losses' = losses + Cardinality(bad) /\ losses' <= MaxLosses
              /\ got' = Arrived(next, to, bad)
              /\ IF to = Payloads THEN frame' = frame + 1 /\ next' = 1
                                  ELSE next' = to + 1 /\ UNCHANGED frame
    /\ UNCHANGED <<phase, streaming, lastPts, lastFid, pos, frameCounter, currentFrame, told,
                   control, refresh, usbErr, errors, pauses>>

\* Mutant: a new frame is known by its parity only.
StartsFrameByFid(p) == p.fid # lastFid

StartsFrame(p) == p.pts # lastPts \/ p.fid # lastFid

\* frame_add: a frame that gets too long starts again with nothing.
Added(part) == IF Len(pos) = Payloads THEN <<>> ELSE Append(pos, part)

\* sd_pkt_scan, one payload.
Scan ==
    /\ pc = "scan" /\ got # <<>> /\ got' = Tail(got)
    /\ LET p == Head(got) IN
       IF p.err THEN UNCHANGED <<lastPts, lastFid, pos, frameCounter>>
       ELSE IF StartsFrame(p)
         THEN lastPts' = p.pts /\ lastFid' = p.fid /\ pos' = <<p.part>> /\ UNCHANGED frameCounter
       ELSE IF p.eof
         THEN /\ lastPts' = 0 /\ UNCHANGED lastFid
              /\ IF Len(pos) + 1 = Payloads THEN pos' = Added(p.part) /\ frameCounter' = frameCounter + 1
                                            ELSE UNCHANGED <<pos, frameCounter>>
       ELSE pos' = Added(p.part) /\ UNCHANGED <<lastPts, lastFid, frameCounter>>
    /\ UNCHANGED <<phase, pc, sending, currentFrame, told, control, refresh, usbErr, errors, pauses>>

\* The frame is converted and handed on if one was completed.
HandOn ==
    /\ pc = "scan" /\ got = <<>> /\ pc' = ""
    /\ IF frameCounter = currentFrame THEN UNCHANGED <<currentFrame, told>>
       ELSE currentFrame' = frameCounter /\ told' = Append(told, pos)
    /\ UNCHANGED <<phase, sending, lastPts, lastFid, pos, frameCounter, got, control, refresh,
                   usbErr, errors, pauses>>

Next ==
    \/ Open \/ StartReads \/ StartWrites \/ StartStream \/ Pause \/ Resume \/ Close
    \/ ReadChanged \/ ClearChanged \/ ReadFlag \/ ReadValue \/ WriteControl
    \/ SetValue \/ SetFlag \/ SetCount \/ SetStored
    \/ ShowDefault \/ ShowMark \/ ShowStored \/ ShowRead \/ Receive \/ Scan \/ HandOn

Spec == Init /\ [][Next]_vars

-----------------------------------------------------------------------
(* Properties *)

TypeOK ==
    /\ phase \in {"closed", "init", "running", "paused", "failed"}
    /\ Len(pos) <= Payloads /\ frameCounter - currentFrame \in {0, 1}
    /\ local \in Values /\ camera \in Values /\ val \in Values /\ stored \in Values /\ asked \in Values
    /\ ctrlChanged \in 0 .. MaxSets

\* A frame that is handed on is all of one frame of the camera and nothing else,
\* and the frames come in order, whatever gets lost (ps3eye_driver.c:1041-1082).
WholeFrames ==
    /\ \A k \in DOMAIN told : \E f \in 1 .. frame : told[k] = [i \in 1 .. Payloads |-> <<f, i>>]
    /\ \A j, k \in DOMAIN told : j < k => told[j][1][1] < told[k][1][1]

\* As long as no access failed, and unless the GUI filled its page since the control
\* was set or the camera started, a camera that runs has the value of its control, or
\* the control is marked, or somebody is about to carry it there: of two changes the
\* older does not stay (ps3_prefs.c:100-126, ps3eye_driver.c:904-963).
ControlMarked ==
    phase = "running" /\ ~usbErr /\ ~shown /\ camera # val =>
        changed \/ setPc = "flag" \/ pc \in {"start read", "start value", "value"}
                \/ (pc = "write" /\ local = val)

(* What the code does not keep. *)

\* A control the camera does not have is marked, whatever the GUI shows: reading a
\* value for its page lowers the mark (ps3_prefs.c:106, macps3eye_prefs.cpp:79-150),
\* and what was meant for the camera, or the default it got meanwhile, stays.
MarkedWhenShown ==
    phase = "running" /\ ~usbErr /\ pc = "receive" /\ setPc = "" /\ camera # val => changed

\* A marked control is carried to the camera before the next data.
ControlCarried ==
    phase = "running" /\ ~usbErr /\ pc = "receive" /\ setPc = "" /\ ctrlChanged = 0 => camera = val

\* A paused or closed camera sends nothing (ps3eye_driver.c:803-807).
QuietWhenPaused == phase \in {"paused", "closed"} => ~streaming
=======================================================================
