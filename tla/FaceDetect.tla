-------------------------- MODULE FaceDetect --------------------------
(***************************************************************************)
(* Face tracking (facetrack.cpp): the driver hands one frame at a time to  *)
(* a detector thread and goes on; starting and stopping of that thread.    *)
(* frame_status is read without frame_mx by the driver, run without it by  *)
(* both.                                                                   *)
(***************************************************************************)
EXTENDS Naturals

CONSTANTS MaxFrame,      \* bound: frames captured
          MaxSessions    \* bound: times face tracking is started

VARIABLES
    run, status,   \* run, frame_status
    frame,         \* the frame in the shared buffer; 0 when just allocated
    allocated,     \* frame and cvimage are not NULL
    drvPc,         \* the driver's thread
    captured,      \* frames captured so far
    sessions,      \* sessions begun
    detPc,         \* the detector thread
    searched       \* the last frame it looked at

drvVars == <<drvPc, captured, sessions>>
detVars == <<detPc, searched>>
vars == <<run, status, frame, allocated, drvVars, detVars>>

Init ==
    /\ run = TRUE /\ status = "DONE" /\ frame = 0 /\ allocated = FALSE
    /\ drvPc = "off" /\ captured = 0 /\ sessions = 0
    /\ detPc = "none" /\ searched = 0

-----------------------------------------------------------------------
(* The driver: ltr_int_init_face_detect, _face_detect, _stop_face_detect. *)

DrvAt(p, q) == drvPc = p /\ drvPc' = q

InitFaceDetect ==
    /\ DrvAt("off", "idle") /\ sessions < MaxSessions /\ sessions' = sessions + 1
    /\ run' = TRUE /\ detPc' = "test"
    /\ UNCHANGED <<status, frame, allocated, captured, searched>>

\* A frame came: the buffer is allocated after a (re)start.
NewFrame ==
    /\ DrvAt("idle", "look") /\ captured < MaxFrame /\ captured' = captured + 1
    /\ allocated' = TRUE /\ frame' = IF allocated THEN frame ELSE 0
    /\ UNCHANGED <<run, status, sessions, detVars>>

\* Mutant: the frame is copied whatever the detector does.
LookAnyway ==
    /\ DrvAt("look", "copy")
    /\ UNCHANGED <<run, status, frame, allocated, captured, sessions, detVars>>

\* Without the lock.
Look ==
    /\ DrvAt("look", IF status = "DONE" THEN "copy" ELSE "idle")
    /\ UNCHANGED <<run, status, frame, allocated, captured, sessions, detVars>>

Copy ==
    /\ DrvAt("copy", "post") /\ frame' = captured
    /\ UNCHANGED <<run, status, allocated, captured, sessions, detVars>>

Wake == detPc' = IF detPc = "asleep" THEN "lock" ELSE detPc

Post ==
    /\ DrvAt("post", "idle")
    /\ status' = "READY" /\ Wake
    /\ UNCHANGED <<run, frame, allocated, captured, sessions, searched>>

\* Mutant: the detector is woken without a frame status it waits for.
StopQuietly ==
    /\ \/ DrvAt("idle", "stop") /\ run' = FALSE /\ UNCHANGED <<status, detPc>>
       \/ DrvAt("stop", "join") /\ Wake /\ UNCHANGED <<run, status>>
    /\ UNCHANGED <<frame, allocated, captured, sessions, searched>>

StopFaceDetect ==
    /\ \/ DrvAt("idle", "stop") /\ run' = FALSE /\ UNCHANGED <<status, detPc>>
       \/ DrvAt("stop", "join") /\ status' = "READY" /\ Wake /\ UNCHANGED run
    /\ UNCHANGED <<frame, allocated, captured, sessions, searched>>

\* Mutant: the thread is not waited for.
JoinNobody ==
    /\ DrvAt("join", "off") /\ status' = "DONE"
    /\ UNCHANGED <<run, frame, allocated, captured, sessions, detVars>>

Join ==
    /\ DrvAt("join", "off") /\ detPc = "ended" /\ detPc' = "none"
    /\ status' = "DONE"
    /\ UNCHANGED <<run, frame, allocated, captured, sessions, searched>>

-----------------------------------------------------------------------
(* ltr_int_detector_thread *)

DetAt(p, q) == detPc = p /\ detPc' = q

TestRun ==
    /\ DetAt("test", IF run THEN "lock" ELSE "free")
    /\ UNCHANGED <<run, status, frame, allocated, drvVars, searched>>

WaitForFrame ==
    /\ IF status = "READY"
         THEN DetAt("lock", "check") /\ status' = "PROCESSING"
         ELSE DetAt("lock", "asleep") /\ UNCHANGED status
    /\ UNCHANGED <<run, frame, allocated, drvVars, searched>>

SpuriousWakeup ==
    /\ DetAt("asleep", "lock")
    /\ UNCHANGED <<run, status, frame, allocated, drvVars, searched>>

\* Mutant: a wake-up always means a frame.
CheckNothing ==
    /\ DetAt("check", "detect")
    /\ UNCHANGED <<run, status, frame, allocated, drvVars, searched>>

CheckRun ==
    /\ DetAt("check", IF run THEN "detect" ELSE "free")
    /\ UNCHANGED <<run, status, frame, allocated, drvVars, searched>>

Detect ==
    /\ DetAt("detect", "mark") /\ searched' = frame
    /\ UNCHANGED <<run, status, frame, allocated, drvVars>>

MarkDone ==
    /\ DetAt("mark", "test") /\ status' = "DONE"
    /\ UNCHANGED <<run, frame, allocated, drvVars, searched>>

\* Cascade, image and frame are freed.
Free ==
    /\ DetAt("free", "ended") /\ allocated' = FALSE
    /\ UNCHANGED <<run, status, frame, drvVars, searched>>

Driver   == InitFaceDetect \/ NewFrame \/ Look \/ Copy \/ Post \/ StopFaceDetect \/ Join
Detector == TestRun \/ WaitForFrame \/ CheckRun \/ Detect \/ MarkDone \/ Free

Next == Driver \/ Detector \/ SpuriousWakeup

\* The detector runs, and the driver completes a stop it has begun.
Fairness == WF_vars(Detector) /\ WF_vars(Join) /\ WF_vars(drvPc = "stop" /\ StopFaceDetect)

Spec == Init /\ [][Next]_vars
FairSpec == Spec /\ Fairness

-----------------------------------------------------------------------
(* Properties *)

\* Every variable keeps its type, and there is a detector thread exactly while
\* face tracking is on.
TypeOK ==
    /\ run \in BOOLEAN /\ status \in {"READY", "PROCESSING", "DONE"}
    /\ frame \in 0 .. MaxFrame /\ allocated \in BOOLEAN
    /\ drvPc \in {"off", "idle", "look", "copy", "post", "stop", "join"}
    /\ captured \in 0 .. MaxFrame /\ sessions \in 0 .. MaxSessions
    /\ detPc \in {"none", "test", "lock", "asleep", "check", "detect", "mark", "free", "ended"}
    /\ searched \in 0 .. MaxFrame
    /\ drvPc = "off" <=> detPc = "none"

\* The driver never copies into the frame the detector is searching, although it
\* looks at frame_status without the lock, and never one that was freed
\* (facetrack.cpp:232-233).
NoOverlap == drvPc = "copy" => detPc # "detect" /\ allocated

\* The detector only ever searches a frame that was copied completely, and none
\* after face tracking was stopped before the first (facetrack.cpp:165).
SearchesFrame == detPc = "detect" => allocated /\ frame > 0

\* A stop always gets the driver back from pthread_join, wherever the detector is
\* (facetrack.cpp:212).
StopReturns == drvPc = "stop" ~> drvPc = "off"
=======================================================================
