------------------------------- MODULE Webcam -------------------------------
(***************************************************************************)
(* The webcam driver (webcam_driver.c): the camera is opened and set up,   *)
(* and its buffers go round: queued to the kernel, filled with a picture,  *)
(* taken out, converted to the frame of the run loop, and queued again.    *)
(* Requests are seen by the run loop between two frames; the camera may    *)
(* stall or be unplugged at any time.                                      *)
(***************************************************************************)
EXTENDS Integers, Sequences, SequencesExt

CONSTANTS NumBuffers,    \* NUM_OF_BUFFERS
          MaxPictures,   \* bound: pictures the camera takes
          MaxSessions,   \* bound: times the driver is initialized
          MaxPauses,     \* bound: times it is paused
          MaxFailures    \* bound: calls that fail

VARIABLES
    phase,                 \* of the driver
    step,                  \* where it is in a call
    camera,                \* "works", "stalls" or "gone"
    fd, streaming,         \* the device file is open; STREAMON
    queued,                \* the buffers the camera may fill, in order
    filled,                \* those it has filled and nobody took, in order
    content,               \* buffer -> the picture in it
    buffers, bwFrame,      \* the driver's: how many are mapped, and a buffer for the grey picture
    lost,                  \* allocations and mappings no pointer leads to any more
    held,                  \* the buffer taken out
    upper, lower,          \* the pictures the two halves of the grey picture are from
    told,                  \* the pictures handed on, as pairs of halves
    pictures, asked,       \* pictures taken; a request of the run loop waits
    sessions, pauses, failures

kernel == <<fd, streaming, queued, filled, content>>
memory == <<buffers, bwFrame, lost>>
grey == <<held, upper, lower, told>>
bounds == <<sessions, pauses, failures>>
vars == <<phase, step, camera, kernel, memory, grey, pictures, asked, bounds>>

None == 0
Buffers == 1 .. buffers

Init ==
    /\ phase = "closed" /\ step = "" /\ camera = "works"
    /\ fd = FALSE /\ streaming = FALSE /\ queued = <<>> /\ filled = <<>>
    /\ content = [b \in 1 .. NumBuffers |-> None]
    /\ buffers = 0 /\ bwFrame = FALSE /\ lost = 0
    /\ held = None /\ upper = None /\ lower = None /\ told = <<>>
    /\ pictures = 0 /\ asked = FALSE
    /\ sessions = 0 /\ pauses = 0 /\ failures = 0

At(p, s) == phase = p /\ step = s
Goto(p, s) == phase' = p /\ step' = s

Fails == failures < MaxFailures /\ failures' = failures + 1
Works == camera # "gone" /\ UNCHANGED failures
Broken == camera = "gone" /\ UNCHANGED failures

-----------------------------------------------------------------------
(* ltr_int_tracker_init *)

\* search_for_webcam
OpenDevice ==
    /\ phase \in {"closed", "failed"} /\ sessions < MaxSessions /\ sessions' = sessions + 1
    /\ \/ Works /\ fd' = TRUE /\ Goto("init", "format") /\ told' = <<>>
       \/ (Broken \/ Fails) /\ Goto("failed", "") /\ UNCHANGED <<fd, told>>
    /\ asked' = FALSE
    /\ UNCHANGED <<camera, streaming, queued, filled, content, memory, held, upper, lower, pictures, pauses>>

\* Closing the file gives the kernel its buffers back, and stops the stream.
CloseFile ==
    /\ fd' = FALSE /\ streaming' = FALSE /\ queued' = <<>> /\ filled' = <<>> /\ UNCHANGED content

\* Every failure closes the file, and nothing else.
InitFails ==
    /\ phase = "init" /\ (Broken \/ Fails) /\ CloseFile /\ Goto("failed", "")
    /\ UNCHANGED <<camera, memory, grey, pictures, asked, sessions, pauses>>

\* set_capture_format, with a new bw_frame
SetFormat ==
    /\ At("init", "format") /\ Works /\ Goto("init", "params")
    /\ bwFrame' = TRUE /\ lost' = lost + IF bwFrame THEN 1 ELSE 0
    /\ UNCHANGED <<camera, kernel, buffers, grey, pictures, asked, sessions, pauses>>

SetParams ==
    /\ At("init", "params") /\ Works /\ Goto("init", "buffers")
    /\ UNCHANGED <<camera, kernel, memory, grey, pictures, asked, sessions, pauses>>

\* setup_streaming_buffers: as many as are granted are mapped.
SetupBuffers ==
    /\ At("init", "buffers") /\ Works /\ Goto("starting", "queue")
    /\ buffers' \in 1 .. NumBuffers /\ lost' = lost + buffers
    /\ UNCHANGED <<camera, kernel, bwFrame, grey, pictures, asked, sessions, pauses>>

-----------------------------------------------------------------------
(* ltr_int_tracker_resume, at the end of the initialization and after a pause *)

QueueAll ==
    /\ phase \in {"starting", "resume"} /\ step = "queue" /\ Works /\ Goto(phase, "on")
    /\ queued' = [b \in Buffers |-> b]
    /\ UNCHANGED <<camera, fd, streaming, filled, content, memory, grey, pictures, asked, sessions, pauses>>

StreamOn ==
    /\ phase \in {"starting", "resume"} /\ step = "on" /\ Works /\ Goto("running", "") /\ streaming' = TRUE
    /\ UNCHANGED <<camera, fd, queued, filled, content, memory, grey, pictures, asked, sessions, pauses>>

\* The initialization fails with it; after a pause the run loop does not look.
ResumeFails ==
    /\ phase \in {"starting", "resume"} /\ (Broken \/ Fails)
    /\ IF phase = "starting" THEN Goto("failed", "") /\ CloseFile
                     ELSE Goto("running", "") /\ UNCHANGED kernel
    /\ UNCHANGED <<camera, memory, grey, pictures, asked, sessions, pauses>>

-----------------------------------------------------------------------
(* ltr_int_tracker_get_frame *)

Enter ==
    /\ At("running", "") /\ ~asked /\ Goto("running", "poll")
    /\ UNCHANGED <<camera, kernel, memory, grey, pictures, asked, bounds>>

\* poll is repeated until it says that there is a picture.
Poll ==
    /\ At("running", "poll") /\ filled # <<>> /\ camera # "gone" /\ Goto("running", "dequeue")
    /\ UNCHANGED <<camera, kernel, memory, grey, pictures, asked, bounds>>

Dequeue ==
    /\ At("running", "dequeue") /\ Works /\ Goto("running", "lower")
    /\ held' = Head(filled) /\ filled' = Tail(filled)
    /\ UNCHANGED <<camera, fd, streaming, queued, content, memory, upper, lower, told, pictures,
                   asked, sessions, pauses>>

\* The poll is interrupted or no picture can be taken out: the run loop ends.
FrameFails ==
    /\ phase = "running" /\ step \in {"poll", "dequeue"}
    /\ Fails \/ (step = "dequeue" /\ Broken)
    /\ Goto("close", "")
    /\ UNCHANGED <<camera, kernel, memory, grey, pictures, asked, sessions, pauses>>

\* Mutant: the buffer is the camera's again when its second half is converted.
ConvertLowerRequeued ==
    /\ At("running", "lower") /\ Goto("running", "upper") /\ lower' = content[held]
    /\ queued' = Append(queued, held)
    /\ UNCHANGED <<camera, fd, streaming, filled, content, memory, held, upper, told, pictures, asked, bounds>>

\* get_bw_image, in two parts
ConvertLower ==
    /\ At("running", "lower") /\ Goto("running", "upper") /\ lower' = content[held]
    /\ UNCHANGED <<camera, kernel, memory, held, upper, told, pictures, asked, bounds>>

ConvertUpper ==
    /\ At("running", "upper") /\ Goto("running", "requeue") /\ upper' = content[held]
    /\ UNCHANGED <<camera, kernel, memory, held, lower, told, pictures, asked, bounds>>

\* A buffer that cannot be queued again is not used until the next pause.
Requeue ==
    /\ At("running", "requeue") /\ Goto("running", "") /\ held' = None
    /\ told' = Append(told, <<lower, upper>>)
    /\ \/ Works /\ queued' = Append(queued, held)
       \/ (Broken \/ Fails) /\ UNCHANGED queued
    /\ UNCHANGED <<camera, fd, streaming, filled, content, memory, upper, lower, pictures, asked,
                   sessions, pauses>>

-----------------------------------------------------------------------
(* Pausing and closing, when the run loop sees a request. *)

\* Mutant: the pictures taken before are kept.
PauseKeeping ==
    /\ At("running", "") /\ asked /\ asked' = FALSE /\ pauses < MaxPauses /\ pauses' = pauses + 1
    /\ Goto("paused", "")
    /\ \/ Works /\ streaming' = FALSE /\ queued' = <<>> /\ UNCHANGED filled
       \/ (Broken \/ Fails) /\ UNCHANGED <<streaming, queued, filled>>
    /\ UNCHANGED <<camera, fd, content, memory, grey, pictures, sessions>>

\* STREAMOFF takes all buffers out of both queues.
Pause ==
    /\ At("running", "") /\ asked /\ asked' = FALSE /\ pauses < MaxPauses /\ pauses' = pauses + 1
    /\ Goto("paused", "")
    /\ \/ Works /\ streaming' = FALSE /\ queued' = <<>> /\ filled' = <<>>
       \/ (Broken \/ Fails) /\ UNCHANGED <<streaming, queued, filled>>
    /\ UNCHANGED <<camera, fd, content, memory, grey, pictures, sessions>>

\* The camera that could not be stopped keeps its queued buffers, and does not
\* take them a second time.
Resume ==
    /\ phase = "paused" /\ Goto(IF streaming THEN "running" ELSE "resume", IF streaming THEN "" ELSE "queue")
    /\ UNCHANGED <<camera, kernel, memory, grey, pictures, asked, bounds>>

AskToStop ==
    /\ \/ At("running", "") /\ asked
       \/ phase = "paused"
    /\ Goto("close", "") /\ asked' = FALSE
    /\ UNCHANGED <<camera, kernel, memory, grey, pictures, bounds>>

Close ==
    /\ phase = "close" /\ Goto("closed", "") /\ CloseFile
    /\ buffers' = 0 /\ bwFrame' = FALSE /\ held' = None
    /\ UNCHANGED <<camera, lost, upper, lower, told, pictures, asked, bounds>>

-----------------------------------------------------------------------
(* The camera and the user. *)

Fill ==
    /\ camera = "works" /\ streaming /\ queued # <<>> /\ pictures < MaxPictures
    /\ pictures' = pictures + 1
    /\ content' = [content EXCEPT ![Head(queued)] = pictures + 1]
    /\ filled' = Append(filled, Head(queued)) /\ queued' = Tail(queued)
    /\ UNCHANGED <<phase, step, camera, fd, streaming, memory, grey, asked, bounds>>

Trouble ==
    /\ camera = "works" /\ camera' \in {"stalls", "gone"}
    /\ UNCHANGED <<phase, step, kernel, memory, grey, pictures, asked, bounds>>

Ask ==
    /\ phase = "running" /\ ~asked /\ asked' = TRUE
    /\ UNCHANGED <<phase, step, camera, kernel, memory, grey, pictures, bounds>>

Next ==
    \/ OpenDevice \/ SetFormat \/ SetParams \/ SetupBuffers \/ InitFails
    \/ QueueAll \/ StreamOn \/ ResumeFails
    \/ Enter \/ Poll \/ Dequeue \/ FrameFails \/ ConvertLower \/ ConvertUpper \/ Requeue
    \/ Pause \/ Resume \/ AskToStop \/ Close \/ Fill \/ Trouble \/ Ask

Spec == Init /\ [][Next]_vars

-----------------------------------------------------------------------
(* Properties *)

TypeOK ==
    /\ phase \in {"closed", "init", "starting", "resume", "running", "paused", "close", "failed"}
    /\ phase \in {"init", "starting", "resume", "running", "paused"} => fd
    /\ streaming => fd
    /\ held \in 0 .. NumBuffers /\ buffers \in 0 .. NumBuffers
    /\ phase \in {"starting", "resume", "running", "paused"} => buffers > 0 /\ bwFrame

\* The pictures handed on are the camera's, whole and in order, none twice: a
\* buffer is not filled while it is converted, and none filled before a pause is
\* handed on after it (webcam_driver.c:790-820).
PicturesInOrder ==
    /\ \A i \in DOMAIN told : told[i][1] = told[i][2] /\ told[i][1] # None
    /\ \A i, j \in DOMAIN told : i < j => told[i][1] < told[j][1]

\* A buffer is in one place only, and while the stream runs none is lost as long
\* as no call failed (webcam_driver.c:657-695, 815-817).
BuffersGoRound ==
    /\ IsInjective(queued \o filled) /\ (held # None => ~Contains(queued \o filled, held))
    /\ streaming /\ failures = 0 /\ camera # "gone" /\ phase = "running" =>
           ToSet(queued \o filled) \cup (IF held = None THEN {} ELSE {held}) = Buffers

(* What the code does not keep. *)

\* A request is seen: the call does not wait for a camera that sends nothing.
RequestSeen == ~(asked /\ At("running", "poll") /\ camera # "works" /\ filled = <<>>)

\* An initialization that fails frees what it had made.
FailureFrees == lost = 0
=======================================================================
