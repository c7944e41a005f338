------------------------------- MODULE Courier -------------------------------
(***************************************************************************)
(* The camera of a Mac is read by a program of its own, qt_cam             *)
(* (mac/macwebcam.c, qt_camera.m, processing.c, buffer.c), which the       *)
(* driver (macwebcam_driver.c) starts for each session.  They share a      *)
(* mapped file (com_proc.c): the driver writes a command there, and        *)
(* qt_cam the blobs of a picture, under a file lock, and now and then the  *)
(* picture, under a flag and no lock.  In qt_cam three threads meet: the   *)
(* camera fills a ring of buffers, a worker empties it, and the main       *)
(* thread looks at the command.  The driver does not wait for qt_cam to    *)
(* end for more than a second, so that two of them may be there.           *)
(***************************************************************************)
EXTENDS Integers, FiniteSetsExt

CONSTANTS Sessions,      \* bound: sessions of the driver, each with its qt_cam
          Buffers,       \* of the ring, the last argument but one of startProcessing
          MaxPictures,   \* bound: pictures taken
          MaxPauses      \* bound: pauses

Helpers == 1 .. Sessions
Slots == 0 .. Buffers - 1
Commands == {"STOP", "SLEEP", "WAKEUP"}
Free == 0                 \* nobody has the lock; no picture

VARIABLES
    command, lock, cells, count, counter,    \* shared: the blobs told and their number
    flag, lower, upper,                      \* shared: frame_filled, the two halves of the picture
    driver, last, room, copied, told,        \* the driver: last_val, bloblist.num_blobs, and blobs
    seen, order, alone,                      \* the halves it copied, the pictures of the last two lists; no
                                             \* earlier qt_cam was left when the session began
    main, old, capturing,                    \* per qt_cam: the main thread
    worker, reading, news,                   \* the worker and new_frame_flag
    filled, content, reader, writer,         \* the ring
    pictures, session, pauses

shared == <<command, lock, cells, count, counter, flag, lower, upper>>
device == <<driver, last, room, copied, told, seen, order, alone, session, pauses>>
thread == <<main, old, capturing>>
ring == <<filled, content, reader, writer>>
work == <<worker, reading, news, ring>>
vars == <<shared, device, thread, work, pictures>>

\* A picture has one or two blobs, in turn; a list has room for two at first.
BlobsOf(p) == 1 + (p % 2)
MaxSent == 2

Init ==
    /\ command = "STOP" /\ lock = Free /\ cells = <<Free, Free>> /\ count = 0 /\ counter = 0
    /\ flag = FALSE /\ lower = Free /\ upper = Free
    /\ driver = "closed" /\ last = 0 /\ room = MaxSent /\ copied = <<Free, Free>> /\ told = 0
    /\ seen = <<Free, Free>> /\ order = <<Free, Free>> /\ alone = TRUE /\ session = 0 /\ pauses = 0
    /\ main = [h \in Helpers |-> "none"] /\ old = [h \in Helpers |-> "WAKEUP"]
    /\ capturing = [h \in Helpers |-> FALSE]
    /\ worker = [h \in Helpers |-> "none"] /\ reading = [h \in Helpers |-> Free]
    /\ news = [h \in Helpers |-> FALSE]
    /\ filled = [h \in Helpers |-> [s \in Slots |-> FALSE]]
    /\ content = [h \in Helpers |-> [s \in Slots |-> Free]]
    /\ reader = [h \in Helpers |-> 0] /\ writer = [h \in Helpers |-> 0]
    /\ pictures = 0

-----------------------------------------------------------------------
(* The lock is of a process: any thread of the one that has it may take it *)
(* again, and release it for all.                                         *)

Driver == -1
MayLock(who) == lock \in {Free, who}
Released == lock' = Free

\* ltr_int_setCommand
Command(c) == MayLock(Driver) /\ Released /\ command' = c

-----------------------------------------------------------------------
(* The driver *)

\* ltr_int_tracker_init: the command first, then the process.
Start ==
    /\ driver = "closed" /\ session < Sessions /\ session' = session + 1
    /\ Command("WAKEUP") /\ main' = [main EXCEPT ![session + 1] = "starting"]
    /\ driver' = "init" /\ room' = MaxSent /\ order' = <<Free, Free>> /\ seen' = <<Free, Free>>
    /\ alone' = \A h \in 1 .. session : main[h] = "gone"
    /\ UNCHANGED <<cells, count, counter, flag, lower, upper, last, copied, told, pauses, old,
                   capturing, work, pictures>>

ResetFlag ==
    /\ driver = "init" /\ driver' = "running" /\ flag' = FALSE
    /\ UNCHANGED <<command, lock, cells, count, counter, lower, upper, last, room, copied, told, seen, order, alone,
                   session, pauses, thread, work, pictures>>

\* ltr_int_tracker_get_frame: the picture, then the blobs.
CopyLower ==
    /\ driver = "running" /\ flag /\ driver' = "copying" /\ seen' = <<lower, Free>>
    /\ UNCHANGED <<shared, last, room, copied, told, order, alone, session, pauses, thread, work, pictures>>

CopyUpper ==
    /\ driver = "copying" /\ driver' = "blobs" /\ seen' = <<seen[1], upper>> /\ flag' = FALSE
    /\ UNCHANGED <<command, lock, cells, count, counter, lower, upper, last, room, copied, told, order, alone,
                   session, pauses, thread, work, pictures>>

NoPicture ==
    /\ driver = "running" /\ ~flag /\ driver' = "blobs"
    /\ UNCHANGED <<shared, last, room, copied, told, seen, order, alone, session, pauses, thread, work, pictures>>

\* ltr_int_haveNewBlobs does not lock; ltr_int_getBlobs copies what there is
\* room for and answers how many there are, and that is the room of the next.
NothingNew ==
    /\ driver = "blobs" /\ counter = last
    /\ driver' = IF main[session] = "gone" THEN "closing" ELSE "running"
    /\ UNCHANGED <<shared, last, room, copied, told, seen, order, alone, session, pauses, thread, work, pictures>>

GetBlobs ==
    /\ driver = "blobs" /\ counter # last /\ MayLock(Driver) /\ Released
    /\ copied' = [c \in 1 .. MaxSent |-> IF c <= Min({room, count}) THEN cells[c] ELSE copied[c]]
    /\ told' = count /\ room' = count /\ last' = counter /\ driver' = "running"
    /\ order' = <<order[2], cells[1]>>
    /\ UNCHANGED <<command, cells, count, counter, flag, lower, upper, seen, alone, session, pauses, thread, work, pictures>>

Pause ==
    /\ driver = "running" /\ pauses < MaxPauses /\ pauses' = pauses + 1 /\ Command("SLEEP") /\ driver' = "paused"
    /\ UNCHANGED <<cells, count, counter, flag, lower, upper, last, room, copied, told, seen, order, alone, session,
                   thread, work, pictures>>

Resume ==
    /\ driver = "paused" /\ Command("WAKEUP") /\ driver' = "running"
    /\ UNCHANGED <<cells, count, counter, flag, lower, upper, last, room, copied, told, seen, order, alone, session, pauses,
                   thread, work, pictures>>

\* ltr_int_tracker_close
Stop ==
    /\ driver \in {"running", "paused", "closing"} /\ Command("STOP") /\ driver' = "waiting"
    /\ UNCHANGED <<cells, count, counter, flag, lower, upper, last, room, copied, told, seen, order, alone, session, pauses,
                   thread, work, pictures>>

\* ltr_int_wait_child_exit: the process has ended, or a second is over.
Closed ==
    /\ driver = "waiting" /\ driver' = "closed"
    /\ UNCHANGED <<shared, last, room, copied, told, seen, order, alone, session, pauses, thread, work, pictures>>

-----------------------------------------------------------------------
(* qt_cam: the main thread *)

\* main, which sets the command too, and capture up to the loop
Begin(h) ==
    /\ main[h] = "starting" /\ MayLock(h) /\ Released /\ command' = "WAKEUP"
    /\ \/ main' = [main EXCEPT ![h] = "loop"] /\ capturing' = [capturing EXCEPT ![h] = TRUE]
          /\ worker' = [worker EXCEPT ![h] = "wait"]
       \/ main' = [main EXCEPT ![h] = "gone"] /\ UNCHANGED <<capturing, worker>>
    /\ UNCHANGED <<cells, count, counter, flag, lower, upper, device, old, reading, news, ring, pictures>>

\* The loop of capture; a file lock that another thread took is released.
Look(h) ==
    /\ main[h] = "loop" /\ MayLock(h) /\ Released /\ command # "STOP"
    /\ capturing' = [capturing EXCEPT ![h] = IF old[h] # "WAKEUP" /\ command = "WAKEUP" THEN TRUE
                                             ELSE @ /\ ~(old[h] = "WAKEUP" /\ command = "SLEEP")]
    /\ old' = [old EXCEPT ![h] = command]
    /\ UNCHANGED <<command, cells, count, counter, flag, lower, upper, device, main, work, pictures>>

\* endProcessing: the flag is raised, and the worker not woken.
LeaveLoop(h) ==
    /\ main[h] = "loop" /\ MayLock(h) /\ Released /\ command = "STOP"
    /\ main' = [main EXCEPT ![h] = "ending"] /\ capturing' = [capturing EXCEPT ![h] = FALSE]
    /\ UNCHANGED <<command, cells, count, counter, flag, lower, upper, device, old, work, pictures>>

Exit(h) ==
    /\ main[h] = "ending" /\ worker[h] = "gone" /\ main' = [main EXCEPT ![h] = "gone"]
    /\ UNCHANGED <<shared, device, old, capturing, work, pictures>>

-----------------------------------------------------------------------
(* qt_cam: the camera and the worker *)

\* newFrame: a picture no buffer is free for is dropped.
NewFrame(h) ==
    /\ capturing[h] /\ pictures < MaxPictures /\ pictures' = pictures + 1
    /\ IF filled[h][writer[h]] THEN UNCHANGED <<news, ring>>
       ELSE /\ filled' = [filled EXCEPT ![h][writer[h]] = TRUE]
            /\ content' = [content EXCEPT ![h][writer[h]] = pictures']
            /\ writer' = [writer EXCEPT ![h] = (@ + 1) % Buffers] /\ UNCHANGED reader
            /\ news' = [news EXCEPT ![h] = TRUE]
    /\ UNCHANGED <<shared, device, thread, worker, reading>>

\* processingThreadFun: one buffer, if there is one, each time it is woken
Wake(h) ==
    /\ worker[h] = "wait" /\ (news[h] \/ main[h] = "ending") /\ news' = [news EXCEPT ![h] = FALSE]
    /\ IF filled[h][reader[h]]
       THEN reading' = [reading EXCEPT ![h] = content[h][reader[h]]] /\ worker' = [worker EXCEPT ![h] = "found"]
       ELSE worker' = [worker EXCEPT ![h] = IF main[h] = "ending" THEN "gone" ELSE "wait"] /\ UNCHANGED reading
    /\ UNCHANGED <<shared, device, thread, ring, pictures>>

\* ltr_int_setBlobs; while it writes, another thread may release the lock.
SetFirst(h) ==
    /\ worker[h] = "found" /\ MayLock(h) /\ lock' = h /\ worker' = [worker EXCEPT ![h] = "blobs"]
    /\ cells' = [cells EXCEPT ![1] = reading[h]]
    /\ UNCHANGED <<command, count, counter, flag, lower, upper, device, thread, reading, news, ring, pictures>>

SetRest(h) ==
    /\ worker[h] = "blobs" /\ worker' = [worker EXCEPT ![h] = "told"]
    /\ count' = BlobsOf(reading[h]) /\ counter' = counter + 1
    /\ cells' = IF BlobsOf(reading[h]) = 2 THEN [cells EXCEPT ![2] = reading[h]] ELSE cells
    /\ lock' = IF lock = h THEN Free ELSE lock
    /\ UNCHANGED <<command, flag, lower, upper, device, thread, reading, news, ring, pictures>>

\* Mutant: the flag is set before the copy.
CopyFirstFlagged(h) ==
    /\ worker[h] = "told" /\ ~flag /\ lower' = reading[h] /\ worker' = [worker EXCEPT ![h] = "copied"] /\ flag' = TRUE
    /\ UNCHANGED <<command, lock, cells, count, counter, upper, device, thread, reading, news, ring, pictures>>

\* The picture is copied when the last one was taken.
CopyFirst(h) ==
    /\ worker[h] = "told" /\ ~flag /\ lower' = reading[h] /\ worker' = [worker EXCEPT ![h] = "copied"]
    /\ UNCHANGED <<command, lock, cells, count, counter, flag, upper, device, thread, reading, news, ring, pictures>>

CopyRest(h) ==
    /\ worker[h] = "copied" /\ upper' = reading[h] /\ flag' = TRUE /\ worker' = [worker EXCEPT ![h] = "done"]
    /\ UNCHANGED <<command, lock, cells, count, counter, lower, device, thread, reading, news, ring, pictures>>

KeepPicture(h) ==
    /\ worker[h] = "told" /\ flag /\ worker' = [worker EXCEPT ![h] = "done"]
    /\ UNCHANGED <<shared, device, thread, reading, news, ring, pictures>>

\* bufferRead
BufferRead(h) ==
    /\ worker[h] = "done" /\ worker' = [worker EXCEPT ![h] = IF main[h] = "ending" THEN "gone" ELSE "wait"]
    /\ filled' = [filled EXCEPT ![h][reader[h]] = FALSE]
    /\ reader' = [reader EXCEPT ![h] = (@ + 1) % Buffers]
    /\ UNCHANGED <<shared, device, thread, reading, news, content, writer, pictures>>

-----------------------------------------------------------------------
DriverNext ==
    Start \/ ResetFlag \/ CopyLower \/ CopyUpper \/ NoPicture \/ NothingNew \/ GetBlobs
    \/ Pause \/ Resume \/ Stop \/ Closed
HelperNext(h) ==
    \/ Begin(h) \/ Look(h) \/ LeaveLoop(h) \/ Exit(h) \/ NewFrame(h) \/ Wake(h)
    \/ SetFirst(h) \/ SetRest(h) \/ CopyFirst(h) \/ CopyRest(h) \/ KeepPicture(h) \/ BufferRead(h)
Next == DriverNext \/ \E h \in Helpers : HelperNext(h)
Spec == Init /\ [][Next]_vars

-----------------------------------------------------------------------
(* Properties *)

TypeOK ==
    /\ command \in Commands /\ lock \in Helpers \cup {Free, Driver}
    /\ alone \in BOOLEAN
    /\ driver \in {"closed", "init", "running", "copying", "blobs", "paused", "closing", "waiting"}
    /\ room \in 0 .. MaxSent /\ count \in 0 .. MaxSent
    /\ \A h \in Helpers : /\ main[h] \in {"none", "starting", "loop", "ending", "gone"}
                          /\ old[h] \in Commands
                          /\ reader[h] \in Slots /\ writer[h] \in Slots
                          /\ worker[h] \in {"none", "wait", "found", "blobs", "told", "copied", "done", "gone"}

\* In a session alone with its qt_cam, the picture the driver copied is of
\* one frame of the camera, the blobs come in the order of the frames, and
\* the camera does not write to the buffer that is looked at
\* (processing.c:82-89 and 130-175, macwebcam_driver.c:114-122).
WholePictures ==
    alone => /\ driver = "blobs" /\ seen[2] # Free => seen[1] = seen[2]
             /\ order[1] # Free => order[1] <= order[2]
             /\ \A h \in Helpers : worker[h] \in {"found", "blobs", "told", "copied", "done"} =>
                    content[h][reader[h]] = reading[h]

\* Refuted: the blobs told are those of one picture.
BlobsOfOne == driver = "running" => \A c, d \in 1 .. told : copied[c] = copied[d]
\* Refuted: the same, were the list as long each time.
BlobsCopiedOfOne == driver = "running" => \A c, d \in 1 .. Min({told, room}) : copied[c] = copied[d]
\* Refuted: a qt_cam that is left running has been told to stop.
StopHeeded == driver = "closed" => \A h \in Helpers : main[h] = "loop" => command = "STOP"
\* Refuted: a session is alone with its qt_cam.
OneHelper == driver = "running" => alone
=============================================================================
