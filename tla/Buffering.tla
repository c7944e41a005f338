-------------------------- MODULE Buffering ---------------------------
(***************************************************************************)
(* The camera view of the GUI: the rotating image buffers of               *)
(* qt_gui/buffering.cpp, filled by the device thread (the frame hook in    *)
(* qt_gui/tracker.cpp) and painted by the GUI thread (ltr_show.cpp).       *)
(*                                                                         *)
(* Every operation of the class holds its lock, except init(): the GUI     *)
(* thread stores the three indexes one after the other when the user       *)
(* presses start, also while a session is still running.                   *)
(***************************************************************************)
EXTENDS Integers

CONSTANTS N,           \* buffers (3 in the code)
          Sizes,       \* resolutions of the camera
          MaxFrame     \* bound: frames captured

ASSUME NAssumption == N \in Nat /\ N >= 3
ASSUME BoundAssumption == MaxFrame \in Nat /\ Sizes # {}

VARIABLES
    current, writeChecked, readChecked,   \* the fields of class buffering
    initBuffers,   \* the buffers have to be resized
    config,        \* resolution set in the preferences
    size,          \* resolution the buffers are made for
    stamp,         \* the frame each buffer holds, 0 for none
    devPc,         \* device thread: "off", or where it is in the frame hook
    frameSize,     \* the session's resolution
    filling,       \* the buffer the driver writes a frame to, or None
    frame,         \* frames captured so far
    guiPc,         \* GUI thread: "idle", "reading", or where it is in start()
    reading,       \* the buffer it paints from, or None
    shown          \* the last frame it painted

indexes == <<current, writeChecked, readChecked>>
devVars == <<devPc, frameSize, filling, frame>>
guiVars == <<guiPc, reading, shown>>
vars == <<indexes, initBuffers, config, size, stamp, devVars, guiVars>>

None == -1
Buffers == 0 .. N - 1
Indexes == Buffers \cup {None}

Init ==
    /\ current = None /\ writeChecked = None /\ readChecked = None
    /\ initBuffers = TRUE /\ size \in Sizes /\ config \in Sizes
    /\ stamp = [b \in Buffers |-> 0]
    /\ devPc = "off" /\ frameSize \in Sizes /\ filling = None /\ frame = 0
    /\ guiPc = "idle" /\ reading = None /\ shown = 0

-----------------------------------------------------------------------
(* The GUI thread. *)

GuiAt(p, q) == guiPc = p /\ guiPc' = q

\* The user chooses another camera or resolution.  While a session runs the
\* change has no effect before the next start, so it may as well come then.
Configure ==
    /\ guiPc = "idle" /\ devPc = "off"
    /\ config' \in Sizes
    /\ UNCHANGED <<indexes, initBuffers, size, stamp, devVars, guiVars>>

\* Mutant: the buffers are resized in the first session only.
StartUnsized ==
    /\ GuiAt("idle", "init")
    /\ UNCHANGED <<indexes, initBuffers, config, size, stamp, devVars, reading, shown>>

\* start() can be called while the master thread is still running.
Start ==
    /\ GuiAt("idle", "init") /\ initBuffers' = TRUE
    /\ UNCHANGED <<indexes, config, size, stamp, devVars, reading, shown>>

\* Mutant: init() leaves current alone.
InitIndexesKeeping ==
    /\ \/ GuiAt("init", "initW") /\ readChecked' = None /\ UNCHANGED <<writeChecked, current>>
       \/ GuiAt("initW", "start") /\ writeChecked' = None /\ UNCHANGED <<readChecked, current>>
    /\ UNCHANGED <<initBuffers, config, size, stamp, devVars, reading, shown>>

\* init(), without the lock, right to left.
InitIndexes ==
    /\ \/ GuiAt("init", "initW") /\ readChecked' = None /\ UNCHANGED <<writeChecked, current>>
       \/ GuiAt("initW", "initC") /\ writeChecked' = None /\ UNCHANGED <<readChecked, current>>
       \/ GuiAt("initC", "start") /\ current' = None /\ UNCHANGED <<readChecked, writeChecked>>
    /\ UNCHANGED <<initBuffers, config, size, stamp, devVars, reading, shown>>

\* QThread::start does nothing if the thread runs.
StartMaster ==
    /\ GuiAt("start", "idle")
    /\ IF devPc = "off"
         THEN devPc' = "capture" /\ frameSize' = config
         ELSE UNCHANGED <<devPc, frameSize>>
    /\ UNCHANGED <<indexes, config, initBuffers, size, stamp, filling, frame, reading, shown>>

ReadBuffer ==
    /\ readChecked = None /\ current # None
    /\ GuiAt("idle", "reading")
    /\ readChecked' = current /\ reading' = current
    /\ shown' = stamp[current]
    /\ UNCHANGED <<current, writeChecked, initBuffers, config, size, stamp, devVars>>

BufferRead ==
    /\ GuiAt("reading", "idle")
    /\ readChecked' = None /\ reading' = None
    /\ UNCHANGED <<current, writeChecked, initBuffers, config, size, stamp, devVars, shown>>

Gui == Configure \/ Start \/ InitIndexes \/ StartMaster \/ ReadBuffer \/ BufferRead

-----------------------------------------------------------------------
(* The device thread. *)

DevAt(p, q) == devPc = p /\ devPc' = q

\* The driver writes a frame, into the buffer it was given if there is one.
Capture ==
    /\ DevAt("capture", "hook") /\ frame < MaxFrame
    /\ frame' = frame + 1
    /\ stamp' = IF filling = None THEN stamp ELSE [stamp EXCEPT ![filling] = frame + 1]
    /\ UNCHANGED <<indexes, config, initBuffers, size, frameSize, filling, guiVars>>

ResizeBuffers ==
    /\ DevAt("hook", "written")
    /\ size' = IF initBuffers THEN frameSize ELSE size
    /\ stamp' = IF size' # size THEN [b \in Buffers |-> 0] ELSE stamp
    /\ initBuffers' = FALSE
    /\ UNCHANGED <<indexes, config, frameSize, filling, frame, guiVars>>

\* publish_frame has seen to it that frame->bitmap is not NULL.
BufferWritten ==
    /\ DevAt("written", "next")
    /\ current' = IF writeChecked # None THEN writeChecked ELSE current
    /\ writeChecked' = None /\ filling' = None
    /\ UNCHANGED <<readChecked, initBuffers, config, size, stamp, frameSize, frame, guiVars>>

\* Mutant: the index is not wrapped around.
NextIndexUnwrapped(i) == current + i
NextIndex(i) == (current + i) % N

\* Mutant: the loop ends one buffer too early.
UsableShort(i) == i \in 1 .. N - 2 /\ NextIndex(i) # readChecked
Usable(i) == i \in 1 .. N - 1 /\ NextIndex(i) # readChecked

\* Mutant: the buffer being read is not skipped.
WriteBufferUnchecked ==
    /\ DevAt("next", "capture")
    /\ filling' = NextIndex(1) /\ writeChecked' = filling'
    /\ stamp' = [stamp EXCEPT ![filling'] = 0]
    /\ UNCHANGED <<current, readChecked, initBuffers, config, size, frameSize, frame, guiVars>>

\* Mutant: the buffer is not cleared.
WriteBufferUncleared ==
    /\ DevAt("next", "capture")
    /\ \/ writeChecked # None /\ UNCHANGED <<filling, writeChecked>>
       \/ /\ writeChecked = None
          /\ \E i \in 1 .. N - 1 :
                /\ Usable(i) /\ \A j \in 1 .. i - 1 : ~Usable(j)
                /\ filling' = NextIndex(i) /\ writeChecked' = NextIndex(i)
    /\ UNCHANGED <<current, readChecked, initBuffers, config, size, stamp, frameSize, frame, guiVars>>

\* The first buffer after the current one that is not being read, cleared.
WriteBuffer ==
    /\ DevAt("next", "capture")
    /\ \/ writeChecked # None /\ UNCHANGED <<filling, writeChecked, stamp>>
       \/ /\ writeChecked = None
          /\ \E i \in 1 .. N - 1 :
                /\ Usable(i) /\ \A j \in 1 .. i - 1 : ~Usable(j)
                /\ filling' = NextIndex(i) /\ writeChecked' = NextIndex(i)
                /\ stamp' = [stamp EXCEPT ![NextIndex(i)] = 0]
    /\ UNCHANGED <<current, readChecked, initBuffers, config, size, frameSize, frame, guiVars>>

EndSession ==
    /\ DevAt("capture", "off") /\ filling' = None
    /\ UNCHANGED <<indexes, config, initBuffers, size, stamp, frameSize, frame, guiVars>>

DeviceThread == Capture \/ ResizeBuffers \/ BufferWritten \/ WriteBuffer \/ EndSession

Next == Gui \/ DeviceThread
Spec == Init /\ [][Next]_vars

-----------------------------------------------------------------------
(* Properties *)

\* Every variable keeps its type.
TypeOK ==
    /\ current \in Indexes /\ writeChecked \in Indexes /\ readChecked \in Indexes
    /\ initBuffers \in BOOLEAN /\ size \in Sizes /\ config \in Sizes
    /\ stamp \in [Buffers -> Nat]
    /\ devPc \in {"off", "capture", "hook", "written", "next"}
    /\ frameSize \in Sizes /\ filling \in Indexes /\ frame \in 0 .. MaxFrame
    /\ guiPc \in {"idle", "init", "initW", "initC", "start", "reading"}
    /\ reading \in Indexes /\ shown \in Nat

\* The GUI never paints from the buffer the driver is writing to, not even when
\* start() wipes the indexes under a running session.
NoTearing == reading # None => reading # filling

\* buffering.cpp:96-97: "the assumption is, that with 3+ buffers, there must be
\* more than one available": the search for a buffer to write to finds one.
WriterFinds == devPc = "next" /\ writeChecked = None => \E i \in 1 .. N - 1 : Usable(i)

\* The driver never writes a frame into buffers made for another resolution
\* (the concern of the comment at buffering.cpp:8-15).
DriverFits == filling # None /\ ~initBuffers => size = frameSize

\* No buffer is reallocated while the GUI paints from one or the driver writes to
\* one (buffering.cpp:43-57 frees the old memory), and the view never goes back to an
\* older frame: across a restart it may show an empty buffer, not a picture of the
\* session before (buffering.cpp:100).
ShownInOrder ==
    [][/\ size' # size => reading = None /\ filling = None
       /\ shown' >= shown \/ shown' = 0]_vars
=======================================================================
