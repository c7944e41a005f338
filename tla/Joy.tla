-------------------------------- MODULE Joy --------------------------------
(***************************************************************************)
(* The joystick driver (joy.c, joy_driver_prefs.c): axes are enumerated    *)
(* with their ranges when the device is opened, their events come in order *)
(* through a buffer of the kernel that is emptied when it overflows, and   *)
(* each moves the coordinate of the pose it is assigned to.  Assignments   *)
(* may be changed in the GUI (joy_prefs.cpp) at any time.                  *)
(***************************************************************************)
EXTENDS Integers, Sequences, SequencesExt

CONSTANTS Codes,           \* event codes of axes
          Coordinates,     \* of the pose, in the order mapAxis asks for them
          Lowest, Highest, \* code -> its range
          Scale,           \* 32767
          KernelBuffer,    \* events the kernel keeps
          Batch,           \* events read at once (16)
          MaxMoves, MaxSessions, MaxAssigns     \* bounds

VARIABLES
    position,       \* code -> where the axis is
    present,        \* the device is plugged in
    fd, queue,      \* opened, and the events waiting in the kernel
    dropped,        \* the kernel has dropped some since the driver opened it
    moved,          \* the axes whose events came since then
    assigned,       \* coordinate -> code, or Unused
    old,            \* coordinates assigned anew since their axis moved last
    pose,           \* coordinate -> value, the statics yaw, pitch, ...
    handed,         \* the pose handed on last
    phase, moves, sessions, assigns

device == <<position, present, moved, dropped, queue>>
driver == <<fd, pose, handed, phase>>
vars == <<device, driver, assigned, old, moves, sessions, assigns>>

Unused == -1
Rest == [i \in DOMAIN Coordinates |-> 0]

Init ==
    /\ position = [c \in Codes |-> Lowest[c]] /\ present = TRUE
    /\ fd = FALSE /\ queue = <<>> /\ dropped = FALSE /\ moved = {}
    /\ assigned \in [DOMAIN Coordinates -> Codes \cup {Unused}] /\ old = {}
    /\ pose = Rest /\ handed = Rest
    /\ phase = "closed" /\ moves = 0 /\ sessions = 0 /\ assigns = 0

-----------------------------------------------------------------------
(* ltr_int_tracker_init, ltr_int_tracker_close *)

\* findJoystick and enumerateAxesEvdev; a device that goes away in between
\* leaves the file open.
Open ==
    /\ phase = "closed" /\ sessions < MaxSessions /\ sessions' = sessions + 1
    /\ IF present THEN /\ fd' = TRUE /\ phase' = "running" /\ pose' = Rest
                       /\ queue' = <<>> /\ dropped' = FALSE /\ moved' = {} /\ old' = {}
                  ELSE phase' = "failed" /\ UNCHANGED <<fd, pose, queue, dropped, moved, old>>
    /\ UNCHANGED <<position, present, handed, assigned, moves, assigns>>

Close ==
    /\ phase \in {"running", "ending"} /\ phase' = "closed" /\ fd' = FALSE /\ queue' = <<>>
    /\ UNCHANGED <<position, present, dropped, moved, pose, handed, assigned, old, moves, sessions, assigns>>

-----------------------------------------------------------------------
(* ltr_int_tracker_get_frame *)

\* Integer division of the language: towards zero.
Truncate(a, b) == IF a >= 0 THEN a \div b ELSE -((-a) \div b)

\* normalize: from the range of the axis to -Scale..Scale.
Normalize(code, value) ==
    Truncate(Scale * (2 * (value - Lowest[code]) - (Highest[code] - Lowest[code])),
             Highest[code] - Lowest[code])

\* mapAxis: the first coordinate the axis is assigned to.
MapAxis(p, event) ==
    [i \in DOMAIN Coordinates |->
        IF assigned[i] = event.code /\ \A j \in 1 .. i - 1 : assigned[j] # event.code
          THEN Normalize(event.code, event.value) ELSE p[i]]

\* Mutant: of several events the first is taken last.
MapAllReversed(events) == FoldRight(LAMBDA e, p : MapAxis(p, e), events, pose)

MapAll(events) ==
    LET upTo[i \in 0 .. Len(events)] == IF i = 0 THEN pose ELSE MapAxis(upTo[i - 1], events[i])
    IN  upTo[Len(events)]

ReadEvents ==
    /\ phase = "running" /\ present /\ queue # <<>>
    /\ LET n == IF Len(queue) < Batch THEN Len(queue) ELSE Batch
           events == SubSeq(queue, 1, n)
       IN  /\ pose' = MapAll(events) /\ handed' = MapAll(events)
           /\ queue' = SubSeq(queue, n + 1, Len(queue))
           /\ old' = old \ {i \in DOMAIN Coordinates : \E k \in DOMAIN events : events[k].code = assigned[i]}
    /\ UNCHANGED <<position, present, dropped, moved, fd, phase, assigned, moves, sessions, assigns>>

\* Nothing came within the time of one poll: the pose is handed on again.
Timeout ==
    /\ phase = "running" /\ queue = <<>> /\ present /\ handed' = pose
    /\ UNCHANGED <<device, fd, pose, phase, assigned, old, moves, sessions, assigns>>

\* read fails: the run loop ends.
ReadFails ==
    /\ phase = "running" /\ ~present /\ phase' = "ending"
    /\ UNCHANGED <<device, fd, pose, handed, assigned, old, moves, sessions, assigns>>

-----------------------------------------------------------------------
(* The user. *)

Move ==
    /\ present /\ moves < MaxMoves /\ moves' = moves + 1
    /\ \E c \in Codes : \E v \in Lowest[c] .. Highest[c] :
          /\ v # position[c] /\ position' = [position EXCEPT ![c] = v]
          /\ IF ~fd THEN UNCHANGED <<queue, dropped, moved>>
             ELSE /\ moved' = moved \cup {c}
                  /\ IF Len(queue) = KernelBuffer
                       THEN queue' = <<[code |-> c, value |-> v]>> /\ dropped' = TRUE
                       ELSE queue' = Append(queue, [code |-> c, value |-> v]) /\ UNCHANGED dropped
    /\ UNCHANGED <<present, driver, assigned, old, sessions, assigns>>

Unplug ==
    /\ present /\ present' = FALSE /\ queue' = <<>>
    /\ UNCHANGED <<position, dropped, moved, driver, assigned, old, moves, sessions, assigns>>

\* The setters of joy_driver_prefs.c.
Assign ==
    /\ assigns < MaxAssigns /\ assigns' = assigns + 1
    /\ \E i \in DOMAIN Coordinates, c \in Codes \cup {Unused} :
          /\ assigned' = [assigned EXCEPT ![i] = c]
          /\ old' = old \cup {j \in DOMAIN Coordinates : j >= i}
    /\ UNCHANGED <<device, driver, moves, sessions>>

Next == Open \/ Close \/ ReadEvents \/ Timeout \/ ReadFails \/ Move \/ Unplug \/ Assign

Spec == Init /\ [][Next]_vars

-----------------------------------------------------------------------
(* Properties *)

TypeOK ==
    /\ phase \in {"closed", "running", "ending", "failed"} /\ (phase = "running" => fd)
    /\ Len(queue) <= KernelBuffer /\ (queue # <<>> => fd)
    /\ \A i \in DOMAIN Coordinates : pose[i] \in -Scale .. Scale /\ handed[i] \in -Scale .. Scale

First(i) == assigned[i] # Unused /\ \A j \in 1 .. i - 1 : assigned[j] # assigned[i]

\* When all events are read and none was dropped the pose is where the axes are,
\* for those that moved since the driver was opened (joy.c:470-530).
PoseOfAxes ==
    phase = "running" /\ queue = <<>> /\ present /\ ~dropped =>
        \A i \in DOMAIN Coordinates :
            First(i) /\ i \notin old /\ assigned[i] \in moved =>
                pose[i] = Normalize(assigned[i], position[assigned[i]])

(* What the code does not keep. *)

\* Also after events were dropped, or for an axis that did not move yet, or one
\* that two coordinates are assigned to.
PoseAlwaysOfAxes ==
    phase = "running" /\ queue = <<>> /\ present /\ old = {} =>
        \A i \in DOMAIN Coordinates :
            assigned[i] # Unused => pose[i] = Normalize(assigned[i], position[assigned[i]])
=======================================================================
