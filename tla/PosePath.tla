--------------------------- MODULE PosePath ---------------------------
(***************************************************************************)
(* The way of a pose from the device thread of module Tracking to a client *)
(* that polls ltr_get_pose: broadcast by the master's callbacks, received  *)
(* by the slave's reader thread, stored in the mailbox in two parts, and   *)
(* copied out by the client.  The lockf lock of the mailbox belongs to the *)
(* slave PROCESS, whose main loop takes and releases it too (module Slave).*)
(***************************************************************************)
EXTENDS Tracking, Sequences

CONSTANTS MaxQueue,      \* bound: messages on their way
          MaxCommands    \* bound: commands the client posts in the mailbox

VARIABLES
    status,    \* the published device state
    masterPc,  \* ltr_int_master: "out", "starting", "created" (the device thread), "loop", "leaving"
    called,    \* its callbacks are registered
    current,   \* the master's current_pose
    since,     \* when this master started: it had no frame up to this one
    registered,  \* the slave's socket is among those it broadcasts to
    queue,     \* what that socket holds
    mail,      \* struct ltr_comm, its command apart
    filtered,  \* prev_filtered_pose
    msg,       \* the message the reader works on
    readerPc,  \* the slave's reader thread: "wait", "locked" or "half" (way through the copy)
    mainPc,    \* its main loop: "idle" or "holds" (the lock)
    lock,      \* "slave" while that process owns the lock, else "free"
    posted,    \* commands posted so far
    told,      \* the client: what its last call got it, and whether that was new
    newest     \* the last pose it was told is new

\* No message and no mailbox holds since: it tells of which master a pose is.
masterVars == <<masterPc, called, since>>
wayVars == <<current, registered, queue>>
slaveVars == <<mail, filtered, msg, readerPc, mainPc, lock>>
clientVars == <<posted, told, newest>>
pathVars == <<status, masterVars, wayVars, slaveVars, clientVars>>

Errors == {"err_NOT_INITIALIZED", "err_PROCESSING_FRAME"}
Statuses == {"OK", "INITIALIZING", "RUNNING", "PAUSED", "STOPPED"} \cup Errors

NoMessage == [pose |-> NoPose, counter |-> 0, status |-> "OK", since |-> 0]

PathInit ==
    /\ Init
    /\ status = "STOPPED" /\ masterPc = "out" /\ called = FALSE /\ since = 0
    /\ current = NoMessage /\ registered = FALSE /\ queue = <<>>
    /\ mail = [pose |-> NoPose, prev |-> NoPose, counter |-> 0, state |-> "INITIALIZING", since |-> 0]
    /\ filtered = NoPose /\ msg = NoMessage /\ readerPc = "wait" /\ mainPc = "idle" /\ lock = "free"
    /\ posted = 0
    /\ told = [new |-> FALSE, pose |-> NoPose, prev |-> NoPose, counter |-> 0, since |-> 0]
    /\ newest = [pose |-> NoPose, since |-> 0]

-----------------------------------------------------------------------
(* The master. *)

Send(m) == IF registered THEN Len(queue) < MaxQueue /\ queue' = Append(queue, m) ELSE UNCHANGED queue

Broadcast(m) == current' = m /\ Send(m) /\ UNCHANGED registered

\* ltr_int_cal_set_state, and ltr_int_state_changed: the pose broadcast last is sent again.
StateChanged(to) ==
    /\ status' = to
    /\ IF called THEN Broadcast([current EXCEPT !.status = to]) ELSE UNCHANGED wayVars

Track == Device /\ pc # "ready" /\ UNCHANGED pathVars

\* ltr_int_init, up to the device thread ...
StartSession ==
    /\ masterPc = "out" /\ Begin /\ masterPc' = "starting"
    /\ UNCHANGED <<status, called, since, wayVars, slaveVars, clientVars>>

NoSession ==
    /\ masterPc = "starting" /\ pc = "off" /\ masterPc' = "out"
    /\ UNCHANGED <<vars, status, called, since, wayVars, slaveVars, clientVars>>

Create ==
    /\ masterPc = "starting" /\ InitTracking /\ masterPc' = "created"
    /\ UNCHANGED <<status, called, since, wayVars, slaveVars, clientVars>>

\* ... which runs when the callbacks are registered.
Serve ==
    /\ masterPc = "created" /\ masterPc' = "loop" /\ called' = TRUE
    /\ UNCHANGED <<vars, status, since, wayVars, slaveVars, clientVars>>

\* The main loop: a slave may come at any time.
Register ==
    /\ masterPc = "loop" /\ ~registered /\ readerPc = "wait" /\ registered' = TRUE
    /\ UNCHANGED <<vars, status, masterVars, current, queue, slaveVars, clientVars>>

Heartbeat ==
    /\ masterPc = "loop" /\ status = "PAUSED" /\ Send([NoMessage EXCEPT !.status = "PAUSED"])
    /\ UNCHANGED <<vars, status, masterVars, current, registered, slaveVars, clientVars>>

Leave ==
    /\ masterPc = "loop" /\ masterPc' = "leaving"
    /\ UNCHANGED <<vars, status, called, since, wayVars, slaveVars, clientVars>>

Join ==
    /\ masterPc = "leaving" /\ pc = "off" /\ masterPc' = "out"
    /\ UNCHANGED <<vars, status, called, since, wayVars, slaveVars, clientVars>>

\* The process ends, by itself or killed, and another one is started; the slave, hung up,
\* reads no more of what the socket held and connects to that one.
NewMaster ==
    /\ Restart /\ since' = frame' /\ masterPc' = "out" /\ called' = FALSE /\ status' = "STOPPED"
    /\ current' = [NoMessage EXCEPT !.since = frame'] /\ registered' = FALSE /\ queue' = <<>>
    /\ UNCHANGED <<slaveVars, clientVars>>

-----------------------------------------------------------------------
(* The device thread, and what its callbacks broadcast. *)

InLoop == {"RUNNING", "PAUSED", "err_PROCESSING_FRAME"}

Change(from, to) ==
    /\ pc = "idle" /\ status \in from /\ StateChanged(to)
    /\ UNCHANGED <<masterVars, slaveVars, clientVars>>

\* Twice in each session, by ltr_int_cal_run and by ltr_int_rl_run.
Initialize == Change(Statuses \ InLoop, "INITIALIZING") /\ UNCHANGED vars

Run == Change({"INITIALIZING", "PAUSED"}, "RUNNING") /\ UNCHANGED vars

Pause == Change({"RUNNING"}, "PAUSED") /\ UNCHANGED vars

CaptureFails == Change({"RUNNING"}, "err_PROCESSING_FRAME") /\ UNCHANGED vars

\* No device is chosen, or its library is not found.
NoDevice == status \notin InLoop /\ End /\ UNCHANGED pathVars

NotInitialized == Change({"INITIALIZING"}, "err_NOT_INITIALIZED") /\ End

EndSession ==
    /\ status # "err_PROCESSING_FRAME" => masterPc = "leaving"
    /\ Change(InLoop, "STOPPED") /\ End

Capture == status = "RUNNING" /\ NewFrame /\ UNCHANGED pathVars

\* Mutant: the callback keeps the counter it saw first.
NewPoseOldCounter ==
    /\ HandOver
    /\ IF called THEN Broadcast([current EXCEPT !.pose = pose]) ELSE UNCHANGED wayVars
    /\ UNCHANGED <<status, masterVars, slaveVars, clientVars>>

\* ltr_int_new_frame, after every frame, whether it gave a pose or not; the status is
\* that of the last change that was broadcast.
NewPose ==
    /\ HandOver
    /\ IF called THEN Broadcast([current EXCEPT !.pose = pose, !.counter = counter]) ELSE UNCHANGED wayVars
    /\ UNCHANGED <<status, masterVars, slaveVars, clientVars>>

-----------------------------------------------------------------------
(* The slave. *)

SlaveMayLock == lock \in {"free", "slave"}

LockMail ==
    /\ readerPc = "wait" /\ queue # <<>> /\ SlaveMayLock
    /\ msg' = Head(queue) /\ queue' = Tail(queue)
    /\ lock' = "slave" /\ readerPc' = "locked"
    /\ UNCHANGED <<vars, status, masterVars, current, registered, mail, filtered, mainPc, clientVars>>

\* The whole of the message's pose first ...
StorePose ==
    /\ readerPc = "locked" /\ readerPc' = "half"
    /\ mail' = IF msg.status = "RUNNING"
               THEN [mail EXCEPT !.pose = msg.pose, !.prev = NoPose, !.counter = msg.counter,
                                 !.since = msg.since]
               ELSE mail
    /\ UNCHANGED <<vars, status, masterVars, wayVars, filtered, msg, mainPc, lock, clientVars>>

\* Mutant: the rest is stored after the lock is given back.
StoreRestUnlocked ==
    /\ readerPc = "half" /\ lock' = "free"
    /\ \/ lock = "slave" /\ UNCHANGED <<mail, filtered, readerPc>>
       \/ /\ lock = "free" /\ readerPc' = "wait"
          /\ mail' = [mail EXCEPT !.prev = filtered, !.state = msg.status]
          /\ filtered' = msg.pose
    /\ UNCHANGED <<vars, status, masterVars, wayVars, msg, mainPc, clientVars>>

\* ... then the pose before it, as this slave filtered it, and the state.
StoreRest ==
    /\ readerPc = "half" /\ readerPc' = "wait"
    /\ IF msg.status = "RUNNING"
         THEN mail' = [mail EXCEPT !.prev = filtered, !.state = msg.status] /\ filtered' = msg.pose
         ELSE mail' = [mail EXCEPT !.state = msg.status] /\ UNCHANGED filtered
    /\ lock' = "free" /\ msg' = NoMessage
    /\ UNCHANGED <<vars, status, masterVars, wayVars, mainPc, clientVars>>

\* The main loop fetches a command.
MainLocks ==
    /\ mainPc = "idle" /\ posted > 0 /\ SlaveMayLock
    /\ mainPc' = "holds" /\ lock' = "slave"
    /\ UNCHANGED <<vars, status, masterVars, wayVars, mail, filtered, msg, readerPc, clientVars>>

MainUnlocks ==
    /\ mainPc = "holds" /\ mainPc' = "idle" /\ lock' = "free"
    /\ UNCHANGED <<vars, status, masterVars, wayVars, mail, filtered, msg, readerPc, clientVars>>

-----------------------------------------------------------------------
(* The client. *)

Post ==
    /\ lock = "free" /\ posted < MaxCommands /\ posted' = posted + 1
    /\ UNCHANGED <<vars, status, masterVars, wayVars, slaveVars, told, newest>>

\* ltr_get_pose, always called with the same counter variable.
GetPose ==
    /\ lock = "free"
    /\ told' = IF mail.state \in Errors
               THEN [new |-> FALSE, pose |-> NoPose, prev |-> NoPose, counter |-> 0, since |-> mail.since]
               ELSE [new |-> told.counter # mail.counter, pose |-> mail.pose,
                     prev |-> mail.prev, counter |-> mail.counter, since |-> mail.since]
    /\ newest' = IF told'.new THEN [pose |-> told'.pose, since |-> mail.since] ELSE newest
    /\ UNCHANGED <<vars, status, masterVars, wayVars, slaveVars, posted>>

Master == StartSession \/ NoSession \/ Create \/ Serve \/ Register \/ Heartbeat \/ Leave \/ Join \/ NewMaster

DeviceThread ==
    \/ Track \/ Initialize \/ Run \/ Pause \/ CaptureFails \/ NoDevice \/ NotInitialized \/ EndSession
    \/ Capture \/ NewPose

PathNext ==
    \/ Master \/ DeviceThread
    \/ LockMail \/ StorePose \/ StoreRest \/ MainLocks \/ MainUnlocks
    \/ Post \/ GetPose
    \/ Others /\ UNCHANGED pathVars

PathSpec == PathInit /\ [][PathNext]_<<vars, pathVars>>

-----------------------------------------------------------------------
(* Properties *)

\* Every variable keeps its type.
PoseType == [frame : Nat, session : Nat, version : Nat, center : CenterType, counted : BOOLEAN]
MessageType == [pose : PoseType, counter : Nat, status : Statuses, since : Nat]
PathTypeOK ==
    /\ TypeOK
    /\ status \in Statuses /\ masterPc \in {"out", "starting", "created", "loop", "leaving"}
    /\ called \in BOOLEAN /\ since \in Nat
    /\ current \in MessageType /\ registered \in BOOLEAN /\ queue \in Seq(MessageType)
    /\ mail \in [pose : PoseType, prev : PoseType, counter : Nat, state : Statuses, since : Nat]
    /\ filtered \in PoseType /\ msg \in MessageType
    /\ readerPc \in {"wait", "locked", "half"} /\ mainPc \in {"idle", "holds"}
    /\ lock \in {"free", "slave"} /\ posted \in Nat
    /\ told \in [new : BOOLEAN, pose : PoseType, prev : PoseType, counter : Nat, since : Nat]
    /\ newest \in [pose : PoseType, since : Nat]

\* A client that has the counter of a counted pose in the mailbox was told that this
\* pose is new (ltlib.c:170-184): polling at any rate, it misses none but those that
\* others have replaced, once it was told of one of the same master.
NothingMissed ==
    mail.pose.counted /\ told.counter = mail.counter /\ newest.since = mail.since =>
        newest.pose = mail.pose

\* A pose of a master's first session that the client is told is new, with a count, is
\* counted, and measured from a centre of that session and its model.
NewIsCentred ==
    told.new /\ told.counter > 0 /\ told.pose.session = 1 /\ ~quietly =>
        /\ told.pose.counted
        /\ told.pose.center.session = 1 /\ told.pose.center.version = told.pose.version

\* The pose a client extrapolates from is not younger than the pose itself, unless the
\* slave's main loop takes the lock at the wrong moment (ltr_srv_slave.c:163-172).
PrevPose == posted = 0 /\ told.pose # NoPose => told.prev.frame <= told.pose.frame

-----------------------------------------------------------------------
(* What the comments promise, or one would expect, and the code does not   *)
(* keep: TLC refutes each of the following; README.md tells how.           *)

\* ltlib.c:181 "flag new data": every counted pose in the mailbox whose counter the client
\* has was flagged, whichever master it is of.
NeverMissed == mail.pose.counted /\ told.counter = mail.counter => newest.pose = mail.pose

\* ltlib.c:181 "flag new data": what is flagged is a counted pose.
AlwaysNewIsCounted == told.new => told.pose.counted

\* Poses carry the state of the device: a slave stores those of one that runs
\* (ltr_srv_slave.c:155).  The thread may get there before the callbacks are registered.
RunningTold == called /\ status = "RUNNING" => current.status = "RUNNING"

\* A counted pose comes with one to extrapolate from.
PrevIsThere == told.pose.counted => told.prev # NoPose

\* The mailbox's lock keeps the client from a pose that is half written.
NoHalfPose == readerPc = "half" => lock = "slave"
=======================================================================
