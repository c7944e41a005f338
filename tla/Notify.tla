------------------------------ MODULE Notify ------------------------------
(***************************************************************************)
(* A client that sleeps until there is a new pose: the OSC server          *)
(* (osc_server.c), ltr_wait and ltr_get_pose_full (ltlib.c), and the end   *)
(* of the notification pipe in its slave (ltr_srv_slave.c).  A byte goes   *)
(* into the pipe after a pose is stored; the client sleeps until there are *)
(* bytes, takes them all and copies the pose.  What it then does with the  *)
(* pose hangs on a result that never tells of a new one (LatestSent).      *)
(***************************************************************************)
EXTENDS Integers, Sequences

CONSTANTS Pictures,      \* the points <<x, y>> of a picture, in the order they were found
          Room,          \* BLOBS of the server, as many as it has room for
          PipeSize,      \* bytes the pipe holds
          MaxWaits,      \* bound: looks at the state before it gives up (200)
          MaxPoses       \* bound: messages from the master

VARIABLES
    pc, waits, loopOn,   \* the server: its main thread, and the flag of the other one
    last, sent,          \* the counter in its pose, and what it sent
    copied,              \* the copy taken in ltr_get_pose_full
    slave,               \* "forking", "runs", "gone"
    com,                 \* in shared memory: state, counter, blobs, notify
    notify, reader, message,   \* of the slave
    pipe,                \* bytes in the pipe
    silent,              \* no byte was written for the last pose
    poses

client == <<pc, waits, last, sent, copied>>
slaveVars == <<slave, notify, reader, message>>
vars == <<client, loopOn, slaveVars, com, pipe, silent, poses>>

NoPose == [counter |-> 0, blobs |-> <<>>]

\* ltr_init_helper: the file is mapped and the slave forked.
Init ==
    /\ pc = "state" /\ waits = 0 /\ loopOn = TRUE
    /\ last = 0 /\ sent = <<>> /\ copied = NoPose
    /\ slave \in {"runs", "gone"} /\ notify = FALSE /\ reader = "poll" /\ message = NoPose
    /\ com = [state |-> "INITIALIZING", pose |-> NoPose, notify |-> FALSE]
    /\ pipe = 0 /\ silent = TRUE /\ poses = 0

At(from, to) == pc = from /\ pc' = to

-----------------------------------------------------------------------
(* The server.  intialize_tracking: *)

StateGood ==
    /\ At("state", "get") /\ com.state \in {"RUNNING", "PAUSED"} /\ com' = [com EXCEPT !.notify = TRUE]
    /\ UNCHANGED <<waits, last, sent, copied, loopOn, slaveVars, pipe, silent, poses>>

StateBad ==
    /\ com.state \notin {"RUNNING", "PAUSED"} /\ waits' = waits + 1
    /\ At("state", IF waits' = MaxWaits THEN "ended" ELSE "state")
    /\ UNCHANGED <<last, sent, copied, loopOn, slaveVars, com, pipe, silent, poses>>

\* main: the copy is taken under the lock.
Copy ==
    /\ loopOn /\ At("get", "return") /\ copied' = com.pose
    /\ UNCHANGED <<waits, last, sent, loopOn, slaveVars, com, pipe, silent, poses>>

(* blobSort: bubbles, by y and then by x, the largest first. *)

Less(a, b) == a[2] < b[2] \/ (a[2] = b[2] /\ a[1] < b[1])

\* Two neighbours compared, and swapped.
Bubble(s, i) ==
    IF i < Len(s) /\ Less(s[i], s[i + 1]) THEN [s EXCEPT ![i] = s[i + 1], ![i + 1] = s[i]] ELSE s

Pass(blobs) ==
    LET upTo[i \in 0 .. Len(blobs)] == IF i = 0 THEN blobs ELSE Bubble(upTo[i - 1], i)
    IN  upTo[Len(blobs)]

\* Mutant: one pass is taken for enough.
BlobSortOnce(blobs) == Pass(blobs)

\* Passes, until one changes nothing, which none changes after as many as there are points.
BlobSort(blobs) ==
    LET after[k \in 0 .. Len(blobs)] == IF k = 0 THEN blobs ELSE Pass(after[k - 1])
    IN  after[Len(blobs)]

\* As many points as there is room for, sorted.
ForSending(blobs) == BlobSort(SubSeq(blobs, 1, IF Len(blobs) < Room THEN Len(blobs) ELSE Room))

\* ltr_int_extrapolate_pose gives the angles and the position, and leaves the counter
\* of the caller's pose as it is.
Extrapolated(counter, full) == counter

\* Mutant: the bytes that came meanwhile are taken as well.
ReturnDraining ==
    /\ At("return", "wait") /\ last' = Extrapolated(last, copied) /\ pipe' = 0
    /\ sent' = IF last' # last THEN Append(sent, [copied EXCEPT !.blobs = ForSending(@)]) ELSE sent
    /\ UNCHANGED <<waits, copied, loopOn, slaveVars, com, silent, poses>>

\* A pose that is new by its counter is sorted and sent.
Return ==
    /\ At("return", "wait") /\ last' = Extrapolated(last, copied)
    /\ sent' = IF last' # last THEN Append(sent, [copied EXCEPT !.blobs = ForSending(@)]) ELSE sent
    /\ UNCHANGED <<waits, copied, loopOn, slaveVars, com, pipe, silent, poses>>

\* ltr_wait: bytes are there, or nobody is left to write any, or the time is over.
Wake ==
    /\ At("wait", IF pipe > 0 /\ slave = "runs" THEN "drain" ELSE "get")
    /\ UNCHANGED <<waits, last, sent, copied, loopOn, slaveVars, com, pipe, silent, poses>>

Drain ==
    /\ At("drain", "get") /\ pipe' = 0
    /\ UNCHANGED <<waits, last, sent, copied, loopOn, slaveVars, com, silent, poses>>

Leave ==
    /\ ~loopOn /\ At("get", "ended")
    /\ UNCHANGED <<waits, last, sent, copied, loopOn, slaveVars, com, pipe, silent, poses>>

\* cmdThread: the last choice; the others are calls of ltlib.c (module Slave).
Quit ==
    /\ pc # "state" /\ loopOn /\ loopOn' = FALSE
    /\ UNCHANGED <<client, slaveVars, com, pipe, silent, poses>>

-----------------------------------------------------------------------
(* The slave. *)

\* ltr_int_slave_main_loop, every 100 ms
TakeNotify ==
    /\ slave = "runs" /\ com.notify /\ notify' = TRUE
    /\ UNCHANGED <<client, loopOn, slave, reader, message, com, pipe, silent, poses>>

\* A message of the master; a camera that is paused sends no points.
Receive ==
    /\ slave = "runs" /\ reader = "poll" /\ poses < MaxPoses /\ poses' = poses + 1
    /\ reader' = "store" /\ \E b \in Pictures : message' = [counter |-> poses', blobs |-> b]
    /\ UNCHANGED <<client, loopOn, slave, notify, com, pipe, silent>>

Store ==
    /\ slave = "runs" /\ reader = "store" /\ reader' = "token"
    /\ com' = [com EXCEPT !.pose = message, !.state = "RUNNING"] /\ silent' = FALSE
    /\ UNCHANGED <<client, loopOn, slave, notify, message, pipe, poses>>

\* The byte; a full pipe has enough of them.
Token ==
    /\ slave = "runs" /\ reader = "token" /\ reader' = "poll"
    /\ IF notify THEN pipe' = (IF pipe < PipeSize THEN pipe + 1 ELSE pipe) /\ UNCHANGED silent
                 ELSE silent' = TRUE /\ UNCHANGED pipe
    /\ UNCHANGED <<client, loopOn, slave, notify, message, com, poses>>

\* The slave ends, or is killed.
SlaveEnds ==
    /\ slave = "runs" /\ slave' = "gone"
    /\ UNCHANGED <<client, loopOn, notify, reader, message, com, pipe, silent, poses>>

Next == StateGood \/ StateBad \/ Copy \/ Return \/ Wake \/ Drain \/ Leave \/ Quit
        \/ TakeNotify \/ Receive \/ Store \/ Token \/ SlaveEnds

Spec == Init /\ [][Next]_vars

-----------------------------------------------------------------------
(* Properties *)

TypeOK ==
    /\ pc \in {"state", "get", "return", "wait", "drain", "ended"} /\ pipe \in 0 .. PipeSize
    /\ last \in 0 .. poses /\ reader \in {"poll", "store", "token"}

\* A client does not go to sleep over a pose it was to be told of and did not copy:
\* there is a byte in the pipe, or the slave is about to write it
\* (ltr_srv_slave.c:154-170, ltlib.c:197-202, 445-456).
NoSleepOnNews ==
    pc = "wait" /\ slave = "runs" /\ ~silent /\ com.pose.counter # copied.counter =>
        pipe > 0 \/ reader = "token"

\* The passes of the server's sort leave the points of any pose it copies sorted, all
\* of them or as many as there is room for (osc_server.c:19-68).
PointsSorted ==
    LET points == ForSending(copied.blobs) IN
    \A j \in 2 .. Len(points) : ~Less(points[j - 1], points[j])

(* What the code does not keep. *)

\* A pose that was copied is told as new and sent ("new data", ltlib.c:216-217;
\* osc_server.c:210-213): the counter that is to tell never changes, and nothing is
\* ever sent.
LatestSent == pc = "wait" /\ copied.counter # 0 => sent # <<>> /\ sent[Len(sent)].counter = copied.counter

\* A server without a slave does not go round its loop without pause.
SleepsAlone == [][pc = "wait" /\ pc' = "get" => slave = "runs"]_vars
=======================================================================
