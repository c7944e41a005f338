------------------------------- MODULE Pipe -------------------------------
(***************************************************************************)
(* ltr_pipe: poses from the library to a file, a socket or an input device *)
(* (ltr_pipe.c).  One loop, and signal handlers that run between any two   *)
(* of its steps: SIGUSR1 suspends and wakes up, SIGHUP recenters, SIGTERM  *)
(* and SIGINT end.  The reader of the output comes and goes.               *)
(***************************************************************************)
EXTENDS Integers, Sequences, SequencesExt

CONSTANTS Outputs,      \* kinds of output looked at: "fifo", "tcp", "udp", "uinput"
          Formats,      \* formats looked at
          Addresses,    \* addresses of the host, in the order of getaddrinfo
          Timeout,      \* --ltr-timeout
          MaxPoses, MaxSignals, MaxPeers   \* bounds: poses, signals, comings and goings

VARIABLES
    output, format,           \* Args
    pc, waits,                \* of the program, and of setup_ltr
    runState, recenter, terminate,
    tracker, recentered,      \* what the library was told: last command, calls of recenter
    pose, seen,               \* counter of the newest pose, and d.c
    fd,                       \* Output_FD: address it is connected to, or what it is
    peer,                     \* address or "reader" -> "there", "full", "gone"
    out,                      \* what was written
    hup, signals, peers       \* SIGHUP still to be carried out, and bounds

args == <<output, format>>
flags == <<runState, recenter, terminate>>
library == <<tracker, recentered, pose>>
world == <<peer, hup, signals, peers>>
vars == <<args, pc, waits, flags, library, seen, fd, out, world>>

Unset == "unset"

\* parse_opts, check_opts and setup_signals are done, setup_ltr begins.
Init ==
    /\ output \in Outputs /\ format \in (IF output = "uinput" THEN Formats ELSE {"default"})
    /\ pc = "setup" /\ waits = 0
    /\ runState = "RUNNING" /\ recenter = FALSE /\ terminate = FALSE
    /\ tracker = "init" /\ recentered = 0 /\ pose = 0 /\ seen = 0
    /\ fd = Unset /\ out = <<>>
    /\ peer \in [ToSet(Addresses) \cup {"reader"} -> {"there", "gone"}]
    /\ hup = FALSE /\ signals = 0 /\ peers = 0

Goto(from, to) == pc = from /\ pc' = to

-----------------------------------------------------------------------
(* setup_ltr: one look at the state every second. *)

Ready ==
    /\ tracker = "run" /\ Goto("setup", "top")
    /\ UNCHANGED <<args, waits, flags, library, seen, fd, out, world>>

Wait ==
    /\ tracker # "run" /\ waits' = waits + 1 /\ Goto("setup", IF waits' = Timeout THEN "exit" ELSE "setup")
    /\ UNCHANGED <<args, flags, library, seen, fd, out, world>>

-----------------------------------------------------------------------
(* run_loop *)

Leave ==
    /\ terminate /\ Goto("top", "exit")
    /\ UNCHANGED <<args, waits, flags, library, seen, fd, out, world>>

\* suspended(): the state is read once, the library is called, and then the next
\* state is stored.
Running ==
    /\ ~terminate /\ runState = "RUNNING" /\ Goto("top", "recenter")
    /\ UNCHANGED <<args, waits, flags, library, seen, fd, out, world>>

Suspend ==
    /\ ~terminate /\ runState = "SUSPEND" /\ Goto("top", "suspended")
    /\ tracker' = "suspended"
    /\ UNCHANGED <<args, waits, flags, recentered, pose, seen, fd, out, world>>

\* Mutant: what was requested while it went to sleep is forgotten.
StoppedClearing ==
    /\ runState' = "STOPPED" /\ recenter' = FALSE /\ Goto("suspended", "top")
    /\ UNCHANGED <<args, waits, terminate, library, seen, fd, out, world>>

Stopped ==
    /\ runState' = "STOPPED" /\ Goto("suspended", "top")
    /\ UNCHANGED <<args, waits, recenter, terminate, library, seen, fd, out, world>>

Wakeup ==
    /\ ~terminate /\ runState = "WAKEUP" /\ Goto("top", "woken")
    /\ tracker' = "run"
    /\ UNCHANGED <<args, waits, flags, recentered, pose, seen, fd, out, world>>

Woken ==
    /\ runState' = "RUNNING" /\ Goto("woken", "recenter")
    /\ UNCHANGED <<args, waits, recenter, terminate, library, seen, fd, out, world>>

NoRecenter ==
    /\ ~recenter /\ Goto("recenter", "output")
    /\ UNCHANGED <<args, waits, flags, library, seen, fd, out, world>>

\* recenter(): the flag is lowered and then the library asked.
Recenter ==
    /\ recenter /\ recenter' = FALSE /\ Goto("recenter", "recentering")
    /\ UNCHANGED <<args, waits, runState, terminate, library, seen, fd, out, world>>

Recentered ==
    /\ recentered' = recentered + 1 /\ hup' = FALSE /\ Goto("recentering", "output")
    /\ UNCHANGED <<args, waits, flags, tracker, pose, seen, fd, out, peer, signals, peers>>

\* ofd_sock_connect reports a refused connection as a success with no file, and
\* ofd_setup_sock goes no further.
Connected == IF peer[Addresses[1]] = "gone" THEN Unset ELSE Addresses[1]

\* What setup_ofd leaves in Output_FD.
Opened ==
    CASE output = "tcp" -> Connected
      [] output = "fifo" -> IF peer["reader"] = "gone" THEN Unset ELSE "reader"
      [] output \in {"udp", "uinput"} -> "reader"

\* Mutant: the loop goes on whether there is an output or not.
SetupOutputUnchecked ==
    /\ fd = Unset /\ fd' = Opened /\ Goto("output", "pose")
    /\ UNCHANGED <<args, waits, flags, library, seen, out, world>>

\* ofd_unset and setup_ofd
SetupOutput ==
    /\ fd = Unset
    /\ fd' = Opened
    /\ Goto("output", IF fd' = Unset THEN "top" ELSE "pose")
    /\ UNCHANGED <<args, waits, flags, library, seen, out, world>>

OutputSet ==
    /\ fd # Unset /\ Goto("output", "pose")
    /\ UNCHANGED <<args, waits, flags, library, seen, fd, out, world>>

\* linuxtrack_get_pose: only a pose with another counter is written.
GetPose ==
    /\ seen' = pose /\ Goto("pose", IF pose = seen THEN "top" ELSE IF output = "uinput" THEN "write" ELSE "select")
    /\ UNCHANGED <<args, waits, flags, library, fd, out, world>>

\* The file is ready, or the time is over and the pose is dropped.
Select ==
    /\ Goto("select", IF peer[fd] = "full" THEN "top" ELSE "write")
    /\ UNCHANGED <<args, waits, flags, library, seen, fd, out, world>>

\* What each format puts in a record, with its sign.
Layout ==
    [default |-> <<"h", "p", "r", "x", "y", "z", "c">>, flightgear |-> <<"h", "p", "-r", "x", "y", "z">>,
     il2 |-> <<"h", "-p", "r">>, il2_6dof |-> <<"h", "-p", "r", "-z", "-x", "y">>,
     headtrack |-> <<"1", "h", "r", "p", "x", "y", "z">>, silentwings |-> <<"-h", "p">>, mouse |-> <<"-h", "p">>,
     uinput_rel |-> <<"-h", "p", "-r">>, uinput_abs |-> <<"-h", "p", "-r", "x", "y", "z">>]

\* The axes the input device is created with (ofd_setup_file).
Enabled(f) == IF f = "uinput_rel" THEN {"-h", "p"} ELSE ToSet(Layout[f])

Record == [pose |-> seen, fields |-> SelectSeq(Layout[format], LAMBDA a : a \in Enabled(format)), to |-> fd]

\* write_data and xwrite: to a reader that is gone nothing is written, and only a
\* TCP connection is closed for it.
Write ==
    /\ Goto("write", "top")
    /\ IF peer[fd] = "gone" THEN fd' = (IF output = "tcp" THEN Unset ELSE fd) /\ UNCHANGED out
                            ELSE out' = Append(out, Record) /\ UNCHANGED fd
    /\ UNCHANGED <<args, waits, flags, library, seen, world>>

\* at_exit
Exit ==
    /\ Goto("exit", "ended") /\ fd' = Unset /\ tracker' = "shutdown"
    /\ UNCHANGED <<args, waits, flags, recentered, pose, seen, out, world>>

-----------------------------------------------------------------------
(* Signals: a handler runs between two steps.  A select it interrupts loses the *)
(* pose that was to be written.                                                 *)

Interrupted == pc' = IF pc = "select" THEN "top" ELSE pc

Signal == pc # "ended" /\ signals < MaxSignals /\ signals' = signals + 1 /\ Interrupted

\* Mutant: the handler toggles between two states.
SigUsr1Toggle ==
    /\ Signal
    /\ runState' = IF runState = "RUNNING" THEN "SUSPEND" ELSE "RUNNING"
    /\ UNCHANGED <<args, waits, recenter, terminate, library, seen, fd, out, peer, hup, peers>>

\* Between a request and its being carried out the signal is ignored.
SigUsr1 ==
    /\ Signal
    /\ runState' = CASE runState = "RUNNING" -> "SUSPEND" [] runState = "STOPPED" -> "WAKEUP" [] OTHER -> runState
    /\ UNCHANGED <<args, waits, recenter, terminate, library, seen, fd, out, peer, hup, peers>>

SigHup ==
    /\ Signal /\ recenter' = TRUE /\ hup' = TRUE
    /\ UNCHANGED <<args, waits, runState, terminate, library, seen, fd, out, peer, peers>>

SigTerm ==
    /\ Signal /\ terminate' = TRUE
    /\ UNCHANGED <<args, waits, runState, recenter, library, seen, fd, out, peer, hup, peers>>

(* The library and the readers. *)

Start ==
    /\ tracker = "init" /\ pc # "ended" /\ tracker' = "run"
    /\ UNCHANGED <<args, pc, waits, flags, recentered, pose, seen, fd, out, world>>

Pose ==
    /\ tracker = "run" /\ pose < MaxPoses /\ pose' = pose + 1
    /\ UNCHANGED <<args, pc, waits, flags, tracker, recentered, seen, fd, out, world>>

Peer ==
    /\ output # "uinput" /\ peers < MaxPeers /\ peers' = peers + 1
    /\ \E p \in DOMAIN peer, s \in {"there", "full", "gone"} : peer' = [peer EXCEPT ![p] = s]
    /\ UNCHANGED <<args, pc, waits, flags, library, seen, fd, out, hup, signals>>

Step == Ready \/ Wait \/ Leave \/ Running \/ Suspend \/ Stopped \/ Wakeup \/ Woken \/ NoRecenter \/ Recenter
        \/ Recentered \/ SetupOutput \/ OutputSet \/ GetPose \/ Select \/ Write \/ Exit

Next == Step \/ SigUsr1 \/ SigHup \/ SigTerm \/ Start \/ Pose \/ Peer

Spec == Init /\ [][Next]_vars
FairSpec == Spec /\ WF_vars(Step)

-----------------------------------------------------------------------
(* Properties *)

TypeOK ==
    /\ runState \in {"RUNNING", "SUSPEND", "STOPPED", "WAKEUP"}
    /\ fd \in ToSet(Addresses) \cup {"reader", Unset} /\ seen \in 0 .. pose /\ pose \in 0 .. MaxPoses
    /\ pc \in {"pose", "select", "write"} => fd # Unset

\* However signals fall between its steps, the program that says it runs or is
\* stopped has told the library so last (ltr_pipe.c:480-494, 1117-1151).
StateTold ==
    pc \notin {"setup", "exit", "ended"} =>
        /\ runState = "STOPPED" => tracker = "suspended"
        /\ runState = "RUNNING" => tracker = "run"

\* No request to recenter is lost: after the last one the library is asked, or the
\* flag is still up (ltr_pipe.c:1183-1188).
HupKept == hup => recenter \/ pc = "recentering"

\* A signal to end ends the program, whatever its readers do.
Begun == terminate
Over == pc = "ended"
TermEnds == Begun ~> Over

(* What the code does not keep. *)

\* A host that answers at one of its addresses is connected to.
AnyAddress ==
    [][fd = Unset /\ pc = "output" /\ pc' = "top" /\ output = "tcp"
          => \A a \in ToSet(Addresses) : peer[a] = "gone"]_vars

\* All axes of a record are axes of the device.
AllAxes == \A i \in DOMAIN out : out[i].fields = Layout[format]
=======================================================================
