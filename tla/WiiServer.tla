------------------------------ MODULE WiiServer ------------------------------
(***************************************************************************)
(* A Wiimote is held by a program with a window (wii_server), which the    *)
(* driver (macwii_driver.c) never starts: through a mapped file it asks    *)
(* for a state, a command, and for the lights that go with it, an          *)
(* indication.  The window polls both while a Wiimote is connected; a      *)
(* thread of its own opens it, waits, and closes it, and tells the window  *)
(* by queued signals.  How blobs and pictures go the other way is as in    *)
(* module Courier.                                                         *)
(***************************************************************************)
EXTENDS Integers, Sequences

CONSTANTS Indications,   \* what the preferences may say of the lights
          MaxConnects,   \* bound: threads started
          MaxRequests,   \* bound: requests of the run loop and sessions of the driver
          MaxServers     \* bound: times the window is opened

VARIABLES
    driver, dStep, asks,     \* the driver, where it is in a call, and the lights it asks for
    command, indication,     \* shared
    window, state, signals,  \* the window is open, the state it knows, and signals on their way
    timer, old, read,        \* its timer, old_cmd, and the indication it has just read
    pc, exit, idle,          \* the thread, exit_flag, isIdle
    wii, mode, leds,         \* gWiimote: none, open or closed; what it reports; its lights
    error, data,             \* the connection broke; lists of blobs told
    connects, requests, servers

comm == <<command, indication>>
device == <<driver, dStep, asks>>
gui == <<window, state, signals, timer, old, read>>
thread == <<pc, exit, idle>>
remote == <<wii, mode, leds, error>>
bounds == <<connects, requests, servers>>
vars == <<comm, device, gui, thread, remote, data, bounds>>

Dark == "dark"
Blinking == "blinking"

Init ==
    /\ driver = "closed" /\ dStep = "" /\ asks = Dark /\ command = "STOP" /\ indication = Dark
    /\ window = FALSE /\ state = "DISCONNECTED" /\ signals = <<>> /\ timer = FALSE /\ old = "STOP" /\ read = ""
    /\ pc = "none" /\ exit = FALSE /\ idle = TRUE
    /\ wii = "none" /\ mode = "STATUS" /\ leds = Dark /\ error = FALSE /\ data = FALSE
    /\ connects = 0 /\ requests = 0 /\ servers = 0

-----------------------------------------------------------------------
(* The driver: indication and command are two writes.  ltr_int_tracker_init *)
(* resets the flag of the picture first; the file is mapped anew each time. *)

Ask(from, to) ==
    /\ driver \in from /\ dStep = "" /\ requests < MaxRequests /\ requests' = requests + 1
    /\ driver' = to /\ dStep' = "command"
    /\ \E i \in Indications : asks' = <<to, i>> /\ indication' = i
    /\ UNCHANGED <<command, gui, thread, remote, data, connects, servers>>

DriverInit == Ask({"closed"}, "running")
DriverPause == Ask({"running"}, "paused")
DriverResume == Ask({"paused"}, "running")

SendCommand ==
    /\ dStep = "command" /\ dStep' = "" /\ command' = IF driver = "running" THEN "WAKEUP" ELSE "SLEEP"
    /\ UNCHANGED <<driver, asks, indication, gui, thread, remote, data, bounds>>

DriverClose ==
    /\ driver \in {"running", "paused"} /\ dStep = "" /\ driver' = "closed" /\ command' = "STOP" /\ asks' = Dark
    /\ UNCHANGED <<dStep, indication, gui, thread, remote, data, bounds>>

-----------------------------------------------------------------------
(* The window *)

OpenWindow ==
    /\ ~window /\ pc = "none" /\ servers < MaxServers /\ servers' = servers + 1
    /\ window' = TRUE /\ state' = "DISCONNECTED" /\ signals' = <<>> /\ timer' = FALSE /\ old' = "STOP" /\ read' = ""
    /\ idle' = TRUE /\ exit' = FALSE
    /\ UNCHANGED <<comm, device, pc, remote, data, connects, requests>>

\* ~WiiServerWindow stops the driver, too, as far as the command says.
\* ~Wiimote waits a second for the thread and then terminates it.
CloseWindow ==
    /\ window /\ window' = FALSE /\ timer' = FALSE /\ command' = "STOP" /\ read' = ""
    /\ pc' = "none" /\ wii' = "none" /\ mode' = "STATUS" /\ error' = FALSE
    /\ UNCHANGED <<device, indication, state, signals, old, exit, idle, leds, data, bounds>>

\* on_ConnectButton_pressed, Wiimote::connect and disconnect; signals that
\* wait are delivered before a button is looked at.
PressConnect ==
    /\ window /\ read = "" /\ signals = <<>> /\ state = "DISCONNECTED" /\ pc = "none" /\ connects < MaxConnects
    /\ connects' = connects + 1 /\ pc' = "started"
    /\ UNCHANGED <<comm, device, gui, exit, idle, remote, data, requests, servers>>

PressDisconnect ==
    /\ window /\ read = "" /\ signals = <<>> /\ state = "CONNECTED" /\ pc # "none" /\ exit' = TRUE
    /\ UNCHANGED <<comm, device, gui, pc, idle, remote, data, bounds>>

\* Mutant: old_cmd stays when the Wiimote is lost.
UpdateStateKeeping ==
    /\ window /\ read = "" /\ signals # <<>> /\ state' = Head(signals) /\ signals' = Tail(signals)
    /\ timer' = (state' # "DISCONNECTED" /\ (timer \/ state' = "CONNECTED")) /\ UNCHANGED old
    /\ UNCHANGED <<comm, device, window, read, thread, remote, data, bounds>>

\* changed_state and update_state
UpdateState ==
    /\ window /\ read = "" /\ signals # <<>> /\ state' = Head(signals) /\ signals' = Tail(signals)
    /\ IF state' = "DISCONNECTED" THEN timer' = FALSE /\ old' = "STOP"
                                  ELSE timer' = (timer \/ state' = "CONNECTED") /\ UNCHANGED old
    /\ UNCHANGED <<comm, device, window, read, thread, remote, data, bounds>>

\* handle_command reads the indication, then the command.
PollIndication ==
    /\ window /\ timer /\ read = "" /\ read' = indication
    /\ UNCHANGED <<comm, device, window, state, signals, timer, old, thread, remote, data, bounds>>

\* WiiThread::pause, wakeup and stop run in the thread of the window.
SetMode(m) == mode' = IF wii = "open" THEN m ELSE mode

PollCommand ==
    /\ window /\ read # "" /\ read' = "" /\ old' = command
    /\ IF command = old THEN UNCHANGED <<idle, mode, leds>>
       ELSE /\ SetMode(IF command = "WAKEUP" THEN "IR" ELSE "STATUS")
            /\ idle' = (command = "STOP")
            /\ leds' = IF wii = "open" /\ command # "STOP" THEN read ELSE leds
    /\ UNCHANGED <<comm, device, window, state, signals, timer, pc, exit, wii, error, data, bounds>>

-----------------------------------------------------------------------
(* WiiThread::run *)

Tell(s) == signals' = Append(signals, s) /\ UNCHANGED <<window, state, timer, old, read>>

Connecting ==
    /\ pc = "started" /\ pc' = "opening" /\ exit' = FALSE /\ idle' = TRUE /\ Tell("CONNECTING")
    /\ UNCHANGED <<comm, device, remote, data, bounds>>

\* cwiid_open, set_rpt_mode, and the callback
Open ==
    /\ pc = "opening" /\ pc' = "loop" /\ wii' = "open" /\ mode' = "STATUS" /\ error' = FALSE /\ Tell("CONNECTED")
    /\ UNCHANGED <<comm, device, exit, idle, leds, data, bounds>>

NotFound ==
    /\ pc = "opening" /\ pc' = "ended" /\ Tell("DISCONNECTED")
    /\ UNCHANGED <<comm, device, exit, idle, remote, data, bounds>>

\* idle: whether to blink is asked before, and the lights are set after.
Idle ==
    /\ pc = "loop" /\ ~exit /\ idle /\ pc' = "blink"
    /\ UNCHANGED <<comm, device, gui, exit, idle, remote, data, bounds>>

Blink ==
    /\ pc = "blink" /\ pc' = "loop" /\ leds' = Blinking
    /\ UNCHANGED <<comm, device, gui, exit, idle, wii, mode, error, data, bounds>>

\* cwiid_close, and the pointer is cleared after it.
Close ==
    /\ pc = "loop" /\ exit /\ pc' = "closed" /\ wii' = "closed"
    /\ UNCHANGED <<comm, device, gui, exit, idle, mode, leds, error, data, bounds>>

Clear ==
    /\ pc = "closed" /\ pc' = "ended" /\ wii' = "none" /\ Tell("DISCONNECTED")
    /\ UNCHANGED <<comm, device, exit, idle, mode, leds, error, data, bounds>>

\* The thread is running until it has returned.
Ended ==
    /\ pc = "ended" /\ pc' = "none"
    /\ UNCHANGED <<comm, device, gui, exit, idle, remote, data, bounds>>

-----------------------------------------------------------------------
(* wii_callback, in a thread of the library *)

IrData ==
    /\ wii = "open" /\ mode = "IR" /\ ~error /\ ~data /\ data' = TRUE
    /\ UNCHANGED <<comm, device, gui, thread, remote, bounds>>

\* ltr_int_tracker_get_frame of the driver
TakeData ==
    /\ driver = "running" /\ dStep = "" /\ data /\ data' = FALSE
    /\ UNCHANGED <<comm, device, gui, thread, remote, bounds>>

Breaks ==
    /\ wii = "open" /\ ~error /\ error' = TRUE /\ exit' = TRUE
    /\ UNCHANGED <<comm, device, gui, pc, idle, wii, mode, leds, data, bounds>>

-----------------------------------------------------------------------
DriverNext == DriverInit \/ DriverPause \/ DriverResume \/ SendCommand \/ DriverClose \/ TakeData
WindowNext == OpenWindow \/ CloseWindow \/ PressConnect \/ PressDisconnect \/ UpdateState \/ PollIndication \/ PollCommand
ThreadNext == Connecting \/ Open \/ NotFound \/ Idle \/ Blink \/ Close \/ Clear \/ Ended
Next == DriverNext \/ WindowNext \/ ThreadNext \/ IrData \/ Breaks
Spec == Init /\ [][Next]_vars

-----------------------------------------------------------------------
(* Properties *)

TypeOK ==
    /\ command \in {"STOP", "SLEEP", "WAKEUP"} /\ old \in {"STOP", "SLEEP", "WAKEUP"}
    /\ driver \in {"closed", "running", "paused"} /\ dStep \in {"", "command"}
    /\ state \in {"DISCONNECTED", "CONNECTING", "CONNECTED"} /\ wii \in {"none", "open", "closed"}
    /\ pc \in {"none", "started", "opening", "loop", "blink", "closed", "ended"}
    /\ mode \in {"STATUS", "IR"} /\ leds \in Indications \cup {Dark, Blinking}

\* While the window polls, the Wiimote it holds reports what the window last
\* understood, over losses and new connections (wii_server.cpp:70-121).
ModeIsOld == window /\ timer /\ pc \in {"loop", "blink"} => (mode = "IR") = (old = "WAKEUP")

\* Refuted: a driver that runs is not told to stop by anyone else.
CommandKept == driver = "running" /\ dStep = "" => command = "WAKEUP"
\* Refuted: a command that was understood shows its lights.
LightsOfCommand == old = "WAKEUP" /\ command = "WAKEUP" /\ driver = "running" /\ dStep = "" /\ read = ""
                   /\ wii = "open" /\ timer => leds = asks[2]
\* Refuted: the Wiimote is not used once it is closed.
NoUseAfterClose == wii = "closed" => ~(window /\ timer /\ read # "" /\ command # old)
=============================================================================
