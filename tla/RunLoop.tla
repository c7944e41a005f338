--------------------------- MODULE RunLoop ----------------------------
(***************************************************************************)
(* The tracking device of the master process: the camera abstraction layer *)
(* (cal.c), the run loop every driver is linked with (runloop.c) and the   *)
(* thread that ltlib_int.c runs them in.                                   *)
(*                                                                         *)
(* The device thread polls a one-slot request word; controlling threads    *)
(* (the master's main loop, and the GUI thread when the master lives in    *)
(* the GUI) store into that word WITHOUT state_mx and only then take       *)
(* state_mx to raise change_flag.  Every load and store of the word is a   *)
(* step of its own.                                                        *)
(***************************************************************************)
CONSTANTS Controllers,  \* threads that call ltr_int_cal_suspend and _wakeup
          Main          \* the one that also starts and shuts the device down

ASSUME MainAssumption == Main \in Controllers

VARIABLES
    request,      \* enum ltr_request_t request
    newRequest,   \* new_request_received
    state,        \* ltr_int_cal_device_state
    iface,        \* the driver library is loaded, iface.* are not NULL
    changeFlag,   \* change_flag of the driver's run loop
    mx,           \* state_mx is "free" or held by "cal"; controllers hold it for one step
    hw,           \* what the driver's hardware is doing
    calPc,        \* where the device thread is
    myReq,        \* its my_request
    ctlPc,        \* where each controlling thread is
    ctlReq,       \* the request it is making
    alive         \* FALSE once a call went through a NULL iface pointer

calVars == <<calPc, myReq>>
ctlVars == <<ctlPc, ctlReq>>
vars == <<request, newRequest, state, iface, changeFlag, mx, hw,
          calPc, myReq, ctlPc, ctlReq, alive>>

Requests == {"RUN", "PAUSE", "SHUTDOWN", "CONTINUE"}
CalPcs == {"none", "start", "load", "check", "store", "flag", "init", "begin",
           "top", "takeR", "clearR", "act", "pausing", "asleep", "test",
           "takeP", "clearP", "wake", "resumed", "closing", "stopped",
           "unload", "ended"}
CtlPcs == {"idle", "store", "flag", "check", "signal", "join"}

Init ==
    /\ request = "RUN" /\ newRequest = FALSE /\ state = "STOPPED"
    /\ iface = FALSE /\ changeFlag = FALSE /\ mx = "free" /\ hw = "closed"
    /\ calPc = "none" /\ myReq = "CONTINUE"
    /\ ctlPc = [c \in Controllers |-> "idle"]
    /\ ctlReq = [c \in Controllers |-> "CONTINUE"]
    /\ alive = TRUE

CalAt(p, q) == alive /\ calPc = p /\ calPc' = q

-----------------------------------------------------------------------
(* The device thread up to the loop: cal_thread_fun, ltr_int_cal_run and   *)
(* the prologue of ltr_int_rl_run.                                         *)

GetDevice ==
    /\ \/ CalAt("start", "load") /\ state' = "INITIALIZING"
       \/ CalAt("start", "ended") /\ UNCHANGED state   \* no device configured
    /\ UNCHANGED <<request, newRequest, iface, changeFlag, mx, hw, myReq, ctlVars, alive>>

\* The run loop's statics start afresh if the last dlclose really unloaded them.
LoadLibrary ==
    /\ \/ /\ CalAt("load", "check")
          /\ iface' = TRUE
          /\ changeFlag' = FALSE \/ UNCHANGED changeFlag
       \/ CalAt("load", "ended") /\ UNCHANGED <<iface, changeFlag>>
    /\ UNCHANGED <<request, newRequest, state, mx, hw, myReq, ctlVars, alive>>

CheckPaused ==
    /\ CalAt("check", IF request # "PAUSE" THEN "store" ELSE "init")
    /\ UNCHANGED <<request, newRequest, state, iface, changeFlag, mx, hw, myReq, ctlVars, alive>>

StoreRun ==
    /\ \/ CalAt("store", "flag") /\ request' = "RUN" /\ UNCHANGED newRequest
       \/ CalAt("flag", "init") /\ newRequest' = TRUE /\ UNCHANGED request
    /\ UNCHANGED <<state, iface, changeFlag, mx, hw, myReq, ctlVars, alive>>

\* Mutant: the failure is published under a state the API does not know.
TrackerInitMisreported ==
    /\ state = "INITIALIZING"
    /\ \/ CalAt("init", "begin") /\ hw' = "capturing" /\ UNCHANGED state
       \/ CalAt("init", "unload") /\ state' = "DOWN" /\ UNCHANGED hw
    /\ UNCHANGED <<request, newRequest, iface, changeFlag, mx, myReq, ctlVars, alive>>

TrackerInit ==
    /\ state = "INITIALIZING"
    /\ \/ CalAt("init", "begin") /\ hw' = "capturing" /\ UNCHANGED state
       \/ CalAt("init", "unload") /\ state' = "err_NOT_INITIALIZED" /\ UNCHANGED hw
    /\ UNCHANGED <<request, newRequest, iface, changeFlag, mx, myReq, ctlVars, alive>>

Begin ==
    /\ CalAt("begin", "top")
    /\ state' = "RUNNING"
    /\ UNCHANGED <<request, newRequest, iface, changeFlag, mx, hw, myReq, ctlVars, alive>>

-----------------------------------------------------------------------
(* ltr_int_get_state_request, called with state_mx held by this thread.    *)

TakeRequest(from, to) ==
    /\ CalAt(from, to)
    /\ myReq' = request
    /\ UNCHANGED <<request, newRequest>>

ClearRequest(from, to) ==
    /\ CalAt(from, to)
    /\ request' = "CONTINUE"
    /\ UNCHANGED <<newRequest, myReq>>

(* case RUNNING *)
LockRunning ==
    /\ mx = "free" /\ mx' = "cal"
    /\ TakeRequest("top", "takeR")
    /\ UNCHANGED <<state, iface, changeFlag, hw, ctlVars, alive>>

ClearRunning ==
    /\ ClearRequest("takeR", "clearR")
    /\ UNCHANGED <<state, iface, changeFlag, mx, hw, ctlVars, alive>>

UnlockRunning ==
    /\ CalAt("clearR", "act")
    /\ newRequest' = FALSE /\ mx' = "free"
    /\ UNCHANGED <<request, state, iface, changeFlag, hw, myReq, ctlVars, alive>>

ActPause ==
    /\ myReq = "PAUSE"
    /\ \/ CalAt("act", "pausing") /\ state' = "PAUSED" /\ UNCHANGED hw
       \/ CalAt("pausing", "test") /\ hw' = "suspended" /\ UNCHANGED state
    /\ UNCHANGED <<request, newRequest, iface, changeFlag, mx, myReq, ctlVars, alive>>

ActShutdown ==
    /\ myReq = "SHUTDOWN"
    /\ CalAt("act", "closing")
    /\ UNCHANGED <<request, newRequest, state, iface, changeFlag, mx, hw, myReq, ctlVars, alive>>

\* ltr_int_tracker_get_frame and, when it acquired one, the frame callback.
GetFrame ==
    /\ myReq \notin {"PAUSE", "SHUTDOWN"}
    /\ \/ CalAt("act", "top") /\ UNCHANGED state
       \/ CalAt("act", "closing") /\ state' = "err_PROCESSING_FRAME"
    /\ UNCHANGED <<request, newRequest, iface, changeFlag, mx, hw, myReq, ctlVars, alive>>

(* case PAUSED *)
TestChange ==
    /\ mx = "free"
    /\ IF changeFlag
         THEN mx' = "cal" /\ TakeRequest("test", "takeP")
         ELSE CalAt("test", "asleep") /\ UNCHANGED <<mx, request, newRequest, myReq>>
    /\ UNCHANGED <<state, iface, changeFlag, hw, ctlVars, alive>>

\* pthread_cond_wait may return without a broadcast.
SpuriousWakeup ==
    /\ CalAt("asleep", "test")
    /\ UNCHANGED <<request, newRequest, state, iface, changeFlag, mx, hw, myReq, ctlVars, alive>>

ClearPaused ==
    /\ ClearRequest("takeP", "clearP")
    /\ UNCHANGED <<state, iface, changeFlag, mx, hw, ctlVars, alive>>

UnlockPaused ==
    /\ CalAt("clearP", "wake")
    /\ newRequest' = FALSE /\ changeFlag' = FALSE /\ mx' = "free"
    /\ UNCHANGED <<request, state, iface, hw, myReq, ctlVars, alive>>

\* Mutant: RUNNING is published before the camera is resumed.
WakeUpEarly ==
    /\ myReq = "RUN"
    /\ \/ CalAt("wake", "resumed") /\ state' = "RUNNING" /\ UNCHANGED hw
       \/ CalAt("resumed", "top") /\ hw' = "capturing" /\ UNCHANGED state
    /\ UNCHANGED <<request, newRequest, iface, changeFlag, mx, myReq, ctlVars, alive>>

WakeUp ==
    /\ myReq = "RUN"
    /\ \/ CalAt("wake", "resumed") /\ hw' = "capturing" /\ UNCHANGED state
       \/ CalAt("resumed", "top") /\ state' = "RUNNING" /\ UNCHANGED hw
    /\ UNCHANGED <<request, newRequest, iface, changeFlag, mx, myReq, ctlVars, alive>>

\* Mutant: the camera is shut down without being resumed.
ShutdownDark ==
    /\ myReq = "SHUTDOWN"
    /\ CalAt("wake", "closing")
    /\ UNCHANGED <<request, newRequest, state, iface, changeFlag, mx, hw, myReq, ctlVars, alive>>

WakeToShutdown ==
    /\ myReq = "SHUTDOWN"
    /\ CalAt("wake", "closing")
    /\ hw' = "capturing"
    /\ UNCHANGED <<request, newRequest, state, iface, changeFlag, mx, myReq, ctlVars, alive>>

StayPaused ==
    /\ myReq \notin {"RUN", "SHUTDOWN"}
    /\ CalAt("wake", "test")
    /\ UNCHANGED <<request, newRequest, state, iface, changeFlag, mx, hw, myReq, ctlVars, alive>>

(* after the loop *)
Close ==
    /\ \/ CalAt("closing", "stopped") /\ hw' = "closed" /\ UNCHANGED state
       \/ CalAt("stopped", "unload") /\ state' = "STOPPED" /\ UNCHANGED hw
    /\ UNCHANGED <<request, newRequest, iface, changeFlag, mx, myReq, ctlVars, alive>>

UnloadLibrary ==
    /\ CalAt("unload", "ended")
    /\ iface' = FALSE
    /\ UNCHANGED <<request, newRequest, state, changeFlag, mx, hw, myReq, ctlVars, alive>>

CalStep == \/ GetDevice \/ LoadLibrary \/ CheckPaused \/ StoreRun \/ TrackerInit \/ Begin
           \/ LockRunning \/ ClearRunning \/ UnlockRunning
           \/ ActPause \/ ActShutdown \/ GetFrame
           \/ TestChange \/ ClearPaused \/ UnlockPaused
           \/ WakeUp \/ WakeToShutdown \/ StayPaused \/ Close \/ UnloadLibrary

-----------------------------------------------------------------------
(* The controlling threads.                                                *)

CtlAt(c, p, q) == alive /\ ctlPc[c] = p /\ ctlPc' = [ctlPc EXCEPT ![c] = q]

\* ltr_int_init: preferences are read and the device thread is created.
StartDevice ==
    /\ alive /\ ctlPc[Main] = "idle"
    /\ calPc = "none" /\ calPc' = "start"
    /\ UNCHANGED <<request, newRequest, state, iface, changeFlag, mx, hw, myReq, ctlVars, alive>>

\* ltr_int_cal_suspend, _wakeup or _shutdown is entered.
Command(c, r) ==
    /\ CtlAt(c, "idle", "store")
    /\ r = "SHUTDOWN" => c = Main /\ calPc # "none"
    /\ ctlReq' = [ctlReq EXCEPT ![c] = r]
    /\ UNCHANGED <<request, newRequest, state, iface, changeFlag, mx, hw, calVars, alive>>

\* ltr_int_change_state, two plain stores.
ChangeState(c) ==
    /\ \/ CtlAt(c, "store", "flag") /\ request' = ctlReq[c] /\ UNCHANGED newRequest
       \/ CtlAt(c, "flag", "check") /\ newRequest' = TRUE /\ UNCHANGED request
    /\ UNCHANGED <<state, iface, changeFlag, mx, hw, calVars, ctlReq, alive>>

\* Where ltr_int_shutdown goes on to pthread_join, the others return.
AfterCall(c) == IF ctlReq[c] = "SHUTDOWN" THEN "join" ELSE "idle"

CheckInterface(c) ==
    /\ CtlAt(c, "check", IF iface THEN "signal" ELSE AfterCall(c))
    /\ UNCHANGED <<request, newRequest, state, iface, changeFlag, mx, hw, calVars, ctlReq, alive>>

\* Mutant: the flag is raised but nobody is woken.
SignalWithoutBroadcast(c) ==
    /\ iface /\ mx = "free"
    /\ CtlAt(c, "signal", AfterCall(c))
    /\ changeFlag' = TRUE
    /\ UNCHANGED <<request, newRequest, state, iface, mx, hw, calVars, ctlReq, alive>>

\* The pointer is loaded a second time to make the call.
SignalRequest(c) ==
    /\ iface /\ mx = "free"
    /\ CtlAt(c, "signal", AfterCall(c))
    /\ changeFlag' = TRUE
    /\ calPc' = IF calPc = "asleep" THEN "test" ELSE calPc
    /\ UNCHANGED <<request, newRequest, state, iface, mx, hw, myReq, ctlReq, alive>>

CallNull(c) ==
    /\ alive /\ ctlPc[c] = "signal" /\ ~iface
    /\ alive' = FALSE
    /\ UNCHANGED <<request, newRequest, state, iface, changeFlag, mx, hw, calVars, ctlVars>>

Join ==
    /\ calPc = "ended" /\ calPc' = "none"
    /\ CtlAt(Main, "join", "idle")
    /\ UNCHANGED <<request, newRequest, state, iface, changeFlag, mx, hw, myReq, ctlReq, alive>>

CtlStep(c) == ChangeState(c) \/ CheckInterface(c) \/ SignalRequest(c) \/ CallNull(c)

Next == \/ CalStep \/ SpuriousWakeup \/ StartDevice \/ Join
        \/ \E c \in Controllers :
              \/ CtlStep(c)
              \/ \E r \in {"RUN", "PAUSE", "SHUTDOWN"} : Command(c, r)

\* Threads that can run do run.  A controller waiting for state_mx finds it free
\* again and again (the device thread is in the driver or asleep meanwhile) and
\* gets it in the end.
Fairness == /\ WF_vars(CalStep) /\ WF_vars(Join)
            /\ \A c \in Controllers : WF_vars(CtlStep(c)) /\ SF_vars(SignalRequest(c))

Spec == Init /\ [][Next]_vars
FairSpec == Spec /\ Fairness

-----------------------------------------------------------------------
(* Properties *)

\* Every variable keeps its type.
TypeOK ==
    /\ request \in Requests /\ newRequest \in BOOLEAN
    /\ state \in {"STOPPED", "INITIALIZING", "RUNNING", "PAUSED",
                  "err_NOT_INITIALIZED", "err_PROCESSING_FRAME"}
    /\ iface \in BOOLEAN /\ changeFlag \in BOOLEAN
    /\ mx \in {"free", "cal"}
    /\ hw \in {"closed", "capturing", "suspended"}
    /\ calPc \in CalPcs /\ myReq \in Requests
    /\ ctlPc \in [Controllers -> CtlPcs]
    /\ ctlReq \in [Controllers -> Requests]
    /\ alive \in BOOLEAN

\* The device thread never sleeps in pthread_cond_wait (runloop.c:80) on a
\* request that is already stored, unless the thread that stored it is still
\* on its way to the broadcast: the unlocked store in ltr_int_change_state
\* loses no wake-up.
NoSleepingRequest ==
    calPc = "asleep" /\ request # "CONTINUE" =>
        \E c \in Controllers : ctlPc[c] \in {"flag", "check", "signal"}

\* At every call into the driver the hardware is in the mode the call needs
\* and the published state agrees: frames are read from a capturing camera
\* (runloop.c:58), the loop sleeps with the camera suspended, the tracker is
\* closed once, capturing (runloop.c:107), and the library is unloaded with
\* the camera closed (cal.c:94).
TrackerProtocol ==
    /\ calPc \in {"top", "takeR", "clearR", "act"} => state = "RUNNING" /\ hw = "capturing"
    /\ calPc \in {"asleep", "test", "takeP", "clearP", "wake"} => state = "PAUSED" /\ hw = "suspended"
    /\ calPc = "closing" => hw = "capturing"
    /\ hw # "closed" => iface

\* The run loop shows its clients the life cycle of module Device and nothing else.
DeviceCycle == INSTANCE Device
DeviceSpec == DeviceCycle!Spec

\* A suspended device thread does not sleep through RUN or SHUTDOWN.
SleeperWakes == calPc = "asleep" /\ request \in {"RUN", "SHUTDOWN"} ~> calPc # "asleep"

-----------------------------------------------------------------------
(* What the documentation promises and the code does not keep: TLC refutes *)
(* each of the following; README.md tells how.                             *)

\* README.devel:48-49: a shutdown "will be carried out as soon as possible".
\* A shutdown requested while the tracker runs gets ltr_int_shutdown back from
\* pthread_join (ltlib_int.c:156).
RunningShutdownReturns ==
    alive /\ state = "RUNNING" /\ ctlPc[Main] = "store" /\ ctlReq[Main] = "SHUTDOWN"
        ~> ~alive \/ ctlPc[Main] = "idle"

\* The same for a shutdown that came before the library was loaded
\* (cal.c:101 returns -1, ltlib_int.c:156 joins all the same).
EarlyShutdownReturns ==
    alive /\ ~iface /\ ctlPc[Main] = "join" ~> ~alive \/ ctlPc[Main] = "idle"

\* cal.c:113-114: a suspend "without initializing first" is reported, not called
\* through a NULL pointer.
NoCallThroughNull == alive
=======================================================================
