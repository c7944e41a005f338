---------------------------- MODULE Device ----------------------------
(***************************************************************************)
(* What the camera abstraction layer (src/src/cal.h) promises about a      *)
(* tracking device: the life cycle its published state goes through, and   *)
(* how that state and the hardware go together.  RunLoop implements it.    *)
(***************************************************************************)
VARIABLES state,   \* the published linuxtrack_state_type
          hw       \* what the driver's hardware is doing

States == {"STOPPED", "INITIALIZING", "RUNNING", "PAUSED",
           "err_NOT_INITIALIZED", "err_PROCESSING_FRAME"}
HwStates == {"closed", "capturing", "suspended"}

Init == state = "STOPPED" /\ hw = "closed"

\* A session begins, whatever the previous one ended with.
Start ==
    /\ hw = "closed"
    /\ state \in {"STOPPED", "INITIALIZING", "err_NOT_INITIALIZED"}
    /\ state' = "INITIALIZING"
    /\ UNCHANGED hw

\* The device opens while INITIALIZING is published, or fails to.
Open == state = "INITIALIZING" /\ hw = "closed" /\ hw' = "capturing" /\ UNCHANGED state
FailToOpen ==
    /\ state = "INITIALIZING" /\ hw = "closed"
    /\ state' = "err_NOT_INITIALIZED"
    /\ UNCHANGED hw
Run == state = "INITIALIZING" /\ hw = "capturing" /\ state' = "RUNNING" /\ UNCHANGED hw

\* Suspending publishes first and stops the camera second; waking does the reverse.
Suspend == state = "RUNNING" /\ hw = "capturing" /\ state' = "PAUSED" /\ UNCHANGED hw
Darken  == state = "PAUSED" /\ hw = "capturing" /\ hw' = "suspended" /\ UNCHANGED state
Light   == state = "PAUSED" /\ hw = "suspended" /\ hw' = "capturing" /\ UNCHANGED state
Wake    == state = "PAUSED" /\ hw = "capturing" /\ state' = "RUNNING" /\ UNCHANGED hw

Fail == state = "RUNNING" /\ hw = "capturing" /\ state' = "err_PROCESSING_FRAME" /\ UNCHANGED hw

\* The hardware is closed only from its capturing mode, never while suspended.
Close ==
    /\ state \in {"RUNNING", "PAUSED", "err_PROCESSING_FRAME"}
    /\ hw = "capturing" /\ hw' = "closed"
    /\ UNCHANGED state
Stop ==
    /\ state \in {"RUNNING", "PAUSED", "err_PROCESSING_FRAME"}
    /\ hw = "closed"
    /\ state' = "STOPPED"
    /\ UNCHANGED hw

Next == \/ Start \/ Open \/ FailToOpen \/ Run \/ Suspend \/ Darken
        \/ Light \/ Wake \/ Fail \/ Close \/ Stop

Spec == Init /\ [][Next]_<<state, hw>>
=======================================================================
