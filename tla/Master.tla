---------------------------- MODULE Master ----------------------------
(***************************************************************************)
(* The master process while it serves: the poll loop of                    *)
(* ltr_srv_master.cpp, its registry of slaves, and the broadcasts by which *)
(* the device thread (and the loop itself, as a heartbeat) reach them.     *)
(*                                                                         *)
(* File descriptors are numbers that the kernel hands out again: the       *)
(* broadcast closes a slave's descriptor in the device thread while the    *)
(* main loop may still poll that number.  The device is the one of module  *)
(* Device; its run loop is in module RunLoop.                              *)
(***************************************************************************)
EXTENDS Naturals, Sequences, FiniteSets

CONSTANTS Clients,         \* connections, each made by one slave once
          Commands,        \* what a slave may ask for after CMD_NEW_SOCKET
          MaxCommands,     \* bound: commands on a connection
          MaxFd,           \* descriptors are 1 .. MaxFd
          HeartbeatAfter,  \* poll timeouts between heartbeats (5 in the code)
          Nobody           \* not a connection

AllCommands == {"PAUSE", "WAKEUP", "RECENTER", "FRAMES"}
ASSUME ConstantsAssumption ==
    /\ IsFiniteSet(Clients) /\ "listener" \notin Clients \cup {Nobody} /\ Nobody \notin Clients
    /\ Commands \subseteq AllCommands
    /\ MaxCommands \in Nat /\ HeartbeatAfter \in Nat /\ MaxFd \in Nat \ {0}

VARIABLES
    peer,      \* each slave's end: "away", "up" or "gone"
    backlog,   \* connections not accepted yet
    inbox,     \* messages not read yet
    asked,     \* messages each slave has sent
    file,      \* what each descriptor is: a connection, "listener" or Nobody
    descs,     \* the polled array: descriptor and revents
    slaves,    \* registered descriptors
    mainPc, idx, closeConn, heartbeat,   \* the main loop and its locals
    noSlaves,  \* no_slaves
    stop,      \* gui_shutdown_request, or a GUI has taken its lock
    status,    \* ltr_int_get_tracking_state()
    request,   \* the run loop's request
    devPc,     \* the device thread: "off", "idle", "tell" or "telling" (a broadcast), "ended"
    bc,        \* the broadcast that holds send_mx
    told       \* the slaves that have been sent the current status

clientVars == <<peer, backlog, asked>>
loopVars   == <<mainPc, idx, closeConn, heartbeat>>
devVars    == <<status, request, devPc>>
vars == <<peer, backlog, inbox, asked, file, descs, slaves, mainPc, idx, closeConn,
          heartbeat, noSlaves, stop, status, request, devPc, bc, told>>

Fds == 1 .. MaxFd
NoFd == 0
Listening == 1
Errors == {"err_NOT_INITIALIZED", "err_PROCESSING_FRAME"}
Quiet == [by |-> "nobody", todo |-> <<>>, what |-> "STOPPED", lost |-> FALSE]

Init ==
    /\ peer = [k \in Clients |-> "away"] /\ backlog = {}
    /\ inbox = [k \in Clients |-> <<>>] /\ asked = [k \in Clients |-> 0]
    /\ file = [fd \in Fds |-> IF fd = Listening THEN "listener" ELSE Nobody]
    /\ descs = <<[fd |-> Listening, rev |-> {}]>> /\ slaves = <<>>
    /\ mainPc = "test" /\ idx = 1 /\ closeConn = FALSE /\ heartbeat = 0
    /\ noSlaves = FALSE /\ stop = FALSE
    /\ status = "STOPPED" /\ request = "CONTINUE" /\ devPc = "off"
    /\ bc = Quiet /\ told = {}

-----------------------------------------------------------------------
(* The slaves, as the master sees them. *)

Connect(k) ==
    /\ peer[k] = "away" /\ peer' = [peer EXCEPT ![k] = "up"]
    /\ backlog' = backlog \cup {k}
    /\ UNCHANGED <<inbox, asked, file, descs, slaves, loopVars, noSlaves, stop, devVars, bc, told>>

\* CMD_NEW_SOCKET comes first.
Ask(k) ==
    /\ peer[k] = "up" /\ asked[k] <= MaxCommands
    /\ \E m \in IF asked[k] = 0 THEN {"NEW_SOCKET"} ELSE Commands :
          inbox' = [inbox EXCEPT ![k] = Append(@, m)]
    /\ asked' = [asked EXCEPT ![k] = @ + 1]
    /\ UNCHANGED <<peer, backlog, file, descs, slaves, loopVars, noSlaves, stop, devVars, bc, told>>

HangUp(k) ==
    /\ peer[k] = "up" /\ peer' = [peer EXCEPT ![k] = "gone"]
    /\ UNCHANGED <<backlog, inbox, asked, file, descs, slaves, loopVars, noSlaves, stop,
                   devVars, bc, told>>

AskToStop ==
    /\ ~stop /\ stop' = TRUE
    /\ UNCHANGED <<clientVars, inbox, file, descs, slaves, loopVars, noSlaves, devVars, bc, told>>

-----------------------------------------------------------------------
(* The main loop. *)

MainAt(p, q) == mainPc = p /\ mainPc' = q

TestLoop ==
    /\ IF stop \/ noSlaves \/ status \in Errors
         THEN MainAt("test", "left")
         ELSE MainAt("test", "poll")
    /\ UNCHANGED <<clientVars, inbox, file, descs, slaves, idx, closeConn, heartbeat, noSlaves,
                   stop, devVars, bc, told>>

\* What poll() reports of a descriptor; a negative one is ignored.
Gone(k) == peer[k] = "gone"
Events(fd) ==
    IF fd = NoFd THEN {}
    ELSE CASE file[fd] = Nobody     -> {"NVAL"}
           [] file[fd] = "listener" -> IF backlog # {} THEN {"IN"} ELSE {}
           [] file[fd] \in Clients  ->
                (IF inbox[file[fd]] # <<>> \/ Gone(file[fd]) THEN {"IN"} ELSE {})
                    \cup (IF Gone(file[fd]) THEN {"HUP"} ELSE {})

Polled == [i \in DOMAIN descs |-> [descs[i] EXCEPT !.rev = Events(descs[i].fd)]]
Ready == \E i \in DOMAIN descs : Polled[i].rev # {}

\* The loop has nothing to do at an entry without POLLIN (POLLHUP comes with it).
NextReady(ds, i) ==
    CHOOSE j \in i + 1 .. Len(ds) + 1 :
        /\ j = Len(ds) + 1 \/ "IN" \in ds[j].rev
        /\ \A between \in i + 1 .. j - 1 : "IN" \notin ds[between].rev

Poll ==
    /\ Ready /\ MainAt("poll", "scan")
    /\ descs' = Polled /\ idx' = NextReady(Polled, 0) /\ closeConn' = FALSE
    /\ UNCHANGED <<clientVars, inbox, file, slaves, heartbeat, noSlaves, stop, devVars, bc, told>>

\* Mutant: the timeouts are counted on, no heartbeat is sent.
PollTimeoutCounting ==
    /\ ~Ready /\ MainAt("poll", "test")
    /\ heartbeat' = IF status = "PAUSED" THEN heartbeat + 1 ELSE 0
    /\ UNCHANGED <<clientVars, inbox, file, descs, slaves, idx, closeConn, noSlaves, stop,
                   devVars, bc, told>>

\* poll() timed out.
PollTimeout ==
    /\ ~Ready
    /\ IF status = "PAUSED" /\ heartbeat = HeartbeatAfter
         THEN MainAt("poll", "beat") /\ UNCHANGED heartbeat
         ELSE /\ MainAt("poll", "test")
              /\ heartbeat' = IF status = "PAUSED" THEN heartbeat + 1 ELSE 0
    /\ UNCHANGED <<clientVars, inbox, file, descs, slaves, idx, closeConn, noSlaves, stop,
                   devVars, bc, told>>

Here == descs[idx]
Scanning == mainPc = "scan" /\ idx <= Len(descs)
NextDesc == idx' = NextReady(descs, idx) /\ closeConn' = (closeConn \/ "HUP" \in Here.rev)

\* The entry of the listening socket: connections are accepted until none is left.
Accept ==
    /\ Scanning /\ Here.fd = Listening
    /\ LET free == {fd \in Fds : file[fd] = Nobody}
       IN IF backlog = {} \/ free = {}
            THEN NextDesc /\ UNCHANGED <<backlog, file, descs>>
            ELSE \E k \in backlog, fd \in free :
                    /\ \A other \in free : fd <= other
                    /\ backlog' = backlog \ {k}
                    /\ file' = [file EXCEPT ![fd] = k]
                    /\ descs' = Append(descs, [fd |-> fd, rev |-> {}])
                    /\ UNCHANGED <<idx, closeConn>>
    /\ UNCHANGED <<peer, asked, inbox, slaves, mainPc, heartbeat, noSlaves, stop, devVars, bc, told>>

Reading == Scanning /\ Here.fd # Listening
Source == IF Here.fd = NoFd THEN Nobody ELSE file[Here.fd]

\* Commands that reach the run loop replace the request it has not taken yet.
Asking == [PAUSE |-> "PAUSE", WAKEUP |-> "RUN"]

\* A message is read from the descriptor and acted upon.
ReadMessage ==
    /\ Reading /\ Source # Nobody /\ inbox[Source] # <<>>
    /\ LET m == Head(inbox[Source])
       IN /\ inbox' = [inbox EXCEPT ![Source] = Tail(@)]
          /\ request' = IF m \in DOMAIN Asking THEN Asking[m] ELSE request
          /\ IF m = "NEW_SOCKET"
               THEN MainAt("scan", "register") /\ UNCHANGED <<idx, closeConn>>
               ELSE NextDesc /\ UNCHANGED mainPc
    /\ UNCHANGED <<clientVars, file, descs, slaves, heartbeat, noSlaves, stop, status, devPc, bc, told>>

\* End of file is ignored.
ReadNothing ==
    /\ Reading /\ Source # Nobody /\ inbox[Source] = <<>> /\ Gone(Source)
    /\ NextDesc
    /\ UNCHANGED <<clientVars, inbox, file, descs, slaves, mainPc, heartbeat, noSlaves, stop,
                   devVars, bc, told>>

\* An error (the descriptor was closed meanwhile, or the connection reset).
ReadError ==
    /\ Reading
    /\ \/ Source = Nobody
       \/ Source # Nobody /\ inbox[Source] = <<>> /\ Gone(Source)
    /\ descs' = [descs EXCEPT ![idx].fd = NoFd]
    /\ closeConn' = TRUE /\ idx' = NextReady(descs, idx)
    /\ UNCHANGED <<clientVars, inbox, file, slaves, mainPc, heartbeat, noSlaves, stop, devVars, bc, told>>

Register ==
    /\ bc.by = "nobody"
    /\ MainAt("register", "scan")
    /\ slaves' = Append(slaves, Here.fd)
    /\ NextDesc
    /\ UNCHANGED <<clientVars, inbox, file, descs, heartbeat, noSlaves, stop, devVars, bc, told>>

\* The last entry takes the place of entry i.
Shrink(ds, i) == [j \in 1 .. Len(ds) - 1 |-> IF j = i THEN ds[Len(ds)] ELSE ds[j]]

\* Mutant: the last entry is not moved to the place of the removed one.
RemoveHungDropping(ds) ==
    LET upTo[i \in 0 .. Len(ds)] ==
            IF i = 0 THEN ds
            ELSE LET s == upTo[i - 1]
                 IN IF i <= Len(s) /\ "HUP" \in s[i].rev THEN SubSeq(s, 1, Len(s) - 1) ELSE s
    IN upTo[Len(ds)]

\* remove_poll_desc: the entry moved to i is not looked at again.
RemoveHung(ds) ==
    LET upTo[i \in 0 .. Len(ds)] ==
            IF i = 0 THEN ds
            ELSE LET s == upTo[i - 1]
                 IN IF i <= Len(s) /\ "HUP" \in s[i].rev THEN Shrink(s, i) ELSE s
    IN upTo[Len(ds)]

\* Forgetting revents, idx and closeConn here is what the next round starts with.
EndScan ==
    /\ mainPc = "scan" /\ idx > Len(descs) /\ mainPc' = "test"
    /\ LET kept == IF closeConn THEN RemoveHung(descs) ELSE descs
       IN descs' = [i \in DOMAIN kept |-> [kept[i] EXCEPT !.rev = {}]]
    /\ idx' = 1 /\ closeConn' = FALSE
    /\ UNCHANGED <<clientVars, inbox, file, slaves, heartbeat, noSlaves, stop, devVars, bc, told>>

-----------------------------------------------------------------------
(* ltr_int_broadcast_pose, called by either thread. *)

Broadcast(by, what) ==
    /\ bc.by = "nobody"
    /\ bc' = [by |-> by, todo |-> slaves, what |-> what, lost |-> FALSE]

Beat ==
    /\ MainAt("beat", "beating") /\ heartbeat' = 0
    /\ Broadcast("main", "PAUSED")
    /\ UNCHANGED <<clientVars, inbox, file, descs, slaves, idx, closeConn, noSlaves, stop,
                   devVars, told>>

Told(k) == IF bc.what = status THEN told \cup {k} ELSE told \ {k}

\* The slaves before the iterator; it stands at the first of bc.todo, the end of the registry.
Visited == SubSeq(slaves, 1, Len(slaves) - Len(bc.todo))

\* Mutant: the iterator skips the slave that follows an erased one.
SendNextSkipping ==
    /\ bc.todo # <<>>
    /\ LET fd == Head(bc.todo)  k == file[fd]
       IN IF Gone(k)
            THEN /\ file' = [file EXCEPT ![fd] = Nobody]
                 /\ slaves' = Visited \o Tail(bc.todo)
                 /\ bc' = [bc EXCEPT !.todo = IF Len(@) > 1 THEN Tail(Tail(@)) ELSE <<>>,
                                     !.lost = TRUE]
                 /\ UNCHANGED told
            ELSE /\ told' = Told(k)
                 /\ bc' = [bc EXCEPT !.todo = Tail(@)]
                 /\ UNCHANGED <<file, slaves>>
    /\ UNCHANGED <<clientVars, inbox, descs, loopVars, noSlaves, stop, devVars>>

\* Mutant: the socket of a slave that left is closed, its entry is kept.
SendNextKeeping ==
    /\ bc.todo # <<>>
    /\ LET fd == Head(bc.todo)  k == file[fd]
       IN IF k = Nobody \/ Gone(k)
            THEN /\ file' = [file EXCEPT ![fd] = Nobody]
                 /\ bc' = [bc EXCEPT !.todo = Tail(@), !.lost = TRUE]
                 /\ UNCHANGED <<told, slaves>>
            ELSE /\ told' = Told(k)
                 /\ bc' = [bc EXCEPT !.todo = Tail(@)]
                 /\ UNCHANGED <<file, slaves>>
    /\ UNCHANGED <<clientVars, inbox, descs, loopVars, noSlaves, stop, devVars>>

\* One write; EPIPE closes the descriptor and erases the slave.
SendNext ==
    /\ bc.todo # <<>>
    /\ LET fd == Head(bc.todo)  k == file[fd]
       IN IF Gone(k)
            THEN /\ file' = [file EXCEPT ![fd] = Nobody]
                 /\ slaves' = Visited \o Tail(bc.todo)
                 /\ bc' = [bc EXCEPT !.todo = Tail(@), !.lost = TRUE]
                 /\ UNCHANGED told
            ELSE /\ told' = Told(k)
                 /\ bc' = [bc EXCEPT !.todo = Tail(@)]
                 /\ UNCHANGED <<file, slaves>>
    /\ UNCHANGED <<clientVars, inbox, descs, loopVars, noSlaves, stop, devVars>>

\* Mutant: no_slaves is never raised.
EndBroadcastForgetting ==
    /\ bc.by # "nobody" /\ bc.todo = <<>>
    /\ bc' = Quiet
    /\ mainPc' = IF bc.by = "main" THEN "test" ELSE mainPc
    /\ devPc'  = IF bc.by = "device" THEN "idle" ELSE devPc
    /\ UNCHANGED <<clientVars, inbox, file, descs, slaves, idx, closeConn, heartbeat, noSlaves,
                   stop, status, request, told>>

EndBroadcast ==
    /\ bc.by # "nobody" /\ bc.todo = <<>>
    /\ noSlaves' = (noSlaves \/ (bc.lost /\ slaves = <<>>))
    /\ bc' = Quiet
    /\ mainPc' = IF bc.by = "main" THEN "test" ELSE mainPc
    /\ devPc'  = IF bc.by = "device" THEN "idle" ELSE devPc
    /\ UNCHANGED <<clientVars, inbox, file, descs, slaves, idx, closeConn, heartbeat, stop,
                   status, request, told>>

-----------------------------------------------------------------------
(* The device thread: the life cycle of module Device, each change of which *)
(* and each frame is broadcast.                                             *)

Becomes(from, to) == devPc = "idle" /\ status = from /\ status' = to

\* No device is configured, or the callbacks are not registered yet when
\* INITIALIZING is published, or they are.
Initialize ==
    /\ devPc = "off" /\ devPc' \in {"ended", "idle", "tell"}
    /\ status' = IF devPc' = "ended" THEN status ELSE "INITIALIZING"
    /\ UNCHANGED request

\* The driver's library cannot be loaded.
LoadFails ==
    /\ devPc = "idle" /\ status = "INITIALIZING" /\ devPc' = "ended"
    /\ UNCHANGED <<status, request>>

ChangeStatus ==
    /\ \/ Becomes("INITIALIZING", "RUNNING") /\ UNCHANGED request
       \/ Becomes("INITIALIZING", "err_NOT_INITIALIZED") /\ UNCHANGED request
       \/ Becomes("RUNNING", "PAUSED") /\ request = "PAUSE" /\ request' = "CONTINUE"
       \/ Becomes("PAUSED", "RUNNING") /\ request = "RUN" /\ request' = "CONTINUE"
       \/ Becomes("RUNNING", "err_PROCESSING_FRAME") /\ UNCHANGED request
       \/ Becomes("err_PROCESSING_FRAME", "STOPPED") /\ UNCHANGED request
    /\ devPc' = "tell"

\* Requests that do not apply are taken too.
DropRequest ==
    /\ devPc = "idle"
    /\ \/ status = "RUNNING" /\ request = "RUN"
       \/ status = "PAUSED" /\ request = "PAUSE"
    /\ request' = "CONTINUE" /\ UNCHANGED <<status, devPc>>

NewFrame ==
    /\ devPc = "idle" /\ status = "RUNNING" /\ request = "CONTINUE"
    /\ devPc' = "tell" /\ UNCHANGED <<status, request>>

Device ==
    /\ (Initialize \/ LoadFails \/ ChangeStatus \/ DropRequest \/ NewFrame)
    /\ told' = IF status' = status THEN told ELSE {}
    /\ UNCHANGED <<clientVars, inbox, file, descs, slaves, loopVars, noSlaves, stop, bc>>

Tell ==
    /\ devPc = "tell" /\ devPc' = "telling"
    /\ Broadcast("device", status)
    /\ UNCHANGED <<clientVars, inbox, file, descs, slaves, loopVars, noSlaves, stop, status,
                   request, told>>

-----------------------------------------------------------------------
Main == TestLoop \/ Poll \/ PollTimeout \/ Accept \/ ReadMessage \/ ReadNothing
        \/ ReadError \/ Register \/ EndScan \/ Beat

\* What follows the loop (shutdown of the device, removal of the socket) is in
\* modules RunLoop and Election.
Next ==
    /\ mainPc # "left"
    /\ \/ \E k \in Clients : Connect(k) \/ Ask(k) \/ HangUp(k)
       \/ AskToStop \/ Main \/ SendNext \/ EndBroadcast \/ Device \/ Tell

\* Both threads run, a running device delivers frames, and a slave that connected
\* announces itself or hangs up.  A thread waiting for send_mx gets it in the end.
Fairness ==
    /\ WF_vars(Main) /\ SF_vars(Register) /\ SF_vars(Beat) /\ SF_vars(Tell)
    /\ WF_vars(SendNext \/ EndBroadcast) /\ WF_vars(Device)
    /\ \A k \in Clients : WF_vars(asked[k] = 0 /\ (Ask(k) \/ HangUp(k)))

Spec == Init /\ [][Next]_vars
FairSpec == Spec /\ Fairness
-----------------------------------------------------------------------
(* Properties *)

Statuses == Errors \cup {"STOPPED", "INITIALIZING", "RUNNING", "PAUSED"}
MessageSet == AllCommands \cup {"NEW_SOCKET"}
Registered(k) == \E i \in DOMAIN slaves : file[slaves[i]] = k

\* Every variable keeps its type; the polled array never outgrows the descriptors
\* by more than the entries that went stale.
TypeOK ==
    /\ peer \in [Clients -> {"away", "up", "gone"}] /\ backlog \subseteq Clients
    /\ DOMAIN inbox = Clients
    /\ \A k \in Clients : Len(inbox[k]) <= asked[k] /\ \A i \in DOMAIN inbox[k] : inbox[k][i] \in MessageSet
    /\ asked \in [Clients -> 0 .. MaxCommands + 1]
    /\ file \in [Fds -> Clients \cup {"listener", Nobody}]
    /\ \A i \in DOMAIN descs : descs[i].fd \in Fds \cup {NoFd} /\ descs[i].rev \subseteq {"IN", "HUP", "NVAL"}
    /\ Len(descs) <= 1 + Cardinality(Clients)
    /\ \A i \in DOMAIN slaves : slaves[i] \in Fds
    /\ mainPc \in {"test", "poll", "scan", "register", "beat", "beating", "left"}
    /\ idx \in 1 .. Len(descs) + Cardinality(Clients) + 1
    /\ closeConn \in BOOLEAN /\ heartbeat \in 0 .. HeartbeatAfter
    /\ noSlaves \in BOOLEAN /\ stop \in BOOLEAN
    /\ status \in Statuses /\ request \in {"CONTINUE", "PAUSE", "RUN"}
    /\ devPc \in {"off", "idle", "tell", "telling", "ended"}
    /\ bc.by \in {"nobody", "main", "device"}
    /\ told \subseteq Clients

\* The registry never holds a descriptor that was closed, nor one twice, nor one
\* that the kernel has handed to a connection which did not register
\* (ltr_srv_master.cpp:115-125, :160-166).
RegistryOpen ==
    /\ \A i, j \in DOMAIN slaves : slaves[i] = slaves[j] => i = j
    /\ \A i \in DOMAIN slaves : file[slaves[i]] \in Clients /\ asked[file[slaves[i]]] > 0

\* Removing hung connections from the polled array loses no other one: every
\* accepted connection whose slave is there is polled (ltr_srv_master.cpp:261-280).
LivePolled ==
    \A fd \in Fds : file[fd] # Nobody /\ (file[fd] \in Clients => ~Gone(file[fd])) =>
        \E i \in DOMAIN descs : descs[i].fd = fd

\* What is registered and polled is what is connected: the two parts above, of
\* variables that keep their types.
RegistrySound == TypeOK /\ RegistryOpen /\ LivePolled

\* "Send updated pose to all clients" (ltr_srv_master.cpp:113): at the end of a
\* broadcast every slave in the registry has been sent it, also when others were
\* erased on the way.
BroadcastComplete ==
    bc.by # "nobody" /\ bc.todo = <<>> /\ bc.what = status =>
        \A i \in DOMAIN slaves : file[slaves[i]] \in told

\* The broadcast that drops the last slave ends the main loop, unless another
\* slave registers first (ltr_srv_master.cpp:127-129, :296).
EmptiedEnds ==
    bc.lost /\ slaves = <<>> ~> mainPc = "left" \/ slaves # <<>>

-----------------------------------------------------------------------
(* What the documentation promises and the code does not keep: TLC refutes *)
(* each of the following; README.md tells how.                             *)

\* README.devel:80-82: "This function returns current linuxtrack state - RUNNING
\* means tracking is on ... STOPPED means tracker is shut down": a slave whose
\* tracker never started is told that it is STOPPED.
StateTold ==
    \A k \in Clients :
        devPc = "ended" /\ status = "STOPPED" /\ Registered(k) ~>
            k \in told \/ Gone(k) \/ mainPc = "left"

\* ltr_srv_master.cpp:396-398: "Try making sure, that gui will be the only master
\* ... when master running already, make it close".  A main loop that is asked to
\* stop does.
StopHonoured == stop ~> mainPc = "left"
=======================================================================
