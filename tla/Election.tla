--------------------------- MODULE Election ---------------------------
(***************************************************************************)
(* Which process is the master.  Standalone masters (ltr_server1 started   *)
(* by a slave) and GUI masters compete for one unix socket path; a GUI     *)
(* also holds a lockf lock that makes standalone masters give way.  Every  *)
(* system call on the path (stat, connect, unlink, bind, listen, close) is *)
(* a step: ltr_int_make_socket in ipc_utils.c, ltr_int_master in           *)
(* ltr_srv_master.cpp, start_master in ltr_srv_slave.c.                    *)
(***************************************************************************)
EXTENDS Naturals, FiniteSets

CONSTANTS Standalone,   \* processes that may run ltr_int_master(true)
          Guis,         \* GUI processes, which run ltr_int_master(false)
          Slaves,       \* slave processes looking for a master
          Retries,      \* attempts of a GUI to get the socket after the first (10 in the code)
          PollSleeps,   \* a GUI's sleeps of 1 s in which a loop that polls for 2 s has come round (2)
          Backlog,      \* connections kept for a master that does not accept (2 for listen(_, 1))
          NoOne         \* no process

Masters == Standalone \cup Guis
ASSUME ProcessesAssumption ==
    /\ Standalone \cap Guis = {} /\ NoOne \notin Masters
    /\ Retries \in Nat \ {0} /\ PollSleeps \in Nat \ {0} /\ Backlog \in Nat \ {0}

VARIABLES
    path,      \* the process whose socket the path names, or NoOne
    sock,      \* each process's socket: "none", "bound", "listening" or "closed"
    guiLock,   \* owner of ltr_server.lock, or NoOne
    pc,        \* where each master process is
    tries,     \* attempts left of each GUI
    met,       \* the masters that answered a GUI since it was started
    queue,     \* connections each master has still to accept
    waited,    \* sleeps of the GUI since a standalone master looked at the lock
    slavePc,   \* where each slave is in start_master
    server       \* the process each slave has forked, then the one it is connected to

electionVars == <<path, sock, guiLock, pc, tries, met, queue, waited, slavePc, server>>

Pcs == {"off", "lock", "stat", "connect", "unlink", "bind", "listen", "sleep", "refused",
        "init", "loop", "shutdown", "stuck", "close", "remove", "clean", "abort", "unbind"}

ElectionInit ==
    /\ path = NoOne
    /\ sock = [m \in Masters |-> "none"]
    /\ guiLock = NoOne
    /\ pc = [m \in Masters |-> "off"]
    /\ tries = [m \in Masters |-> Retries]
    /\ met = [g \in Guis |-> {}]
    /\ queue = [m \in Masters |-> 0]
    /\ waited = [m \in Standalone |-> 0]
    /\ slavePc = [s \in Slaves |-> "probe"]
    /\ server = [s \in Slaves |-> NoOne]

\* Mutant: the kernel keeps any number of connections.
AnswersForEver == path # NoOne /\ sock[path] = "listening"

\* connect() succeeds only while the owner of the path listens, and without waiting
\* only while there is room among the connections it has not accepted.
Answers == path # NoOne /\ sock[path] = "listening" /\ queue[path] < Backlog

\* One more for the owner of the path to accept.
Knock == queue' = [queue EXCEPT ![path] = IF @ < Backlog THEN @ + 1 ELSE @]

At(m, p, q) == pc[m] = p /\ pc' = [pc EXCEPT ![m] = q]
timeVars == <<queue, waited>>
triesVars == <<tries, met>>
slaveVars == <<slavePc, server>>

\* The lock is taken when a GUI opens already.
OpenGui(m) ==
    /\ m \in Guis /\ pc[m] = "off"
    /\ guiLock = NoOne /\ guiLock' = m
    /\ UNCHANGED <<path, sock, pc, triesVars, timeVars, slaveVars>>

\* The user presses start.  A GUI that has not got the lock does not go on.
StartGui(m) ==
    /\ m \in Guis
    /\ guiLock \in {NoOne, m} /\ guiLock' = m
    /\ pc[m] \in {"off", "refused"} /\ pc' = [pc EXCEPT ![m] = "stat"]
    /\ tries' = [tries EXCEPT ![m] = Retries]
    /\ met' = [met EXCEPT ![m] = {}]
    /\ UNCHANGED <<path, sock, timeVars, slaveVars>>

\* A daemonized ltr_server1 tests the GUI's lock without taking it.
TestLock(m) ==
    /\ m \in Standalone
    /\ At(m, "lock", IF guiLock = NoOne THEN "stat" ELSE "off")
    /\ UNCHANGED <<path, sock, guiLock, triesVars, timeVars, slaveVars>>

-----------------------------------------------------------------------
(* ltr_int_make_socket *)

\* Where -1 takes a process: a GUI sleeps and tries again, then leaves with
\* its lock still held; a standalone master quits.
Refused(m) == IF m \notin Guis THEN "off" ELSE IF tries[m] > 0 THEN "sleep" ELSE "refused"

CountTry(m) == tries' = [tries EXCEPT ![m] = IF m \in Guis /\ @ > 0 THEN @ - 1 ELSE @]

\* sleep(1) between two attempts: a loop that has not looked at the lock for
\* PollSleeps of them looks first.
Sleep(m) ==
    /\ \A n \in Standalone : pc[n] = "loop" => waited[n] < PollSleeps
    /\ At(m, "sleep", "stat")
    /\ waited' = [n \in Standalone |-> IF pc[n] = "loop" THEN waited[n] + 1 ELSE waited[n]]
    /\ UNCHANGED <<path, sock, guiLock, triesVars, queue, slaveVars>>

Stat(m) ==
    /\ At(m, "stat", IF path = NoOne THEN "bind" ELSE "connect")
    /\ UNCHANGED <<path, sock, guiLock, triesVars, timeVars, slaveVars>>

\* The connection that tells that a master answers is left for it to accept.
ConnectAnswered(m) ==
    /\ Answers /\ Knock
    /\ At(m, "connect", Refused(m)) /\ CountTry(m)
    /\ met' = [g \in Guis |-> IF g = m THEN met[g] \cup {path} ELSE met[g]]
    /\ UNCHANGED <<path, sock, guiLock, waited, slaveVars>>

ConnectTest(m) ==
    \/ ConnectAnswered(m)
    \/ /\ ~Answers
       /\ At(m, "connect", "unlink")
       /\ UNCHANGED <<path, sock, guiLock, triesVars, timeVars, slaveVars>>

UnlinkStale(m) ==
    /\ IF path # NoOne
         THEN At(m, "unlink", "bind") /\ path' = NoOne /\ UNCHANGED tries
         ELSE At(m, "unlink", Refused(m)) /\ CountTry(m) /\ UNCHANGED path
    /\ UNCHANGED <<sock, guiLock, met, timeVars, slaveVars>>

\* bind() fails when the path exists.
Bind(m) ==
    /\ IF path = NoOne
         THEN /\ At(m, "bind", "listen")
              /\ path' = m /\ sock' = [sock EXCEPT ![m] = "bound"]
              /\ UNCHANGED tries
         ELSE At(m, "bind", Refused(m)) /\ CountTry(m) /\ UNCHANGED <<path, sock>>
    /\ UNCHANGED <<guiLock, met, timeVars, slaveVars>>

Listen(m) ==
    /\ At(m, "listen", "init")
    /\ sock' = [sock EXCEPT ![m] = "listening"]
    /\ UNCHANGED <<path, guiLock, triesVars, timeVars, slaveVars>>

-----------------------------------------------------------------------
(* The rest of ltr_int_master *)

\* ltr_int_init succeeds, or the socket is given up at once and a GUI keeps its lock.
InitTracking(m) ==
    /\ At(m, "init", "loop") \/ At(m, "init", "abort")
    /\ UNCHANGED <<path, sock, guiLock, triesVars, timeVars, slaveVars>>

\* The time a master's loop has not looked at the lock for starts anew.
Looked(m) == waited' = [n \in Standalone |-> IF n = m THEN 0 ELSE waited[n]]

\* One round of the loop: nothing tells it to end, it polls, and accepts all there is.
LoopRound(m) ==
    /\ pc[m] = "loop" /\ (m \in Standalone => guiLock = NoOne)
    /\ queue' = [queue EXCEPT ![m] = 0]
    /\ Looked(m)
    /\ UNCHANGED <<path, sock, guiLock, pc, triesVars, slaveVars>>


\* The loop ends when the user stops the GUI master, the last slave has left,
\* the device failed - or another process holds the GUI lock.
LeaveLoop(m) ==
    /\ At(m, "loop", "shutdown")
    /\ Looked(m)
    /\ UNCHANGED <<path, sock, guiLock, triesVars, queue, slaveVars>>

\* ltr_int_shutdown joins the device's thread before anything is closed; a request
\* lost on its way to that thread (RunLoop) leaves the master there for ever.
JoinDevice(m) ==
    /\ At(m, "shutdown", "close") \/ At(m, "shutdown", "stuck")
    /\ UNCHANGED <<path, sock, guiLock, triesVars, timeVars, slaveVars>>

CloseSocket(m) ==
    /\ At(m, "close", "remove") \/ At(m, "abort", "unbind")
    /\ sock' = [sock EXCEPT ![m] = "closed"]
    /\ queue' = [queue EXCEPT ![m] = 0]
    /\ UNCHANGED <<path, guiLock, triesVars, waited, slaveVars>>

\* unlink() removes whatever the path names by now.
RemoveSocket(m) ==
    /\ At(m, "remove", "clean") \/ At(m, "unbind", "off")
    /\ path' = NoOne
    /\ UNCHANGED <<sock, guiLock, triesVars, timeVars, slaveVars>>

\* A master that has ended has no tries any more.
Forgets(m) ==
    /\ tries' = [tries EXCEPT ![m] = Retries]
    /\ met' = [g \in Guis |-> IF g = m THEN {} ELSE met[g]]

CleanLock(m) ==
    /\ At(m, "clean", "off")
    /\ guiLock' = IF guiLock = m THEN NoOne ELSE guiLock
    /\ sock' = [sock EXCEPT ![m] = "none"]
    /\ Forgets(m)
    /\ UNCHANGED <<path, timeVars, slaveVars>>

\* The whole GUI process ends and the kernel drops its lock and its socket.
GuiExits(m) ==
    /\ m \in Guis /\ guiLock = m
    /\ pc' = [pc EXCEPT ![m] = "off"]
    /\ guiLock' = NoOne
    /\ sock' = [sock EXCEPT ![m] = "none"]
    /\ queue' = [queue EXCEPT ![m] = 0]
    /\ Forgets(m)
    /\ UNCHANGED <<path, waited, slaveVars>>

Step(m) == \/ TestLock(m) \/ Stat(m) \/ ConnectTest(m) \/ UnlinkStale(m) \/ Bind(m)
           \/ Listen(m) \/ Sleep(m) \/ InitTracking(m) \/ JoinDevice(m) \/ CloseSocket(m)
           \/ RemoveSocket(m) \/ CleanLock(m)

-----------------------------------------------------------------------
(* start_master in a slave *)

\* No GUI is there and a master answers the test.
Probe(s) ==
    /\ slavePc[s] = "probe" /\ guiLock = NoOne
    /\ Answers /\ Knock
    /\ slavePc' = [slavePc EXCEPT ![s] = "open"]
    /\ UNCHANGED <<path, sock, guiLock, pc, triesVars, waited, server>>

\* Nobody answers, so ltr_server1 is forked.
Spawn(s) ==
    /\ slavePc[s] = "probe" /\ ~Answers /\ guiLock = NoOne
    /\ \E m \in Standalone :
          /\ pc[m] = "off"
          /\ pc' = [pc EXCEPT ![m] = "lock"]
          /\ server' = [server EXCEPT ![s] = m]
    /\ slavePc' = [slavePc EXCEPT ![s] = "wait"]
    /\ UNCHANGED <<path, sock, guiLock, triesVars, timeVars>>

\* wait() returns as soon as the child has daemonized, which is before it
\* looks at the lock.
Waited(s) ==
    /\ slavePc[s] = "wait"
    /\ slavePc' = [slavePc EXCEPT ![s] = "open"]
    /\ UNCHANGED <<path, sock, guiLock, pc, triesVars, timeVars, server>>

\* open_master_comms; a slave that gets no connection sleeps and starts over.
Open(s) ==
    /\ slavePc[s] = "open" \/ (slavePc[s] = "probe" /\ guiLock # NoOne)
    /\ slavePc' = [slavePc EXCEPT ![s] = IF Answers THEN "connected" ELSE "probe"]
    /\ server' = [server EXCEPT ![s] = IF Answers THEN path ELSE NoOne]
    /\ IF Answers THEN Knock ELSE UNCHANGED queue
    /\ UNCHANGED <<path, sock, guiLock, pc, triesVars, waited>>

\* The master hangs up.
Reconnect(s) ==
    /\ slavePc[s] = "connected" /\ sock[server[s]] # "listening"
    /\ slavePc' = [slavePc EXCEPT ![s] = "probe"]
    /\ server' = [server EXCEPT ![s] = NoOne]
    /\ UNCHANGED <<path, sock, guiLock, pc, triesVars, timeVars>>

SlaveStep(s) == Probe(s) \/ Spawn(s) \/ Waited(s) \/ Open(s) \/ Reconnect(s)

ElectionNext ==
    \/ \E m \in Masters : OpenGui(m) \/ StartGui(m) \/ Step(m) \/ LoopRound(m) \/ LeaveLoop(m) \/ GuiExits(m)
    \/ \E s \in Slaves : SlaveStep(s)

\* A process that can run does, and a join either returns or is stuck.  A master's
\* loop comes round every 2 seconds and looks at the lock; nothing else makes it leave.
ElectionFairness ==
    /\ \A m \in Masters : WF_electionVars(Step(m))
    /\ \A m \in Standalone : WF_electionVars(guiLock # NoOne /\ (LoopRound(m) \/ LeaveLoop(m)))

ElectionSpec == ElectionInit /\ [][ElectionNext]_electionVars
FairElection == ElectionSpec /\ ElectionFairness

-----------------------------------------------------------------------
(* Properties *)

\* Every variable keeps its type, and no GUI retries more often than it may.
ElectionTypeOK ==
    /\ path \in Masters \cup {NoOne}
    /\ sock \in [Masters -> {"none", "bound", "listening", "closed"}]
    /\ guiLock \in Guis \cup {NoOne}
    /\ pc \in [Masters -> Pcs]
    /\ tries \in [Masters -> 0 .. Retries]
    /\ met \in [Guis -> SUBSET Masters]
    /\ queue \in [Masters -> 0 .. Backlog]
    /\ waited \in [Standalone -> 0 .. PollSleeps]
    /\ slavePc \in [Slaves -> {"probe", "wait", "open", "connected"}]
    /\ server \in [Slaves -> Masters \cup {NoOne}]


\* One standalone master cannot outlast the tries of a GUI, not even one that hangs in
\* its join: it leaves after two of them, and once it has left its loop the connections
\* the GUI has tried fill its queue and it looks dead (ltr_srv_master.cpp:432-439,
\* ipc_utils.c:360-372).
TriesSuffice == \A g \in Guis : Cardinality(Standalone) = 1 => pc[g] # "refused"

\* The election keeps its types, and a GUI is not turned away by the one standalone
\* master there is (ltr_srv_master.cpp:432-439, ipc_utils.c:360-372).
ElectionSound == ElectionTypeOK /\ TriesSuffice

-----------------------------------------------------------------------
(* What the documentation promises and the code does not keep: TLC refutes *)
(* each of the following; README.md tells how.                             *)

\* A GUI that a standalone master answered, and that goes on once "other master gave
\* up", can be reached: the path names its socket (ltr_srv_master.cpp:428-440).
GuiReachable ==
    \A g \in Guis : pc[g] = "loop" /\ met[g] \cap Standalone # {} => path = g

\* ltr_srv_master.cpp:443-446: "Master already running, quitting!".  No two
\* standalone masters serve at a time.
OneMaster ==
    \A m, n \in Standalone : pc[m] = "loop" /\ pc[n] = "loop" => m = n

\* ltr_srv_slave.c:72: "At this point master is either running or exited".
MasterDecided ==
    \A s \in Slaves : slavePc[s] = "open" /\ server[s] # NoOne =>
        sock[server[s]] = "listening" \/ pc[server[s]] = "off"
=======================================================================
