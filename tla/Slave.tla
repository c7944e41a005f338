---------------------------- MODULE Slave -----------------------------
(***************************************************************************)
(* A client application (ltlib.c) and its slave process (ltr_srv_slave.c): *)
(* the mailbox struct ltr_comm in shared memory, the slave's main loop     *)
(* that empties it, and the reader thread that keeps the link to the       *)
(* master and writes poses into it.                                        *)
(*                                                                         *)
(* The mailbox is guarded by lockf.  Such a lock belongs to a PROCESS: the *)
(* slave's two threads do not exclude each other, and whichever unlocks    *)
(* first takes the lock from both.  The master is an environment that may  *)
(* be reachable or not; its own behaviour is in modules Master, Election.  *)
(***************************************************************************)
EXTENDS Naturals, TLAPS

CONSTANTS Ops,         \* the calls this client makes, a subset of AllOps
          MaxCalls,    \* bound: calls of each kind
          MaxBreaks,   \* bound: times the master or the link goes away
          MaxPoses     \* bound: messages from the master

AllOps == {"wakeup", "suspend", "frames", "shutdown", "recenter", "notification_on"}
ASSUME ConstantsAssumption ==
    /\ Ops \subseteq AllOps
    /\ MaxCalls \in Nat /\ MaxBreaks \in Nat /\ MaxPoses \in Nat

VARIABLES
    calls,     \* how often the client has made each call
    mapped,    \* the client is initialized and maps the mailbox
    parent,    \* the client process is alive (getppid() == ppid)
    com,       \* struct ltr_comm: cmd, recenter, notify, state, preparing
    lock,      \* "slave" while that process owns the lockf lock, else "free"
    mainPc, cmd, recenter,      \* main loop and its locals
    notify, quit,               \* notify, quit_flag
    uplink,    \* master_uplink: "closed", "open", or "broken" (peer gone)
    readerPc, retries,          \* reader thread, master_restart_retries
    sent,      \* messages the master has been sent, by kind
    master,    \* "serving" or "refusing" connections
    gui,       \* a GUI holds its lock
    breaks, poses               \* counters for the bounds

clientVars == <<calls, mapped, parent>>
mainVars   == <<mainPc, cmd, recenter, quit, notify>>
readerVars == <<readerPc, retries>>
envVars    == <<master, gui, breaks>>
vars == <<clientVars, com, lock, mainVars, uplink, readerVars, sent, envVars, poses>>

Cmds == {"RUN_CMD", "PAUSE_CMD", "STOP_CMD", "FRAMES_CMD", "NOP_CMD"}
CmdOf == [wakeup |-> "RUN_CMD", suspend |-> "PAUSE_CMD", frames |-> "FRAMES_CMD",
          shutdown |-> "STOP_CMD"]
Forwarded == {"RUN_CMD", "PAUSE_CMD", "FRAMES_CMD"}
Statuses == {"INITIALIZING", "RUNNING", "PAUSED", "STOPPED"}
masterRetries == 3

\* ltr_init has mapped the mailbox, posted RUN_CMD and forked the slave.
Init ==
    /\ calls = [o \in AllOps |-> IF o = "wakeup" THEN 1 ELSE 0]
    /\ mapped = TRUE /\ parent = TRUE
    /\ com = [cmd |-> "RUN_CMD", recenter |-> FALSE, notify |-> FALSE,
              state |-> "INITIALIZING", preparing |-> TRUE]
    /\ lock = "free"
    /\ mainPc = "idle" /\ cmd = "NOP_CMD" /\ recenter = FALSE
    /\ notify = FALSE /\ quit = FALSE
    /\ uplink = "closed" /\ readerPc = "connect" /\ retries = masterRetries
    /\ sent = [k \in Forwarded \cup {"RECENTER"} |-> 0]
    /\ master \in {"serving", "refusing"} /\ gui \in BOOLEAN
    /\ breaks = 0 /\ poses = 0

-----------------------------------------------------------------------
(* The client.  Each call holds the lock for one store. *)

Call(o) ==
    /\ parent /\ mapped /\ lock = "free" /\ calls[o] < MaxCalls
    /\ calls' = [calls EXCEPT ![o] = @ + 1]
    /\ com' = CASE o = "recenter"        -> [com EXCEPT !.recenter = TRUE]
                [] o = "notification_on" -> [com EXCEPT !.notify = TRUE]
                [] OTHER                 -> [com EXCEPT !.cmd = CmdOf[o]]
    /\ mapped' = (o # "shutdown")
    /\ UNCHANGED <<parent, lock, mainVars, uplink, readerVars, sent, envVars, poses>>

ClientExits ==
    /\ parent /\ parent' = FALSE /\ mapped' = FALSE
    /\ UNCHANGED <<calls, com, lock, mainVars, uplink, readerVars, sent, envVars, poses>>

-----------------------------------------------------------------------
(* The slave's main loop. *)

MainAt(p, q) == mainPc = p /\ mainPc' = q
SlaveMayLock == lock \in {"free", "slave"}

\* The mailbox is looked at without the lock ...
Poll ==
    /\ ~quit
    /\ IF com.cmd # "NOP_CMD" \/ com.recenter \/ com.notify
         THEN MainAt("idle", "lock")
         ELSE MainAt("idle", "send")
    /\ UNCHANGED <<clientVars, com, lock, cmd, recenter, quit, notify, uplink, readerVars,
                   sent, envVars, poses>>

\* ... and emptied with it, one field after the other.
TakeCmd ==
    /\ SlaveMayLock /\ lock' = "slave"
    /\ MainAt("lock", "taken")
    /\ cmd' = com.cmd
    /\ UNCHANGED <<clientVars, com, recenter, quit, notify, uplink, readerVars, sent, envVars, poses>>

ClearCmd ==
    /\ MainAt("taken", "rest")
    /\ com' = [com EXCEPT !.cmd = "NOP_CMD"]
    /\ UNCHANGED <<clientVars, lock, cmd, recenter, quit, notify, uplink, readerVars,
                   sent, envVars, poses>>

TakeRecenter ==
    /\ MainAt("rest", "clear")
    /\ recenter' = com.recenter /\ notify' = com.notify
    /\ UNCHANGED <<clientVars, com, lock, cmd, quit, uplink, readerVars, sent, envVars, poses>>

ClearRecenter ==
    /\ MainAt("clear", "send")
    /\ com' = [com EXCEPT !.recenter = FALSE]
    /\ lock' = "free"
    /\ UNCHANGED <<clientVars, cmd, recenter, quit, notify, uplink, readerVars, sent, envVars, poses>>

\* Mutant: the loop forgets to look whether the client still lives.
SendCmdForever ==
    /\ \/ /\ cmd \in Forwarded /\ uplink = "open"
          /\ MainAt("send", "recenter")
          /\ sent' = [sent EXCEPT ![cmd] = @ + 1]
          /\ cmd' = "NOP_CMD" /\ UNCHANGED quit
       \/ /\ cmd = "STOP_CMD"
          /\ MainAt("send", "recenter")
          /\ quit' = TRUE /\ cmd' = "NOP_CMD" /\ UNCHANGED sent
       \/ /\ cmd = "NOP_CMD"
          /\ MainAt("send", "recenter")
          /\ UNCHANGED <<sent, quit, cmd>>
    /\ UNCHANGED <<clientVars, com, lock, recenter, notify, uplink, readerVars, envVars, poses>>

\* The do loop: a failed send is repeated until it succeeds or the client is gone.
SendCmd ==
    /\ \/ /\ cmd \in Forwarded /\ uplink = "open"
          /\ MainAt("send", "recenter")
          /\ sent' = [sent EXCEPT ![cmd] = @ + 1]
          /\ cmd' = "NOP_CMD" /\ UNCHANGED quit
       \/ /\ cmd \in Forwarded /\ uplink # "open" /\ ~parent
          /\ MainAt("send", "recenter")
          /\ cmd' = "NOP_CMD" /\ UNCHANGED <<sent, quit>>
       \/ /\ cmd = "STOP_CMD"
          /\ MainAt("send", "recenter")
          /\ quit' = TRUE /\ cmd' = "NOP_CMD" /\ UNCHANGED sent
       \/ /\ cmd = "NOP_CMD"
          /\ MainAt("send", "recenter")
          /\ UNCHANGED <<sent, quit, cmd>>
    /\ UNCHANGED <<clientVars, com, lock, recenter, notify, uplink, readerVars, envVars, poses>>

\* Mutant: the request is kept after a successful transmission as well.
SendRecenterAgain ==
    /\ MainAt("recenter", IF parent THEN "idle" ELSE "done")
    /\ IF recenter /\ uplink = "open"
         THEN sent' = [sent EXCEPT !["RECENTER"] = @ + 1]
         ELSE UNCHANGED sent
    /\ UNCHANGED <<clientVars, com, lock, cmd, recenter, quit, notify, uplink, readerVars, envVars, poses>>

SendRecenter ==
    /\ MainAt("recenter", IF parent THEN "idle" ELSE "done")
    /\ IF recenter /\ uplink = "open"
         THEN sent' = [sent EXCEPT !["RECENTER"] = @ + 1] /\ recenter' = FALSE
         ELSE UNCHANGED <<sent, recenter>>
    /\ UNCHANGED <<clientVars, com, lock, cmd, quit, notify, uplink, readerVars, envVars, poses>>

Quit ==
    /\ quit /\ MainAt("idle", "done")
    /\ UNCHANGED <<clientVars, com, lock, cmd, recenter, quit, notify, uplink, readerVars,
                   sent, envVars, poses>>

\* ltr_int_slave joins the reader and closes the link and the mailbox.
Finish ==
    /\ readerPc = "done" /\ MainAt("done", "ended")
    /\ uplink' = "closed"
    /\ UNCHANGED <<clientVars, com, lock, cmd, recenter, quit, notify, readerVars, sent, envVars, poses>>

Main == Poll \/ TakeCmd \/ ClearCmd \/ TakeRecenter \/ ClearRecenter \/ SendCmd
        \/ SendRecenter \/ Quit \/ Finish

-----------------------------------------------------------------------
(* The reader thread. *)

ReaderAt(p, q) == readerPc = p /\ readerPc' = q

\* Mutant: the retries are counted but not limited.
ConnectUnlimited ==
    /\ IF gui THEN retries' = masterRetries ELSE retries' = retries - 1
    /\ IF master = "serving"
         THEN ReaderAt("connect", "greet") /\ uplink' = "open"
         ELSE ReaderAt("connect", "connect") /\ uplink' = "closed"
    /\ UNCHANGED <<clientVars, com, lock, mainVars, sent, envVars, poses>>

\* One round of ltr_int_try_start_master.  quit_flag is not looked at here.
Connect ==
    /\ IF gui THEN retries' = masterRetries ELSE retries' = retries - 1
    /\ IF master = "serving"
         THEN ReaderAt("connect", "greet") /\ uplink' = "open"
         ELSE ReaderAt("connect", IF retries' = 0 THEN "done" ELSE "connect") /\ uplink' = "closed"
    /\ UNCHANGED <<clientVars, com, lock, mainVars, sent, envVars, poses>>

\* CMD_NEW_SOCKET is sent; the main loop can already use the link.
Greet ==
    /\ IF uplink = "open"
         THEN ReaderAt("greet", "poll") /\ retries' = masterRetries
         ELSE /\ ReaderAt("greet", IF retries = 0 THEN "done" ELSE "connect")
              /\ UNCHANGED retries
    /\ UNCHANGED <<clientVars, com, lock, mainVars, uplink, sent, envVars, poses>>

Hangup ==
    /\ uplink = "broken"
    /\ ReaderAt("poll", "connect")
    /\ UNCHANGED <<clientVars, com, lock, mainVars, uplink, retries, sent, envVars, poses>>

\* CMD_POSE: the mailbox is updated under the lock.
LockForPose ==
    /\ uplink = "open" /\ poses < MaxPoses /\ poses' = poses + 1
    /\ SlaveMayLock /\ lock' = "slave"
    /\ ReaderAt("poll", "locked")
    /\ \E st \in Statuses : com' = [com EXCEPT !.state = st, !.preparing = FALSE]
    /\ UNCHANGED <<clientVars, mainVars, uplink, retries, sent, envVars>>

\* After a message the thread looks whether it is still wanted.
UnlockAfterPose ==
    /\ ReaderAt("locked", IF ~parent \/ quit THEN "done" ELSE "poll")
    /\ lock' = "free"
    /\ UNCHANGED <<clientVars, com, mainVars, uplink, retries, sent, envVars, poses>>

\* Mutant: quit_flag is only looked at when a message came.
TimeoutOrphanOnly ==
    /\ uplink = "open" /\ ~parent
    /\ ReaderAt("poll", "done")
    /\ UNCHANGED <<clientVars, com, lock, mainVars, uplink, retries, sent, envVars, poses>>

\* poll timed out.
Timeout ==
    /\ uplink = "open" /\ (~parent \/ quit)
    /\ ReaderAt("poll", "done")
    /\ UNCHANGED <<clientVars, com, lock, mainVars, uplink, retries, sent, envVars, poses>>

Reader == Connect \/ Greet \/ Hangup \/ LockForPose \/ UnlockAfterPose \/ Timeout

-----------------------------------------------------------------------
(* The master, as far as a slave can tell. *)

MasterLeaves ==
    /\ breaks < MaxBreaks /\ breaks' = breaks + 1
    /\ master' = "refusing"
    /\ uplink' = IF uplink = "open" THEN "broken" ELSE uplink
    /\ UNCHANGED <<clientVars, com, lock, mainVars, readerVars, sent, gui, poses>>

MasterServes ==
    /\ master = "refusing" /\ master' = "serving"
    /\ UNCHANGED <<clientVars, com, lock, mainVars, uplink, readerVars, sent, gui, breaks, poses>>

GuiCloses ==
    /\ gui /\ gui' = FALSE
    /\ UNCHANGED <<clientVars, com, lock, mainVars, uplink, readerVars, sent, master, breaks, poses>>

Environment == MasterLeaves \/ MasterServes \/ GuiCloses

Next == (\E o \in Ops : Call(o)) \/ ClientExits \/ Main \/ Reader \/ Environment

\* Both threads run; a GUI that holds the lock is closed some day.
Fairness == WF_vars(Main) /\ WF_vars(Reader) /\ WF_vars(Timeout) /\ WF_vars(GuiCloses)
\* In addition a master always comes back.
MasterFairness == Fairness /\ WF_vars(MasterServes)

Spec == Init /\ [][Next]_vars
FairSpec == Spec /\ Fairness
ServedSpec == Spec /\ MasterFairness

-----------------------------------------------------------------------
(* Properties *)

Mailbox == [cmd : Cmds, recenter : BOOLEAN, notify : BOOLEAN, state : Statuses, preparing : BOOLEAN]

\* Every variable keeps its type; the reader never counts below zero retries.
TypeOK ==
    /\ calls \in [AllOps -> Nat] /\ mapped \in BOOLEAN /\ parent \in BOOLEAN
    /\ com \in Mailbox
    /\ lock \in {"free", "slave"}
    /\ mainPc \in {"idle", "lock", "taken", "rest", "clear", "send", "recenter", "done", "ended"}
    /\ cmd \in Cmds /\ recenter \in BOOLEAN /\ notify \in BOOLEAN /\ quit \in BOOLEAN
    /\ uplink \in {"closed", "open", "broken"}
    /\ readerPc \in {"connect", "greet", "poll", "locked", "done"}
    /\ retries \in 0 .. masterRetries
    /\ sent \in [Forwarded \cup {"RECENTER"} -> Nat]
    /\ master \in {"serving", "refusing"} /\ gui \in BOOLEAN
    /\ breaks \in 0 .. MaxBreaks /\ poses \in 0 .. MaxPoses

\* A request is forwarded at most as often as the client made it, however often
\* the link broke and the send was repeated (ltr_srv_slave.c:280-315).
AtMostOnce ==
    /\ sent["PAUSE_CMD"] <= calls["suspend"]
    /\ sent["RUN_CMD"] <= calls["wakeup"]
    /\ sent["FRAMES_CMD"] <= calls["frames"]
    /\ sent["RECENTER"] <= calls["recenter"]

\* Once the main loop has seen STOP_CMD the whole slave ends: the reader notices
\* quit_flag whatever it is doing (ltr_srv_slave.c:236, :253, :359).  Nor does a
\* slave outlive its client (ltr_srv_slave.c:30-35), even when a command cannot be
\* sent.
SlaveEnds == quit \/ ~parent ~> mainPc = "ended"

-----------------------------------------------------------------------
(* What the documentation promises and the code does not keep: TLC refutes *)
(* each of the following; README.md tells how.                             *)

\* README.devel:48-49: a shutdown "will be carried out as soon as possible".
\* Here the link is up and stays up.
StopCarriedOut ==
    com.cmd = "STOP_CMD" /\ readerPc = "poll" /\ uplink = "open" /\ master = "serving"
        ~> quit \/ ~parent

\* The same promise when the reader has given up on the master.
StopWithoutMaster == com.cmd = "STOP_CMD" /\ readerPc = "done" ~> quit \/ ~parent

\* README.devel:48-49 for ltr_recenter.
RecenterCarriedOut == com.recenter ~> sent["RECENTER"] > 0 \/ ~parent \/ readerPc = "done"

\* README.devel:48-49 for ltr_suspend.
SuspendCarriedOut ==
    com.cmd = "PAUSE_CMD" ~> sent["PAUSE_CMD"] > 0 \/ ~parent \/ readerPc = "done"

-----------------------------------------------------------------------
(* Proofs.  A slave sends the master no command more often than its client *)
(* made the call, whatever the calls, their bound and the number of        *)
(* breaks.  The argument counts a command where it waits: in the mailbox,  *)
(* and in the slave's copy of it.  Between taking the command and clearing *)
(* it both places hold the same one, and then they count once; a call that *)
(* is made in between, which the reader's unlock allows, brings its own    *)
(* count.                                                                  *)

\* One, if so.
Held(b) == IF b THEN 1 ELSE 0

\* How often the command c still may be sent, by what mailbox and main loop hold.
Waiting(c) ==
    IF mainPc = "taken" THEN Held(cmd = c \/ com.cmd = c) ELSE Held(cmd = c) + Held(com.cmd = c)
WaitingRecenter ==
    IF mainPc = "clear" THEN Held(recenter \/ com.recenter) ELSE Held(recenter) + Held(com.recenter)

\* Outside the part of the loop that carries it the copy is empty.
CopyInv == mainPc \in {"idle", "lock", "recenter", "done", "ended"} => cmd = "NOP_CMD"

CountInv ==
    /\ sent["PAUSE_CMD"] + Waiting("PAUSE_CMD") <= calls["suspend"]
    /\ sent["RUN_CMD"] + Waiting("RUN_CMD") <= calls["wakeup"]
    /\ sent["FRAMES_CMD"] + Waiting("FRAMES_CMD") <= calls["frames"]
    /\ sent["RECENTER"] + WaitingRecenter <= calls["recenter"]

\* A reader that goes to the master has a try left.
RetryInv == readerPc \in {"connect", "poll", "locked"} => retries > 0

TypeInv == TypeOK /\ RetryInv
IInv == TypeInv /\ CopyInv /\ CountInv

-----------------------------------------------------------------------
(* Types *)

LEMMA InitTyped == Init => TypeInv
<1> SUFFICES ASSUME Init PROVE TypeInv  OBVIOUS
<1>1. com \in Mailbox  BY DEF Init, Mailbox, Cmds, Statuses
<1>2. /\ mapped \in BOOLEAN /\ parent \in BOOLEAN /\ recenter \in BOOLEAN /\ notify \in BOOLEAN
      /\ quit \in BOOLEAN /\ gui \in BOOLEAN
  BY Zenon DEF Init
<1>3. calls \in [AllOps -> Nat] /\ sent \in [Forwarded \cup {"RECENTER"} -> Nat]  BY DEF Init
<1>4. retries \in 0 .. masterRetries /\ RetryInv  BY DEF Init, RetryInv, masterRetries
<1> QED
  BY <1>1, <1>2, <1>3, <1>4, ConstantsAssumption DEF Init, TypeInv, TypeOK, Cmds

\* Each store into the mailbox leaves the other fields.
LEMMA StoreCmd == ASSUME com \in Mailbox, NEW c \in Cmds PROVE [com EXCEPT !.cmd = c] \in Mailbox
BY DEF Mailbox

LEMMA StoreFlags ==
    ASSUME com \in Mailbox, NEW b \in BOOLEAN
    PROVE  [com EXCEPT !.recenter = b] \in Mailbox /\ [com EXCEPT !.notify = b] \in Mailbox
BY DEF Mailbox

LEMMA StorePose ==
    ASSUME com \in Mailbox, NEW st \in Statuses
    PROVE  [com EXCEPT !.state = st, !.preparing = FALSE] \in Mailbox
BY DEF Mailbox

LEMMA MailboxFields ==
    ASSUME com \in Mailbox
    PROVE  com.cmd \in Cmds /\ com.recenter \in BOOLEAN /\ com.notify \in BOOLEAN
BY DEF Mailbox

\* What a call stores is a command.
LEMMA CallTyped ==
    ASSUME TypeInv, NEW o \in Ops, Call(o)
    PROVE  TypeInv'
<1>1. o \in AllOps  BY ConstantsAssumption
<1>2. com' \in Mailbox
  <2>1. CASE o \in {"recenter", "notification_on"}
    BY <2>1, StoreFlags DEF Call, TypeInv, TypeOK
  <2>2. CASE o \in {"wakeup", "suspend", "frames", "shutdown"}
    <3>1. CmdOf[o] \in Cmds  BY <2>2 DEF CmdOf, Cmds
    <3> QED  BY <3>1, <2>2, StoreCmd DEF Call, TypeInv, TypeOK
  <2> QED  BY <1>1, <2>1, <2>2 DEF AllOps
<1>3. calls' \in [AllOps -> Nat]  BY <1>1 DEF Call, TypeInv, TypeOK
<1> QED
  BY <1>2, <1>3 DEF Call, TypeInv, TypeOK, RetryInv, mainVars, readerVars, envVars

LEMMA StepTyped == TypeInv /\ [Next]_vars => TypeInv'
<1> SUFFICES ASSUME TypeInv, [Next]_vars PROVE TypeInv'  OBVIOUS
<1> USE DEF TypeInv, TypeOK, RetryInv
<1>1. ASSUME NEW o \in Ops, Call(o) PROVE TypeInv'  BY <1>1, CallTyped
<1>2. CASE ClientExits
  <2>1. parent' \in BOOLEAN /\ mapped' \in BOOLEAN  BY <1>2, Zenon DEF ClientExits
  <2> QED  BY <1>2, <2>1 DEF ClientExits, mainVars, readerVars, envVars
<1>3. CASE Main
  <2> USE DEF clientVars, readerVars, envVars, MainAt, Cmds, Forwarded
  <2>1. CASE Poll  BY <2>1 DEF Poll
  <2>2. CASE TakeCmd  BY <2>2, MailboxFields DEF TakeCmd
  <2>3. CASE ClearCmd
    <3>1. com' \in Mailbox  BY <2>3, StoreCmd DEF ClearCmd
    <3> QED  BY <2>3, <3>1 DEF ClearCmd
  <2>4. CASE TakeRecenter  BY <2>4, MailboxFields DEF TakeRecenter
  <2>5. CASE ClearRecenter
    <3>1. com' \in Mailbox  BY <2>5, StoreFlags DEF ClearRecenter
    <3> QED  BY <2>5, <3>1 DEF ClearRecenter
  <2>6. CASE SendCmd
    <3>1. quit' \in BOOLEAN  BY <2>6, Zenon DEF SendCmd, mainVars
    <3>2. cmd' \in Cmds /\ sent' \in [Forwarded \cup {"RECENTER"} -> Nat]  BY <2>6 DEF SendCmd
    <3> QED  BY <2>6, <3>1, <3>2 DEF SendCmd
  <2>7. CASE SendRecenter
    <3>1. recenter' \in BOOLEAN  BY <2>7, Zenon DEF SendRecenter
    <3>2. sent' \in [Forwarded \cup {"RECENTER"} -> Nat]  BY <2>7 DEF SendRecenter
    <3> QED  BY <2>7, <3>1, <3>2 DEF SendRecenter
  <2>8. CASE Quit  BY <2>8 DEF Quit
  <2>9. CASE Finish  BY <2>9 DEF Finish
  <2> QED  BY <1>3, <2>1, <2>2, <2>3, <2>4, <2>5, <2>6, <2>7, <2>8, <2>9 DEF Main
<1>4. CASE Reader
  <2> USE DEF clientVars, mainVars, envVars, ReaderAt, masterRetries
  <2>1. CASE Connect  BY <2>1 DEF Connect
  <2>2. CASE Greet  BY <2>2 DEF Greet
  <2>3. CASE Hangup  BY <2>3 DEF Hangup
  <2>4. CASE LockForPose  
    <3>1. com' \in Mailbox  BY <2>4, StorePose DEF LockForPose
    <3> QED  BY <2>4, <3>1, ConstantsAssumption DEF LockForPose
  <2>5. CASE UnlockAfterPose  BY <2>5 DEF UnlockAfterPose
  <2>6. CASE Timeout  BY <2>6 DEF Timeout
  <2> QED  BY <1>4, <2>1, <2>2, <2>3, <2>4, <2>5, <2>6 DEF Reader
<1>5. CASE Environment
  <2> USE DEF clientVars, mainVars, readerVars
  <2>1. CASE MasterLeaves  BY <2>1, ConstantsAssumption DEF MasterLeaves
  <2>2. CASE MasterServes  BY <2>2 DEF MasterServes
  <2>3. CASE GuiCloses
    <3>1. gui' \in BOOLEAN  BY <2>3, Zenon DEF GuiCloses
    <3> QED  BY <2>3, <3>1 DEF GuiCloses
  <2> QED  BY <1>5, <2>1, <2>2, <2>3 DEF Environment
<1>6. CASE UNCHANGED vars  BY <1>6 DEF vars, clientVars, mainVars, readerVars, envVars
<1> QED  BY <1>1, <1>2, <1>3, <1>4, <1>5, <1>6 DEF Next

-----------------------------------------------------------------------
(* Counting *)

LEMMA InitCounted == Init => CopyInv /\ CountInv
BY DEF Init, CopyInv, CountInv, Waiting, WaitingRecenter, Held, AllOps, Forwarded

\* A call brings at most one more command, and counts for it.
LEMMA CallCounted ==
    ASSUME IInv, NEW o \in Ops, Call(o)
    PROVE  CopyInv' /\ CountInv'
<1> USE DEF Waiting, WaitingRecenter, Held
<1>1. o \in AllOps  BY ConstantsAssumption
<1>2. CopyInv'  BY DEF IInv, CopyInv, Call, mainVars
<1>3. calls' = [calls EXCEPT ![o] = @ + 1] /\ calls \in [AllOps -> Nat]
      /\ sent' = sent /\ mainPc' = mainPc /\ cmd' = cmd /\ recenter' = recenter
  BY DEF Call, IInv, TypeInv, TypeOK, mainVars
<1>4. sent \in [Forwarded \cup {"RECENTER"} -> Nat]  BY DEF IInv, TypeInv, TypeOK
<1>5. com \in Mailbox
  BY DEF IInv, TypeInv, TypeOK
<1>6. CASE o = "recenter"
  <2>1. com'.recenter = TRUE /\ com'.cmd = com.cmd  BY <1>5, <1>6 DEF Call, Mailbox
  <2> QED  BY <1>2, <1>3, <1>4, <1>6, <2>1 DEF IInv, CountInv, AllOps, Forwarded
<1>7. CASE o = "notification_on"
  <2>1. com'.recenter = com.recenter /\ com'.cmd = com.cmd  BY <1>5, <1>7 DEF Call, Mailbox
  <2> QED  BY <1>2, <1>3, <1>4, <1>7, <2>1 DEF IInv, CountInv, AllOps, Forwarded
<1>8. CASE o \in {"wakeup", "suspend", "frames", "shutdown"}
  <2>1. com'.recenter = com.recenter /\ com'.cmd = CmdOf[o]  BY <1>5, <1>8 DEF Call, Mailbox
  <2>2. CmdOf["wakeup"] = "RUN_CMD" /\ CmdOf["suspend"] = "PAUSE_CMD"
        /\ CmdOf["frames"] = "FRAMES_CMD" /\ CmdOf["shutdown"] = "STOP_CMD"
    BY DEF CmdOf
  <2> QED  BY <1>2, <1>3, <1>4, <1>8, <2>1, <2>2 DEF IInv, CountInv, AllOps, Forwarded
<1> QED  BY <1>1, <1>6, <1>7, <1>8 DEF AllOps

LEMMA StepCounted == IInv /\ [Next]_vars => CopyInv' /\ CountInv'
<1> SUFFICES ASSUME IInv, [Next]_vars PROVE CopyInv' /\ CountInv'  OBVIOUS
<1> USE DEF IInv, CopyInv, CountInv, Waiting, WaitingRecenter, Held
<1>t. /\ calls \in [AllOps -> Nat] /\ sent \in [Forwarded \cup {"RECENTER"} -> Nat]
      /\ com \in Mailbox
      /\ recenter \in BOOLEAN
  BY DEF TypeInv, TypeOK
<1>1. ASSUME NEW o \in Ops, Call(o) PROVE CopyInv' /\ CountInv'  BY <1>1, CallCounted
<1>2. CASE ClientExits  BY <1>2 DEF ClientExits, mainVars
<1>3. CASE Main
  <2> USE DEF clientVars, MainAt
  <2>1. CASE Poll  BY <2>1, <1>t DEF Poll, Forwarded, AllOps
  <2>2. CASE TakeCmd  BY <2>2, <1>t DEF TakeCmd, Forwarded, AllOps
  <2>3. CASE ClearCmd  BY <2>3, <1>t DEF ClearCmd, Mailbox, Forwarded, AllOps
  <2>4. CASE TakeRecenter  BY <2>4, <1>t DEF TakeRecenter, Forwarded, AllOps
  <2>5. CASE ClearRecenter  BY <2>5, <1>t DEF ClearRecenter, Mailbox, Forwarded, AllOps
  <2>6. CASE SendCmd  BY <2>6, <1>t DEF SendCmd, Forwarded, AllOps
  <2>7. CASE SendRecenter  BY <2>7, <1>t DEF SendRecenter, Forwarded, AllOps
  <2>8. CASE Quit  BY <2>8, <1>t DEF Quit, Forwarded, AllOps
  <2>9. CASE Finish  BY <2>9, <1>t DEF Finish, Forwarded, AllOps
  <2> QED  BY <1>3, <2>1, <2>2, <2>3, <2>4, <2>5, <2>6, <2>7, <2>8, <2>9 DEF Main
<1>4. CASE Reader
  <2>1. CASE LockForPose
    BY <2>1, <1>t DEF LockForPose, Mailbox, clientVars, mainVars
  <2>2. CASE Connect \/ Greet \/ Hangup \/ UnlockAfterPose \/ Timeout
    BY <2>2 DEF Connect, Greet, Hangup, UnlockAfterPose, Timeout, clientVars, mainVars
  <2> QED  BY <1>4, <2>1, <2>2 DEF Reader
<1>5. CASE Environment
  BY <1>5 DEF Environment, MasterLeaves, MasterServes, GuiCloses, clientVars, mainVars
<1>6. CASE UNCHANGED vars  BY <1>6 DEF vars, clientVars, mainVars
<1> QED  BY <1>1, <1>2, <1>3, <1>4, <1>5, <1>6 DEF Next

LEMMA Inductive == Spec => []IInv
<1>1. Init => IInv  BY InitTyped, InitCounted DEF IInv
<1>2. IInv /\ [Next]_vars => IInv'  BY StepTyped, StepCounted DEF IInv
<1> QED  BY <1>1, <1>2, PTL DEF Spec

-----------------------------------------------------------------------

\* Every variable keeps its type; in particular the reader gives up before it counts
\* below zero tries (ltr_srv_slave.c:84-131).
THEOREM TypeCorrect == Spec => []TypeOK
<1>1. IInv => TypeOK  BY DEF IInv, TypeInv
<1> QED  BY <1>1, Inductive, PTL

\* The master is sent no command more often than the client made the call, however
\* often the link breaks and the send is repeated (ltr_srv_slave.c:259-320).
THEOREM SentAtMostOnce == Spec => []AtMostOnce
<1>1. IInv => AtMostOnce
  BY DEF IInv, TypeInv, TypeOK, CountInv, Waiting, WaitingRecenter, Held, AtMostOnce, AllOps, Forwarded
<1> QED  BY <1>1, Inductive, PTL
=======================================================================
