------------------------------- MODULE Clicks -------------------------------
(***************************************************************************)
(* The emulated mouse buttons: MickeyThread (mickey/mickey.cpp) reads the  *)
(* buttons of a SmartNav 4 from a socket (mickey/piper.c), the hot keys    *)
(* report theirs on the GUI thread, and both call mouseClass::click, which *)
(* writes the difference to the last report to the uinput device           *)
(* (mickey/mouse_linux.cpp, mickey/uinput_ifc.c) under a mutex.            *)
(*                                                                         *)
(* The fingers and the socket's other end are external.  At this commit    *)
(* nothing listens at ltr_sn4.socket (the driver's file is ltr_sn4.pipe),  *)
(* which is the initial state with served = FALSE.                         *)
(***************************************************************************)
EXTENDS Integers, Sequences, FiniteSets

CONSTANTS Buttons,      \* the buttons that can be emulated
          MaxEvents,    \* bound on presses and releases
          MaxTries      \* bound on the descriptors counted

VARIABLES served,       \* somebody listens at the socket
          socket,       \* reports under way to the thread: a sequence of sets
          hung,         \* the other end closed the socket
          fifo,         \* the thread has a socket
          pc,           \* the thread: "new", "connect", "fetch", "ended"
          finish,       \* MickeyThread::finish
          lost,         \* descriptors never closed after a failed connect
          keyHeld,      \* the buttons whose hot keys are held down
          snHeld,       \* the buttons of the SmartNav held down
          prevBtns,     \* clickm's prev_btns
          pressed,      \* the buttons the system sees pressed
          quitting,     \* ~Mickey waits for the thread
          events

vars == <<served, socket, hung, fifo, pc, finish, lost, keyHeld, snHeld, prevBtns,
          pressed, quitting, events>>

gui == <<keyHeld, quitting>>
wire == <<served, socket, hung, snHeld>>

Init ==
  /\ served \in BOOLEAN /\ socket = <<>> /\ hung = FALSE
  /\ fifo = FALSE /\ pc = "new" /\ finish = FALSE /\ lost = 0
  /\ keyHeld = {} /\ snHeld = {} /\ prevBtns = {} /\ pressed = {}
  /\ quitting = FALSE /\ events = 0

Event == events < MaxEvents /\ events' = events + 1

\* Mutant: the three tests for a changed button form an else-if chain.
ClickOne(btns) ==
  LET changed == (btns \ prevBtns) \cup (prevBtns \ btns)
      first == {b \in changed : \A c \in changed : b <= c}
  IN /\ pressed' = (pressed \ first) \cup (btns \cap first)
     /\ prevBtns' = btns

\* clickm: what changed since the last report is sent; btns replaces them all.
Click(btns) ==
  LET changed == (btns \ prevBtns) \cup (prevBtns \ btns)
  IN /\ pressed' = (pressed \ changed) \cup (btns \cap changed)
     /\ prevBtns' = btns

\* on_mouseHotKey_activated: the release of any hot key reports no button.
KeyPress(b) ==
  /\ ~quitting /\ b \notin keyHeld /\ Event
  /\ keyHeld' = keyHeld \cup {b} /\ Click({b})
  /\ UNCHANGED <<wire, fifo, pc, finish, lost, quitting>>

KeyRelease(b) ==
  /\ ~quitting /\ b \in keyHeld /\ Event
  /\ keyHeld' = keyHeld \ {b} /\ Click({})
  /\ UNCHANGED <<wire, fifo, pc, finish, lost, quitting>>

\* External: the driver reports the SmartNav's buttons, or goes away.
SnReports(btns) ==
  /\ fifo /\ ~hung /\ btns # snHeld /\ Event
  /\ snHeld' = btns /\ socket' = Append(socket, btns)
  /\ UNCHANGED <<served, hung, fifo, pc, finish, lost, gui, prevBtns, pressed>>

SnLeaves ==
  /\ fifo /\ ~hung /\ hung' = TRUE
  /\ UNCHANGED <<served, socket, snHeld, fifo, pc, finish, lost, gui, prevBtns, pressed,
                 events>>

\* MickeyThread::run begins by clearing finish.
Run ==
  /\ pc = "new" /\ pc' = "connect" /\ finish' = FALSE
  /\ UNCHANGED <<wire, fifo, lost, gui, prevBtns, pressed, events>>

\* The inner loop, left when there is a socket: prepareBtnChanel; on failure
\* ltr_int_connect_to_socket does not close the descriptor it made.
Connect ==
  /\ pc = "connect"
  /\ IF fifo THEN pc' = "fetch" /\ UNCHANGED <<fifo, lost>>
     ELSE IF finish THEN pc' = "ended" /\ UNCHANGED <<fifo, lost>>
     ELSE /\ fifo' = served /\ UNCHANGED pc
          /\ lost' = IF served \/ lost = MaxTries THEN lost ELSE lost + 1
  /\ UNCHANGED <<wire, finish, gui, prevBtns, pressed, events>>

\* Mutant: finish is looked at only when there is nothing to read.
FetchDeaf ==
  /\ pc = "fetch"
  /\ \/ /\ hung /\ pc' = "connect" /\ UNCHANGED <<socket, prevBtns, pressed>>
     \/ /\ ~hung /\ socket # <<>> /\ socket' = Tail(socket)
        /\ Click(Head(socket)) /\ UNCHANGED pc
     \/ /\ ~hung /\ socket = <<>> /\ UNCHANGED <<socket, prevBtns, pressed, pc>>
  /\ UNCHANGED <<served, hung, snHeld, fifo, finish, lost, gui, events>>

\* fetch_data: a report, a time-out, or a hang-up (polled first: reports under
\* way are given up).  finish is looked at after every call but a failed one.
Fetch ==
  /\ pc = "fetch"
  /\ \/ /\ hung /\ pc' = "connect" /\ UNCHANGED <<socket, prevBtns, pressed>>
     \/ /\ ~hung /\ finish /\ pc' = "ended"
        /\ socket' = (IF socket = <<>> THEN socket ELSE Tail(socket))
        /\ UNCHANGED <<prevBtns, pressed>>
     \/ /\ ~hung /\ ~finish /\ socket # <<>> /\ socket' = Tail(socket)
        /\ Click(Head(socket)) /\ UNCHANGED pc
     \/ /\ ~hung /\ ~finish /\ socket = <<>> /\ UNCHANGED <<socket, prevBtns, pressed, pc>>
  /\ UNCHANGED <<served, hung, snHeld, fifo, finish, lost, gui, events>>

\* ~Mickey: setFinish, then wait for the thread.
Quit ==
  /\ ~quitting /\ quitting' = TRUE /\ finish' = TRUE
  /\ UNCHANGED <<wire, fifo, pc, lost, keyHeld, prevBtns, pressed, events>>

Thread == Run \/ Connect \/ Fetch

Next ==
  \/ Thread \/ SnLeaves \/ Quit
  \/ \E b \in Buttons : KeyPress(b) \/ KeyRelease(b)
  \/ \E btns \in SUBSET Buttons : SnReports(btns)

Spec == Init /\ [][Next]_vars

\* The thread runs while the GUI waits for it.
FairSpec == Spec /\ WF_vars(Thread)

-----------------------------------------------------------------------------
TypeOK ==
  /\ {served, hung, fifo, finish, quitting} \subseteq BOOLEAN
  /\ {prevBtns, pressed, keyHeld, snHeld} \subseteq SUBSET Buttons
  /\ pc \in {"new", "connect", "fetch", "ended"} /\ lost \in 0..MaxTries
  /\ events \in 0..MaxEvents /\ \A i \in DOMAIN socket : socket[i] \subseteq Buttons

\* Two sources that overwrite each other's report leave no button pressed once
\* every key and every button is up and what was sent has been read; a driver
\* that hangs up with a button down leaves it so.
NothingStuck ==
  keyHeld = {} /\ snHeld = {} /\ socket = <<>> /\ ~hung /\ ~quitting => pressed = {}

\* Asked to finish after it has begun to run, the thread ends, whatever is
\* still under way to it, unless the driver hung up.
Begun == quitting /\ finish /\ pc # "new"
Over == pc = "ended" \/ hung
ThreadEnds == Begun ~> Over

\* Refuted: HeldIsPressed (keyHeld \subseteq pressed: the sources share one
\* report), QuitReturns (quitting ~> pc = "ended": after a hang-up the thread
\* goes round without looking at finish, and finish set before it ran is
\* cleared), NoneLost (lost = 0: one descriptor a second without a SmartNav).
=============================================================================
