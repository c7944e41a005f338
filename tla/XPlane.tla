------------------------------- MODULE XPlane -------------------------------
(***************************************************************************)
(* The X-Plane plugin (xlinuxtrack9.c).  Everything runs on the            *)
(* simulator's thread: commands, the flight-loop callback once a frame,    *)
(* messages, dataref accessors.  The plugin drives the pilot's head only   *)
(* in the 3D cockpit, relative to the position the head had on the first   *)
(* frame after tracking was switched on, and is expected to put the head   *)
(* back when it is switched off.                                           *)
(*                                                                         *)
(* A position is one integer (the code has three), a pose one integer that *)
(* stands for translation and rotation alike.  The simulator, the other    *)
(* plugin (PilotView) and the library behind linuxtrack.h are external.    *)
(***************************************************************************)
EXTENDS Integers

CONSTANTS Seats,      \* the head positions the simulator or the user chooses
          Poses,      \* the poses the library returns
          MaxOrders   \* bound on commands, view changes and moves

VARIABLES view,         \* "cockpit" (1026) or "other"
          head, roll,   \* the simulator's pilots_head_* datarefs
          pilotView,    \* the enable dataref of PilotView: "absent", "on", "off"
          base,         \* base_x, base_y, base_z
          current,      \* current_head_*
          active, posInit, freeze, initialized, control,
          pvPresent,    \* pv_present
          library,      \* what linuxtrack_get_tracking_state would answer
          asked,        \* the last of suspend and wakeup the plugin called
          window,       \* the set-up window: "none", "shown", "hidden"
          phase,        \* "loaded", "up", "stopped"
          shut,         \* linuxtrack_shutdown was called
          seat,         \* history: the last position chosen while not driven
          strayed,      \* history: the head was let go of away from its seat, or the seat
                        \* changed while it was driven
          orders

vars == <<view, head, roll, pilotView, base, current, active, posInit, freeze,
          initialized, control, pvPresent, library, asked, window, phase, shut,
          seat, strayed, orders>>

\* linuxtrack_get_pose returned an error.
NoPose == -1000

sim == <<view, head, roll>>
libs == <<library, asked, shut>>

Init ==
  /\ view = "cockpit" /\ head \in Seats /\ roll = 0
  /\ pilotView \in {"absent", "off"}
  /\ base = 0 /\ current = 0
  /\ active = FALSE /\ posInit = FALSE /\ freeze = FALSE
  /\ initialized = FALSE /\ control = FALSE /\ pvPresent = FALSE
  /\ library = "none" /\ asked = "none" /\ shut = FALSE
  /\ window = "none" /\ phase = "loaded"
  /\ seat = head /\ strayed = FALSE /\ orders = 0

Order == orders < MaxOrders /\ orders' = orders + 1

\* XPluginStart: linuxtrack_init fails (reported in a box, the plugin stays),
\* or leaves the library stopped until its slave reports otherwise.
Start ==
  /\ phase = "loaded" /\ phase' = "up" /\ control' = TRUE
  /\ library' \in {"failed", "STOPPED"}
  /\ UNCHANGED <<sim, pilotView, base, current, active, posInit, freeze,
                 initialized, pvPresent, asked, shut, window, seat, strayed, orders>>

\* External: the library's state as its slave reports it.
Reports ==
  /\ phase = "up" /\ library = "STOPPED" /\ library' = "RUNNING"
  /\ UNCHANGED <<sim, pilotView, base, current, active, posInit, freeze,
                 initialized, control, pvPresent, asked, shut, window, phase, seat,
                 strayed, orders>>

SetPilotView(on) ==
  pilotView' = IF pilotView = "absent" THEN "absent" ELSE IF on THEN "on" ELSE "off"

\* PV_Enabled_DR is looked up when a plane is loaded, never before.
SetEnabled(on) == IF pvPresent THEN SetPilotView(on) ELSE UNCHANGED pilotView

\* revertView
RevertView ==
  IF ~pvPresent /\ view = "cockpit" THEN head' = base /\ roll' = 0
  ELSE UNCHANGED <<head, roll>>

\* Mutant: switching on does not wait for the library.
ActivateEarly ==
  /\ phase = "up" /\ ~active /\ Order
  /\ active' = TRUE /\ posInit' = TRUE /\ freeze' = FALSE
  /\ asked' = "wakeup" /\ SetEnabled(TRUE)
  /\ UNCHANGED <<sim, base, current, initialized, control, pvPresent, library, shut,
                 window, phase, seat, strayed>>

\* The head is let go of elsewhere than where the plugin means to put it.  The base is
\* of an earlier session before the first frame and while tracking is off, and nothing
\* is put back away from the cockpit.
LettingGo(astray) == strayed' = (strayed \/ (astray /\ head' # seat))

Activate ==
  /\ phase = "up" /\ ~active /\ Order
  /\ initialized
  /\ active' = TRUE /\ posInit' = TRUE /\ freeze' = FALSE
  /\ asked' = "wakeup" /\ SetEnabled(TRUE)
  /\ UNCHANGED <<sim, base, current, initialized, control, pvPresent, library, shut,
                 window, phase, seat, strayed>>

\* Mutant: the head is not put back.
DeactivateLeaving ==
  /\ phase = "up" /\ active /\ Order
  /\ active' = FALSE
  /\ UNCHANGED sim /\ SetEnabled(FALSE) /\ asked' = "suspend"
  /\ LettingGo(posInit \/ view # "cockpit")
  /\ UNCHANGED <<base, current, posInit, freeze, initialized, control, pvPresent,
                 library, shut, window, phase, seat>>

\* deactivate is reached only while active, hence initialized.
Deactivate ==
  /\ phase = "up" /\ active /\ Order
  /\ active' = FALSE
  /\ RevertView /\ SetEnabled(FALSE) /\ asked' = "suspend"
  /\ LettingGo(posInit \/ view # "cockpit")
  /\ UNCHANGED <<view, base, current, posInit, freeze, initialized, control, pvPresent,
                 library, shut, window, phase, seat>>

\* cmd_cbk: run_cmd toggles, pause_cmd freezes (also while inactive).
Run == Activate \/ Deactivate

\* Mutant: releasing the pause takes a new base, like switching on does.
PauseAnew ==
  /\ phase = "up" /\ Order /\ freeze' = ~freeze /\ posInit' = (posInit \/ freeze)
  /\ UNCHANGED <<sim, pilotView, base, current, active, initialized, control,
                 pvPresent, libs, window, phase, seat, strayed>>

Pause ==
  /\ phase = "up" /\ Order /\ freeze' = ~freeze
  /\ UNCHANGED <<sim, pilotView, base, current, active, posInit, initialized, control,
                 pvPresent, libs, window, phase, seat, strayed>>

\* SetHeadCtrlRefCB, called by another plugin through the dataref.
SetControl(on) ==
  /\ phase = "up" /\ on # control /\ Order /\ control' = on
  /\ IF ~on /\ view = "cockpit" THEN RevertView ELSE UNCHANGED <<head, roll>>
  /\ LettingGo(~on /\ (posInit \/ ~active \/ view # "cockpit"))
  /\ UNCHANGED <<view, pilotView, base, current, active, posInit, freeze, initialized,
                 pvPresent, libs, window, phase, seat>>

\* The library's state is asked for until it is not STOPPED; an error is not.
Noticed == initialized \/ library # "STOPPED"

\* xlinuxtrackCallback: p is the pose read, or NoPose.
Callback(p) ==
  LET changed == view # "cockpit" /\ ~posInit
      start == IF posInit THEN head ELSE base
      failed == ~freeze /\ p = NoPose
      now == IF freeze \/ failed THEN current ELSE p
  IN /\ phase = "up"
     /\ posInit' = FALSE /\ base' = start /\ initialized' = Noticed
     /\ asked' = IF Noticed /\ ~initialized THEN "suspend" ELSE asked
     /\ current' = IF active THEN now ELSE current
     /\ IF active /\ ~failed /\ ~pvPresent /\ control
        THEN IF changed THEN roll' = 0 /\ UNCHANGED head
                        ELSE head' = start + now /\ roll' = now
        ELSE UNCHANGED <<head, roll>>
     /\ UNCHANGED <<view, pilotView, active, freeze, control, pvPresent, library, shut,
                    window, phase, seat, strayed, orders>>

\* XPluginReceiveMessage, XPLM_MSG_PLANE_LOADED: a new plane has another seat;
\* PilotView is switched on whether or not the plugin is active.
PlaneLoaded(p) ==
  /\ phase = "up" /\ Order
  /\ head' = p /\ roll' = 0 /\ seat' = p
  /\ strayed' = (active /\ ~posInit)
  /\ pvPresent' = (pilotView # "absent") /\ SetPilotView(TRUE)
  /\ UNCHANGED <<view, base, current, active, posInit, freeze, initialized, control,
                 libs, window, phase>>

\* External: the user changes the view, or moves the seat.
ChangeView ==
  /\ phase = "up" /\ Order
  /\ view' = IF view = "cockpit" THEN "other" ELSE "cockpit"
  /\ UNCHANGED <<head, roll, pilotView, base, current, active, posInit, freeze,
                 initialized, control, pvPresent, libs, window, phase, seat, strayed>>

MoveSeat(p) ==
  /\ phase = "up" /\ p # head /\ Order /\ head' = p
  /\ IF active /\ ~posInit /\ control /\ ~pvPresent THEN UNCHANGED <<seat, strayed>>
     ELSE seat' = p /\ strayed' = (active /\ ~posInit)
  /\ UNCHANGED <<view, roll, pilotView, base, current, active, posInit, freeze,
                 initialized, control, pvPresent, libs, window, phase>>

\* setupDialog and setupWindowHandler
ShowSetup ==
  /\ phase = "up" /\ window # "shown" /\ window' = "shown"
  /\ UNCHANGED <<sim, pilotView, base, current, active, posInit, freeze, initialized,
                 control, pvPresent, libs, phase, seat, strayed, orders>>

CloseSetup ==
  /\ phase = "up" /\ window = "shown" /\ window' = "hidden"
  /\ UNCHANGED <<sim, pilotView, base, current, active, posInit, freeze, initialized,
                 control, pvPresent, libs, phase, seat, strayed, orders>>

\* XPluginStop
Stop ==
  /\ phase = "up" /\ phase' = "stopped" /\ shut' = initialized
  /\ UNCHANGED <<sim, pilotView, base, current, active, posInit, freeze, initialized,
                 control, pvPresent, library, asked, window, seat, strayed, orders>>

Next ==
  \/ Start \/ Reports \/ Run \/ Pause \/ ChangeView \/ ShowSetup \/ CloseSetup \/ Stop
  \/ \E on \in BOOLEAN : SetControl(on)
  \/ \E p \in Poses \cup {NoPose} : Callback(p)
  \/ \E p \in Seats : PlaneLoaded(p) \/ MoveSeat(p)

Spec == Init /\ [][Next]_vars

-----------------------------------------------------------------------------
TypeOK ==
  /\ view \in {"cockpit", "other"} /\ pilotView \in {"absent", "on", "off"}
  /\ {active, posInit, freeze, initialized, control, pvPresent, shut, strayed}
        \subseteq BOOLEAN
  /\ asked \in {"none", "suspend", "wakeup"} /\ window \in {"none", "shown", "hidden"}
  /\ library \in {"none", "failed", "STOPPED", "RUNNING"}
  /\ phase \in {"loaded", "up", "stopped"} /\ orders \in 0..MaxOrders
  /\ seat \in Seats /\ {head, roll, base, current} \subseteq Int

\* From the frame in which the plugin notices the library, the slave has been
\* told to suspend exactly while the plugin is inactive: activate refuses to
\* act before that frame, which would tell it to suspend behind its back.
AskedAsActive == initialized => (asked = "wakeup" <=> active)

\* While the plugin drives the head, base is the seat the user chose, not a
\* position tracking put the head in during an earlier session: letting go in the
\* cockpit in mid-session, by the run command or the dataref of the head's control,
\* puts the head back, and nothing in between (views, freezes, PilotView) loses the
\* base (xlinuxtrack9.c:396-475).  Left out: letting go away from the cockpit, before
\* the first frame or with tracking off, and a seat changed in mid-session.
BaseIsSeat == active /\ ~posInit /\ ~strayed => base = seat

\* Refuted: BaseIsSeatAlways (active /\ ~posInit => base = seat: deactivated in
\* another view, or a plane loaded in mid-session), PilotViewAsActive
\* (pvPresent => (pilotView = "on" <=> active)), StopShuts (stopped => shut), and
\* NoRollLeft (~active => roll = 0: the view changes just before the command).
=============================================================================
