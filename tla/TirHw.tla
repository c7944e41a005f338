------------------------------ MODULE TirHw ------------------------------
(***************************************************************************)
(* How the TrackIR and SmartNav cameras are opened, started, stopped and   *)
(* closed (tir_hw.c, libusb_ifc.c, tir_driver.c).  An operation is a       *)
(* sequence of packets and checks, one for each kind of camera, and the    *)
(* camera obeys one packet at a time, as in the simulator that comes with  *)
(* the program (tir4_model.cpp, sn3_model.cpp, tir_model.h).  The camera   *)
(* keeps its state when the program ends in the middle of a sequence, and  *)
(* may be unplugged at any time.  Delays, registers that only tune the     *)
(* picture and requests whose answer is not looked at are left out.        *)
(***************************************************************************)
EXTENDS Integers, Sequences

CONSTANTS Kinds,        \* kinds of cameras looked at
          MaxOpens,     \* bound: times the camera is opened
          MaxPauses,    \* bound: times it is paused
          Troubles      \* what may go wrong once: "crash", "unplug", "silence", "no file",
                        \* "refused"

AllKinds == {"tir2", "tir3", "tir4", "tir5", "tir5v3", "sn3", "sn4"}

VARIABLES
    kind, plugged,  \* the camera, and whether this handle still reaches it
    dev,            \* its state
    todo,           \* what is left of the sequence being executed
    phase,          \* of the driver: "new", "opening", "running", "paused", ...
    irOn, signals,  \* ir_on and the preference for status signals
    status,         \* the last status read
    handle, owner,  \* the static handle, and whose claim the kernel knows of
    claimed,        \* interface_claimed
    trouble, opens, pauses

host == <<irOn, signals, status, handle, owner, claimed>>
vars == <<kind, plugged, dev, todo, phase, host, trouble, opens, pauses>>

\* Whatever a program that used the camera before has left.
Left ==
    [video : BOOLEAN, camera : BOOLEAN, leds : {{}, {"level"}, {"ir", "level", "red", "green", "blue"}},
     fw : {"none", "old", "good"}, active : BOOLEAN, mode : {0, 4}]

Fresh == [video |-> FALSE, camera |-> FALSE, leds |-> {}, fw |-> "none", active |-> FALSE, mode |-> 0]

NoStatus == [fw |-> "none", cfg |-> 0]

Init ==
    /\ kind \in Kinds /\ plugged = TRUE /\ phase = "new" /\ todo = <<>>
    /\ dev \in {d \in Left : (d.active => d.fw # "none")
                             /\ (kind = "tir5v3" \/ d.mode = 0)
                             /\ (kind \in {"tir4", "sn4"} \/ d.fw = "none")}
    /\ irOn = TRUE /\ signals \in BOOLEAN /\ status = NoStatus
    /\ handle = "none" /\ owner = "none" /\ claimed = FALSE
    /\ trouble = "none" /\ opens = 0 /\ pauses = 0

-----------------------------------------------------------------------
(* The packets, and what the camera does with them. *)

Video(on) == <<"video", on>>
Led(led, on) == <<"led", led, on>>
Register(on) == <<"led", "level", on>>   \* 0x19 0x09, how bright the infrared lights of a TrackIR 5 are
CameraStop == <<"camera stop">>
FpgaInit == <<"fpga init">>
CfgReload == <<"cfg reload">>
Mode(n) == <<"mode", n>>
Check(what) == <<"check", what>>

Obey(d, packet) ==
    CASE packet[1] = "video" -> [d EXCEPT !.video = packet[2], !.camera = @ \/ packet[2]]
      [] packet[1] = "camera stop" -> [d EXCEPT !.camera = FALSE]
      [] packet[1] = "led" -> [d EXCEPT !.leds = IF packet[3] THEN @ \cup {packet[2]} ELSE @ \ {packet[2]}]
      [] packet[1] = "fpga init" -> [d EXCEPT !.fw = "none", !.active = FALSE]
      [] packet[1] = "cfg reload" -> [d EXCEPT !.active = TRUE]
      [] packet[1] = "mode" -> [d EXCEPT !.mode = packet[2]]

\* What lights the infrared lights: their switch, 0x10 0x80, or in a TrackIR 5 their level, a register apart.
Lights == IF kind \in {"tir5", "tir5v3"} THEN "level" ELSE "ir"

\* Data come from a camera in this state.
Streams(d) == IF kind = "tir5v3" THEN d.mode = 4 ELSE d.video /\ d.camera

AllOff == <<Led("ir", FALSE), Led("red", FALSE), Led("green", FALSE), Led("blue", FALSE)>>

When(condition, packets) == IF condition THEN packets ELSE <<>>

-----------------------------------------------------------------------
(* stop_camera_... *)

StopTir2 == <<Led("red", FALSE), Led("green", FALSE), Led("blue", FALSE), Led("ir", FALSE),
              CameraStop, Led("ir", FALSE)>>
StopTir3 == <<Video(FALSE), Video(FALSE), Led("ir", FALSE), CameraStop,
              Led("red", FALSE), Led("green", FALSE), Led("blue", FALSE)>>
StopTir4 == <<Video(FALSE)>> \o AllOff \o <<CameraStop>>


StopTir5 == <<Register(FALSE), Video(FALSE), CameraStop, Register(FALSE), Led("ir", FALSE)>>
StopTir5v3 == <<Mode(5), Register(FALSE), Mode(6), CameraStop>>
StopSn3 == <<Video(FALSE), Led("green", FALSE), Led("ir", FALSE), Led("red", FALSE),
             Led("blue", FALSE), CameraStop>>
StopSn4 == <<Video(FALSE)>> \o AllOff \o <<CameraStop>>

Stop == CASE kind = "tir2" -> StopTir2 [] kind = "tir3" -> StopTir3 [] kind = "tir4" -> StopTir4
          [] kind = "tir5" -> StopTir5 [] kind = "tir5v3" -> StopTir5v3
          [] kind = "sn3" -> StopSn3 [] kind = "sn4" -> StopSn4

(* set_status_led_... *)

RedGreen(running) ==
    IF running THEN <<Led("red", FALSE), Led("green", TRUE)>>
               ELSE <<Led("green", FALSE), Led("red", TRUE)>>

SetStatusLed(running) ==
    CASE kind \in {"tir2", "tir3", "tir4", "sn4"} -> When(signals, RedGreen(running))
      [] kind = "sn3" -> When(signals, <<Led("green", running)>>)
      [] kind \in {"tir5", "tir5v3"} -> <<>>

(* start_camera_... *)

IrIfWanted == When(irOn, <<Led("ir", TRUE)>>)

StartTir2 == <<Video(TRUE)>> \o IrIfWanted \o SetStatusLed(TRUE) \o IrIfWanted
StartTir3 == <<CameraStop>> \o IrIfWanted \o <<Video(TRUE)>> \o SetStatusLed(TRUE)
StartTir4 == StopTir4 \o <<Video(TRUE)>> \o IrIfWanted \o SetStatusLed(TRUE)
StartTir5 == StopTir5 \o <<Video(TRUE), Register(irOn)>>
StartTir5v3 == <<Register(irOn), Mode(4), Register(irOn)>>
StartSn3 == <<Video(TRUE), Led("green", TRUE)>> \o IrIfWanted \o <<Led("blue", TRUE)>>
StartSn4 == <<Video(TRUE)>> \o IrIfWanted \o SetStatusLed(TRUE)

Start == CASE kind = "tir2" -> StartTir2 [] kind = "tir3" -> StartTir3 [] kind = "tir4" -> StartTir4
           [] kind = "tir5" -> StartTir5 [] kind = "tir5v3" -> StartTir5v3
           [] kind = "sn3" -> StartSn3 [] kind = "sn4" -> StartSn4

(* init_camera_... *)

InitTir2 == AllOff \o <<Video(FALSE)>> \o AllOff \o <<Check("rom")>>
InitTir3 == StopTir3 \o <<Check("rom")>>
InitTir4 == StopTir4 \o <<Check("rom"), Check("status"), Check("file"), Check("upload"),
                          Check("status"), Check("sum"), Check("configured")>>
InitTir5 == StopTir5 \o <<Register(TRUE), Check("file"), FpgaInit, <<"firmware">>, CameraStop,
                          CfgReload, Register(TRUE), Register(TRUE), CameraStop, Register(TRUE),
                          Video(TRUE)>>
InitTir5v3 == <<Mode(0), CameraStop, Mode(1), Mode(2), Mode(3), Register(TRUE)>>
InitSn3 == StopSn3 \o <<Check("rom")>>
InitSn4 == StopSn4 \o <<Check("rom"), Check("status"), Check("file"), Check("upload")>>

InitCamera ==
    CASE kind = "tir2" -> InitTir2 [] kind = "tir3" -> InitTir3 [] kind = "tir4" -> InitTir4
      [] kind = "tir5" -> InitTir5 [] kind = "tir5v3" -> InitTir5v3
      [] kind = "sn3" -> InitSn3 [] kind = "sn4" -> InitSn4

(* close_camera_... *)

CloseTir5 == StopTir5 \o <<Register(TRUE), Led("ir", FALSE), FpgaInit>>

\* Mutant: the lights stay as they were set with the exposure.
CloseTir5v3Lit == StopTir5v3 \o <<Register(TRUE), Mode(6), CameraStop, Mode(0)>>
CloseTir5v3 == StopTir5v3 \o <<Register(TRUE), Register(FALSE), Mode(6), CameraStop, Mode(0)>>

CloseCamera ==
    (CASE kind \in {"tir2", "tir3"} -> Stop \o AllOff [] kind = "tir5" -> CloseTir5
       [] kind = "tir5v3" -> CloseTir5v3 [] kind \in {"tir4", "sn3", "sn4"} -> Stop)
    \o <<<<"finish">>>>

-----------------------------------------------------------------------
(* The sequences. *)

Idle == todo = <<>>
Doing(what) == todo # <<>> /\ Head(todo) = what
Tripped(t) == t \in Troubles /\ trouble = "none" /\ trouble' = t

Packet ==
    /\ todo # <<>> /\ Head(todo)[1] \in {"video", "camera stop", "led", "fpga init", "cfg reload", "mode"}
    /\ todo' = Tail(todo)
    /\ dev' = IF plugged THEN Obey(dev, Head(todo)) ELSE dev
    /\ UNCHANGED <<kind, plugged, phase, host, trouble, opens, pauses>>

\* The file's contents are sent, and stay there if all of it arrives.
Firmware ==
    /\ Doing(<<"firmware">>) /\ todo' = Tail(todo)
    /\ dev' = IF plugged THEN [dev EXCEPT !.fw = "good"] ELSE dev
    /\ UNCHANGED <<kind, plugged, phase, host, trouble, opens, pauses>>

\* The opening fails, and what was done so far stays as it is.
Fail ==
    /\ phase' = "failed" /\ todo' = <<>>
    /\ UNCHANGED <<kind, plugged, dev, host, opens, pauses>>

ReadRom ==
    /\ Doing(Check("rom"))
    /\ \/ ~plugged /\ Fail
       \/ plugged /\ todo' = Tail(todo) /\ UNCHANGED <<kind, plugged, dev, phase, host, opens, pauses>>
    /\ UNCHANGED trouble

\* After twenty requests without an answer the bytes of another packet are taken
\* for the status.
ReadStatus ==
    /\ Doing(Check("status"))
    /\ \/ ~plugged /\ Fail /\ UNCHANGED trouble
       \/ /\ plugged /\ todo' = Tail(todo)
          /\ \/ status' = [fw |-> dev.fw, cfg |-> IF dev.active THEN 2 ELSE 1] /\ UNCHANGED trouble
             \/ Tripped("silence") /\ status' \in [fw : {"none", "old", "good"}, cfg : 0 .. 2]
          /\ UNCHANGED <<kind, plugged, dev, phase, irOn, signals, handle, owner, claimed, opens, pauses>>

\* load_firmware
FindFile ==
    /\ Doing(Check("file"))
    /\ \/ Tripped("no file") /\ Fail
       \/ /\ todo' = Tail(todo)
          /\ UNCHANGED <<kind, plugged, dev, phase, host, trouble, opens, pauses>>

\* The firmware is sent when the camera has none or another one.  The SmartNav 4
\* is configured on this occasion only.
Upload ==
    /\ Doing(Check("upload"))
    /\ todo' = When(status.fw # "good",
                    <<FpgaInit, <<"firmware">>>>
                    \o When(kind = "sn4", <<Check("status"), Check("sum"), Check("configured")>>))
               \o Tail(todo)
    /\ UNCHANGED <<kind, plugged, dev, phase, host, trouble, opens, pauses>>

CheckSum ==
    /\ Doing(Check("sum"))
    /\ \/ status.fw # "good" /\ Fail
       \/ /\ status.fw = "good" /\ todo' = Tail(todo)
          /\ UNCHANGED <<kind, plugged, dev, phase, host, opens, pauses>>
    /\ UNCHANGED trouble

\* Mutant: a camera with the right firmware is taken as configured.
ConfigureNone ==
    /\ Doing(Check("configured")) /\ todo' = Tail(todo)
    /\ UNCHANGED <<kind, plugged, dev, phase, host, trouble, opens, pauses>>

\* With flag 1 the configuration is loaded, and the status read until it is 2.
Configure ==
    /\ Doing(Check("configured"))
    /\ \/ status.cfg = 0 /\ Fail
       \/ /\ status.cfg # 0
          /\ todo' = When(status.cfg = 1, <<CfgReload, Check("status"), Check("wait")>>) \o Tail(todo)
          /\ UNCHANGED <<kind, plugged, dev, phase, host, opens, pauses>>
    /\ UNCHANGED trouble

AwaitConfigured ==
    /\ Doing(Check("wait"))
    /\ todo' = IF status.cfg = 2 THEN Tail(todo) ELSE <<Check("status")>> \o todo
    /\ UNCHANGED <<kind, plugged, dev, phase, host, trouble, opens, pauses>>

-----------------------------------------------------------------------
(* Opening, pausing, closing. *)

\* ltr_int_open_tir, up to the initialization.  The handle of an opening that
\* failed was not closed, and the kernel still knows its claim.
Open ==
    /\ phase \in {"new", "released", "failed"} /\ opens < MaxOpens /\ opens' = opens + 1
    /\ irOn' \in BOOLEAN
    /\ IF ~plugged
         THEN /\ phase' = "failed"                       \* find_tir finds no camera
              /\ UNCHANGED <<todo, handle, owner, claimed, trouble>>
         ELSE \/ /\ Tripped("refused")                   \* libusb_open fails and is not noticed
                 /\ phase' = IF handle = "open" THEN "failed" ELSE "undefined"
                 /\ UNCHANGED <<todo, handle, owner, claimed>>
              \/ /\ handle' = "open" /\ UNCHANGED trouble
                 /\ IF owner = "none"
                      THEN phase' = "opening" /\ owner' = "this" /\ claimed' = TRUE
                           /\ todo' = <<<<"init">>>>
                      ELSE phase' = "failed" /\ claimed' = FALSE /\ UNCHANGED <<owner, todo>>
    /\ UNCHANGED <<kind, plugged, dev, signals, status, pauses>>

InitStarts ==
    /\ Doing(<<"init">>) /\ todo' = InitCamera \o <<<<"start">>>>
    /\ UNCHANGED <<kind, plugged, dev, phase, host, trouble, opens, pauses>>

StartStarts ==
    /\ Doing(<<"start">>) /\ todo' = Start
    /\ UNCHANGED <<kind, plugged, dev, phase, host, trouble, opens, pauses>>

Done ==
    /\ Idle /\ phase \in {"opening", "resuming", "pausing"}
    /\ phase' = IF phase = "pausing" THEN "paused" ELSE "running"
    /\ UNCHANGED <<kind, plugged, dev, todo, host, trouble, opens, pauses>>

Pause ==
    /\ Idle /\ phase = "running" /\ pauses < MaxPauses /\ pauses' = pauses + 1
    /\ phase' = "pausing" /\ todo' = Stop \o SetStatusLed(FALSE)
    /\ UNCHANGED <<kind, plugged, dev, host, trouble, opens>>

Resume ==
    /\ phase = "paused" /\ phase' = "resuming" /\ todo' = Start \o SetStatusLed(TRUE)
    /\ UNCHANGED <<kind, plugged, dev, host, trouble, opens, pauses>>

\* A request to stop, or no more data.
Close ==
    /\ Idle /\ phase = "running" /\ phase' = "closing" /\ todo' = CloseCamera
    /\ UNCHANGED <<kind, plugged, dev, host, trouble, opens, pauses>>

\* ltr_int_finish_usb
Finish ==
    /\ Doing(<<"finish">>) /\ todo' = <<>> /\ phase' = "released"
    /\ handle' = "closed" /\ claimed' = FALSE /\ owner' = "none"
    /\ UNCHANGED <<kind, plugged, dev, irOn, signals, status, trouble, opens, pauses>>

\* The program is killed; another one starts from its initial statics.
Crash ==
    /\ Tripped("crash") /\ phase' = "new" /\ todo' = <<>>
    /\ handle' = "none" /\ owner' = "none" /\ claimed' = FALSE
    /\ UNCHANGED <<kind, plugged, dev, irOn, signals, status, opens, pauses>>

Unplug ==
    /\ Tripped("unplug") /\ plugged' = FALSE /\ dev' = Fresh
    /\ UNCHANGED <<kind, todo, phase, host, opens, pauses>>

\* Plugged in again it is another device: the claims of the old one are gone.
Plug ==
    /\ ~plugged /\ Idle /\ phase \in {"new", "released", "failed"} /\ plugged' = TRUE /\ owner' = "none"
    /\ UNCHANGED <<kind, dev, todo, phase, irOn, signals, status, handle, claimed, trouble, opens, pauses>>

Sequence == Packet \/ Firmware \/ ReadRom \/ ReadStatus \/ FindFile \/ Upload \/ CheckSum \/ Configure
            \/ AwaitConfigured \/ InitStarts \/ StartStarts \/ Done \/ Finish

Next == Sequence \/ Open \/ Pause \/ Resume \/ Close \/ Crash \/ Unplug \/ Plug

Spec == Init /\ [][Next]_vars

-----------------------------------------------------------------------
(* Properties *)

TypeOK ==
    /\ phase \in {"new", "opening", "running", "pausing", "paused", "resuming", "closing",
                  "released", "failed", "undefined"}
    /\ dev.mode \in 0 .. 7 /\ dev.leds \subseteq {"ir", "level", "red", "green", "blue"}
    /\ claimed => handle = "open"
    /\ phase \in {"running", "pausing", "paused", "resuming", "closing"} => handle = "open"

\* A camera that runs sends pictures, and its infrared lights are on exactly when
\* the model is a passive one, whatever state the program before left it in, and
\* a TrackIR 4 has its firmware and configuration (tir_hw.c:889-910).
RunsAsAsked ==
    phase = "running" /\ plugged =>
        /\ Streams(dev) /\ (Lights \in dev.leds <=> irOn)
        /\ kind = "tir4" /\ trouble # "silence" => dev.fw = "good" /\ dev.active
        /\ kind = "sn4" /\ trouble # "silence" => dev.fw = "good"

\* What is off in a camera that was closed: of the TrackIR 5 the switch alone.
Doused == IF kind = "tir5" THEN "ir" ELSE Lights

\* A paused camera is dark and silent, and a closed one too, but for the level of a TrackIR 5; it can be
\* opened by others (tir_hw.c:1142-1229).
QuietWhenStopped ==
    /\ phase \in {"paused", "released"} /\ plugged => ~Streams(dev)
    /\ phase = "paused" /\ plugged => Lights \notin dev.leds
    /\ phase = "released" /\ plugged => Doused \notin dev.leds /\ owner = "none" /\ ~claimed

(* What the code does not keep. *)

\* A closed camera is dark: close_camera_tir5 sets the level again and then turns the switch off
\* (tir_hw.c:1203-1207).
DarkWhenClosed == phase = "released" /\ plugged => Lights \notin dev.leds

\* An opening that fails leaves the camera dark and the interface free.
FailsClean == phase = "failed" /\ plugged => Lights \notin dev.leds /\ owner = "none"

\* A SmartNav 4 runs with its configuration loaded.
Sn4Configured == phase = "running" /\ kind = "sn4" /\ plugged /\ trouble # "silence" => dev.active

\* A camera that may not be opened is noticed (libusb_ifc.c:222-225).
RefusalNoticed == phase # "undefined"
=======================================================================
