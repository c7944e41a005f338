----------------------------- MODULE MCClients -----------------------------
(***************************************************************************)
(* The programs of Clients on a small instance: a behaviour is one of a    *)
(* single module, as subject says, and never leaves the initial state of   *)
(* the others.                                                             *)
(***************************************************************************)
EXTENDS Clients, TLC

VARIABLE subject

mcVars == <<subject, clientVars>>

\* In the order the library looks them up.
SomeFunctions == <<"ltr_init", "ltr_shutdown", "ltr_suspend", "ltr_get_abs_pose", "ltr_wait">>
AnEnvPlace == <<"e1">>
TwoPlaces == <<"p1", "p2">>
TwoAddresses == <<"a1", "a2">>

\* Points in the order they were found: none, unsorted rows, ties.
SomePictures == {<<>>, <<<<0, 0>>, <<1, 0>>, <<0, 1>>>>, <<<<0, 1>>, <<0, 0>>, <<0, 2>>, <<1, 1>>>>}

\* Games of gamedata.txt: two with keys, one without, one that is not there.
SomeKeys == "a" :> "ka" @@ "b" :> "kb" @@ "c" :> "plain" @@ "d" :> "absent"

\* Directories: empty, complete with something odd, a damaged file first, no views.
SomeTrees == {<<>>, <<"f1", "views", "other", "game">>, <<"game", "views", "badgame", "views", "f1">>,
              <<"views", "game", "f1">>}

SomeAngles == {-1, 0, 2}

\* ClientsInit; where a module has several initial states the others need one of them only.
MCInit ==
    /\ subject \in {"library", "command", "osc", "plugin", "bridge", "mouse", "keyboard",
                    "button", "firmware"}
    /\ Library!Init
    /\ subject = "library" \/ (~env /\ ~config /\ \A p \in Library!Places : lbLibrary[p] = {})
    /\ Command!Init
    /\ subject = "command" \/ (output = "udp" /\ \A p \in DOMAIN peer : peer[p] = "gone")
    /\ Osc!Init /\ (subject = "osc" \/ osSlave = "gone")
    /\ Plugin!Init /\ (subject = "plugin" \/ (head = 0 /\ pilotView = "off"))
    /\ Mouse!Init /\ (subject = "mouse" \/ setup = "s")
    /\ Keyboard!Init
    /\ IF subject = "keyboard" THEN others[1] # {3} /\ others[3] = {}
       ELSE (\A k \in DOMAIN others : others[k] = {}) /\ (\A h \in DOMAIN saved : saved[h] = Keyboard!NoKey)
    /\ Button!Init /\ (subject = "button" \/ ~served)
    /\ Firmware!Init /\ (subject = "firmware" \/ ~wineInitialized)
    /\ Bridge!Init

MCNext ==
    /\ UNCHANGED subject
    /\ \/ subject = "library" /\ UseLibrary
       \/ subject = "command" /\ RunCommand
       \/ subject = "osc" /\ SendPoses
       \/ subject = "plugin" /\ RunPlugin
       \/ subject = "bridge" /\ PlayGames
       \/ subject = "mouse" /\ RunMickey
       \/ subject = "keyboard" /\ AssignKeys
       \/ subject = "button" /\ ClickButtons
       \/ subject = "firmware" /\ ExtractFirmware

\* What each module assumes: a program goes on, timers fire, a thread runs.
MCFairness ==
    /\ WF_commandVars(subject = "command" /\ Command!Step)
    /\ WF_mouseVars(subject = "mouse" /\ Mouse!CountDown)
    /\ WF_mouseVars(subject = "mouse" /\ Mouse!TryOut)
    /\ WF_mouseVars(subject = "mouse" /\ (Mouse!CentredOnly \/ Mouse!Centred \/ Mouse!Calibrated))
    /\ WF_buttonVars(subject = "button" /\ Button!Thread)
    /\ WF_firmwareVars(subject = "firmware" /\ Firmware!Progress)

MCSpec == MCInit /\ [][MCNext]_mcVars /\ MCFairness

\* What was begun ends: a program told to end (ltr_pipe.c:480-545, 1117-1285), a
\* calibration (mickey.cpp:193-221), the thread that clicks when the window goes
\* (mickey.cpp:227-280), an extraction, which had the buttons disabled
\* (extractor.cpp).
ClientsEnd ==
    \/ subject = "command" /\ Command!Begun
    \/ subject = "mouse" /\ Mouse!Begun
    \/ subject = "button" /\ Button!Begun
    \/ subject = "firmware" /\ Firmware!Begun
    ~>
    \/ subject = "command" /\ Command!Over
    \/ subject = "mouse" /\ Mouse!Over
    \/ subject = "button" /\ Button!Over
    \/ subject = "firmware" /\ Firmware!Over
=============================================================================
