----------------------------- MODULE WineBridge -----------------------------
(***************************************************************************)
(* The Wine side of linuxtrack: NPClient.dll as games load it              *)
(* (wine_bridge/client/NPClient_main.c, rest.c), the mock TrackIR.exe it   *)
(* starts so that TIRViews.dll can run (wine_bridge/views/main.cpp), and   *)
(* the controller that pauses and recentres from a key                     *)
(* (wine_bridge/controller/dinput.cpp, main.cpp).                          *)
(*                                                                         *)
(* The arithmetic of the checksum and of the cipher is left out: a packet  *)
(* carries the key it was enhanced with.  Games, Wine's locks and mutexes  *)
(* and the keyboard are external.                                          *)
(***************************************************************************)
EXTENDS Integers, Sequences

CONSTANTS Games,        \* processes that load NPClient.dll
          Ids,          \* profile identifiers games register
          KeyOf,        \* identifier -> its key in gamedata.txt, Plain if it is
                        \* not encrypted, Absent if it is not there
          Plain, Absent,
          Scans,        \* scan codes of the keyboard, 1..255
          MaxEvents     \* bound on calls and key events

VARIABLES id,           \* game -> what it registered, Absent before
          crypted, table, \* game -> the library's static variables
          asked,        \* game -> "none", "suspend", "wakeup", "shutdown"
          packet,       \* game -> the key of the last data it was given
          exes,         \* TrackIR.exe processes: "new", "running"; by game
          mutex,        \* the game whose TrackIR.exe owns the mutex, or Absent
          locked,       \* NPClient.dll is locked by a game
          held,         \* the keys held down
          code,         \* the last two keys pressed since a release
          pauseCode, recenterCode, savedCodes,
          defining,     \* state: "RECEIVING", "DEF_PAUSE", "DEF_RECENTER"
          paused, control, \* the controller's flag; the last call it made
          events

vars == <<id, crypted, table, asked, packet, exes, mutex, locked, held, code,
          pauseCode, recenterCode, savedCodes, defining, paused, control, events>>

client == <<id, crypted, table, asked, packet>>
views == <<exes, mutex, locked>>
keys == <<held, code, pauseCode, recenterCode, savedCodes, defining, paused, control>>

NoCode == <<>>

Init ==
  /\ id = [g \in Games |-> Absent] /\ crypted = [g \in Games |-> FALSE]
  /\ table = [g \in Games |-> Plain] /\ asked = [g \in Games |-> "none"]
  /\ packet = [g \in Games |-> Plain]
  /\ exes = [g \in Games |-> "none"] /\ mutex = Absent /\ locked = FALSE
  /\ held = {} /\ code = NoCode /\ pauseCode = NoCode /\ recenterCode = NoCode
  /\ savedCodes = <<NoCode, NoCode>>
  /\ defining = "RECEIVING" /\ paused = FALSE /\ control = "none"
  /\ events = 0

Event == events < MaxEvents /\ events' = events + 1

\* Mutant: a game that is not encrypted leaves the flag of the one before it.
LoadKeySticky(g, i) ==
  /\ crypted' = [crypted EXCEPT ![g] = @ \/ KeyOf[i] \notin {Plain, Absent}]
  /\ table' = [table EXCEPT ![g] = IF KeyOf[i] \in {Plain, Absent} THEN @ ELSE KeyOf[i]]

\* The game's description, when gamedata.txt has one, decides on encryption.
LoadKey(g, i) ==
  IF KeyOf[i] = Absent THEN UNCHANGED <<crypted, table>>
  ELSE /\ crypted' = [crypted EXCEPT ![g] = (KeyOf[i] # Plain)]
       /\ table' = [table EXCEPT ![g] = IF KeyOf[i] = Plain THEN @ ELSE KeyOf[i]]

\* NPCLIENT_NP_RegisterProgramProfileID: linuxtrack_init can fail, which leaves
\* the key loaded.  sharedLock closes the file it locked, which unlocks it.
Register(g, i, ok) ==
  /\ asked[g] # "shutdown" /\ Event
  /\ LoadKey(g, i) /\ id' = [id EXCEPT ![g] = i]
  /\ IF ok THEN /\ asked' = [asked EXCEPT ![g] = "suspend"]
                /\ exes' = [exes EXCEPT ![g] = IF @ = "none" THEN "new" ELSE @]
           ELSE UNCHANGED <<asked, exes>>
  /\ UNCHANGED <<packet, mutex, locked, keys>>

\* NPCLIENT_NP_StartDataTransmission, NPCLIENT_NP_StopDataTransmission
Transmission(g, on) ==
  /\ asked[g] # "shutdown" /\ Event
  /\ asked' = [asked EXCEPT ![g] = IF on THEN "wakeup" ELSE "suspend"]
  /\ UNCHANGED <<id, crypted, table, packet, views, keys>>

\* NPCLIENT_NP_GetData, enhance
GetData(g) ==
  /\ asked[g] # "shutdown"
  /\ packet' = [packet EXCEPT ![g] = IF crypted[g] THEN table[g] ELSE Plain]
  /\ UNCHANGED <<id, crypted, table, asked, views, keys, events>>

\* DllMain, DLL_PROCESS_DETACH
Detach(g) ==
  /\ asked[g] # "shutdown" /\ asked' = [asked EXCEPT ![g] = "shutdown"]
  /\ UNCHANGED <<id, crypted, table, packet, views, keys, events>>

\* Mutant: the mutex is made, not waited for.
ExeStartEager(g) ==
  /\ exes[g] = "new" /\ exes' = [exes EXCEPT ![g] = "running"]
  /\ mutex' = IF mutex = Absent THEN g ELSE mutex
  /\ UNCHANGED <<client, locked, keys, events>>

\* WinMain of TrackIR.exe: a second one ends at once.
ExeStart(g) ==
  /\ exes[g] = "new"
  /\ IF mutex = Absent THEN mutex' = g /\ exes' = [exes EXCEPT ![g] = "running"]
     ELSE UNCHANGED mutex /\ exes' = [exes EXCEPT ![g] = "none"]
  /\ UNCHANGED <<client, locked, keys, events>>

\* TimerProcedure of a hidden one ends it when nobody has NPClient.dll locked;
\* the user's Quit ends it too.
ExeEnds(g) ==
  /\ exes[g] = "running" /\ exes' = [exes EXCEPT ![g] = "none"]
  /\ mutex' = IF mutex = g THEN Absent ELSE mutex
  /\ UNCHANGED <<client, locked, keys, events>>

\* kbi_msg_loop, a key pressed: update_code keeps two keys.
KeyDown(k) ==
  LET now == IF Len(code) = 0 THEN <<k>> ELSE <<code[Len(code)], k>>
      pauses == now = pauseCode
  IN /\ k \notin held /\ Event
     /\ held' = held \cup {k} /\ code' = now
     /\ paused' = IF pauses THEN ~paused ELSE paused
     /\ control' = IF now = recenterCode THEN "recenter"
                   ELSE IF pauses THEN IF paused THEN "wakeup" ELSE "suspend"
                   ELSE control
     /\ UNCHANGED <<client, views, pauseCode, recenterCode, savedCodes, defining>>

\* Mutant: releasing a key that was not the last one keeps the code.
KeyUpLast(k) ==
  /\ k \in held /\ Event
  /\ held' = held \ {k}
  /\ code' = IF code # NoCode /\ code[Len(code)] = k THEN NoCode ELSE code
  /\ pauseCode' = IF defining = "DEF_PAUSE" THEN code ELSE pauseCode
  /\ recenterCode' = IF defining = "DEF_RECENTER" THEN code ELSE recenterCode
  /\ defining' = "RECEIVING"
  /\ UNCHANGED <<client, views, savedCodes, paused, control>>

\* A key released: what was pressed becomes the key being defined, even nothing.
KeyUp(k) ==
  /\ k \in held /\ Event
  /\ held' = held \ {k} /\ code' = NoCode
  /\ pauseCode' = IF defining = "DEF_PAUSE" THEN code ELSE pauseCode
  /\ recenterCode' = IF defining = "DEF_RECENTER" THEN code ELSE recenterCode
  /\ defining' = "RECEIVING"
  /\ UNCHANGED <<client, views, savedCodes, paused, control>>

\* kbi_set_state, from WindowProcedure's buttons
Redefine(what) ==
  /\ Event /\ defining' = what
  /\ UNCHANGED <<client, views, held, code, pauseCode, recenterCode, savedCodes, paused,
                 control>>

\* kbi_close with write_prefs, then the controller's next start: kbi_init with
\* read_prefs.  Nothing is written while one of the two is not set.
Restart ==
  /\ Event
  /\ savedCodes' = IF NoCode \in {pauseCode, recenterCode} THEN savedCodes
                   ELSE <<pauseCode, recenterCode>>
  /\ pauseCode' = savedCodes'[1] /\ recenterCode' = savedCodes'[2]
  /\ code' = NoCode /\ defining' = "RECEIVING" /\ paused' = FALSE /\ control' = "none"
  /\ UNCHANGED <<client, views, held>>

Next ==
  \/ \E g \in Games : \/ GetData(g) \/ Detach(g) \/ ExeStart(g) \/ ExeEnds(g)
                      \/ \E i \in Ids, ok \in BOOLEAN : Register(g, i, ok)
                      \/ \E on \in BOOLEAN : Transmission(g, on)
  \/ \E k \in Scans : KeyDown(k) \/ KeyUp(k)
  \/ \E what \in {"DEF_PAUSE", "DEF_RECENTER"} : Redefine(what)
  \/ Restart

Spec == Init /\ [][Next]_vars

-----------------------------------------------------------------------------
TypeOK ==
  /\ id \in [Games -> Ids \cup {Absent}] /\ crypted \in [Games -> BOOLEAN]
  /\ asked \in [Games -> {"none", "suspend", "wakeup", "shutdown"}]
  /\ exes \in [Games -> {"none", "new", "running"}] /\ mutex \in Games \cup {Absent}
  /\ held \subseteq Scans /\ Len(code) =< 2 /\ {locked, paused} \subseteq BOOLEAN
  /\ defining \in {"RECEIVING", "DEF_PAUSE", "DEF_RECENTER"}
  /\ control \in {"none", "suspend", "wakeup", "recenter"} /\ events \in 0..MaxEvents

\* A game that gamedata.txt describes is given data it can read, whatever was
\* registered before it: encrypted with its own key, or plain.
KeyOfGame ==
  \A g \in Games : id[g] # Absent /\ KeyOf[id[g]] # Absent =>
     IF crypted[g] THEN table[g] = KeyOf[id[g]] ELSE KeyOf[id[g]] = Plain

\* However many games start one, at most one TrackIR.exe runs.
OneViews == \A g, h \in Games : exes[g] = "running" /\ exes[h] = "running" => g = h

\* A combination is made of keys that are down together: no order of presses
\* and releases lets a key that is up take part in pausing or recentring.
CodeHeld == \A i \in 1..Len(code) : code[i] \in held

\* Refuted: PlainUnlessKnown (KeyOf[id[g]] = Absent => ~crypted[g]: an unknown
\* game keeps the cipher of the one before it), ViewsWhilePlayed (TrackIR.exe
\* is told to go only when no game has the file locked: locked never holds,
\* so it ends on its first tick), KeysKept (Restart keeps the keys: with one
\* of them not set the other is lost).
=============================================================================
