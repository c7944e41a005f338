------------------------------ MODULE Clients ------------------------------
(***************************************************************************)
(* The programs that use the library, and what the Wine support consists   *)
(* of, together, and proofs about them for all values of their constants.  *)
(* They share nothing: a step is a step of one of them.                    *)
(***************************************************************************)
EXTENDS Integers, Sequences, WellFoundedInduction, TLAPS

CONSTANTS Functions, Optional, Forgotten, EnvPlaces, PrefixPlaces, LbCalls,
          Outputs, Formats, Addresses, PpTimeout, PpPoses, PpSignals, PpPeers,
          Pictures, Room, PipeSize, OsWaits, OsPoses,
          Seats, Poses, XpOrders,
          Games, Ids, KeyOf, Plain, Absent, Scans, WbEvents,
          Angles, Ranges, Setups, CentreDelay, CalDelay, TryDelay, MkPresses,
          HotKeyIds, Keys, Unknown, HkChanges,
          Buttons, ClEvents, ClTries,
          Blocks, Trees, ExStarts

VARIABLES lbLibrary, env, config, fun, libHandle, lbOpened, started, result, calls,
          output, format, ppPc, ppWaits, runState, recenter, terminate, ppTracker, recentered,
          pose, seen, fd, peer, out, hup, signals, peers,
          osPc, osWaits, loopOn, last, sent, copied, osSlave, com, notify, reader, message, pipe,
          silent, poses,
          view, head, roll, pilotView, base, current, active, posInit, freeze, initialized,
          xpControl, pvPresent, xpLibrary, xpAsked, window, phase, shut, seat, strayed, orders,
          id, crypted, table, wbAsked, packet, exes, mutex, locked, held, code, pauseCode,
          recenterCode, savedCodes, defining, paused, wbControl, wbEvents,
          mkState, updating, mkAsked, mkTracker, lastTracker, label, recenterFlag, settle, cal,
          apl, calibrating, high, low, prevHigh, guiRange, setup, oldSetup, newSetup, kept,
          escaped, presses,
          shortcutHash, grabbed, others, shown, saved, widget, filters, errHandler, hkChanges,
          served, socket, hung, fifo, clPc, finish, lost, keyHeld, snHeld, prevBtns, pressed,
          quitting, clEvents,
          buttons, download, wine, wineInitialized, pending, destPath, dirs, contents, link,
          thread, files, threadDest, found, everything, exState, overlapped, byBlob, starts

libraryVars == <<lbLibrary, env, config, fun, libHandle, lbOpened, started, result, calls>>
commandVars == <<output, format, ppPc, ppWaits, runState, recenter, terminate, ppTracker,
                 recentered, pose, seen, fd, peer, out, hup, signals, peers>>
oscVars == <<osPc, osWaits, loopOn, last, sent, copied, osSlave, com, notify, reader, message,
             pipe, silent, poses>>
pluginVars == <<view, head, roll, pilotView, base, current, active, posInit, freeze, initialized,
                xpControl, pvPresent, xpLibrary, xpAsked, window, phase, shut, seat, strayed,
                orders>>
bridgeVars == <<id, crypted, table, wbAsked, packet, exes, mutex, locked, held, code, pauseCode,
                recenterCode, savedCodes, defining, paused, wbControl, wbEvents>>
mouseVars == <<mkState, updating, mkAsked, mkTracker, lastTracker, label, recenterFlag, settle,
               cal, apl, calibrating, high, low, prevHigh, guiRange, setup, oldSetup, newSetup,
               kept, escaped, presses>>
keyboardVars == <<shortcutHash, grabbed, others, shown, saved, widget, filters, errHandler,
                  hkChanges>>
buttonVars == <<served, socket, hung, fifo, clPc, finish, lost, keyHeld, snHeld, prevBtns,
                pressed, quitting, clEvents>>
firmwareVars == <<buttons, download, wine, wineInitialized, pending, destPath, dirs, contents,
                  link, thread, files, threadDest, found, everything, exState, overlapped, byBlob,
                  starts>>

Library == INSTANCE Loader WITH MaxCalls <- LbCalls, library <- lbLibrary, opened <- lbOpened

Command == INSTANCE Pipe WITH
      Timeout <- PpTimeout, MaxPoses <- PpPoses, MaxSignals <- PpSignals, MaxPeers <- PpPeers,
      pc <- ppPc, waits <- ppWaits, tracker <- ppTracker

Osc == INSTANCE Notify WITH
      MaxWaits <- OsWaits, MaxPoses <- OsPoses, pc <- osPc, waits <- osWaits, slave <- osSlave

Plugin == INSTANCE XPlane WITH
      MaxOrders <- XpOrders, control <- xpControl, library <- xpLibrary, asked <- xpAsked

Bridge == INSTANCE WineBridge WITH
      MaxEvents <- WbEvents, asked <- wbAsked, control <- wbControl, events <- wbEvents

Mouse == INSTANCE Mickey WITH
      MaxPresses <- MkPresses, state <- mkState, asked <- mkAsked, tracker <- mkTracker

Keyboard == INSTANCE HotKeys WITH MaxChanges <- HkChanges, changes <- hkChanges

Button == INSTANCE Clicks WITH
      MaxEvents <- ClEvents, MaxTries <- ClTries, pc <- clPc, events <- clEvents

Firmware == INSTANCE Extractor WITH MaxStarts <- ExStarts, state <- exState

-----------------------------------------------------------------------
(* Mickey *)

ASSUME MouseAssumption ==
    /\ CentreDelay \in Nat \ {0} /\ CalDelay \in Nat \ {0} /\ TryDelay \in Nat \ {0}
    /\ MkPresses \in Nat

\* The two dialogs.
CalDialog == [step : {"none", "CENTER", "CALIBRATE", "CENTER_ONLY"}, cntr : 0 .. CentreDelay + CalDelay,
              runs : BOOLEAN, shown : BOOLEAN]
AplDialog == [cntr : 0 .. TryDelay, runs : BOOLEAN, shown : BOOLEAN]

\* What the dialogs and the tracker hold.
MouseTypes ==
    /\ cal \in CalDialog /\ apl \in AplDialog
    /\ apl.runs => apl.cntr > 0
    /\ calibrating \in BOOLEAN /\ escaped \in BOOLEAN /\ updating \in BOOLEAN
    /\ mkTracker \in {"INITIALIZING", "RUNNING", "PAUSED", "error"}
    /\ kept = [range |-> kept.range, setup |-> kept.setup]

\* Unless Escape was used a dialog counts down while it is shown, one at a time, and a
\* range is gathered in the second step of a calibration, from its beginning to its end.
DialogInv ==
    /\ cal.runs <=> cal.shown
    /\ apl.runs <=> apl.shown
    /\ cal.runs => mkState = "CALIBRATING" /\ ~apl.runs
    /\ calibrating <=> cal.runs /\ cal.step = "CALIBRATE"

\* What was agreed to last is at hand: what a trial and a calibration go back to.
KeptInv ==
    /\ prevHigh = kept.range
    /\ apl.runs => oldSetup = kept.setup
    /\ ~apl.runs => setup = kept.setup /\ guiRange = kept.range

MouseInv ==
    /\ Mouse!TypeOK /\ MouseTypes /\ Mouse!PausedAtRest
    /\ mkState = "CALIBRATING" => cal.runs
    /\ ~calibrating => high = guiRange
    /\ ~escaped => DialogInv /\ KeptInv

LEMMA MouseBegins == Mouse!Init => MouseInv
<1> SUFFICES ASSUME Mouse!Init PROVE MouseInv
  OBVIOUS
<1>1. /\ cal = [step |-> "none", cntr |-> 0, runs |-> FALSE, shown |-> FALSE]
      /\ apl = [cntr |-> 0, runs |-> FALSE, shown |-> FALSE]
      /\ kept = [range |-> high, setup |-> setup] /\ calibrating = FALSE /\ escaped = FALSE
      /\ updating = TRUE /\ mkState = "TRACKING" /\ mkAsked = "wakeup"
  BY DEF Mouse!Init
<1>2. Mouse!TypeOK
  BY <1>1, MouseAssumption DEF Mouse!Init, Mouse!TypeOK
<1>3. MouseTypes
  <2>1. /\ cal.runs = FALSE /\ apl.runs = FALSE /\ apl.cntr = 0
        /\ kept = [range |-> kept.range, setup |-> kept.setup]
    BY <1>1
  <2>2. mkTracker = "INITIALIZING"
    BY DEF Mouse!Init
  <2>3. 0 \in 0 .. CentreDelay + CalDelay /\ 0 \in 0 .. TryDelay
    BY MouseAssumption
  <2>4. cal \in CalDialog
    BY <1>1, <2>3 DEF CalDialog
  <2>5. apl \in AplDialog
    BY <1>1, <2>3 DEF AplDialog
  <2> QED  BY <1>1, <2>1, <2>2, <2>4, <2>5 DEF MouseTypes
<1>4. Mouse!PausedAtRest
  BY <1>1, Zenon DEF Mouse!PausedAtRest
<1>5. DialogInv /\ KeptInv /\ high = guiRange
  BY <1>1 DEF DialogInv, KeptInv, Mouse!Init
<1> QED  BY <1>1, <1>2, <1>3, <1>4, <1>5 DEF MouseInv

\* A dialog that closes, and one that another step of its countdown leaves open.
LEMMA StateChanges ==
    ASSUME MouseInv, NEW s \in {"STANDBY", "TRACKING", "CALIBRATING"}, Mouse!ChangeState(s),
           mkState = "CALIBRATING" => s # "STANDBY"
    PROVE  /\ mkState' = s /\ Mouse!PausedAtRest' /\ updating' \in BOOLEAN
           /\ mkAsked' \in {"wakeup", "suspend"} /\ label' \in {"Tracking", "Calibrating", "Paused"}
<1>1. mkState' = s /\ mkState \in {"STANDBY", "TRACKING", "CALIBRATING"}
  BY DEF Mouse!ChangeState, MouseInv, Mouse!TypeOK
<1>2. mkAsked \in {"wakeup", "suspend"} /\ updating \in BOOLEAN
  BY DEF MouseInv, Mouse!TypeOK, MouseTypes
<1>3. label' \in {"Tracking", "Calibrating", "Paused"}
  BY <1>1, SMT DEF Mouse!ChangeState, Mouse!StateLabel
<1>4. \/ mkState = "TRACKING" /\ s = "STANDBY" /\ updating' = FALSE /\ mkAsked' = "suspend"
      \/ mkState = "STANDBY" /\ s # "STANDBY" /\ updating' = TRUE /\ mkAsked' = "wakeup"
      \/ (mkState = "STANDBY" <=> s = "STANDBY") /\ updating' = updating /\ mkAsked' = mkAsked
  BY <1>1 DEF Mouse!ChangeState
<1>5. (mkState = "STANDBY") = ~updating /\ (mkState = "STANDBY") = (mkAsked = "suspend")
  BY DEF MouseInv, Mouse!PausedAtRest
<1>6. (s = "STANDBY") = ~updating' /\ (s = "STANDBY") = (mkAsked' = "suspend")
  BY <1>1, <1>2, <1>4, <1>5
<1> QED  BY <1>1, <1>2, <1>3, <1>4, <1>6 DEF Mouse!PausedAtRest

\* What becomes of a dialog that closes, by its timer or by the user.
LEMMA DialogCloses ==
    ASSUME MouseTypes
    PROVE  /\ \A c \in {Mouse!Closed(cal), [Mouse!Closed(cal) EXCEPT !.cntr = cal.cntr]} :
                 c \in CalDialog /\ ~c.runs /\ ~c.shown
           /\ \A a \in {Mouse!Closed(apl), [Mouse!Closed(apl) EXCEPT !.cntr = apl.cntr]} :
                 a \in AplDialog /\ ~a.runs /\ ~a.shown
<1>1. 0 \in 0 .. CentreDelay + CalDelay /\ 0 \in 0 .. TryDelay
  BY MouseAssumption
<1>2. cal \in CalDialog /\ apl \in AplDialog
  BY DEF MouseTypes
<1>3. Mouse!Closed(cal) \in CalDialog /\ ~Mouse!Closed(cal).runs /\ ~Mouse!Closed(cal).shown
  BY <1>1, <1>2 DEF Mouse!Closed, CalDialog
<1>4. Mouse!Closed(apl) \in AplDialog /\ ~Mouse!Closed(apl).runs /\ ~Mouse!Closed(apl).shown
  BY <1>1, <1>2 DEF Mouse!Closed, AplDialog
<1>5. cal.cntr \in 0 .. CentreDelay + CalDelay /\ apl.cntr \in 0 .. TryDelay
  BY <1>2 DEF CalDialog, AplDialog
<1>6. \A c \in CalDialog, n \in 0 .. CentreDelay + CalDelay :
         /\ [c EXCEPT !.cntr = n] \in CalDialog
         /\ [c EXCEPT !.cntr = n].runs = c.runs /\ [c EXCEPT !.cntr = n].shown = c.shown
  BY DEF CalDialog
<1>7. \A a \in AplDialog, n \in 0 .. TryDelay :
         /\ [a EXCEPT !.cntr = n] \in AplDialog
         /\ [a EXCEPT !.cntr = n].runs = a.runs /\ [a EXCEPT !.cntr = n].shown = a.shown
  BY DEF AplDialog
<1> QED  BY <1>3, <1>4, <1>5, <1>6, <1>7

\* Every step keeps the types.
LEMMA MouseTyped == ASSUME MouseInv, Mouse!Next PROVE Mouse!TypeOK' /\ MouseTypes'
<1> USE MouseAssumption DEF MouseInv, Mouse!TypeOK, MouseTypes, CalDialog, AplDialog, Mouse!Press,
        Mouse!status, Mouse!first, Mouse!dialogs, Mouse!transform, Mouse!axis, Mouse!ghosts
<1>1. CASE Mouse!OnApplyButton
  BY <1>1 DEF Mouse!OnApplyButton, Mouse!ApplySettings
<1>2. CASE Mouse!Slider
  BY <1>2 DEF Mouse!Slider
<1>3. CASE Mouse!CountDown
  BY <1>3 DEF Mouse!CountDown
<1>4. CASE Mouse!Centred
  <2>0. CalDelay \in 0 .. CentreDelay + CalDelay
    OBVIOUS
  <2>1. cal' \in CalDialog
    BY <1>4, <2>0 DEF Mouse!Centred
  <2>2. calibrating' = TRUE /\ apl' = apl /\ UNCHANGED <<mkState, updating, mkAsked, escaped, kept, presses, label>>
    BY <1>4 DEF Mouse!Centred
  <2> QED  BY <1>4, <2>1, <2>2 DEF Mouse!Centred
<1>5. CASE Mouse!Keep
  BY <1>5, DialogCloses DEF Mouse!Keep
<1>6. CASE Mouse!Revert
  BY <1>6, DialogCloses DEF Mouse!Revert, Mouse!Reverted
<1>7. CASE Mouse!TryOut
  BY <1>7, DialogCloses DEF Mouse!TryOut, Mouse!Reverted
<1>8. CASE Mouse!Escape
  <2>1. [apl EXCEPT !.shown = FALSE] \in AplDialog /\ [cal EXCEPT !.shown = FALSE] \in CalDialog
    OBVIOUS
  <2>2. [apl EXCEPT !.shown = FALSE].runs = apl.runs /\ [apl EXCEPT !.shown = FALSE].cntr = apl.cntr
    OBVIOUS
  <2>3. cal' \in CalDialog /\ apl' \in AplDialog /\ (apl'.runs => apl'.cntr > 0)
    BY <1>8, <2>1, <2>2 DEF Mouse!Escape
  <2> QED  BY <1>8, <2>3 DEF Mouse!Escape
<1>9. ASSUME NEW a \in Angles, Mouse!Update(a) PROVE  Mouse!TypeOK' /\ MouseTypes'
  BY <1>9 DEF Mouse!Update, Mouse!Status, Mouse!FirstRecenter, Mouse!StateLabel, Mouse!TrackerLabel
<1>10. CASE Mouse!NoUpdate
  BY <1>10 DEF Mouse!NoUpdate, Mouse!Status, Mouse!StateLabel, Mouse!TrackerLabel
<1>11. CASE Mouse!Settled
  BY <1>11 DEF Mouse!Settled
<1>12. CASE Mouse!TrackerMoves
  BY <1>12 DEF Mouse!TrackerMoves
<1>13. CASE Mouse!Toggle
  BY <1>13, StateChanges DEF Mouse!Toggle
<1>14. ASSUME NEW st \in {"CENTER", "CENTER_ONLY"}, Mouse!Calibrate(st) PROVE  Mouse!TypeOK' /\ MouseTypes'
  BY <1>14, StateChanges DEF Mouse!Calibrate
<1>15. CASE Mouse!CentredOnly
  BY <1>15, StateChanges, DialogCloses DEF Mouse!CentredOnly
<1>16. CASE Mouse!Calibrated
  <2>1. cal' \in CalDialog /\ calibrating' = FALSE
    BY <1>16, DialogCloses DEF Mouse!Calibrated
  <2>2. apl' \in AplDialog /\ apl'.cntr > 0 /\ setup' = newSetup /\ oldSetup' = setup /\ newSetup' = newSetup
    BY <1>16 DEF Mouse!Calibrated, Mouse!ApplySettings
  <2>3. Mouse!ChangeState("TRACKING") /\ UNCHANGED <<mkTracker, escaped, kept, settle, presses>>
    BY <1>16 DEF Mouse!Calibrated
  <2> QED  BY <2>1, <2>2, <2>3, StateChanges
<1>17. CASE Mouse!Cancel
  <2>1. cal' \in CalDialog /\ calibrating' \in BOOLEAN
    BY <1>17, DialogCloses DEF Mouse!Cancel
  <2>2. /\ Mouse!ChangeState("TRACKING")
        /\ UNCHANGED <<mkTracker, escaped, kept, settle, apl, setup, oldSetup, newSetup>>
        /\ presses' \in 0 .. MkPresses
    BY <1>17 DEF Mouse!Cancel
  <2> QED  BY <2>1, <2>2, StateChanges
<1> QED
  BY <1>1, <1>2, <1>3, <1>4, <1>5, <1>6, <1>7, <1>8, <1>9, <1>10, <1>11, <1>12, <1>13, <1>14, <1>15, <1>16, <1>17 DEF Mouse!Next

\* Every step keeps what the state, the dialogs and the range have to do with each other.
LEMMA MouseAgrees ==
    ASSUME MouseInv, Mouse!Next
    PROVE  /\ Mouse!PausedAtRest' /\ (mkState' = "CALIBRATING" => cal'.runs)
           /\ (~calibrating' => high' = guiRange') /\ (~escaped' => DialogInv' /\ KeptInv')
<1> DEFINE Goal == /\ Mouse!PausedAtRest' /\ (mkState' = "CALIBRATING" => cal'.runs)
                   /\ (~calibrating' => high' = guiRange') /\ (~escaped' => DialogInv' /\ KeptInv')
<1>0. /\ cal.runs \in BOOLEAN /\ cal.shown \in BOOLEAN /\ apl.runs \in BOOLEAN /\ apl.shown \in BOOLEAN
      /\ calibrating \in BOOLEAN /\ escaped \in BOOLEAN
  BY DEF MouseInv, MouseTypes, CalDialog, AplDialog
<1>1. ASSUME UNCHANGED <<mkState, updating, mkAsked>>
      PROVE  Mouse!PausedAtRest'
  BY <1>1, Zenon DEF MouseInv, Mouse!PausedAtRest
<1>2. ASSUME NEW s \in {"STANDBY", "TRACKING", "CALIBRATING"}, Mouse!ChangeState(s), mkState = "CALIBRATING" => s # "STANDBY"
      PROVE  Mouse!PausedAtRest' /\ mkState' = s
  BY <1>2, StateChanges
<1>3. CASE Mouse!OnApplyButton
  <2>1. UNCHANGED <<mkState, updating, mkAsked>>
    BY <1>3 DEF Mouse!OnApplyButton, Mouse!ApplySettings
  <2>0. apl'.runs = TRUE /\ apl'.shown = TRUE /\ ~cal.shown /\ ~apl.shown /\ oldSetup' = setup
        /\ UNCHANGED <<cal, calibrating, high, low, prevHigh, guiRange, kept, escaped, mkState>>
    BY <1>3 DEF Mouse!OnApplyButton, Mouse!ApplySettings, Mouse!Reachable, Mouse!status, Mouse!first, Mouse!dialogs, Mouse!transform, Mouse!axis, Mouse!ghosts
  <2>2. (mkState' = "CALIBRATING" => cal'.runs) /\ (~calibrating' => high' = guiRange') /\ (~escaped' => DialogInv' /\ KeptInv')
    BY <2>0, <1>0 DEF MouseInv, DialogInv, KeptInv
  <2> QED  BY <1>1, <2>1, <2>2
<1>4. CASE Mouse!Slider
  <2>1. UNCHANGED <<mkState, updating, mkAsked>>
    BY <1>4 DEF Mouse!Slider
  <2>2. (mkState' = "CALIBRATING" => cal'.runs) /\ (~calibrating' => high' = guiRange') /\ (~escaped' => DialogInv' /\ KeptInv')
    BY <1>4, <1>0 DEF Mouse!Slider, MouseInv, MouseTypes, CalDialog, AplDialog, DialogInv, KeptInv, Mouse!status, Mouse!first, Mouse!dialogs, Mouse!transform, Mouse!axis, Mouse!ghosts
  <2> QED  BY <1>1, <2>1, <2>2
<1>5. CASE Mouse!CountDown
  <2>1. UNCHANGED <<mkState, updating, mkAsked>>
    BY <1>5 DEF Mouse!CountDown
  <2>2. (mkState' = "CALIBRATING" => cal'.runs) /\ (~calibrating' => high' = guiRange') /\ (~escaped' => DialogInv' /\ KeptInv')
    BY <1>5, <1>0 DEF Mouse!CountDown, MouseInv, MouseTypes, CalDialog, AplDialog, DialogInv, KeptInv, Mouse!status, Mouse!first, Mouse!dialogs, Mouse!transform, Mouse!axis, Mouse!ghosts
  <2> QED  BY <1>1, <2>1, <2>2
<1>6. CASE Mouse!Centred
  <2>1. UNCHANGED <<mkState, updating, mkAsked>>
    BY <1>6 DEF Mouse!Centred
  <2>2. (mkState' = "CALIBRATING" => cal'.runs) /\ (~calibrating' => high' = guiRange') /\ (~escaped' => DialogInv' /\ KeptInv')
    BY <1>6, <1>0 DEF Mouse!Centred, MouseInv, MouseTypes, CalDialog, AplDialog, DialogInv, KeptInv, Mouse!status, Mouse!first, Mouse!dialogs, Mouse!transform, Mouse!axis, Mouse!ghosts
  <2> QED  BY <1>1, <2>1, <2>2
<1>7. CASE Mouse!Keep
  <2>1. UNCHANGED <<mkState, updating, mkAsked>>
    BY <1>7 DEF Mouse!Keep
  <2>2. (mkState' = "CALIBRATING" => cal'.runs) /\ (~calibrating' => high' = guiRange') /\ (~escaped' => DialogInv' /\ KeptInv')
    BY <1>7, <1>0, DialogCloses DEF Mouse!Keep, MouseInv, MouseTypes, CalDialog, AplDialog, DialogInv, KeptInv, Mouse!status, Mouse!first, Mouse!dialogs, Mouse!transform, Mouse!axis, Mouse!ghosts
  <2> QED  BY <1>1, <2>1, <2>2
<1>8. CASE Mouse!Revert
  <2>1. UNCHANGED <<mkState, updating, mkAsked>>
    BY <1>8 DEF Mouse!Revert, Mouse!Reverted
  <2>2. (mkState' = "CALIBRATING" => cal'.runs) /\ (~calibrating' => high' = guiRange') /\ (~escaped' => DialogInv' /\ KeptInv')
    BY <1>8, <1>0, DialogCloses DEF Mouse!Revert, Mouse!Reverted, MouseInv, MouseTypes, CalDialog, AplDialog, DialogInv, KeptInv, Mouse!status, Mouse!first, Mouse!dialogs, Mouse!transform, Mouse!axis, Mouse!ghosts
  <2> QED  BY <1>1, <2>1, <2>2
<1>9. CASE Mouse!TryOut
  <2>1. UNCHANGED <<mkState, updating, mkAsked>>
    BY <1>9 DEF Mouse!TryOut, Mouse!Reverted
  <2>2. (mkState' = "CALIBRATING" => cal'.runs) /\ (~calibrating' => high' = guiRange') /\ (~escaped' => DialogInv' /\ KeptInv')
    BY <1>9, <1>0, DialogCloses DEF Mouse!TryOut, Mouse!Reverted, MouseInv, MouseTypes, CalDialog, AplDialog, DialogInv, KeptInv, Mouse!status, Mouse!first, Mouse!dialogs, Mouse!transform, Mouse!axis, Mouse!ghosts
  <2> QED  BY <1>1, <2>1, <2>2
<1>10. CASE Mouse!Escape
  <2>1. UNCHANGED <<mkState, updating, mkAsked>>
    BY <1>10 DEF Mouse!Escape
  <2>2. (mkState' = "CALIBRATING" => cal'.runs) /\ (~calibrating' => high' = guiRange') /\ (~escaped' => DialogInv' /\ KeptInv')
    BY <1>10, <1>0 DEF Mouse!Escape, MouseInv, MouseTypes, CalDialog, AplDialog, DialogInv, KeptInv, Mouse!status, Mouse!first, Mouse!dialogs, Mouse!transform, Mouse!axis, Mouse!ghosts
  <2> QED  BY <1>1, <2>1, <2>2
<1>11. CASE Mouse!NoUpdate
  <2>1. UNCHANGED <<mkState, updating, mkAsked>>
    BY <1>11 DEF Mouse!NoUpdate
  <2>2. (mkState' = "CALIBRATING" => cal'.runs) /\ (~calibrating' => high' = guiRange') /\ (~escaped' => DialogInv' /\ KeptInv')
    BY <1>11, <1>0 DEF Mouse!NoUpdate, MouseInv, MouseTypes, CalDialog, AplDialog, DialogInv, KeptInv, Mouse!status, Mouse!first, Mouse!dialogs, Mouse!transform, Mouse!axis, Mouse!ghosts
  <2> QED  BY <1>1, <2>1, <2>2
<1>12. CASE Mouse!Settled
  <2>1. UNCHANGED <<mkState, updating, mkAsked>>
    BY <1>12 DEF Mouse!Settled
  <2>2. (mkState' = "CALIBRATING" => cal'.runs) /\ (~calibrating' => high' = guiRange') /\ (~escaped' => DialogInv' /\ KeptInv')
    BY <1>12, <1>0 DEF Mouse!Settled, MouseInv, MouseTypes, CalDialog, AplDialog, DialogInv, KeptInv, Mouse!status, Mouse!first, Mouse!dialogs, Mouse!transform, Mouse!axis, Mouse!ghosts
  <2> QED  BY <1>1, <2>1, <2>2
<1>13. CASE Mouse!TrackerMoves
  <2>1. UNCHANGED <<mkState, updating, mkAsked>>
    BY <1>13 DEF Mouse!TrackerMoves
  <2>2. (mkState' = "CALIBRATING" => cal'.runs) /\ (~calibrating' => high' = guiRange') /\ (~escaped' => DialogInv' /\ KeptInv')
    BY <1>13, <1>0 DEF Mouse!TrackerMoves, MouseInv, MouseTypes, CalDialog, AplDialog, DialogInv, KeptInv, Mouse!status, Mouse!first, Mouse!dialogs, Mouse!transform, Mouse!axis, Mouse!ghosts
  <2> QED  BY <1>1, <2>1, <2>2
<1>14. ASSUME NEW a \in Angles, Mouse!Update(a) PROVE Goal
  <2>1. UNCHANGED <<mkState, updating, mkAsked>>
    BY <1>14 DEF Mouse!Update
  <2>2. (mkState' = "CALIBRATING" => cal'.runs) /\ (~calibrating' => high' = guiRange') /\ (~escaped' => DialogInv' /\ KeptInv')
    BY <1>14, <1>0 DEF Mouse!Update, MouseInv, MouseTypes, CalDialog, AplDialog, DialogInv, KeptInv, Mouse!status, Mouse!first, Mouse!dialogs, Mouse!transform, Mouse!axis, Mouse!ghosts
  <2> QED  BY <1>1, <2>1, <2>2
<1>15. CASE Mouse!Toggle
  <2>1. Mouse!PausedAtRest' /\ mkState' # "CALIBRATING"
    BY <1>15, <1>2 DEF Mouse!Toggle
  <2>2. UNCHANGED <<cal, apl, calibrating, high, prevHigh, guiRange, kept, escaped, setup, oldSetup>> /\ mkState # "CALIBRATING"
    BY <1>15 DEF Mouse!Toggle, MouseInv, Mouse!status, Mouse!first, Mouse!dialogs, Mouse!transform, Mouse!axis, Mouse!ghosts
  <2>3. (mkState' = "CALIBRATING" => cal'.runs) /\ (~calibrating' => high' = guiRange')
    BY <2>1, <2>2, <1>0 DEF MouseInv
  <2>4. ~escaped' => DialogInv' /\ KeptInv'
    BY <2>1, <2>2, <1>0 DEF MouseInv, DialogInv, KeptInv
  <2> QED  BY <2>1, <2>3, <2>4
<1>16. ASSUME NEW st \in {"CENTER", "CENTER_ONLY"}, Mouse!Calibrate(st) PROVE Goal
  <2>1. Mouse!PausedAtRest' /\ mkState' = "CALIBRATING"
    BY <1>16, <1>2 DEF Mouse!Calibrate
  <2>2. cal'.runs = TRUE /\ cal'.shown = TRUE /\ cal'.step # "CALIBRATE" /\ ~cal.shown /\ ~apl.shown
        /\ UNCHANGED <<apl, calibrating, high, prevHigh, guiRange, kept, escaped, setup, oldSetup>>
    BY <1>16 DEF Mouse!Calibrate, Mouse!Reachable, MouseInv, Mouse!status, Mouse!first, Mouse!dialogs, Mouse!transform, Mouse!axis, Mouse!ghosts
  <2>3. (mkState' = "CALIBRATING" => cal'.runs) /\ (~calibrating' => high' = guiRange')
    BY <2>1, <2>2, <1>0 DEF MouseInv
  <2>4. ~escaped' => DialogInv' /\ KeptInv'
    BY <2>1, <2>2, <1>0 DEF MouseInv, DialogInv, KeptInv
  <2> QED  BY <2>1, <2>3, <2>4
<1>17. CASE Mouse!CentredOnly
  <2>1. Mouse!PausedAtRest' /\ mkState' = "TRACKING"
    BY <1>17, <1>2 DEF Mouse!CentredOnly
  <2>2. cal.runs /\ cal.step = "CENTER_ONLY" /\ ~cal'.runs /\ ~cal'.shown
        /\ UNCHANGED <<apl, calibrating, high, prevHigh, guiRange, kept, escaped, setup, oldSetup>>
    BY <1>17, DialogCloses DEF Mouse!CentredOnly, MouseInv, Mouse!status, Mouse!first, Mouse!dialogs, Mouse!transform, Mouse!axis, Mouse!ghosts
  <2>3. (mkState' = "CALIBRATING" => cal'.runs) /\ (~calibrating' => high' = guiRange')
    BY <2>1, <2>2, <1>0 DEF MouseInv
  <2>4. ~escaped' => DialogInv' /\ KeptInv'
    BY <2>1, <2>2, <1>0 DEF MouseInv, DialogInv, KeptInv
  <2> QED  BY <2>1, <2>3, <2>4
<1>18. CASE Mouse!Calibrated
  <2>1. Mouse!PausedAtRest' /\ mkState' = "TRACKING"
    BY <1>18, <1>2 DEF Mouse!Calibrated
  <2>2. cal.runs /\ cal.step = "CALIBRATE" /\ ~cal'.runs /\ ~cal'.shown /\ ~calibrating' /\ high' = guiRange'
        /\ apl'.runs = TRUE /\ apl'.shown = TRUE /\ oldSetup' = setup /\ UNCHANGED <<prevHigh, kept, escaped>>
    BY <1>18, DialogCloses DEF Mouse!Calibrated, Mouse!ApplySettings, MouseInv, Mouse!status, Mouse!first, Mouse!dialogs, Mouse!transform, Mouse!axis, Mouse!ghosts
  <2>3. (mkState' = "CALIBRATING" => cal'.runs) /\ (~calibrating' => high' = guiRange')
    BY <2>1, <2>2, <1>0 DEF MouseInv
  <2>4. ~escaped' => DialogInv' /\ KeptInv'
    BY <2>1, <2>2, <1>0 DEF MouseInv, DialogInv, KeptInv
  <2> QED  BY <2>1, <2>3, <2>4
<1>19. CASE Mouse!Cancel
  <2>1. Mouse!PausedAtRest' /\ mkState' = "TRACKING"
    BY <1>19, <1>2 DEF Mouse!Cancel
  <2>2. cal.shown /\ ~cal'.runs /\ ~cal'.shown /\ UNCHANGED <<apl, prevHigh, guiRange, kept, escaped, setup, oldSetup>>
        /\ IF cal.step = "CALIBRATE" THEN ~calibrating' /\ high' = guiRange ELSE UNCHANGED <<calibrating, high>>
    BY <1>19, DialogCloses DEF Mouse!Cancel, MouseInv, Mouse!status, Mouse!first, Mouse!dialogs, Mouse!transform, Mouse!axis, Mouse!ghosts
  <2>3. (mkState' = "CALIBRATING" => cal'.runs) /\ (~calibrating' => high' = guiRange')
    BY <2>1, <2>2, <1>0 DEF MouseInv
  <2>4. ~escaped' => DialogInv' /\ KeptInv'
    BY <2>1, <2>2, <1>0 DEF MouseInv, DialogInv, KeptInv
  <2> QED  BY <2>1, <2>3, <2>4
<1> QED
  BY <1>3, <1>4, <1>5, <1>6, <1>7, <1>8, <1>9, <1>10, <1>11, <1>12, <1>13, <1>14, <1>15, <1>16, <1>17, <1>18, <1>19 DEF Mouse!Next

LEMMA MouseKeeps == MouseInv /\ (Mouse!Next \/ UNCHANGED mouseVars) => MouseInv'
<1>1. ASSUME MouseInv, Mouse!Next PROVE MouseInv'
  BY <1>1, MouseTyped, MouseAgrees DEF MouseInv
<1>2. ASSUME MouseInv, UNCHANGED mouseVars PROVE MouseInv'
  <2>1. Mouse!TypeOK' /\ MouseTypes'
    BY <1>2 DEF MouseInv, mouseVars, Mouse!TypeOK, MouseTypes
  <2>2. Mouse!PausedAtRest'
    BY <1>2, Zenon DEF MouseInv, mouseVars, Mouse!PausedAtRest
  <2>3. /\ mkState' = "CALIBRATING" => cal'.runs
        /\ ~calibrating' => high' = guiRange'
        /\ ~escaped' => DialogInv' /\ KeptInv'
    BY <1>2 DEF MouseInv, mouseVars, DialogInv, KeptInv
  <2> QED  BY <2>1, <2>2, <2>3 DEF MouseInv
<1> QED  BY <1>1, <1>2

LEMMA MouseSound == MouseInv => Mouse!PausedAtRest /\ Mouse!CalibrationWatched /\ Mouse!OnlyWhatWasKept
<1> SUFFICES ASSUME MouseInv PROVE Mouse!PausedAtRest /\ Mouse!CalibrationWatched /\ Mouse!OnlyWhatWasKept
  OBVIOUS
<1>1. Mouse!PausedAtRest
  BY DEF MouseInv
<1>2. Mouse!CalibrationWatched
  BY DEF MouseInv, DialogInv, Mouse!CalibrationWatched
<1>3. Mouse!OnlyWhatWasKept
  BY DEF MouseInv, MouseTypes, KeptInv, Mouse!OnlyWhatWasKept
<1> QED  BY <1>1, <1>2, <1>3

-----------------------------------------------------------------------
(* Mickey's hot keys *)

ASSUME KeyboardAssumption ==
    HotKeyIds \subseteq Nat \ {0} /\ Keys \subseteq Nat \ {0} /\ HkChanges \in Nat

\* No two clients hold a grab, and the event filter is there while a key may be pressed.
KeyboardInv ==
    /\ Keyboard!TypeOK /\ Keyboard!WholeGrabs /\ Keyboard!OnlyTheShown
    /\ \A k \in Keys : grabbed[k] \cap others[k] = {}
    /\ ~Keyboard!IsEmpty(shortcutHash) => filters > 0

LEMMA KeyboardBegins == Keyboard!Init => KeyboardInv
BY KeyboardAssumption
DEF Keyboard!Init, KeyboardInv, Keyboard!TypeOK, Keyboard!WholeGrabs, Keyboard!OnlyTheShown,
    Keyboard!IsEmpty, Keyboard!Shortcuts, Keyboard!NoKey, Keyboard!Nobody, Keyboard!Locks

\* X gives all four grabs or none.
LEMMA GrabbedWhole ==
    ASSUME KeyboardInv, NEW k \in Keys
    PROVE  Keyboard!GrabKeyX(k) = IF others[k] = {} THEN Keyboard!Locks ELSE {}
<1>1. grabbed[k] \in {{}, Keyboard!Locks} /\ grabbed[k] \cap others[k] = {} /\ others[k] \subseteq Keyboard!Locks
  BY DEF KeyboardInv, Keyboard!WholeGrabs, Keyboard!TypeOK
<1>2. CASE others[k] # {}
  <2>1. grabbed[k] = {}
    BY <1>1, <1>2
  <2> QED  BY <1>2, <2>1 DEF Keyboard!GrabKeyX
<1>3. CASE others[k] = {}
  BY <1>3 DEF Keyboard!GrabKeyX
<1> QED  BY <1>2, <1>3

\* A key is set or unset: the grabs stay whole, the filter stays while it is needed, and the
\* only key that may come to the hot key is the new one, which then is the one it shows.
LEMMA KeySet ==
    ASSUME KeyboardInv, NEW h \in HotKeyIds, NEW k \in Keyboard!Shortcuts, Keyboard!SetHotKey(h, k),
           others' = others
    PROVE  /\ shortcutHash' \in [Keys -> HotKeyIds \cup {Keyboard!Nobody}]
           /\ grabbed' \in [Keys -> SUBSET Keyboard!Locks]
           /\ shown' \in [HotKeyIds -> Keyboard!Shortcuts]
           /\ filters' \in Nat /\ errHandler' \in {"default", "own"}
           /\ Keyboard!WholeGrabs' /\ \A j \in Keys : grabbed'[j] \cap others'[j] = {}
           /\ ~Keyboard!IsEmpty(shortcutHash)' => filters' > 0
           /\ \A j \in Keys : shortcutHash'[j] # Keyboard!Nobody =>
                 \/ shortcutHash'[j] # h /\ shortcutHash'[j] = shortcutHash[j]
                 \/ shortcutHash'[j] = h /\ j = k /\ Keyboard!Usable(h, k) /\ shown'[h] = k
           /\ \A g \in HotKeyIds \ {h} : shown'[g] = shown[g]
<1> DEFINE Rest == Keyboard!Without(h)
<1>0. /\ Keyboard!NoKey = 0 /\ Keyboard!Nobody = 0 /\ 0 \notin Keys /\ 0 \notin HotKeyIds
      /\ Keyboard!Shortcuts = Keys \cup {0} /\ {} \subseteq Keyboard!Locks
  BY KeyboardAssumption DEF Keyboard!NoKey, Keyboard!Nobody, Keyboard!Shortcuts
<1>1. /\ shortcutHash \in [Keys -> HotKeyIds \cup {0}] /\ grabbed \in [Keys -> SUBSET Keyboard!Locks]
      /\ shown \in [HotKeyIds -> Keys \cup {0}] /\ filters \in Nat /\ errHandler \in {"default", "own"}
      /\ others \in [Keys -> SUBSET Keyboard!Locks]
  BY <1>0 DEF KeyboardInv, Keyboard!TypeOK
<1>2. /\ Rest \in [Keys -> HotKeyIds \cup {0}]
      /\ \A j \in Keys : Rest[j] = IF shortcutHash[j] = h THEN 0 ELSE shortcutHash[j]
  BY <1>0, <1>1 DEF Keyboard!Without
<1>3. /\ \A j \in Keys : grabbed[j] \in {{}, Keyboard!Locks}
      /\ \A j \in Keys : shortcutHash[j] # 0 => grabbed[j] = Keyboard!Locks
      /\ \A j \in Keys : grabbed[j] \cap others[j] = {}
  BY <1>0 DEF KeyboardInv, Keyboard!WholeGrabs
<1>4. /\ (\E j \in Keys : shortcutHash[j] # 0) => filters > 0
      /\ Keyboard!IsEmpty(Rest) <=> \A j \in Keys : Rest[j] = 0
      /\ Keyboard!IsEmpty(shortcutHash)' <=> \A j \in Keys : shortcutHash'[j] = 0
  BY <1>0 DEF KeyboardInv, Keyboard!IsEmpty
<1>5. CASE k = 0
  <2>1. /\ shortcutHash' = Rest /\ shown' = [shown EXCEPT ![h] = 0] /\ errHandler' = errHandler
        /\ grabbed' = [j \in Keys |-> IF shortcutHash[j] = h THEN {} ELSE grabbed[j]]
        /\ filters' = filters - IF {j \in Keys : shortcutHash[j] = h} # {} /\ Keyboard!IsEmpty(Rest) THEN 1 ELSE 0
    BY <1>0, <1>5 DEF Keyboard!SetHotKey, Keyboard!UnsetShortcut
  <2>2. filters' \in Nat /\ ((\E j \in Keys : Rest[j] # 0) => filters' > 0)
    BY <1>0, <1>1, <1>2, <1>4, <2>1
  <2>3. /\ grabbed' \in [Keys -> SUBSET Keyboard!Locks] /\ Keyboard!WholeGrabs'
        /\ \A j \in Keys : grabbed'[j] \cap others'[j] = {}
    BY <1>0, <1>1, <1>2, <1>3, <2>1 DEF Keyboard!WholeGrabs
  <2> QED  BY <1>0, <1>1, <1>2, <1>4, <2>1, <2>2, <2>3
<1>6. CASE k # 0
  <2>1. k \in Keys
    BY <1>0, <1>6
  <2>2. /\ shortcutHash' = IF Keyboard!Usable(h, k) THEN [Rest EXCEPT ![k] = h] ELSE Rest
        /\ grabbed' = IF Keyboard!Taken(h, k) THEN grabbed ELSE [grabbed EXCEPT ![k] = Keyboard!GrabKeyX(k)]
        /\ errHandler' = IF Keyboard!Taken(h, k) THEN errHandler ELSE Keyboard!ErrHandlerAfter(k)
        /\ filters' = filters + IF Keyboard!Usable(h, k) /\ Keyboard!IsEmpty(Rest) THEN 1 ELSE 0
        /\ shown' = IF Keyboard!Usable(h, k) THEN [shown EXCEPT ![h] = k] ELSE shown
    BY <1>0, <1>6 DEF Keyboard!SetHotKey, Keyboard!SetShortCut
  <2>3. /\ Keyboard!Taken(h, k) <=> k \in Unknown \/ Rest[k] # 0
        /\ Keyboard!Usable(h, k) <=> ~Keyboard!Taken(h, k) /\ others[k] = {}
    BY <1>0 DEF Keyboard!Taken, Keyboard!Usable
  <2>4. Keyboard!GrabKeyX(k) = IF others[k] = {} THEN Keyboard!Locks ELSE {}
    BY <2>1, GrabbedWhole
  <2>5. filters' \in Nat /\ ((\E j \in Keys : shortcutHash'[j] # 0) => filters' > 0)
    BY <1>1, <1>2, <1>4, <2>2
  <2>6. shortcutHash' \in [Keys -> HotKeyIds \cup {0}] /\ shown' \in [HotKeyIds -> Keys \cup {0}]
    BY <1>1, <1>2, <2>1, <2>2
  <2>7. /\ grabbed' \in [Keys -> SUBSET Keyboard!Locks]
        /\ \A j \in Keys : grabbed'[j] \in {{}, Keyboard!Locks} /\ grabbed'[j] \cap others'[j] = {}
    BY <1>0, <1>1, <1>3, <2>1, <2>2, <2>4
  <2>8. \A j \in Keys : shortcutHash'[j] # 0 => grabbed'[j] = Keyboard!Locks
    BY <1>1, <1>2, <1>3, <2>1, <2>2, <2>3, <2>4
  <2>9. errHandler' \in {"default", "own"}
    BY <1>1, <2>2 DEF Keyboard!ErrHandlerAfter
  <2>10. \A j \in Keys : shortcutHash'[j] # 0 =>
            \/ shortcutHash'[j] # h /\ shortcutHash'[j] = shortcutHash[j]
            \/ shortcutHash'[j] = h /\ j = k /\ Keyboard!Usable(h, k) /\ shown'[h] = k
    BY <1>0, <1>1, <1>2, <2>1, <2>2
  <2>11. \A g \in HotKeyIds \ {h} : shown'[g] = shown[g]
    BY <1>1, <2>2
  <2> QED  BY <1>0, <1>4, <2>5, <2>6, <2>7, <2>8, <2>9, <2>10, <2>11 DEF Keyboard!WholeGrabs
<1> QED  BY <1>5, <1>6

\* Every step of the keyboard keeps its invariant.
LEMMA KeyboardKeeps == KeyboardInv /\ (Keyboard!Next \/ UNCHANGED keyboardVars) => KeyboardInv'
<1> SUFFICES ASSUME KeyboardInv, Keyboard!Next \/ UNCHANGED keyboardVars PROVE KeyboardInv'
  OBVIOUS
<1>0. /\ Keyboard!NoKey = 0 /\ Keyboard!Nobody = 0 /\ 0 \notin Keys /\ 0 \notin HotKeyIds
      /\ Keyboard!Shortcuts = Keys \cup {0}
  BY KeyboardAssumption DEF Keyboard!NoKey, Keyboard!Nobody, Keyboard!Shortcuts
<1>1. ASSUME NEW h \in HotKeyIds, NEW k \in Keyboard!Shortcuts, Keyboard!SetHotKey(h, k),
             others' = others, widget' \in [HotKeyIds -> {"unmade", "there", "deleted"}],
             Keyboard!Usable(h, k) => widget'[h] = "there",
             \A g \in HotKeyIds \ {h} : widget'[g] = widget[g],
             saved' \in [HotKeyIds -> Keyboard!Shortcuts], hkChanges' \in 0 .. HkChanges
      PROVE  KeyboardInv'
  <2>1. Keyboard!TypeOK'
    BY <1>1, KeySet DEF KeyboardInv, Keyboard!TypeOK
  <2>2. Keyboard!OnlyTheShown'
    <3> SUFFICES ASSUME NEW j \in Keys, shortcutHash'[j] # 0
                 PROVE  shown'[shortcutHash'[j]] = j /\ widget'[shortcutHash'[j]] = "there"
      BY <1>0 DEF Keyboard!OnlyTheShown
    <3>1. shortcutHash'[j] \in HotKeyIds
      BY <1>0, <2>1 DEF Keyboard!TypeOK
    <3>2. CASE shortcutHash'[j] # h /\ shortcutHash'[j] = shortcutHash[j]
      <4>1. shown[shortcutHash[j]] = j /\ widget[shortcutHash[j]] = "there"
        BY <1>0, <3>2 DEF KeyboardInv, Keyboard!OnlyTheShown
      <4> QED  BY <1>1, <3>1, <3>2, <4>1, KeySet
    <3>3. CASE shortcutHash'[j] = h /\ j = k /\ Keyboard!Usable(h, k) /\ shown'[h] = k
      BY <1>1, <3>3
    <3> QED  BY <1>0, <1>1, <3>2, <3>3, KeySet
  <2> QED  BY <1>1, <2>1, <2>2, KeySet DEF KeyboardInv
<1>2. ASSUME NEW h \in HotKeyIds, Keyboard!AddHotKey(h) PROVE KeyboardInv'
  <2>1. saved[h] \in Keyboard!Shortcuts /\ saved \in [HotKeyIds -> Keyboard!Shortcuts] /\ hkChanges \in 0 .. HkChanges
    BY DEF KeyboardInv, Keyboard!TypeOK
  <2>2. /\ Keyboard!SetHotKey(h, saved[h]) /\ others' = others /\ saved' = saved /\ hkChanges' = hkChanges
        /\ widget' = [widget EXCEPT ![h] =
                        IF saved[h] = 0 \/ Keyboard!Usable(h, saved[h]) THEN "there" ELSE "deleted"]
    BY <1>0, <1>2 DEF Keyboard!AddHotKey
  <2>3. /\ widget' \in [HotKeyIds -> {"unmade", "there", "deleted"}]
        /\ Keyboard!Usable(h, saved[h]) => widget'[h] = "there"
        /\ \A g \in HotKeyIds \ {h} : widget'[g] = widget[g]
    BY <2>2 DEF KeyboardInv, Keyboard!TypeOK
  <2> QED  BY <1>1, <2>1, <2>2, <2>3
<1>3. ASSUME NEW h \in HotKeyIds, NEW k \in Keyboard!Shortcuts, Keyboard!Assign(h, k) PROVE KeyboardInv'
  <2>1. /\ Keyboard!SetHotKey(h, k) /\ others' = others /\ widget' = widget /\ widget[h] = "there"
        /\ saved' = [saved EXCEPT ![h] = shown'[h]] /\ hkChanges' \in 0 .. HkChanges
    BY <1>3, KeyboardAssumption DEF Keyboard!Assign, KeyboardInv, Keyboard!TypeOK
  <2>2. shown' \in [HotKeyIds -> Keyboard!Shortcuts]
    BY <2>1, KeySet
  <2>3. saved' \in [HotKeyIds -> Keyboard!Shortcuts] /\ widget' \in [HotKeyIds -> {"unmade", "there", "deleted"}]
    BY <2>1, <2>2 DEF KeyboardInv, Keyboard!TypeOK
  <2> QED  BY <1>1, <2>1, <2>3
<1>4. ASSUME NEW k \in Keys,
             Keyboard!OthersLeave(k) \/ \E l \in Keyboard!Locks : Keyboard!OtherGrabs(k, l)
      PROVE  KeyboardInv'
  <2>1. UNCHANGED <<shortcutHash, grabbed, shown, saved, widget, filters, errHandler>>
    BY <1>4 DEF Keyboard!OthersLeave, Keyboard!OtherGrabs
  <2>2. /\ others' \in [Keys -> SUBSET Keyboard!Locks] /\ hkChanges' \in 0 .. HkChanges
        /\ \A j \in Keys : grabbed'[j] \cap others'[j] = {}
    BY <1>4, KeyboardAssumption DEF Keyboard!OthersLeave, Keyboard!OtherGrabs, KeyboardInv, Keyboard!TypeOK
  <2> QED  BY <2>1, <2>2 DEF KeyboardInv, Keyboard!TypeOK, Keyboard!WholeGrabs, Keyboard!OnlyTheShown, Keyboard!IsEmpty
<1>5. CASE UNCHANGED keyboardVars
  BY <1>5 DEF keyboardVars, KeyboardInv, Keyboard!TypeOK, Keyboard!WholeGrabs, Keyboard!OnlyTheShown, Keyboard!IsEmpty
<1> QED  BY <1>2, <1>3, <1>4, <1>5 DEF Keyboard!Next

-----------------------------------------------------------------------
(* The emulated mouse buttons *)

ASSUME ButtonAssumption == ClEvents \in Nat /\ ClTries \in Nat

\* The system sees what was reported last.  Until the driver hangs up the last report under
\* way is of the buttons held now; with none under way and nothing held the last report, a
\* hot key's or the driver's, was of no button.
ButtonInv ==
    /\ Button!TypeOK /\ socket \in Seq(SUBSET Buttons)
    /\ pressed = prevBtns
    /\ finish => quitting
    /\ ~hung => (socket # <<>> => socket[Len(socket)] = snHeld)
    /\ ~hung /\ ~quitting /\ keyHeld = {} /\ snHeld = {} /\ socket = <<>> => prevBtns = {}

LEMMA ButtonBegins == Button!Init => ButtonInv
<1> SUFFICES ASSUME Button!Init PROVE ButtonInv
  OBVIOUS
<1>1. /\ socket = <<>> /\ prevBtns = {} /\ pressed = {} /\ keyHeld = {} /\ snHeld = {} /\ finish = FALSE
      /\ socket \in Seq(SUBSET Buttons) /\ DOMAIN socket = {}
  BY DEF Button!Init
<1>2. Button!TypeOK
  <2>1. /\ served \in BOOLEAN /\ hung = FALSE /\ fifo = FALSE /\ finish = FALSE /\ quitting = FALSE
        /\ clPc = "new" /\ lost = 0 /\ clEvents = 0
    BY Zenon DEF Button!Init
  <2>2. {served, hung, fifo, finish, quitting} \subseteq BOOLEAN
    BY <2>1, Zenon
  <2>3. {prevBtns, pressed, keyHeld, snHeld} \subseteq SUBSET Buttons
    BY <1>1
  <2>4. 0 \in 0 .. ClTries /\ 0 \in 0 .. ClEvents
    BY ButtonAssumption
  <2> QED  BY <1>1, <2>1, <2>2, <2>3, <2>4, Zenon DEF Button!TypeOK
<1> QED  BY <1>1, <1>2 DEF ButtonInv

\* A report makes the system see what it says.
LEMMA ClickShown == ASSUME pressed = prevBtns, NEW btns, Button!Click(btns) PROVE pressed' = btns /\ prevBtns' = btns
BY DEF Button!Click

\* A hot key is pressed or released.
LEMMA KeyInv ==
    ASSUME ButtonInv, NEW b \in Buttons, Button!KeyPress(b) \/ Button!KeyRelease(b)
    PROVE  ButtonInv'
<1>1. PICK btns \in {{}, {b}} : Button!Click(btns) /\ (keyHeld' = {} => btns = {})
  BY DEF Button!KeyPress, Button!KeyRelease
<1>2. pressed' = btns /\ prevBtns' = btns
  BY <1>1, ClickShown DEF ButtonInv
<1>3. UNCHANGED <<served, socket, hung, snHeld, fifo, clPc, finish, lost, quitting>>
  BY DEF Button!KeyPress, Button!KeyRelease, Button!wire
<1>4. keyHeld' \subseteq Buttons /\ clEvents' \in 0 .. ClEvents
  BY ButtonAssumption DEF Button!KeyPress, Button!KeyRelease, Button!Event, ButtonInv, Button!TypeOK
<1>5. Button!TypeOK'
  BY <1>1, <1>2, <1>3, <1>4 DEF ButtonInv, Button!TypeOK
<1> QED  BY <1>1, <1>2, <1>3, <1>5 DEF ButtonInv

LEMMA ReportInv ==
    ASSUME ButtonInv, NEW btns \in SUBSET Buttons, Button!SnReports(btns)
    PROVE  ButtonInv'
<1>1. /\ UNCHANGED <<served, hung, fifo, clPc, finish, lost, keyHeld, quitting, prevBtns, pressed>>
      /\ snHeld' = btns /\ socket' = Append(socket, btns)
  BY DEF Button!SnReports, Button!gui
<1>2. /\ socket' \in Seq(SUBSET Buttons) /\ socket' # <<>> /\ socket'[Len(socket')] = btns
      /\ \A i \in DOMAIN socket' : socket'[i] \subseteq Buttons
  BY <1>1 DEF ButtonInv
<1>3. clEvents' \in 0 .. ClEvents
  BY ButtonAssumption DEF Button!SnReports, Button!Event, ButtonInv, Button!TypeOK
<1>4. Button!TypeOK'
  BY <1>1, <1>2, <1>3 DEF ButtonInv, Button!TypeOK
<1> QED  BY <1>1, <1>2, <1>4 DEF ButtonInv

\* A report is taken: the first one, of buttons that may not be held any more.
LEMMA FetchInv == ASSUME ButtonInv, Button!Fetch PROVE ButtonInv'
<1>0. UNCHANGED <<served, hung, snHeld, fifo, finish, lost, keyHeld, quitting, clEvents>>
  BY DEF Button!Fetch, Button!gui
<1>1. CASE socket' = socket /\ UNCHANGED <<prevBtns, pressed>>
  <2>1. Button!TypeOK'
    BY <1>0, <1>1 DEF Button!Fetch, ButtonInv, Button!TypeOK
  <2> QED  BY <1>0, <1>1, <2>1 DEF ButtonInv
<1>2. CASE socket # <<>> /\ socket' = Tail(socket)
  <2>1. /\ Len(socket) \in Nat \ {0} /\ Tail(socket) \in Seq(SUBSET Buttons) /\ Len(Tail(socket)) = Len(socket) - 1
        /\ Head(socket) = socket[1] /\ socket[1] \subseteq Buttons
        /\ \A i \in 1 .. Len(socket) - 1 : Tail(socket)[i] = socket[i + 1]
    BY <1>2 DEF ButtonInv
  <2>2. \A i \in DOMAIN socket' : socket'[i] \subseteq Buttons
    BY <1>2, <2>1
  <2>3. socket' # <<>> => socket'[Len(socket')] = socket[Len(socket)]
    BY <1>2, <2>1
  <2>n. Len(socket) \in Int /\ Len(socket) >= 1
    BY <2>1
  <2>a. socket' # socket
    <3>1. Len(socket') = Len(socket) - 1
      BY <1>2, <2>1
    <3>2. Len(socket') # Len(socket)
      BY <2>n, <3>1
    <3> QED  BY <3>2, Zenon
  <2>4. \/ UNCHANGED <<prevBtns, pressed>> /\ finish
        \/ pressed' = socket[1] /\ prevBtns' = socket[1]
    <3>1. (UNCHANGED <<prevBtns, pressed>> /\ finish) \/ Button!Click(Head(socket))
      BY <1>2, <2>a DEF Button!Fetch
    <3> QED  BY <2>1, <3>1, ClickShown DEF ButtonInv
  <2>5. Button!TypeOK'
    BY <1>0, <2>1, <2>2, <2>4 DEF Button!Fetch, ButtonInv, Button!TypeOK
  <2>6. socket' = <<>> => Len(socket) = 1
    <3>1. Len(socket') = Len(socket) - 1
      BY <1>2, <2>1
    <3>2. socket' = <<>> => Len(socket') = 0
      OBVIOUS
    <3> QED  BY <2>n, <3>1, <3>2
  <2> QED  BY <1>0, <1>2, <2>1, <2>3, <2>4, <2>5, <2>6 DEF ButtonInv
<1> QED  BY <1>1, <1>2 DEF Button!Fetch

LEMMA ButtonKeeps == ButtonInv /\ (Button!Next \/ UNCHANGED buttonVars) => ButtonInv'
<1> SUFFICES ASSUME ButtonInv, Button!Next \/ UNCHANGED buttonVars PROVE ButtonInv'
  OBVIOUS
<1>1. CASE Button!Run \/ Button!Connect
  <2>1. UNCHANGED <<served, socket, hung, snHeld, keyHeld, quitting, prevBtns, pressed, clEvents>>
    BY <1>1 DEF Button!Run, Button!Connect, Button!wire, Button!gui
  <2>2. clPc' \in {"new", "connect", "fetch", "ended"} /\ (finish' = FALSE \/ finish' = finish)
    BY <1>1 DEF Button!Run, Button!Connect, ButtonInv, Button!TypeOK
  <2>3. fifo' \in BOOLEAN /\ lost' \in 0 .. ClTries
    BY <1>1, ButtonAssumption DEF Button!Run, Button!Connect, ButtonInv, Button!TypeOK
  <2>4. Button!TypeOK'
    BY <2>1, <2>2, <2>3 DEF ButtonInv, Button!TypeOK
  <2> QED  BY <2>1, <2>2, <2>4 DEF ButtonInv
<1>2. CASE Button!SnLeaves \/ Button!Quit
  <2>1. /\ UNCHANGED <<served, socket, snHeld, fifo, clPc, lost, keyHeld, prevBtns, pressed, clEvents>>
        /\ \/ hung' = TRUE /\ finish' = finish /\ quitting' = quitting
           \/ hung' = hung /\ finish' = TRUE /\ quitting' = TRUE
    BY <1>2 DEF Button!SnLeaves, Button!Quit, Button!wire, Button!gui
  <2>2. Button!TypeOK'
    BY <2>1 DEF ButtonInv, Button!TypeOK
  <2> QED  BY <2>1, <2>2 DEF ButtonInv
<1>3. CASE UNCHANGED buttonVars
  BY <1>3 DEF buttonVars, ButtonInv, Button!TypeOK
<1> QED  BY <1>1, <1>2, <1>3, KeyInv, ReportInv, FetchInv DEF Button!Next, Button!Thread

LEMMA ButtonSound == ButtonInv => Button!NothingStuck
BY DEF ButtonInv, Button!NothingStuck

-----------------------------------------------------------------------
(* The Wine bridge *)

ASSUME BridgeAssumption == Absent \notin Games /\ WbEvents \in Nat

\* A TrackIR.exe that runs owns the mutex, and a code is of keys.
BridgeInv ==
    /\ Bridge!TypeOK /\ table \in [Games -> {table[g] : g \in Games}]
    /\ Bridge!KeyOfGame /\ Bridge!CodeHeld
    /\ \A g \in Games : exes[g] = "running" => mutex = g
    /\ code \in Seq(Scans)

LEMMA BridgeBegins == Bridge!Init => BridgeInv
<1> SUFFICES ASSUME Bridge!Init PROVE BridgeInv
  OBVIOUS
<1>1. /\ id = [g \in Games |-> Absent] /\ crypted = [g \in Games |-> FALSE] /\ table = [g \in Games |-> Plain]
      /\ wbAsked = [g \in Games |-> "none"] /\ exes = [g \in Games |-> "none"] /\ mutex = Absent
      /\ held = {} /\ code = <<>> /\ defining = "RECEIVING" /\ wbControl = "none" /\ wbEvents = 0
  BY DEF Bridge!Init, Bridge!NoCode
<1>2. locked = FALSE /\ paused = FALSE
  BY Zenon DEF Bridge!Init
<1>3. Len(code) = 0 /\ code \in Seq(Scans)
  BY <1>1
<1>4. {locked, paused} \subseteq BOOLEAN
  BY <1>2, Zenon
<1>5. Bridge!TypeOK
  BY <1>1, <1>3, <1>4, BridgeAssumption DEF Bridge!TypeOK
<1>6. Bridge!KeyOfGame /\ Bridge!CodeHeld
  BY <1>1, <1>3 DEF Bridge!KeyOfGame, Bridge!CodeHeld
<1> QED  BY <1>1, <1>3, <1>5, <1>6 DEF BridgeInv

\* A game's call: its key and its process are its own.
LEMMA GameInv ==
    ASSUME BridgeInv, NEW g \in Games,
           \/ Bridge!GetData(g) \/ Bridge!Detach(g)
           \/ \E i \in Ids, ok \in BOOLEAN : Bridge!Register(g, i, ok)
           \/ \E on \in BOOLEAN : Bridge!Transmission(g, on)
    PROVE  BridgeInv'
<1>1. UNCHANGED <<mutex, locked, held, code, pauseCode, recenterCode, savedCodes, defining, paused, wbControl>>
  BY DEF Bridge!GetData, Bridge!Detach, Bridge!Register, Bridge!Transmission, Bridge!keys, Bridge!views
<1>2. wbEvents' \in 0 .. WbEvents
  BY BridgeAssumption DEF Bridge!GetData, Bridge!Detach, Bridge!Register, Bridge!Transmission, Bridge!Event,
                          BridgeInv, Bridge!TypeOK
<1>3. wbAsked' \in [Games -> {"none", "suspend", "wakeup", "shutdown"}]
  BY DEF Bridge!GetData, Bridge!Detach, Bridge!Register, Bridge!Transmission, BridgeInv, Bridge!TypeOK
<1>4. exes' \in [Games -> {"none", "new", "running"}] /\ \A h \in Games : exes'[h] = "running" => exes[h] = "running"
  BY DEF Bridge!GetData, Bridge!Detach, Bridge!Register, Bridge!Transmission, Bridge!views, BridgeInv, Bridge!TypeOK
<1>5. /\ id \in [Games -> Ids \cup {Absent}] /\ crypted \in [Games -> BOOLEAN]
      /\ table \in [Games -> {table[h] : h \in Games}]
  BY DEF BridgeInv, Bridge!TypeOK
<1>6. CASE UNCHANGED <<id, crypted, table>>
  BY <1>1, <1>2, <1>3, <1>4, <1>6 DEF BridgeInv, Bridge!TypeOK, Bridge!KeyOfGame, Bridge!CodeHeld
<1>7. ASSUME NEW i \in Ids, NEW ok \in BOOLEAN, Bridge!Register(g, i, ok) PROVE BridgeInv'
  <2>1. id' = [id EXCEPT ![g] = i] /\ Bridge!LoadKey(g, i)
    BY <1>7 DEF Bridge!Register
  <2>2. crypted' \in [Games -> BOOLEAN]
    BY <1>5, <2>1, Zenon DEF Bridge!LoadKey
  <2>3. DOMAIN table' = Games /\ table' = [h \in Games |-> table'[h]]
    BY <1>5, <2>1 DEF Bridge!LoadKey
  <2>4. \A h \in Games \ {g} : id'[h] = id[h] /\ crypted'[h] = crypted[h] /\ table'[h] = table[h]
    BY <1>5, <2>1 DEF Bridge!LoadKey
  <2>5. id'[g] = i /\ (KeyOf[i] # Absent => IF crypted'[g] THEN table'[g] = KeyOf[i] ELSE KeyOf[i] = Plain)
    <3>1. id'[g] = i
      BY <1>5, <2>1
    <3>2. CASE KeyOf[i] \notin {Absent, Plain}
      <4>1. crypted'[g] = TRUE /\ table'[g] = KeyOf[i]
        BY <1>5, <2>1, <3>2 DEF Bridge!LoadKey
      <4> QED  BY <3>1, <4>1
    <3> QED  BY <3>1, <3>2, <1>5, <2>1 DEF Bridge!LoadKey
  <2>6. Bridge!KeyOfGame'
    BY <2>4, <2>5 DEF BridgeInv, Bridge!KeyOfGame
  <2>7. Bridge!TypeOK'
    BY <1>1, <1>2, <1>3, <1>4, <1>5, <2>1, <2>2 DEF BridgeInv, Bridge!TypeOK
  <2> QED  BY <1>1, <1>4, <2>3, <2>6, <2>7 DEF BridgeInv, Bridge!CodeHeld
<1> QED  BY <1>6, <1>7 DEF Bridge!GetData, Bridge!Detach, Bridge!Transmission

\* TrackIR.exe begins and ends.
LEMMA ExeInv ==
    ASSUME BridgeInv, NEW g \in Games, Bridge!ExeStart(g) \/ Bridge!ExeEnds(g)
    PROVE  BridgeInv'
<1>1. UNCHANGED <<id, crypted, table, wbAsked, packet, locked, held, code, pauseCode, recenterCode, savedCodes,
                  defining, paused, wbControl, wbEvents>>
  BY DEF Bridge!ExeStart, Bridge!ExeEnds, Bridge!client, Bridge!keys
<1>2. exes' \in [Games -> {"none", "new", "running"}] /\ mutex' \in Games \cup {Absent}
  BY DEF Bridge!ExeStart, Bridge!ExeEnds, BridgeInv, Bridge!TypeOK
<1>3. \A h \in Games : exes'[h] = "running" => mutex' = h
  BY BridgeAssumption DEF Bridge!ExeStart, Bridge!ExeEnds, BridgeInv, Bridge!TypeOK
<1> QED  BY <1>1, <1>2, <1>3 DEF BridgeInv, Bridge!TypeOK, Bridge!KeyOfGame, Bridge!CodeHeld

\* A step of the controller.
LEMMA ControllerInv ==
    ASSUME BridgeInv,
           \/ \E k \in Scans : Bridge!KeyDown(k) \/ Bridge!KeyUp(k)
           \/ \E what \in {"DEF_PAUSE", "DEF_RECENTER"} : Bridge!Redefine(what)
           \/ Bridge!Restart
    PROVE  BridgeInv'
<1>1. UNCHANGED <<id, crypted, table, wbAsked, packet, exes, mutex, locked>>
  BY DEF Bridge!KeyDown, Bridge!KeyUp, Bridge!Redefine, Bridge!Restart, Bridge!client, Bridge!views
<1>2. wbEvents' \in 0 .. WbEvents
  BY BridgeAssumption DEF Bridge!KeyDown, Bridge!KeyUp, Bridge!Redefine, Bridge!Restart, Bridge!Event,
                          BridgeInv, Bridge!TypeOK
<1>3. defining' \in {"RECEIVING", "DEF_PAUSE", "DEF_RECENTER"}
  BY DEF Bridge!KeyDown, Bridge!KeyUp, Bridge!Redefine, Bridge!Restart, BridgeInv, Bridge!TypeOK
<1>4. wbControl' \in {"none", "suspend", "wakeup", "recenter"}
  BY DEF Bridge!KeyDown, Bridge!KeyUp, Bridge!Redefine, Bridge!Restart, BridgeInv, Bridge!TypeOK
<1>5. paused' \in BOOLEAN
  <2>1. paused \in BOOLEAN
    BY Zenon DEF BridgeInv, Bridge!TypeOK
  <2>2. paused' = paused \/ paused' = ~paused \/ paused' = FALSE
    BY Zenon DEF Bridge!KeyDown, Bridge!KeyUp, Bridge!Redefine, Bridge!Restart
  <2> QED  BY <2>1, <2>2, Zenon
<1>6. /\ code' \in Seq(Scans) /\ Len(code') <= 2 /\ held' \subseteq Scans
      /\ \A i \in 1 .. Len(code') : code'[i] \in held'
  <2>1. /\ code \in Seq(Scans) /\ Len(code) <= 2 /\ held \subseteq Scans
        /\ \A i \in 1 .. Len(code) : code[i] \in held
    BY DEF BridgeInv, Bridge!TypeOK, Bridge!CodeHeld
  <2>2. CASE \E k \in Scans : Bridge!KeyDown(k)
    <3>1. PICK k \in Scans : Bridge!KeyDown(k)
      BY <2>2
    <3>2. /\ held' = held \cup {k}
          /\ code' = IF Len(code) = 0 THEN <<k>> ELSE <<code[Len(code)], k>>
      BY <3>1 DEF Bridge!KeyDown
    <3>3. Len(code) # 0 => code[Len(code)] \in held
      BY <2>1
    <3> QED  BY <2>1, <3>2, <3>3
  <2>3. CASE code' = <<>>
    <3>1. held' \subseteq held
      BY <2>3 DEF Bridge!KeyDown, Bridge!KeyUp, Bridge!Redefine, Bridge!Restart
    <3> QED  BY <2>1, <2>3, <3>1
  <2>4. CASE code' = code /\ held' = held
    BY <2>1, <2>4
  <2> QED  BY <2>2, <2>3, <2>4 DEF Bridge!KeyUp, Bridge!Redefine, Bridge!Restart, Bridge!NoCode
<1>7. {locked', paused'} \subseteq BOOLEAN
  BY <1>1, <1>5, Zenon DEF BridgeInv, Bridge!TypeOK
<1>8. Bridge!TypeOK'
  BY <1>1, <1>2, <1>3, <1>4, <1>6, <1>7 DEF BridgeInv, Bridge!TypeOK
<1>9. Bridge!KeyOfGame'
  BY <1>1 DEF BridgeInv, Bridge!KeyOfGame
<1> QED  BY <1>1, <1>6, <1>8, <1>9 DEF BridgeInv, Bridge!CodeHeld

LEMMA BridgeKeeps == BridgeInv /\ (Bridge!Next \/ UNCHANGED bridgeVars) => BridgeInv'
<1> SUFFICES ASSUME BridgeInv, Bridge!Next \/ UNCHANGED bridgeVars PROVE BridgeInv'
  OBVIOUS
<1>1. CASE UNCHANGED bridgeVars
  BY <1>1 DEF bridgeVars, BridgeInv, Bridge!TypeOK, Bridge!KeyOfGame, Bridge!CodeHeld
<1> QED  BY <1>1, GameInv, ExeInv, ControllerInv DEF Bridge!Next

\* The mutex has one owner.
LEMMA BridgeSound == BridgeInv => Bridge!OneViews
BY DEF BridgeInv, Bridge!OneViews

-----------------------------------------------------------------------
(* The firmware extractor *)

ASSUME FirmwareAssumption == ExStarts \in Nat

\* What a directory under ~/.config/linuxtrack can hold.
Held == Firmware!Items \cup {"mfc"}

FirmwareTypes ==
    /\ Firmware!TypeOK
    /\ contents \in Seq(SUBSET Held) /\ pending \in Seq(BOOLEAN)
    /\ thread = "running" => threadDest \in 1 .. dirs

\* Of an extraction that began alone: the thread works beside what is linked, and either on
\* what the dialog will link, with nothing else under way, or on an empty prefix of Wine, where
\* it finds nothing.  What it found is there.
AloneInv ==
    /\ thread # "idle" =>
          /\ link # threadDest
          /\ \/ files = <<>> /\ found = {}
             \/ destPath = threadDest /\ pending = <<>> /\ wine = "idle" /\ download = "idle"
    /\ thread = "running" => found \subseteq contents[threadDest]
    /\ thread = "done" /\ everything => destPath # 0 /\ Firmware!Items \subseteq contents[destPath]

FirmwareInv == FirmwareTypes /\ Firmware!LinkedIsWhole /\ (~overlapped => AloneInv)

LEMMA FirmwareBegins == Firmware!Init => FirmwareInv
<1> SUFFICES ASSUME Firmware!Init PROVE FirmwareInv
  OBVIOUS
<1>1. /\ download = "idle" /\ wine = "idle" /\ pending = <<>> /\ destPath = 0 /\ dirs = 0
      /\ contents = <<>> /\ link = 0 /\ thread = "idle" /\ threadDest = 0 /\ found = {}
      /\ exState = "DONE" /\ starts = 0
  BY DEF Firmware!Init
<1>2. {buttons, wineInitialized, everything, overlapped, byBlob} \subseteq BOOLEAN
  <2>1. /\ buttons = TRUE /\ wineInitialized \in BOOLEAN /\ everything = FALSE /\ overlapped = FALSE
        /\ byBlob = FALSE
    BY Zenon DEF Firmware!Init
  <2> QED  BY <2>1, Zenon
<1>3. /\ Len(contents) = 0 /\ Len(pending) = 0 /\ contents \in Seq(SUBSET Held) /\ pending \in Seq(BOOLEAN)
  BY <1>1
<1>4. Firmware!TypeOK
  <2>1. 0 \in 0 .. ExStarts /\ {0} \subseteq 0 .. 0 /\ {} \subseteq Firmware!Items
    BY FirmwareAssumption
  <2>2. \A d \in 1 .. dirs : contents[d] \subseteq Firmware!Items \cup {"mfc"}
    BY <1>1
  <2>3. {destPath, link, threadDest} \subseteq 0 .. dirs
    BY <1>1
  <2> QED  BY <1>1, <1>2, <1>3, <2>1, <2>2, <2>3 DEF Firmware!TypeOK
<1> QED  BY <1>1, <1>3, <1>4 DEF FirmwareInv, FirmwareTypes, AloneInv, Firmware!LinkedIsWhole

\* A new directory is behind the others, which keep what they hold.
LEMMA DirectoryMade ==
    ASSUME FirmwareTypes, NEW items \in SUBSET Held, Firmware!MakeDestPath(items)
    PROVE  /\ dirs \in Nat /\ dirs' = dirs + 1 /\ destPath' = dirs + 1 /\ dirs' = Len(contents')
           /\ contents' \in Seq(SUBSET Held) /\ contents'[dirs + 1] = items
           /\ \A d \in 1 .. dirs : contents'[d] = contents[d]
           /\ \A d \in 1 .. dirs' : contents'[d] \subseteq Held
<1>1. dirs = Len(contents) /\ contents \in Seq(SUBSET Held) /\ Len(contents) \in Nat
  BY DEF FirmwareTypes, Firmware!TypeOK
<1>2. dirs' = dirs + 1 /\ destPath' = dirs + 1 /\ contents' = Append(contents, items)
  BY DEF Firmware!MakeDestPath
<1>3. /\ contents' \in Seq(SUBSET Held) /\ Len(contents') = Len(contents) + 1
      /\ contents'[Len(contents) + 1] = items
      /\ \A d \in 1 .. Len(contents) : contents'[d] = contents[d]
  BY <1>1, <1>2
<1>4. \A d \in 1 .. Len(contents') : contents'[d] \subseteq Held
  BY <1>3
<1> QED  BY <1>1, <1>2, <1>3, <1>4

FirmwareFlags == /\ buttons \in BOOLEAN /\ wineInitialized \in BOOLEAN /\ everything \in BOOLEAN
                 /\ overlapped \in BOOLEAN /\ byBlob \in BOOLEAN

\* The fields' types, apart.
FirmwareFields ==
    /\ download \in {"idle", "busy"} /\ wine \in {"idle", "regedit"}
    /\ thread \in {"idle", "running", "done"} /\ found \subseteq Firmware!Items
    /\ exState \in {"DONE", "TIR_FW", "MFC", "LTR_W"} /\ starts \in 0 .. ExStarts
    /\ contents \in Seq(SUBSET Held) /\ dirs = Len(contents)
    /\ destPath \in 0 .. dirs /\ link \in 0 .. dirs /\ threadDest \in 0 .. dirs
    /\ pending \in Seq(BOOLEAN) /\ Len(pending) =< 2
    /\ thread = "running" => threadDest \in 1 .. dirs

LEMMA FirmwareTyped == FirmwareTypes <=> FirmwareFlags /\ FirmwareFields
<1>1. FirmwareFlags <=> {buttons, wineInitialized, everything, overlapped, byBlob} \subseteq BOOLEAN
  BY Zenon DEF FirmwareFlags
<1>2. ASSUME contents \in Seq(SUBSET Held), dirs = Len(contents)
      PROVE  \A d \in 1 .. dirs : contents[d] \subseteq Firmware!Items \cup {"mfc"}
  BY <1>2 DEF Held
<1> QED  BY <1>1, <1>2 DEF FirmwareTypes, FirmwareFields, Firmware!TypeOK

LEMMA FirmwareTypedNext == ASSUME FirmwareFlags', FirmwareFields' PROVE FirmwareTypes'
<1>1. {buttons', wineInitialized', everything', overlapped', byBlob'} \subseteq BOOLEAN
  BY Zenon DEF FirmwareFlags
<1>2. \A d \in 1 .. dirs' : contents'[d] \subseteq Firmware!Items \cup {"mfc"}
  BY DEF FirmwareFields, Held
<1> QED  BY <1>1, <1>2 DEF FirmwareTypes, FirmwareFields, Firmware!TypeOK

\* An extraction that begins alone finds nothing under way.
LEMMA BegunAlone ==
    ASSUME FirmwareInv, Firmware!Begin
    PROVE  /\ overlapped' \in BOOLEAN /\ starts' \in 0 .. ExStarts
           /\ ~overlapped' => ~overlapped
           /\ ~overlapped' => thread = "idle" /\ wine = "idle" /\ pending = <<>> /\ download = "idle"
<1>1. FirmwareFlags /\ FirmwareFields
  BY FirmwareTyped DEF FirmwareInv
<1>2. starts' \in 0 .. ExStarts
  BY <1>1, FirmwareAssumption DEF Firmware!Begin, FirmwareFields
<1>3. overlapped' = (overlapped \/ Firmware!Working)
  BY DEF Firmware!Begin
<1>4. overlapped' \in BOOLEAN
  BY <1>3, Zenon
<1>5. ~overlapped' => ~overlapped /\ ~Firmware!Working
  BY <1>3, Zenon
<1> QED  BY <1>2, <1>4, <1>5 DEF Firmware!Working

LEMMA BlobExtracted == ASSUME FirmwareInv, NEW items \in SUBSET Firmware!Items, Firmware!BrowseBlob(items)
                       PROVE FirmwareInv'
<1>1. FirmwareFlags /\ FirmwareFields
  BY FirmwareTyped DEF FirmwareInv
<1>2. Firmware!Begin /\ Firmware!MakeDestPath(items) /\ link' = dirs + 1 /\ byBlob' = TRUE
  BY DEF Firmware!BrowseBlob
<1>3. /\ buttons' = buttons /\ download' = download /\ wine' = wine /\ pending' = pending
      /\ wineInitialized' = wineInitialized /\ thread' = thread /\ files' = files
      /\ threadDest' = threadDest /\ found' = found /\ everything' = everything /\ exState' = exState
  BY DEF Firmware!BrowseBlob, Firmware!outside, Firmware!work
<1>4. items \in SUBSET Held
  BY DEF Held
<1>5. /\ dirs \in Nat /\ dirs' = dirs + 1 /\ destPath' = dirs + 1 /\ dirs' = Len(contents')
      /\ contents' \in Seq(SUBSET Held)
  BY <1>2, <1>4, DirectoryMade DEF FirmwareInv
<1>0. /\ overlapped' \in BOOLEAN /\ starts' \in 0 .. ExStarts
      /\ ~overlapped' => ~overlapped
      /\ ~overlapped' => thread = "idle" /\ wine = "idle" /\ pending = <<>> /\ download = "idle"
  BY <1>2, BegunAlone
<1>6. FirmwareFlags'
  BY <1>1, <1>2, <1>3, <1>0, Zenon DEF FirmwareFlags
<1>7. FirmwareFields'
  BY <1>1, <1>2, <1>3, <1>5, <1>0 DEF FirmwareFields
<1>8. ~overlapped' => AloneInv'
  BY <1>0, <1>2, <1>3 DEF AloneInv
<1> QED  BY <1>2, <1>6, <1>7, <1>8, FirmwareTypedNext DEF FirmwareInv, Firmware!LinkedIsWhole

LEMMA InstallerRun == ASSUME FirmwareInv, Firmware!BrowseInstaller PROVE FirmwareInv'
<1>1. FirmwareFlags /\ FirmwareFields
  BY FirmwareTyped DEF FirmwareInv
<1>2. Firmware!Begin /\ Firmware!MakeDestPath({}) /\ buttons' = FALSE /\ wine' = "regedit"
  BY DEF Firmware!BrowseInstaller, Firmware!RunWine
<1>3. /\ download' = download /\ pending' = pending /\ byBlob' = byBlob /\ link' = link
      /\ wineInitialized' = wineInitialized /\ thread' = thread /\ files' = files
      /\ threadDest' = threadDest /\ found' = found /\ everything' = everything /\ exState' = exState
  BY DEF Firmware!BrowseInstaller, Firmware!work
<1>5. /\ dirs \in Nat /\ dirs' = dirs + 1 /\ destPath' = dirs + 1 /\ dirs' = Len(contents')
      /\ contents' \in Seq(SUBSET Held) /\ \A d \in 1 .. dirs : contents'[d] = contents[d]
  BY <1>2, DirectoryMade DEF FirmwareInv
<1>0. /\ overlapped' \in BOOLEAN /\ starts' \in 0 .. ExStarts
      /\ ~overlapped' => ~overlapped
      /\ ~overlapped' => thread = "idle" /\ wine = "idle" /\ pending = <<>> /\ download = "idle"
  BY <1>2, BegunAlone
<1>6. FirmwareFlags'
  BY <1>1, <1>2, <1>3, <1>0, Zenon DEF FirmwareFlags
<1>7. FirmwareFields'
  BY <1>1, <1>2, <1>3, <1>5, <1>0 DEF FirmwareFields
<1>8. ~overlapped' => AloneInv'
  BY <1>0, <1>2, <1>3 DEF AloneInv
<1>9. Firmware!LinkedIsWhole'
  BY <1>1, <1>2, <1>3, <1>5, <1>0 DEF FirmwareInv, Firmware!LinkedIsWhole, FirmwareFields
<1> QED  BY <1>6, <1>7, <1>8, <1>9, FirmwareTypedNext DEF FirmwareInv

LEMMA DirectorySearched == ASSUME FirmwareInv, NEW tree, Firmware!BrowseDir(tree) PROVE FirmwareInv'
<1>1. FirmwareFlags /\ FirmwareFields
  BY FirmwareTyped DEF FirmwareInv
<1>2. /\ Firmware!Begin /\ Firmware!MakeDestPath({}) /\ buttons' = FALSE /\ Firmware!StartThread(tree)
      /\ download' = download /\ wine' = wine /\ pending' = pending /\ byBlob' = byBlob /\ link' = link
      /\ wineInitialized' = wineInitialized /\ exState' = exState
  BY DEF Firmware!BrowseDir, Firmware!outside
<1>3. /\ everything' = everything
      /\ thread = "running" => thread' = thread /\ threadDest' = threadDest /\ found' = found
      /\ thread # "running" => thread' = "running" /\ threadDest' = destPath' /\ found' = {}
  BY <1>2 DEF Firmware!StartThread, Firmware!work
<1>5. /\ dirs \in Nat /\ dirs' = dirs + 1 /\ destPath' = dirs + 1 /\ dirs' = Len(contents')
      /\ contents' \in Seq(SUBSET Held) /\ \A d \in 1 .. dirs : contents'[d] = contents[d]
  BY <1>2, DirectoryMade DEF FirmwareInv
<1>0. /\ overlapped' \in BOOLEAN /\ starts' \in 0 .. ExStarts
      /\ ~overlapped' => ~overlapped
      /\ ~overlapped' => thread = "idle" /\ wine = "idle" /\ pending = <<>> /\ download = "idle"
  BY <1>2, BegunAlone
<1>6. FirmwareFlags'
  BY <1>1, <1>2, <1>3, <1>0, Zenon DEF FirmwareFlags
<1>7. FirmwareFields'
  BY <1>1, <1>2, <1>3, <1>5, <1>0 DEF FirmwareFields
<1>8. ~overlapped' => AloneInv'
  BY <1>1, <1>2, <1>3, <1>5, <1>0 DEF AloneInv, FirmwareFields
<1>9. Firmware!LinkedIsWhole'
  BY <1>1, <1>2, <1>3, <1>5, <1>0 DEF FirmwareInv, Firmware!LinkedIsWhole, FirmwareFields
<1> QED  BY <1>6, <1>7, <1>8, <1>9, FirmwareTypedNext DEF FirmwareInv

LEMMA DownloadBegun == ASSUME FirmwareInv, NEW opened, Firmware!Download(opened) PROVE FirmwareInv'
<1>1. FirmwareFlags /\ FirmwareFields
  BY FirmwareTyped DEF FirmwareInv
<1>2. /\ Firmware!Begin /\ download' \in {"idle", "busy"} /\ buttons' \in BOOLEAN
      /\ wine' = wine /\ pending' = pending /\ byBlob' = byBlob /\ link' = link /\ destPath' = destPath
      /\ wineInitialized' = wineInitialized /\ exState' = exState /\ dirs' = dirs /\ contents' = contents
      /\ thread' = thread /\ files' = files /\ threadDest' = threadDest /\ found' = found
      /\ everything' = everything
  <2>1. buttons' = buttons \/ buttons' = FALSE
    BY DEF Firmware!Download
  <2>2. buttons' \in BOOLEAN
    BY <1>1, <2>1, Zenon DEF FirmwareFlags
  <2> QED  BY <1>1, <2>2 DEF Firmware!Download, Firmware!disk, Firmware!work, FirmwareFields
<1>0. /\ overlapped' \in BOOLEAN /\ starts' \in 0 .. ExStarts
      /\ ~overlapped' => ~overlapped
      /\ ~overlapped' => thread = "idle" /\ wine = "idle" /\ pending = <<>> /\ download = "idle"
  BY <1>2, BegunAlone
<1>6. FirmwareFlags'
  BY <1>1, <1>2, <1>0, Zenon DEF FirmwareFlags
<1>7. FirmwareFields'
  BY <1>1, <1>2, <1>0 DEF FirmwareFields
<1>8. ~overlapped' => AloneInv'
  BY <1>2, <1>0 DEF AloneInv
<1>9. Firmware!LinkedIsWhole'
  BY <1>2, <1>0 DEF FirmwareInv, Firmware!LinkedIsWhole
<1> QED  BY <1>6, <1>7, <1>8, <1>9, FirmwareTypedNext DEF FirmwareInv

\* The download or Wine goes on: not while a directory is searched alone.
LEMMA WineGoesOn ==
    ASSUME FirmwareInv, \/ \E r \in {"ok", "bad", "norename"} : Firmware!Downloaded(r)
                        \/ \E r \in {<<TRUE>>, <<FALSE>>, <<FALSE, FALSE>>} : Firmware!WineEnds(r)
    PROVE  FirmwareInv'
<1>1. FirmwareFlags /\ FirmwareFields
  BY FirmwareTyped DEF FirmwareInv
<1>2. /\ buttons' \in BOOLEAN /\ download' \in {"idle", "busy"} /\ wine' \in {"idle", "regedit"}
      /\ pending' \in Seq(BOOLEAN) /\ Len(pending') =< 2
      /\ byBlob' = byBlob /\ link' = link /\ destPath' = destPath /\ overlapped' = overlapped
      /\ wineInitialized' = wineInitialized /\ exState' = exState /\ dirs' = dirs /\ contents' = contents
      /\ thread' = thread /\ files' = files /\ threadDest' = threadDest /\ found' = found
      /\ everything' = everything /\ starts' = starts /\ (download = "busy" \/ wine = "regedit")
  <2>1. CASE \E r \in {"ok", "bad", "norename"} : Firmware!Downloaded(r)
    <3>1. PICK r : Firmware!Downloaded(r)
      BY <2>1
    <3>2. buttons' = (buttons \/ r # "ok")
      BY <3>1 DEF Firmware!Downloaded
    <3>3. buttons' \in BOOLEAN
      BY <3>2, Zenon
    <3> QED  BY <1>1, <3>1, <3>3 DEF Firmware!Downloaded, Firmware!RunWine, Firmware!disk, Firmware!work, FirmwareFields
  <2>2. CASE \E r \in {<<TRUE>>, <<FALSE>>, <<FALSE, FALSE>>} : Firmware!WineEnds(r)
    <3>1. PICK r \in {<<TRUE>>, <<FALSE>>, <<FALSE, FALSE>>} : Firmware!WineEnds(r)
      BY <2>2
    <3>2. buttons' \in BOOLEAN
      BY <1>1, <3>1, Zenon DEF FirmwareFlags, Firmware!WineEnds
    <3>3. r \in Seq(BOOLEAN) /\ Len(r) =< 2
      <4>1. <<TRUE>> \in Seq(BOOLEAN) /\ Len(<<TRUE>>) = 1
        OBVIOUS
      <4>2. <<FALSE>> \in Seq(BOOLEAN) /\ Len(<<FALSE>>) = 1
        OBVIOUS
      <4>3. <<FALSE, FALSE>> \in Seq(BOOLEAN) /\ Len(<<FALSE, FALSE>>) = 2
        OBVIOUS
      <4>4. CASE r = <<TRUE>>
        BY <4>1, <4>4
      <4>5. CASE r = <<FALSE>>
        BY <4>2, <4>5
      <4>6. CASE r = <<FALSE, FALSE>>
        BY <4>3, <4>6
      <4> QED  BY <4>4, <4>5, <4>6
    <3> QED  BY <1>1, <3>1, <3>2, <3>3 DEF Firmware!WineEnds, Firmware!disk, Firmware!work, FirmwareFields
  <2> QED  BY <2>1, <2>2
<1>6. FirmwareFlags'
  BY <1>1, <1>2, Zenon DEF FirmwareFlags
<1>7. FirmwareFields'
  BY <1>1, <1>2 DEF FirmwareFields
<1>8. ~overlapped' => AloneInv'
  BY <1>2 DEF FirmwareInv, AloneInv
<1>9. Firmware!LinkedIsWhole'
  BY <1>2 DEF FirmwareInv, Firmware!LinkedIsWhole
<1> QED  BY <1>6, <1>7, <1>8, <1>9, FirmwareTypedNext DEF FirmwareInv

LEMMA WineHandled == ASSUME FirmwareInv, Firmware!WineFinished PROVE FirmwareInv'
<1>1. FirmwareFlags /\ FirmwareFields
  BY FirmwareTyped DEF FirmwareInv
<1>2. /\ pending # <<>> /\ buttons' = buttons /\ download' = download /\ wine' = wine /\ link' = link
      /\ exState' = exState /\ overlapped' = overlapped /\ byBlob' = byBlob /\ starts' = starts
      /\ wineInitialized' = TRUE \/ wineInitialized' = wineInitialized
      /\ pending' = Tail(pending) \/ pending' = <<FALSE>>
  BY DEF Firmware!WineFinished
<1>3. pending' \in Seq(BOOLEAN) /\ Len(pending') =< 2
  <2>1. pending \in Seq(BOOLEAN) /\ Len(pending) =< 2
    BY <1>1 DEF FirmwareFields
  <2>2. Tail(pending) \in Seq(BOOLEAN) /\ Len(Tail(pending)) =< 2
    BY <2>1, <1>2
  <2>3. <<FALSE>> \in Seq(BOOLEAN) /\ Len(<<FALSE>>) =< 2
    OBVIOUS
  <2> QED  BY <1>2, <2>2, <2>3
<1>4. CASE UNCHANGED <<destPath, dirs, contents, thread, files, threadDest, found, everything>>
  <2>1. FirmwareFlags'
    BY <1>1, <1>2, <1>4, Zenon DEF FirmwareFlags
  <2>2. FirmwareFields'
    BY <1>1, <1>2, <1>3, <1>4 DEF FirmwareFields
  <2>3. ~overlapped' => AloneInv'
    BY <1>2, <1>4 DEF FirmwareInv, AloneInv
  <2> QED  BY <1>2, <1>4, <2>1, <2>2, <2>3, FirmwareTypedNext DEF FirmwareInv, Firmware!LinkedIsWhole
<1>5. CASE Firmware!MakeDestPath({}) /\ Firmware!StartThread(<<>>)
  <2>1. /\ everything' = everything
        /\ thread = "running" => /\ thread' = thread /\ threadDest' = threadDest /\ found' = found
                                 /\ files' = files
        /\ thread # "running" => /\ thread' = "running" /\ threadDest' = destPath' /\ found' = {}
                                 /\ files' = <<>>
    BY <1>5 DEF Firmware!StartThread, Firmware!work
  <2>2. /\ dirs \in Nat /\ dirs' = dirs + 1 /\ destPath' = dirs + 1 /\ dirs' = Len(contents')
        /\ contents' \in Seq(SUBSET Held) /\ \A d \in 1 .. dirs : contents'[d] = contents[d]
    BY <1>5, DirectoryMade DEF FirmwareInv
  <2>3. FirmwareFlags'
    BY <1>1, <1>2, <2>1, Zenon DEF FirmwareFlags
  <2>4. FirmwareFields'
    BY <1>1, <1>2, <1>3, <2>1, <2>2 DEF FirmwareFields
  <2>5. ~overlapped' => AloneInv'
    BY <1>1, <1>2, <2>1, <2>2 DEF FirmwareInv, AloneInv, FirmwareFields
  <2>6. Firmware!LinkedIsWhole'
    BY <1>1, <1>2, <2>2 DEF FirmwareInv, Firmware!LinkedIsWhole, FirmwareFields
  <2> QED  BY <2>3, <2>4, <2>5, <2>6, FirmwareTypedNext DEF FirmwareInv
<1> QED  BY <1>4, <1>5 DEF Firmware!WineFinished, Firmware!disk, Firmware!work

\* A file looked at: what is marked as found lies in the thread's directory, no other changes.
LEMMA FileSeen ==
    ASSUME FirmwareFields, thread = "running", NEW f, Firmware!Look(f)
    PROVE  /\ contents' \in Seq(SUBSET Held) /\ Len(contents') = Len(contents)
           /\ \A d \in 1 .. dirs : d # threadDest => contents'[d] = contents[d]
           /\ found' \subseteq Firmware!Items
           /\ found \subseteq contents[threadDest] => found' \subseteq contents'[threadDest]
<1> DEFINE there == contents[threadDest]
<1>1. threadDest \in 1 .. Len(contents) /\ contents \in Seq(SUBSET Held) /\ there \in SUBSET Held
      /\ found \subseteq Firmware!Items /\ dirs = Len(contents)
  BY DEF FirmwareFields
<1>2. \E items \in SUBSET Held :
         /\ contents' = [contents EXCEPT ![threadDest] = items] /\ found' \subseteq Firmware!Items
         /\ found \subseteq there => found' \subseteq items
  <2>1. CASE f = "views" /\ found' = Firmware!HasFlag("views", "views" \notin there)
             /\ contents' = [contents EXCEPT ![threadDest] = there \cup {"views"}]
    <3>1. there \cup {"views"} \in SUBSET Held
      BY <1>1 DEF Firmware!Items, Held
    <3>2. found' \subseteq Firmware!Items /\ (found \subseteq there => found' \subseteq there \cup {"views"})
      BY <1>1, <2>1 DEF Firmware!HasFlag, Firmware!Items
    <3> QED  BY <2>1, <3>1, <3>2
  <2>2. CASE f = "game" /\ found' = Firmware!HasFlag("game", TRUE)
             /\ contents' = [contents EXCEPT ![threadDest] = there \cup {"game"}]
    <3>1. there \cup {"game"} \in SUBSET Held
      BY <1>1 DEF Firmware!Items, Held
    <3>2. found' \subseteq Firmware!Items /\ (found \subseteq there => found' \subseteq there \cup {"game"})
      BY <1>1, <2>2 DEF Firmware!HasFlag, Firmware!Items
    <3> QED  BY <2>2, <3>1, <3>2
  <2>3. CASE f = "badgame" /\ found' = Firmware!HasFlag("game", FALSE)
             /\ contents' = [contents EXCEPT ![threadDest] = there \ {"game"}]
    <3>1. there \ {"game"} \in SUBSET Held
      BY <1>1 DEF Firmware!Items, Held
    <3>2. found' \subseteq Firmware!Items /\ (found \subseteq there => found' \subseteq there \ {"game"})
      BY <1>1, <2>3 DEF Firmware!HasFlag, Firmware!Items
    <3> QED  BY <2>3, <3>1, <3>2
  <2>4. CASE f \in Blocks /\ found' = found \cup {f}
             /\ contents' = [contents EXCEPT ![threadDest] = there \cup {f}]
    <3>1. there \cup {f} \in SUBSET Held
      BY <1>1, <2>4 DEF Firmware!Items, Held
    <3>2. found' \subseteq Firmware!Items /\ (found \subseteq there => found' \subseteq there \cup {f})
      BY <1>1, <2>4 DEF Firmware!Items
    <3> QED  BY <2>4, <3>1, <3>2
  <2>5. CASE f = "other" /\ UNCHANGED <<found, contents>>
    <3>1. contents' = [contents EXCEPT ![threadDest] = there]
      BY <1>1, <2>5
    <3> QED  BY <1>1, <2>5, <3>1
  <2> QED  BY <2>1, <2>2, <2>3, <2>4, <2>5 DEF Firmware!Look
<1> QED  BY <1>1, <1>2

LEMMA FileAnalysed == ASSUME FirmwareInv, Firmware!Analyse PROVE FirmwareInv'
<1>1. FirmwareFlags /\ FirmwareFields
  BY FirmwareTyped DEF FirmwareInv
<1>2. /\ thread = "running" /\ buttons' = buttons /\ wineInitialized' = wineInitialized
      /\ download' = download /\ wine' = wine /\ pending' = pending /\ destPath' = destPath
      /\ dirs' = dirs /\ link' = link /\ threadDest' = threadDest /\ exState' = exState
      /\ overlapped' = overlapped /\ byBlob' = byBlob /\ starts' = starts
  BY DEF Firmware!Analyse, Firmware!outside
<1>3. CASE found = Firmware!Items \/ files = <<>>
  <2>1. /\ thread' = "done" /\ everything' = (found = Firmware!Items)
        /\ files' = files /\ found' = found /\ contents' = contents
    BY <1>3 DEF Firmware!Analyse
  <2>2. everything' \in BOOLEAN /\ (everything' => found = Firmware!Items)
    BY <2>1, Zenon
  <2>3. FirmwareFlags'
    BY <1>1, <1>2, <2>2, Zenon DEF FirmwareFlags
  <2>4. FirmwareFields'
    BY <1>1, <1>2, <2>1 DEF FirmwareFields
  <2>5. Firmware!Items # {}
    BY DEF Firmware!Items
  <2>6. ~overlapped' => AloneInv'
    <3> SUFFICES ASSUME AloneInv PROVE AloneInv'
      BY <1>2 DEF FirmwareInv
    <3>1. /\ link' # threadDest'
          /\ \/ files' = <<>> /\ found' = {}
             \/ destPath' = threadDest' /\ pending' = <<>> /\ wine' = "idle" /\ download' = "idle"
      BY <1>2, <2>1 DEF AloneInv
    <3>2. ASSUME everything' PROVE destPath' # 0 /\ Firmware!Items \subseteq contents'[destPath']
      <4>1. found = Firmware!Items
        BY <2>2, <3>2
      <4>2. destPath = threadDest /\ found \subseteq contents[threadDest] /\ threadDest # 0
        BY <1>1, <1>2, <2>5, <4>1 DEF AloneInv, FirmwareFields
      <4> QED  BY <1>2, <2>1, <4>1, <4>2
    <3> QED  BY <2>1, <3>1, <3>2 DEF AloneInv
  <2> QED  BY <1>2, <2>1, <2>3, <2>4, <2>6, FirmwareTypedNext DEF FirmwareInv, Firmware!LinkedIsWhole
<1>4. CASE ~(found = Firmware!Items \/ files = <<>>)
  <2>1. /\ Firmware!Look(Head(files)) /\ files' = Tail(files) /\ thread' = thread
        /\ everything' = everything
    BY <1>4 DEF Firmware!Analyse
  <2>2. /\ contents' \in Seq(SUBSET Held) /\ Len(contents') = Len(contents)
        /\ \A d \in 1 .. dirs : d # threadDest => contents'[d] = contents[d]
        /\ found' \subseteq Firmware!Items
        /\ found \subseteq contents[threadDest] => found' \subseteq contents'[threadDest]
    BY <1>1, <1>2, <2>1, FileSeen
  <2>3. FirmwareFlags'
    BY <1>1, <1>2, <2>1, Zenon DEF FirmwareFlags
  <2>4. FirmwareFields'
    BY <1>1, <1>2, <2>1, <2>2 DEF FirmwareFields
  <2>6. ~overlapped' => AloneInv'
    BY <1>2, <1>4, <2>1, <2>2 DEF FirmwareInv, AloneInv
  <2>7. Firmware!LinkedIsWhole'
    BY <1>1, <1>2, <2>1, <2>2 DEF FirmwareInv, AloneInv, Firmware!LinkedIsWhole, FirmwareFields
  <2> QED  BY <2>3, <2>4, <2>6, <2>7, FirmwareTypedNext DEF FirmwareInv
<1> QED  BY <1>3, <1>4

LEMMA ThreadHandled == ASSUME FirmwareInv, Firmware!ThreadFinished PROVE FirmwareInv'
<1>1. FirmwareFlags /\ FirmwareFields
  BY FirmwareTyped DEF FirmwareInv
<1>2. /\ thread = "done" /\ thread' = "idle" /\ buttons' = TRUE
      /\ everything => link' = destPath /\ byBlob' = FALSE
      /\ ~everything => link' = link /\ byBlob' = byBlob
      /\ download' = download /\ wine' = wine /\ pending' = pending /\ destPath' = destPath
      /\ wineInitialized' = wineInitialized /\ dirs' = dirs /\ contents' = contents
      /\ threadDest' = threadDest /\ found' = found /\ files' = files
      /\ everything' = everything /\ overlapped' = overlapped /\ starts' = starts
      /\ Firmware!Advance(link' # 0 /\ Firmware!Items \subseteq contents[link'])
  BY DEF Firmware!ThreadFinished, Firmware!outside, Firmware!disk
<1>3. exState' \in {"DONE", "TIR_FW", "MFC", "LTR_W"}
  BY <1>2, Zenon DEF Firmware!Advance
<1>4. FirmwareFlags'
  BY <1>1, <1>2, Zenon DEF FirmwareFlags
<1>5. FirmwareFields'
  BY <1>1, <1>2, <1>3 DEF FirmwareFields
<1>6. ~overlapped' => AloneInv'
  BY <1>2 DEF AloneInv
<1>7. Firmware!LinkedIsWhole'
  BY <1>1, <1>2 DEF FirmwareInv, AloneInv, Firmware!LinkedIsWhole, FirmwareFields
<1> QED  BY <1>4, <1>5, <1>6, <1>7, FirmwareTypedNext DEF FirmwareInv

LEMMA BesideExtraction ==
    ASSUME FirmwareInv, Firmware!InstallPressed \/ Firmware!MfcPlaced \/ Firmware!BridgeDone \/ UNCHANGED firmwareVars
    PROVE  FirmwareInv'
<1>1. FirmwareFlags /\ FirmwareFields
  BY FirmwareTyped DEF FirmwareInv
<1>2. /\ buttons' = buttons /\ wineInitialized' = wineInitialized /\ everything' = everything
      /\ download' = download /\ wine' = wine /\ pending' = pending /\ destPath' = destPath
      /\ dirs' = dirs /\ link' = link /\ threadDest' = threadDest /\ thread' = thread /\ files' = files
      /\ found' = found /\ overlapped' = overlapped /\ byBlob' = byBlob /\ starts' = starts
  BY DEF Firmware!InstallPressed, Firmware!MfcPlaced, Firmware!BridgeDone, firmwareVars, Firmware!outside,
         Firmware!disk, Firmware!work
<1>3. exState' \in {"DONE", "TIR_FW", "MFC", "LTR_W"}
  BY <1>1 DEF Firmware!InstallPressed, Firmware!MfcPlaced, Firmware!BridgeDone, firmwareVars, FirmwareFields
<1>4. /\ contents' \in Seq(SUBSET Held) /\ Len(contents') = Len(contents)
      /\ \A d \in 1 .. dirs : contents[d] \subseteq contents'[d]
  <2>1. contents \in Seq(SUBSET Held) /\ dirs = Len(contents) /\ link \in 0 .. dirs
    BY <1>1 DEF FirmwareFields
  <2>2. CASE contents' = contents
    BY <2>1, <2>2
  <2>3. CASE Firmware!MfcPlaced
    <3>1. link # 0 /\ contents' = [contents EXCEPT ![link] = contents[link] \cup {"mfc"}]
      BY <2>3 DEF Firmware!MfcPlaced
    <3>2. link \in 1 .. Len(contents)
      BY <2>1, <3>1
    <3>3. contents[link] \cup {"mfc"} \in SUBSET Held
      BY <2>1, <3>2 DEF Held
    <3> QED  BY <2>1, <3>1, <3>2, <3>3
  <2> QED  BY <2>2, <2>3 DEF Firmware!InstallPressed, Firmware!BridgeDone, firmwareVars, Firmware!disk
<1>5. FirmwareFlags'
  BY <1>1, <1>2, Zenon DEF FirmwareFlags
<1>6. FirmwareFields'
  BY <1>1, <1>2, <1>3, <1>4 DEF FirmwareFields
<1>7. ~overlapped' => AloneInv'
  <2> SUFFICES ASSUME ~overlapped' PROVE AloneInv'
    OBVIOUS
  <2>1. AloneInv
    BY <1>2 DEF FirmwareInv
  <2>2. thread = "running" => contents[threadDest] \subseteq contents'[threadDest]
    BY <1>1, <1>4 DEF FirmwareFields
  <2>3. destPath # 0 => contents[destPath] \subseteq contents'[destPath]
    BY <1>1, <1>4 DEF FirmwareFields
  <2> QED  BY <1>2, <2>1, <2>2, <2>3 DEF AloneInv
<1>8. Firmware!LinkedIsWhole'
  BY <1>1, <1>2, <1>4 DEF FirmwareInv, Firmware!LinkedIsWhole, FirmwareFields
<1> QED  BY <1>5, <1>6, <1>7, <1>8, FirmwareTypedNext DEF FirmwareInv

LEMMA FirmwareKeeps == FirmwareInv /\ (Firmware!Next \/ UNCHANGED firmwareVars) => FirmwareInv'
BY BlobExtracted, InstallerRun, DirectorySearched, DownloadBegun, WineGoesOn, WineHandled, FileAnalysed, ThreadHandled,
   BesideExtraction DEF Firmware!Next, Firmware!Progress

LEMMA FirmwareSound == FirmwareInv => Firmware!LinkedIsWhole /\ Firmware!TypeOK
BY DEF FirmwareInv, FirmwareTypes

-----------------------------------------------------------------------
(* The X-Plane plugin *)

ASSUME PluginAssumption == Seats \subseteq Int /\ Poses \subseteq Int /\ XpOrders \in Nat

PluginFlags ==
    /\ active \in BOOLEAN /\ posInit \in BOOLEAN /\ freeze \in BOOLEAN /\ initialized \in BOOLEAN
    /\ xpControl \in BOOLEAN /\ pvPresent \in BOOLEAN /\ shut \in BOOLEAN /\ strayed \in BOOLEAN

PluginFields ==
    /\ view \in {"cockpit", "other"} /\ pilotView \in {"absent", "on", "off"}
    /\ xpAsked \in {"none", "suspend", "wakeup"} /\ window \in {"none", "shown", "hidden"}
    /\ xpLibrary \in {"none", "failed", "STOPPED", "RUNNING"}
    /\ phase \in {"loaded", "up", "stopped"} /\ orders \in 0 .. XpOrders
    /\ seat \in Seats /\ head \in Int /\ roll \in Int /\ base \in Int /\ current \in Int

\* The plugin is active only when it noticed the library.  The head is in the seat whenever the
\* plugin does not move it, and base is the seat from the first frame on.
SeatInv ==
    /\ active => initialized /\ phase # "loaded"
    /\ Plugin!AskedAsActive
    /\ ~strayed /\ (~active \/ posInit \/ ~xpControl \/ pvPresent) => head = seat
    /\ active /\ ~posInit /\ ~strayed => base = seat

PluginInv == PluginFlags /\ PluginFields /\ SeatInv

LEMMA PluginBegins == Plugin!Init => PluginInv
<1> SUFFICES ASSUME Plugin!Init PROVE PluginInv
  OBVIOUS
<1>1. PluginFlags
  BY Zenon DEF Plugin!Init, PluginFlags
<1>2. PluginFields
  BY PluginAssumption DEF Plugin!Init, PluginFields
<1>3. ~active /\ ~initialized /\ head = seat
  BY Zenon DEF Plugin!Init
<1> QED  BY <1>1, <1>2, <1>3 DEF PluginInv, SeatInv, Plugin!AskedAsActive

LEMMA Ordered == ASSUME PluginFields, Plugin!Order PROVE orders' \in 0 .. XpOrders
BY PluginAssumption DEF PluginFields, Plugin!Order

LEMMA Enabled == ASSUME PluginFields, NEW on, Plugin!SetEnabled(on) \/ Plugin!SetPilotView(on)
                 PROVE  pilotView' \in {"absent", "on", "off"}
BY DEF PluginFields, Plugin!SetEnabled, Plugin!SetPilotView

\* The library is loaded, answers and is let go.
LEMMA PluginStarts ==
    ASSUME PluginInv, Plugin!Start \/ Plugin!Reports \/ Plugin!Stop \/ Plugin!ShowSetup \/ Plugin!CloseSetup
    PROVE  PluginInv'
<1>1. /\ view' = view /\ head' = head /\ roll' = roll /\ pilotView' = pilotView /\ base' = base
      /\ current' = current /\ active' = active /\ posInit' = posInit /\ freeze' = freeze
      /\ initialized' = initialized /\ pvPresent' = pvPresent /\ xpAsked' = xpAsked /\ seat' = seat
      /\ strayed' = strayed /\ orders' = orders
      /\ shut' = shut \/ shut' = initialized
      /\ xpControl' = xpControl \/ (xpControl' = TRUE /\ phase = "loaded")
      /\ phase' # "loaded" \/ phase' = phase
  BY DEF Plugin!Start, Plugin!Reports, Plugin!Stop, Plugin!ShowSetup, Plugin!CloseSetup, Plugin!sim, Plugin!libs
<1>2. PluginFlags'
  BY <1>1, Zenon DEF PluginInv, PluginFlags
<1>3. PluginFields'
  BY <1>1 DEF PluginInv, PluginFields, Plugin!Start, Plugin!Reports, Plugin!Stop, Plugin!ShowSetup,
     Plugin!CloseSetup, Plugin!libs
<1>4. SeatInv'
  BY <1>1 DEF PluginInv, SeatInv, Plugin!AskedAsActive
<1> QED  BY <1>2, <1>3, <1>4 DEF PluginInv

LEMMA SwitchedOn == ASSUME PluginInv, Plugin!Activate PROVE PluginInv'
<1>1. /\ view' = view /\ head' = head /\ roll' = roll /\ base' = base /\ current' = current
      /\ initialized' = initialized /\ xpControl' = xpControl /\ pvPresent' = pvPresent
      /\ xpLibrary' = xpLibrary /\ shut' = shut /\ window' = window /\ phase' = phase /\ seat' = seat
      /\ strayed' = strayed /\ xpAsked' = "wakeup" /\ active' = TRUE /\ posInit' = TRUE /\ freeze' = FALSE
      /\ phase = "up" /\ ~active /\ initialized
  BY DEF Plugin!Activate, Plugin!sim
<1>2. PluginFlags'
  BY <1>1, Zenon DEF PluginInv, PluginFlags
<1>3. Plugin!Order /\ Plugin!SetEnabled(TRUE)
  BY DEF Plugin!Activate
<1>4. PluginFields'
  BY <1>1, <1>3, Ordered, Enabled DEF PluginInv, PluginFields
<1>5. SeatInv'
  BY <1>1 DEF PluginInv, SeatInv, Plugin!AskedAsActive
<1> QED  BY <1>2, <1>4, <1>5 DEF PluginInv

LEMMA SwitchedOff == ASSUME PluginInv, Plugin!Deactivate PROVE PluginInv'
<1>1. /\ view' = view /\ base' = base /\ current' = current /\ posInit' = posInit /\ freeze' = freeze
      /\ initialized' = initialized /\ xpControl' = xpControl /\ pvPresent' = pvPresent
      /\ xpLibrary' = xpLibrary /\ shut' = shut /\ window' = window /\ phase' = phase /\ seat' = seat
      /\ xpAsked' = "suspend" /\ active' = FALSE /\ phase = "up" /\ active
  BY DEF Plugin!Deactivate
<1>2. strayed' = (strayed \/ ((posInit \/ view # "cockpit") /\ head' # seat))
  BY DEF Plugin!Deactivate, Plugin!LettingGo
<1>3. strayed' \in BOOLEAN
  BY <1>2, Zenon
<1>4. ~strayed' => ~strayed /\ (posInit \/ view # "cockpit" => head' = seat)
  BY <1>2, Zenon
<1>5. PluginFlags'
  BY <1>1, <1>3, Zenon DEF PluginInv, PluginFlags
<1>6. Plugin!Order /\ Plugin!SetEnabled(FALSE) /\ Plugin!RevertView
  BY DEF Plugin!Deactivate
<1>7. PluginFields'
  <2>1. pilotView' \in {"absent", "on", "off"} /\ orders' \in 0 .. XpOrders
    BY <1>6, Ordered, Enabled DEF PluginInv
  <2>2. head' \in Int /\ roll' \in Int
    BY <1>6 DEF PluginInv, PluginFields, Plugin!RevertView
  <2> QED  BY <1>1, <2>1, <2>2 DEF PluginInv, PluginFields
<1>8. SeatInv'
  BY <1>1, <1>4, <1>6 DEF PluginInv, SeatInv, Plugin!AskedAsActive, Plugin!RevertView
<1> QED  BY <1>5, <1>7, <1>8 DEF PluginInv

LEMMA ControlSet == ASSUME PluginInv, NEW on \in BOOLEAN, Plugin!SetControl(on) PROVE PluginInv'
<1>1. /\ view' = view /\ base' = base /\ current' = current /\ posInit' = posInit /\ freeze' = freeze
      /\ initialized' = initialized /\ xpControl' = on /\ pvPresent' = pvPresent /\ active' = active
      /\ xpLibrary' = xpLibrary /\ xpAsked' = xpAsked /\ shut' = shut /\ window' = window /\ phase' = phase
      /\ seat' = seat /\ pilotView' = pilotView /\ on # xpControl
  BY DEF Plugin!SetControl, Plugin!libs
<1>2. strayed' = (strayed \/ (~on /\ (posInit \/ ~active \/ view # "cockpit") /\ head' # seat))
  BY DEF Plugin!SetControl, Plugin!LettingGo
<1>3. strayed' \in BOOLEAN
  BY <1>2, Zenon
<1>4. ~strayed' => ~strayed /\ (~on /\ (posInit \/ ~active \/ view # "cockpit") => head' = seat)
  BY <1>2, Zenon
<1>5. PluginFlags'
  BY <1>1, <1>3, Zenon DEF PluginInv, PluginFlags
<1>6. /\ Plugin!Order /\ ((~on /\ Plugin!RevertView) \/ (head' = head /\ roll' = roll)) /\ (on => head' = head)
      /\ ~on /\ view = "cockpit" => Plugin!RevertView
  BY DEF Plugin!SetControl
<1>7. PluginFields'
  BY <1>1, <1>6, Ordered DEF PluginInv, PluginFields, Plugin!RevertView
<1>8. SeatInv'
  <2>1. active' => initialized' /\ phase' # "loaded"
    BY <1>1 DEF PluginInv, SeatInv
  <2>2. Plugin!AskedAsActive'
    BY <1>1 DEF PluginInv, SeatInv, Plugin!AskedAsActive
  <2>3. on => ~xpControl
    BY <1>1 DEF PluginInv, PluginFlags
  <2>4. ASSUME ~strayed', ~active' \/ posInit' \/ ~xpControl' \/ pvPresent' PROVE head' = seat'
    <3>1. CASE on
      BY <1>1, <1>4, <1>6, <2>3, <2>4, <3>1 DEF PluginInv, SeatInv
    <3>2. CASE ~on /\ (posInit \/ ~active \/ view # "cockpit")
      BY <1>1, <1>4, <2>4, <3>2
    <3>3. CASE ~on /\ ~posInit /\ active /\ view = "cockpit"
      BY <1>1, <1>4, <1>6, <2>4, <3>3 DEF PluginInv, SeatInv, Plugin!RevertView
    <3> QED  BY <3>1, <3>2, <3>3
  <2>5. active' /\ ~posInit' /\ ~strayed' => base' = seat'
    BY <1>1, <1>4 DEF PluginInv, SeatInv
  <2> QED  BY <2>1, <2>2, <2>4, <2>5 DEF SeatInv
<1> QED  BY <1>5, <1>7, <1>8 DEF PluginInv

LEMMA FrameDone == ASSUME PluginInv, NEW p \in Poses \cup {Plugin!NoPose}, Plugin!Callback(p) PROVE PluginInv'
<1> DEFINE start == IF posInit THEN head ELSE base
           failed == ~freeze /\ p = Plugin!NoPose
           now == IF freeze \/ failed THEN current ELSE p
<1>0. p \in Int
  BY PluginAssumption DEF Plugin!NoPose
<1>1. /\ view' = view /\ pilotView' = pilotView /\ active' = active /\ freeze' = freeze
      /\ xpControl' = xpControl /\ pvPresent' = pvPresent /\ xpLibrary' = xpLibrary /\ shut' = shut
      /\ window' = window /\ phase' = phase /\ seat' = seat /\ strayed' = strayed /\ orders' = orders
      /\ phase = "up" /\ posInit' = FALSE /\ base' = start
      /\ initialized' = Plugin!Noticed
      /\ xpAsked' = IF Plugin!Noticed /\ ~initialized THEN "suspend" ELSE xpAsked
  BY DEF Plugin!Callback
<1>2. initialized' \in BOOLEAN /\ (initialized => initialized') /\ (initialized' /\ ~initialized => Plugin!Noticed)
  BY <1>1, Zenon DEF Plugin!Noticed
<1>3. PluginFlags'
  BY <1>1, <1>2, Zenon DEF PluginInv, PluginFlags
<1>4. /\ current' = current \/ current' = now
      /\ \/ head' = head /\ roll' = roll
         \/ active /\ ~pvPresent /\ xpControl /\ roll' = 0 /\ head' = head
         \/ active /\ ~pvPresent /\ xpControl /\ roll' = now /\ head' = start + now
  BY DEF Plugin!Callback
<1>5. now \in Int /\ start \in Int
  BY <1>0 DEF PluginInv, PluginFields
<1>6. PluginFields'
  <2> HIDE DEF now, start
  <2> QED  BY <1>1, <1>4, <1>5 DEF PluginInv, PluginFields
<1>7. SeatInv'
  <2>1. active' => initialized' /\ phase' # "loaded"
    BY <1>1, <1>2 DEF PluginInv, SeatInv
  <2>2. Plugin!AskedAsActive'
    BY <1>1, <1>2 DEF PluginInv, SeatInv, Plugin!AskedAsActive
  <2>4. ASSUME ~strayed', ~active' \/ posInit' \/ ~xpControl' \/ pvPresent' PROVE head' = seat'
    BY <1>1, <1>4, <2>4 DEF PluginInv, SeatInv
  <2>5. active' /\ ~posInit' /\ ~strayed' => base' = seat'
    BY <1>1 DEF PluginInv, SeatInv
  <2> QED  BY <2>1, <2>2, <2>4, <2>5 DEF SeatInv
<1> QED  BY <1>3, <1>6, <1>7 DEF PluginInv

LEMMA SeatChosen == ASSUME PluginInv, NEW p \in Seats, Plugin!PlaneLoaded(p) \/ Plugin!MoveSeat(p) PROVE PluginInv'
<1>1. /\ view' = view /\ base' = base /\ current' = current /\ posInit' = posInit /\ freeze' = freeze
      /\ initialized' = initialized /\ xpControl' = xpControl /\ active' = active
      /\ xpLibrary' = xpLibrary /\ xpAsked' = xpAsked /\ shut' = shut /\ window' = window /\ phase' = phase
      /\ head' = p /\ Plugin!Order /\ (roll' = 0 \/ roll' = roll)
      /\ pilotView' = pilotView \/ Plugin!SetPilotView(TRUE)
  BY DEF Plugin!PlaneLoaded, Plugin!MoveSeat, Plugin!libs
<1>2. \/ seat' = p /\ strayed' = (active /\ ~posInit)
      \/ /\ seat' = seat /\ strayed' = strayed /\ pvPresent' = pvPresent
         /\ active /\ ~posInit /\ xpControl /\ ~pvPresent
  BY DEF Plugin!PlaneLoaded, Plugin!MoveSeat
<1>3. pvPresent' = pvPresent \/ pvPresent' = (pilotView # "absent")
  BY DEF Plugin!PlaneLoaded, Plugin!MoveSeat
<1>4. strayed' \in BOOLEAN /\ pvPresent' \in BOOLEAN
  BY <1>2, <1>3, Zenon DEF PluginInv, PluginFlags
<1>5. PluginFlags'
  BY <1>1, <1>4, Zenon DEF PluginInv, PluginFlags
<1>6. PluginFields'
  <2>1. pilotView' \in {"absent", "on", "off"} /\ orders' \in 0 .. XpOrders
    BY <1>1, Ordered, Enabled DEF PluginInv, PluginFields
  <2>2. head' \in Int /\ roll' \in Int /\ seat' \in Seats
    BY <1>1, <1>2, PluginAssumption DEF PluginInv, PluginFields
  <2> QED  BY <1>1, <2>1, <2>2 DEF PluginInv, PluginFields
<1>7. SeatInv'
  <2>1. active' => initialized' /\ phase' # "loaded"
    BY <1>1 DEF PluginInv, SeatInv
  <2>2. Plugin!AskedAsActive'
    BY <1>1 DEF PluginInv, SeatInv, Plugin!AskedAsActive
  <2>4. ASSUME ~strayed', ~active' \/ posInit' \/ ~xpControl' \/ pvPresent' PROVE head' = seat'
    BY <1>1, <1>2, <2>4
  <2>5. active' /\ ~posInit' /\ ~strayed' => base' = seat'
    <3>1. CASE seat' = p /\ strayed' = (active /\ ~posInit)
      BY <1>1, <3>1, Zenon
    <3>2. CASE seat' = seat /\ strayed' = strayed
      BY <1>1, <3>2 DEF PluginInv, SeatInv
    <3> QED  BY <1>2, <3>1, <3>2
  <2> QED  BY <2>1, <2>2, <2>4, <2>5 DEF SeatInv
<1> QED  BY <1>5, <1>6, <1>7 DEF PluginInv

LEMMA ViewChanged == ASSUME PluginInv, Plugin!Pause \/ Plugin!ChangeView \/ UNCHANGED pluginVars PROVE PluginInv'
<1>1. /\ head' = head /\ roll' = roll /\ pilotView' = pilotView /\ base' = base
      /\ current' = current /\ active' = active /\ posInit' = posInit /\ shut' = shut
      /\ initialized' = initialized /\ pvPresent' = pvPresent /\ xpAsked' = xpAsked /\ seat' = seat
      /\ strayed' = strayed /\ xpControl' = xpControl /\ phase' = phase /\ window' = window
      /\ xpLibrary' = xpLibrary /\ (freeze' = freeze \/ freeze' = ~freeze)
      /\ view' = view \/ view' = "other" \/ view' = "cockpit"
      /\ orders' = orders \/ Plugin!Order
  BY DEF Plugin!Pause, Plugin!ChangeView, pluginVars, Plugin!sim, Plugin!libs
<1>2. PluginFlags'
  BY <1>1, Zenon DEF PluginInv, PluginFlags
<1>3. PluginFields'
  BY <1>1, Ordered DEF PluginInv, PluginFields
<1>4. SeatInv'
  BY <1>1 DEF PluginInv, SeatInv, Plugin!AskedAsActive
<1> QED  BY <1>2, <1>3, <1>4 DEF PluginInv

LEMMA PluginKeeps == PluginInv /\ (Plugin!Next \/ UNCHANGED pluginVars) => PluginInv'
BY PluginStarts, SwitchedOn, SwitchedOff, ControlSet, FrameDone, SeatChosen, ViewChanged DEF Plugin!Next, Plugin!Run

LEMMA PluginSound == PluginInv => Plugin!AskedAsActive /\ Plugin!BaseIsSeat /\ Plugin!TypeOK
<1> SUFFICES ASSUME PluginInv PROVE Plugin!AskedAsActive /\ Plugin!BaseIsSeat /\ Plugin!TypeOK
  OBVIOUS
<1>1. {active, posInit, freeze, initialized, xpControl, pvPresent, shut, strayed} \subseteq BOOLEAN
  BY Zenon DEF PluginInv, PluginFlags
<1> QED  BY <1>1 DEF PluginInv, PluginFields, SeatInv, Plugin!BaseIsSeat, Plugin!TypeOK

-----------------------------------------------------------------------
(* The command line pipe *)

\* getaddrinfo gave an address.
ASSUME CommandAssumption ==
    /\ Outputs \subseteq {"fifo", "tcp", "udp", "uinput"} /\ 1 \in DOMAIN Addresses /\ PpPoses \in Nat

CommandTypes ==
    /\ Command!TypeOK /\ output \in Outputs
    /\ ppPc \in {"setup", "top", "suspended", "woken", "recenter", "recentering", "output", "pose", "select",
                 "write", "exit", "ended"}

\* Until the library runs, and between what it is told and what is noted of it.
ToldInv ==
    /\ ppPc = "setup" => runState \in {"RUNNING", "SUSPEND"}
    /\ ppPc = "suspended" => runState = "SUSPEND" /\ ppTracker = "suspended"
    /\ ppPc = "woken" => runState = "WAKEUP" /\ ppTracker = "run"
    /\ Command!StateTold

CommandInv == CommandTypes /\ ToldInv /\ Command!HupKept

LEMMA CommandBegins == Command!Init => CommandInv
<1> SUFFICES ASSUME Command!Init PROVE CommandInv
  OBVIOUS
<1>1. ~hup
  BY Zenon DEF Command!Init
<1>2. output \in Outputs /\ ppPc = "setup" /\ runState = "RUNNING" /\ pose = 0 /\ seen = 0 /\ fd = Command!Unset
  BY DEF Command!Init
<1> QED  BY <1>1, <1>2, CommandAssumption DEF CommandInv, CommandTypes, ToldInv, Command!TypeOK, Command!StateTold,
            Command!HupKept

LEMMA OutputOpened == ASSUME output \in Outputs PROVE Command!Opened \in Command!ToSet(Addresses) \cup {"reader", Command!Unset}
<1>1. Addresses[1] \in Command!ToSet(Addresses)
  BY CommandAssumption DEF Command!ToSet
<1>2. Command!Connected \in {Addresses[1], Command!Unset}
  BY DEF Command!Connected
<1>3. CASE output = "tcp"
  <2>1. Command!Opened = Command!Connected
    BY <1>3, Zenon DEF Command!Opened
  <2> QED  BY <1>1, <1>2, <2>1
<1>4. CASE output = "fifo"
  <2>1. Command!Opened = IF peer["reader"] = "gone" THEN Command!Unset ELSE "reader"
    BY <1>4, Zenon DEF Command!Opened
  <2> QED  BY <2>1
<1>5. CASE output \in {"udp", "uinput"}
  <2>1. Command!Opened = "reader"
    BY <1>5, Zenon DEF Command!Opened
  <2> QED  BY <2>1
<1> QED  BY <1>3, <1>4, <1>5, CommandAssumption

\* A step of the loop, which no output or signal takes part in.
LEMMA LoopGoesOn ==
    ASSUME CommandInv, \/ Command!Ready \/ Command!Wait \/ Command!Leave \/ Command!Running \/ Command!Suspend
                       \/ Command!Stopped \/ Command!Wakeup \/ Command!Woken
    PROVE  CommandInv'
<1>1. /\ output' = output /\ fd' = fd /\ seen' = seen /\ pose' = pose /\ hup' = hup /\ recenter' = recenter
      /\ ppPc \in {"setup", "top", "suspended", "woken"}
      /\ ppPc' \in {"setup", "top", "suspended", "woken", "recenter", "exit"}
  BY DEF Command!Ready, Command!Wait, Command!Leave, Command!Running, Command!Suspend, Command!Stopped,
         Command!Wakeup, Command!Woken, Command!Goto, Command!args, Command!flags, Command!library, Command!world
<1>2. runState' = runState \/ (ppPc = "suspended" /\ runState' = "STOPPED") \/ (ppPc = "woken" /\ runState' = "RUNNING")
  BY DEF Command!Ready, Command!Wait, Command!Leave, Command!Running, Command!Suspend, Command!Stopped,
         Command!Wakeup, Command!Woken, Command!Goto, Command!flags
<1>3. CommandTypes'
  BY <1>1, <1>2 DEF CommandInv, CommandTypes, Command!TypeOK
<1>4. ToldInv'
  BY DEF CommandInv, ToldInv, Command!StateTold, Command!Ready, Command!Wait, Command!Leave, Command!Running,
     Command!Suspend, Command!Stopped, Command!Wakeup, Command!Woken, Command!Goto, Command!flags, Command!library
<1>5. Command!HupKept'
  BY <1>1 DEF CommandInv, Command!HupKept
<1> QED  BY <1>3, <1>4, <1>5 DEF CommandInv

\* The recentering.
LEMMA Recentering ==
    ASSUME CommandInv, Command!NoRecenter \/ Command!Recenter \/ Command!Recentered
    PROVE  CommandInv'
<1>1. /\ output' = output /\ fd' = fd /\ seen' = seen /\ pose' = pose /\ runState' = runState /\ ppTracker' = ppTracker
      /\ ppPc \in {"recenter", "recentering"} /\ ppPc' \in {"recentering", "output"}
  BY DEF Command!NoRecenter, Command!Recenter, Command!Recentered, Command!Goto, Command!args, Command!flags,
         Command!library
<1>2. hup' => recenter' \/ ppPc' = "recentering"
  <2>1. CASE Command!NoRecenter
    BY <2>1 DEF CommandInv, Command!HupKept, Command!NoRecenter, Command!Goto, Command!flags, Command!world
  <2>2. CASE Command!Recenter
    BY <2>2 DEF Command!Recenter, Command!Goto
  <2>3. CASE Command!Recentered
    <3>1. ~hup'
      BY <2>3, Zenon DEF Command!Recentered
    <3> QED  BY <3>1
  <2> QED  BY <2>1, <2>2, <2>3
<1> QED  BY <1>1, <1>2 DEF CommandInv, CommandTypes, ToldInv, Command!TypeOK, Command!StateTold, Command!HupKept

\* The output, a pose, and the end.
LEMMA OutputGoesOn ==
    ASSUME CommandInv, \/ Command!SetupOutput \/ Command!OutputSet \/ Command!GetPose \/ Command!Select
                       \/ Command!Write \/ Command!Exit
    PROVE  CommandInv'
<1>1. /\ output' = output /\ pose' = pose /\ runState' = runState /\ hup' = hup /\ recenter' = recenter
      /\ ppPc \in {"output", "pose", "select", "write", "exit"}
      /\ ppPc' \in {"top", "pose", "select", "write", "ended"}
      /\ ppTracker' = ppTracker \/ ppPc' = "ended"
      /\ ppPc = "exit" => ppPc' = "ended"
      /\ seen' = seen \/ seen' = pose
  BY DEF Command!SetupOutput, Command!OutputSet, Command!GetPose, Command!Select, Command!Write, Command!Exit,
         Command!Goto, Command!args, Command!flags, Command!library, Command!world
<1>2. fd' \in Command!ToSet(Addresses) \cup {"reader", Command!Unset}
  BY OutputOpened DEF Command!SetupOutput, Command!OutputSet, Command!GetPose, Command!Select, Command!Write, Command!Exit,
     CommandInv, CommandTypes, Command!TypeOK
<1>3. ppPc' \in {"pose", "select", "write"} => fd' # Command!Unset
  BY DEF Command!SetupOutput, Command!OutputSet, Command!GetPose, Command!Select, Command!Write, Command!Exit,
     Command!Goto, CommandInv, CommandTypes, Command!TypeOK
<1>4. seen' \in 0 .. pose'
  BY <1>1 DEF CommandInv, CommandTypes, Command!TypeOK
<1>5. CommandTypes'
  BY <1>1, <1>2, <1>3, <1>4 DEF CommandInv, CommandTypes, Command!TypeOK
<1>6. ToldInv'
  BY <1>1 DEF CommandInv, ToldInv, Command!StateTold
<1>7. Command!HupKept'
  BY <1>1 DEF CommandInv, Command!HupKept
<1> QED  BY <1>5, <1>6, <1>7 DEF CommandInv

\* A handler runs.
LEMMA Signalled == ASSUME CommandInv, Command!SigUsr1 \/ Command!SigHup \/ Command!SigTerm PROVE CommandInv'
<1>1. /\ output' = output /\ fd' = fd /\ seen' = seen /\ pose' = pose /\ ppTracker' = ppTracker
      /\ ppPc' = (IF ppPc = "select" THEN "top" ELSE ppPc) /\ ppPc # "ended"
  BY DEF Command!SigUsr1, Command!SigHup, Command!SigTerm, Command!Signal, Command!Interrupted, Command!args,
         Command!library
<1>2. \/ runState' = runState
      \/ runState = "RUNNING" /\ runState' = "SUSPEND"
      \/ runState = "STOPPED" /\ runState' = "WAKEUP"
  <2>1. CASE Command!SigUsr1
    BY <2>1, Zenon DEF Command!SigUsr1
  <2> QED  BY <2>1 DEF Command!SigHup, Command!SigTerm
<1>3. \/ hup' = hup /\ recenter' = recenter
      \/ recenter'
  BY DEF Command!SigUsr1, Command!SigHup, Command!SigTerm
<1>4. CommandTypes'
  BY <1>1, <1>2 DEF CommandInv, CommandTypes, Command!TypeOK
<1>5. ToldInv'
  BY <1>1, <1>2 DEF CommandInv, ToldInv, Command!StateTold
<1>6. Command!HupKept'
  BY <1>1, <1>3 DEF CommandInv, Command!HupKept
<1> QED  BY <1>4, <1>5, <1>6 DEF CommandInv

\* The library starts, a pose comes, a reader goes.
LEMMA AroundPipe == ASSUME CommandInv, Command!Start \/ Command!Pose \/ Command!Peer \/ UNCHANGED commandVars
                    PROVE  CommandInv'
<1>1. /\ output' = output /\ fd' = fd /\ seen' = seen /\ runState' = runState /\ hup' = hup /\ recenter' = recenter
      /\ ppPc' = ppPc /\ (ppTracker' = ppTracker \/ (ppTracker = "init" /\ ppTracker' = "run"))
      /\ pose' = pose \/ (pose < PpPoses /\ pose' = pose + 1)
  BY DEF Command!Start, Command!Pose, Command!Peer, commandVars, Command!args, Command!flags, Command!library,
         Command!world
<1>2. CommandTypes'
  BY <1>1, CommandAssumption DEF CommandInv, CommandTypes, Command!TypeOK
<1> QED  BY <1>1, <1>2 DEF CommandInv, ToldInv, Command!StateTold, Command!HupKept

LEMMA CommandKeeps == CommandInv /\ (Command!Next \/ UNCHANGED commandVars) => CommandInv'
BY LoopGoesOn, Recentering, OutputGoesOn, Signalled, AroundPipe DEF Command!Next, Command!Step

LEMMA CommandSound == CommandInv => Command!TypeOK /\ Command!StateTold /\ Command!HupKept
BY DEF CommandInv, CommandTypes, ToldInv

-----------------------------------------------------------------------
(* Induction *)

\* A set of numbers has a least one; the induction theorems of the library take a
\* predicate, these take a set.
LEMMA Least ==
    ASSUME NEW T, T \subseteq Nat, T # {}
    PROVE  \E m \in T : \A n \in T : m <= n
<1>1. PICK m \in T : \A n \in T : ~ (<<n, m>> \in OpToRel(<, Nat))
  BY NatLessThanWellFounded, WFMin, Zenon
<1>2. \A n \in T : ~(n < m)
  BY <1>1 DEF OpToRel
<1> QED  BY <1>2

-----------------------------------------------------------------------
(* The library's loader *)

\* Paths are in an order.
ASSUME LibraryAssumption ==
    /\ EnvPlaces \in Seq(STRING) /\ PrefixPlaces \in Seq(STRING)
    /\ Forgotten \subseteq {Functions[i] : i \in DOMAIN Functions} /\ LbCalls \in Nat

LibraryInv ==
    /\ fun \in [Library!ToSet(Functions) -> Library!Places \cup {Library!Null}]
    /\ libHandle \in Library!Places \cup {Library!Null}
    /\ calls \in 0 .. LbCalls /\ lbOpened \in [Library!Places -> 0 .. calls]
    /\ libHandle # Library!Null => lbOpened[libHandle] > 0
    /\ Library!ForgottenLoaded

LEMMA LibraryBegins == Library!Init => LibraryInv
BY LibraryAssumption DEF Library!Init, LibraryInv, Library!ForgottenLoaded, Library!ToSet

LEMMA PlaceFound == Library!FindLibrary \in Library!Places \cup {Library!Null}
<1> DEFINE s == Library!Search
           I == {i \in 1 .. Len(s) : Library!Loads(s[i])}
<1>1. s \in Seq(Library!Places)
  <2>1. EnvPlaces \in Seq(Library!Places) /\ PrefixPlaces \in Seq(Library!Places)
    <3>1. \A i \in 1 .. Len(EnvPlaces) : EnvPlaces[i] \in Library!Places
      BY LibraryAssumption DEF Library!Places, Library!ToSet
    <3>2. \A i \in 1 .. Len(PrefixPlaces) : PrefixPlaces[i] \in Library!Places
      BY LibraryAssumption DEF Library!Places, Library!ToSet
    <3> QED  BY <3>1, <3>2, LibraryAssumption
  <2>2. <<>> \in Seq(Library!Places)
    OBVIOUS
  <2>3. (IF env THEN EnvPlaces ELSE <<>>) \in Seq(Library!Places) /\ (IF config THEN PrefixPlaces ELSE <<>>) \in Seq(Library!Places)
    BY <2>1, <2>2
  <2> QED  BY <2>3 DEF Library!Search
<1>2. CASE I = {}
  <2>1. Library!SelectInSeq(s, Library!Loads) = 0
    BY <1>2 DEF Library!SelectInSeq
  <2> QED  BY <2>1 DEF Library!FindLibrary
<1>3. CASE I # {}
  <2>1. Library!SelectInSeq(s, Library!Loads) = Library!Min(I)
    BY <1>3 DEF Library!SelectInSeq
  <2>2. Library!Min(I) \in I
    <3>1. \E m \in I : \A n \in I : m =< n
      <4>1. I \subseteq Nat
        OBVIOUS
      <4> HIDE DEF I
      <4> QED  BY <1>3, <4>1, Least
    <3> QED  BY <3>1, Zenon DEF Library!Min
  <2>3. Library!Min(I) # 0 /\ s[Library!Min(I)] \in Library!Places
    BY <1>1, <2>2
  <2> QED  BY <2>1, <2>3 DEF Library!FindLibrary
<1> QED  BY <1>2, <1>3

LEMMA LibraryKeeps == LibraryInv /\ (Library!Next \/ UNCHANGED libraryVars) => LibraryInv'
<1> SUFFICES ASSUME LibraryInv, Library!Next \/ UNCHANGED libraryVars PROVE LibraryInv'
  OBVIOUS
<1>1. CASE UNCHANGED libraryVars
  BY <1>1 DEF LibraryInv, Library!ForgottenLoaded, libraryVars
<1>2. CASE Library!NoLibrary
  BY <1>2, LibraryAssumption DEF LibraryInv, Library!ForgottenLoaded, Library!NoLibrary
<1>3. CASE Library!InitCall
  <2> DEFINE p == Library!FindLibrary
  <2>1. /\ calls < LbCalls /\ calls' = calls + 1 /\ p \in Library!Places
        /\ libHandle' = p /\ lbOpened' = [lbOpened EXCEPT ![p] = lbOpened[p] + 1]
        /\ fun' = Library!LoadFunctions(p)
    BY <1>3, PlaceFound DEF Library!InitCall
  <2>2. /\ fun' \in [Library!ToSet(Functions) -> Library!Places \cup {Library!Null}]
        /\ \A f \in Library!ToSet(Functions) : fun'[f] \in {fun[f], p, Library!Null}
    BY <2>1 DEF LibraryInv, Library!LoadFunctions
  <2>3. Forgotten \subseteq Library!ToSet(Functions)
    BY LibraryAssumption DEF Library!ToSet
  <2> HIDE DEF p
  <2>4. calls' \in 0 .. LbCalls /\ lbOpened' \in [Library!Places -> 0 .. calls'] /\ lbOpened'[p] > 0
        /\ \A q \in Library!Places : lbOpened[q] > 0 => lbOpened'[q] > 0
    BY <2>1, LibraryAssumption DEF LibraryInv
  <2> QED  BY <2>1, <2>2, <2>3, <2>4 DEF LibraryInv, Library!ForgottenLoaded
<1>4. CASE Library!Shutdown
  <2>1. calls' = calls
    BY <1>4 DEF Library!Shutdown
  <2>2. CASE UNCHANGED <<fun, libHandle, lbOpened>>
    BY <2>1, <2>2 DEF LibraryInv, Library!ForgottenLoaded
  <2>3. CASE /\ libHandle # Library!Null /\ libHandle' = Library!Null
             /\ lbOpened' = [lbOpened EXCEPT ![libHandle] = lbOpened[libHandle] - 1]
             /\ fun' = [f \in Library!ToSet(Functions) |-> IF f \in Forgotten THEN Library!Null ELSE fun[f]]
    <3>1. Forgotten \subseteq Library!ToSet(Functions)
      BY LibraryAssumption DEF Library!ToSet
    <3>2. lbOpened' \in [Library!Places -> 0 .. calls']
      BY <2>1, <2>3, LibraryAssumption DEF LibraryInv
    <3>3. fun' \in [Library!ToSet(Functions) -> Library!Places \cup {Library!Null}]
      BY <2>3 DEF LibraryInv
    <3> QED  BY <2>1, <2>3, <3>1, <3>2, <3>3 DEF LibraryInv, Library!ForgottenLoaded
  <2> QED  BY <1>4, <2>2, <2>3 DEF Library!Shutdown, Library!stub
<1>5. CASE Library!Reinstall \/ \E f \in Library!ToSet(Functions) : Library!Call(f)
  <2>1. UNCHANGED <<fun, libHandle, lbOpened, calls>>
    BY <1>5 DEF Library!Reinstall, Library!Call, Library!stub
  <2> QED  BY <2>1 DEF LibraryInv, Library!ForgottenLoaded
<1> QED  BY <1>1, <1>2, <1>3, <1>4, <1>5 DEF Library!Next

LEMMA LibrarySound == LibraryInv => Library!TypeOK /\ Library!ForgottenLoaded
BY LibraryAssumption DEF LibraryInv, Library!TypeOK

\* What holds of 0, and of n + 1 when it does of n.
LEMMA SetInduction ==
    ASSUME NEW T, 0 \in T, \A n \in Nat : n \in T => n + 1 \in T
    PROVE  Nat \subseteq T
<1> SUFFICES ASSUME Nat \ T # {} PROVE FALSE
  OBVIOUS
<1>1. PICK m \in Nat \ T : \A n \in Nat \ T : m <= n
  BY Least
<1>2. m # 0 /\ m - 1 \in Nat /\ (m - 1) + 1 = m
  OBVIOUS
<1> QED  BY <1>1, <1>2

-----------------------------------------------------------------------
(* The sorting of the points *)

Points == Seq(Int \X Int)

\* No point from place n on is larger than one before it.
SettledFrom(s, n) == \A a, b \in 1 .. Len(s) : a < b /\ n <= b => ~Osc!Less(s[a], s[b])

LEMMA LessOrder ==
    ASSUME NEW p \in Int \X Int, NEW q \in Int \X Int, NEW r \in Int \X Int
    PROVE  /\ Osc!Less(p, q) => ~Osc!Less(q, p)
           /\ ~Osc!Less(p, q) /\ ~Osc!Less(q, r) => ~Osc!Less(p, r)
BY DEF Osc!Less

\* Up to place i + 1 the smallest is last, and what was settled stays so.
LEMMA Bubbled ==
    ASSUME NEW s \in Points, NEW n \in 1 .. Len(s) + 1, SettledFrom(s, n), NEW i \in 1 .. Len(s),
           \A a \in 1 .. i : i < n => ~Osc!Less(s[a], s[i])
    PROVE  /\ Osc!Bubble(s, i) \in Points /\ Len(Osc!Bubble(s, i)) = Len(s)
           /\ SettledFrom(Osc!Bubble(s, i), n)
           /\ i + 1 < n => \A a \in 1 .. i + 1 : ~Osc!Less(Osc!Bubble(s, i)[a], Osc!Bubble(s, i)[i + 1])
           /\ n <= i + 1 => Osc!Bubble(s, i) = s
<1> DEFINE t == Osc!Bubble(s, i)
<1>0. /\ Len(s) \in Nat /\ \A a \in 1 .. Len(s) : s[a] \in Int \X Int
  BY DEF Points
<1>1. CASE i < Len(s) /\ Osc!Less(s[i], s[i + 1])
  <2>1. i + 1 < n
    BY <1>0, <1>1 DEF SettledFrom
  <2>2. t = [s EXCEPT ![i] = s[i + 1], ![i + 1] = s[i]]
    BY <1>1 DEF Osc!Bubble
  <2> DEFINE u == [j \in 1 .. Len(s) |-> IF j = i + 1 THEN s[i] ELSE IF j = i THEN s[i + 1] ELSE s[j]]
  <2>8. t = u
    <3>1. DOMAIN s = 1 .. Len(s) /\ s = [j \in 1 .. Len(s) |-> s[j]]
      BY DEF Points
    <3> HIDE DEF t
    <3> QED  BY <1>0, <1>1, <2>2, <3>1
  <2> HIDE DEF t
  <2>3. t \in Points /\ Len(t) = Len(s)
    <3>1. u \in [1 .. Len(s) -> Int \X Int]
      BY <1>0, <1>1
    <3>2. \A j \in 1 .. Len(s) : (IF j = i + 1 THEN s[i] ELSE IF j = i THEN s[i + 1] ELSE s[j]) \in Int \X Int
      BY <1>0, <1>1
    <3>3. u \in Points /\ Len(u) = Len(s)
      BY <1>0, <3>2 DEF Points
    <3> QED  BY <2>8, <3>3
  <2>4. /\ t[i] = s[i + 1] /\ t[i + 1] = s[i]
        /\ \A a \in 1 .. Len(s) : a # i /\ a # i + 1 => t[a] = s[a]
    BY <1>0, <1>1, <2>8
  <2>5. ASSUME NEW a \in 1 .. Len(s), NEW b \in 1 .. Len(s), a < b, n <= b PROVE ~Osc!Less(t[a], t[b])
    <3>1. t[b] = s[b]
      BY <2>1, <2>4, <2>5
    <3>2. \E c \in 1 .. Len(s) : c < b /\ t[a] = s[c]
      <4>1. CASE a = i
        BY <1>1, <2>1, <2>4, <2>5, <4>1
      <4>2. CASE a = i + 1
        BY <1>1, <2>1, <2>4, <2>5, <4>2
      <4>3. CASE a # i /\ a # i + 1
        BY <2>4, <2>5, <4>3
      <4> QED  BY <4>1, <4>2, <4>3
    <3> QED  BY <2>5, <3>1, <3>2 DEF SettledFrom
  <2>6. SettledFrom(t, n)
    BY <2>3, <2>5 DEF SettledFrom
  <2>7. ASSUME NEW a \in 1 .. i + 1 PROVE ~Osc!Less(t[a], t[i + 1])
    <3>1. \A c \in 1 .. i : ~Osc!Less(s[c], s[i])
      BY <2>1
    <3>2. CASE a = i
      BY <1>0, <1>1, <2>4, <3>2, LessOrder
    <3>3. CASE a = i + 1
      BY <1>0, <1>1, <2>4, <3>1, <3>3
    <3>4. CASE a < i
      BY <1>0, <1>1, <2>4, <3>1, <3>4
    <3> QED  BY <3>2, <3>3, <3>4
  <2> QED  BY <2>1, <2>3, <2>6, <2>7 DEF t
<1>2. CASE ~(i < Len(s) /\ Osc!Less(s[i], s[i + 1]))
  <2>1. t = s
    BY <1>2 DEF Osc!Bubble
  <2>2. ASSUME i + 1 < n, NEW a \in 1 .. i + 1 PROVE ~Osc!Less(s[a], s[i + 1])
    <3>1. i + 1 <= Len(s) /\ ~Osc!Less(s[i], s[i + 1])
      BY <1>0, <1>2, <2>2
    <3>2. CASE a <= i
      <4>1. ~Osc!Less(s[a], s[i])
        BY <2>2, <3>2
      <4> QED  BY <1>0, <3>1, <3>2, <4>1, LessOrder
    <3>3. CASE a = i + 1
      BY <1>0, <3>1, <3>3, LessOrder
    <3> QED  BY <3>2, <3>3
  <2> QED  BY <2>1, <2>2
<1> QED  BY <1>1, <1>2

\* The recursive function of a pass exists.
LEMMA PassExists ==
    ASSUME NEW s \in Points
    PROVE  \E f : /\ f = [i \in 0 .. Len(s) |-> IF i = 0 THEN s ELSE Osc!Bubble(f[i - 1], i)]
                  /\ Osc!Pass(s) = f[Len(s)]
<1> DEFINE T == {n \in Nat : \E f : f = [i \in 0 .. n |-> IF i = 0 THEN s ELSE Osc!Bubble(f[i - 1], i)]}
<1>1. 0 \in T
  <2> DEFINE f == [i \in 0 .. 0 |-> s]
  <2>1. f = [i \in 0 .. 0 |-> IF i = 0 THEN s ELSE Osc!Bubble(f[i - 1], i)]
    OBVIOUS
  <2> QED  BY <2>1
<1>2. ASSUME NEW n \in Nat, n \in T PROVE n + 1 \in T
  <2>1. PICK f : f = [i \in 0 .. n |-> IF i = 0 THEN s ELSE Osc!Bubble(f[i - 1], i)]
    BY <1>2
  <2> DEFINE g == [i \in 0 .. n + 1 |-> IF i = n + 1 THEN Osc!Bubble(f[n], n + 1) ELSE f[i]]
  <2>2. ASSUME NEW i \in 0 .. n + 1
        PROVE  g[i] = IF i = 0 THEN s ELSE Osc!Bubble(g[i - 1], i)
    <3>1. CASE i = n + 1
      <4>1. g[i - 1] = f[n]
        BY <3>1
      <4> QED  BY <3>1, <4>1
    <3>2. CASE i \in 1 .. n
      <4>1. g[i] = f[i] /\ g[i - 1] = f[i - 1]
        BY <3>2
      <4>2. f[i] = Osc!Bubble(f[i - 1], i)
        BY <2>1, <3>2
      <4> QED  BY <3>2, <4>1, <4>2
    <3>3. CASE i = 0
      <4>1. g[i] = f[i] /\ f[i] = s
        BY <2>1, <3>3
      <4> QED  BY <3>3, <4>1
    <3> QED  BY <3>1, <3>2, <3>3
  <2>3. g = [i \in 0 .. n + 1 |-> IF i = 0 THEN s ELSE Osc!Bubble(g[i - 1], i)]
    BY <2>2
  <2> HIDE DEF g
  <2>4. n + 1 \in Nat
    OBVIOUS
  <2> QED  BY <2>3, <2>4
<1>3. Len(s) \in T
  <2>1. Len(s) \in Nat
    BY DEF Points
  <2> HIDE DEF T
  <2> QED  BY <1>1, <1>2, <2>1, SetInduction
<1>4. PICK f : f = [i \in 0 .. Len(s) |-> IF i = 0 THEN s ELSE Osc!Bubble(f[i - 1], i)]
  BY <1>3
<1> DEFINE h == CHOOSE g : g = [i \in 0 .. Len(s) |-> IF i = 0 THEN s ELSE Osc!Bubble(g[i - 1], i)]
<1>5. h = [i \in 0 .. Len(s) |-> IF i = 0 THEN s ELSE Osc!Bubble(h[i - 1], i)]
  BY <1>4
<1>6. Osc!Pass(s) = h[Len(s)]
  BY DEF Osc!Pass
<1> QED  BY <1>5, <1>6

\* A pass settles one more point.
LEMMA PassSettles ==
    ASSUME NEW s \in Points, NEW n \in 2 .. Len(s) + 1, SettledFrom(s, n)
    PROVE  Osc!Pass(s) \in Points /\ Len(Osc!Pass(s)) = Len(s) /\ SettledFrom(Osc!Pass(s), n - 1)
<1>0. Len(s) \in Nat /\ \A a \in 1 .. Len(s) : s[a] \in Int \X Int
  BY DEF Points
<1>1. PICK f : /\ f = [i \in 0 .. Len(s) |-> IF i = 0 THEN s ELSE Osc!Bubble(f[i - 1], i)]
               /\ Osc!Pass(s) = f[Len(s)]
  BY PassExists
<1> DEFINE Good(t, i) == /\ t \in Points /\ Len(t) = Len(s) /\ SettledFrom(t, n)
                         /\ i + 1 < n => \A a \in 1 .. i + 1 : ~Osc!Less(t[a], t[i + 1])
                         /\ n - 1 <= i + 1 => SettledFrom(t, n - 1)
           T == {i \in Nat : i <= Len(s) => Good(f[i], i)}
<1>2. 0 \in T
  <2>1. f[0] = s
    BY <1>0, <1>1
  <2>2. 1 \in 1 .. Len(s) /\ ~Osc!Less(s[1], s[1])
    BY <1>0, LessOrder
  <2>3. n - 1 <= 1 => SettledFrom(s, n - 1)
    BY <1>0 DEF SettledFrom
  <2>4. Good(s, 0)
    BY <2>2, <2>3
  <2> QED  BY <2>1, <2>4
<1>3. ASSUME NEW i \in Nat, i \in T PROVE i + 1 \in T
  <2> SUFFICES ASSUME i + 1 <= Len(s) PROVE Good(f[i + 1], i + 1)
    BY <1>3
  <2> DEFINE t == f[i]
             u == Osc!Bubble(t, i + 1)
  <2>1. f[i + 1] = u
    <3>1. i + 1 \in 0 .. Len(s) /\ i + 1 # 0 /\ (i + 1) - 1 = i
      BY <1>0
    <3>2. f[i + 1] = Osc!Bubble(f[(i + 1) - 1], i + 1)
      BY <1>1, <3>1
    <3> QED  BY <3>1, <3>2
  <2>2. Good(t, i)
    BY <1>0, <1>3
  <2> HIDE DEF t
  <2>3. /\ u \in Points /\ Len(u) = Len(t) /\ SettledFrom(u, n)
        /\ i + 2 < n => \A a \in 1 .. i + 2 : ~Osc!Less(u[a], u[i + 2])
        /\ n <= i + 2 => u = t
    <3>1. /\ t \in Points /\ n \in 1 .. Len(t) + 1 /\ SettledFrom(t, n) /\ i + 1 \in 1 .. Len(t)
          /\ \A a \in 1 .. i + 1 : i + 1 < n => ~Osc!Less(t[a], t[i + 1])
      BY <1>0, <2>2
    <3>2. (i + 1) + 1 = i + 2
      OBVIOUS
    <3> QED  BY <3>1, <3>2, Bubbled
  <2> HIDE DEF u
  <2>4. ASSUME n - 1 <= i + 2 PROVE SettledFrom(u, n - 1)
    <3>1. CASE n - 1 = i + 2
      <4>1. ASSUME NEW a \in 1 .. Len(u), NEW b \in 1 .. Len(u), a < b, n - 1 <= b PROVE ~Osc!Less(u[a], u[b])
        <5>1. CASE b = n - 1
          BY <2>3, <3>1, <4>1, <5>1
        <5>2. CASE n <= b
          BY <2>3, <4>1, <5>2 DEF SettledFrom
        <5> QED  BY <1>0, <2>2, <2>3, <4>1, <5>1, <5>2
      <4> QED  BY <4>1 DEF SettledFrom
    <3>2. CASE n <= i + 2
      <4>1. u = t /\ n - 1 <= i + 1
        BY <2>3, <3>2
      <4> QED  BY <2>2, <4>1
    <3> QED  BY <2>4, <3>1, <3>2
  <2>5. (i + 1) + 1 = i + 2 /\ Len(u) = Len(s)
    BY <2>2, <2>3
  <2> QED  BY <2>1, <2>3, <2>4, <2>5
<1>4. Len(s) \in T
  <2> HIDE DEF T
  <2> QED  BY <1>0, <1>2, <1>3, SetInduction
<1>5. Good(f[Len(s)], Len(s)) /\ n - 1 <= Len(s) + 1
  BY <1>0, <1>4
<1> QED  BY <1>1, <1>5

\* So does that of the passes.
LEMMA PassesExist ==
    ASSUME NEW s \in Points
    PROVE  \E f : /\ f = [i \in 0 .. Len(s) |-> IF i = 0 THEN s ELSE Osc!Pass(f[i - 1])]
                  /\ Osc!BlobSort(s) = f[Len(s)]
<1> DEFINE T == {n \in Nat : \E f : f = [i \in 0 .. n |-> IF i = 0 THEN s ELSE Osc!Pass(f[i - 1])]}
<1>1. 0 \in T
  <2> DEFINE f == [i \in 0 .. 0 |-> s]
  <2>1. f = [i \in 0 .. 0 |-> IF i = 0 THEN s ELSE Osc!Pass(f[i - 1])]
    OBVIOUS
  <2> QED  BY <2>1
<1>2. ASSUME NEW n \in Nat, n \in T PROVE n + 1 \in T
  <2>1. PICK f : f = [i \in 0 .. n |-> IF i = 0 THEN s ELSE Osc!Pass(f[i - 1])]
    BY <1>2
  <2> DEFINE g == [i \in 0 .. n + 1 |-> IF i = n + 1 THEN Osc!Pass(f[n]) ELSE f[i]]
  <2>2. ASSUME NEW i \in 0 .. n + 1
        PROVE  g[i] = IF i = 0 THEN s ELSE Osc!Pass(g[i - 1])
    <3>1. CASE i = n + 1
      <4>1. g[i - 1] = f[n]
        BY <3>1
      <4> QED  BY <3>1, <4>1
    <3>2. CASE i \in 1 .. n
      <4>1. g[i] = f[i] /\ g[i - 1] = f[i - 1]
        BY <3>2
      <4>2. f[i] = Osc!Pass(f[i - 1])
        BY <2>1, <3>2
      <4> QED  BY <3>2, <4>1, <4>2
    <3>3. CASE i = 0
      <4>1. g[i] = f[i] /\ f[i] = s
        BY <2>1, <3>3
      <4> QED  BY <3>3, <4>1
    <3> QED  BY <3>1, <3>2, <3>3
  <2>3. g = [i \in 0 .. n + 1 |-> IF i = 0 THEN s ELSE Osc!Pass(g[i - 1])]
    BY <2>2
  <2> HIDE DEF g
  <2>4. n + 1 \in Nat
    OBVIOUS
  <2> QED  BY <2>3, <2>4
<1>3. Len(s) \in T
  <2>1. Len(s) \in Nat
    BY DEF Points
  <2> HIDE DEF T
  <2> QED  BY <1>1, <1>2, <2>1, SetInduction
<1>4. PICK f : f = [i \in 0 .. Len(s) |-> IF i = 0 THEN s ELSE Osc!Pass(f[i - 1])]
  BY <1>3
<1> DEFINE h == CHOOSE g : g = [i \in 0 .. Len(s) |-> IF i = 0 THEN s ELSE Osc!Pass(g[i - 1])]
<1>5. h = [i \in 0 .. Len(s) |-> IF i = 0 THEN s ELSE Osc!Pass(h[i - 1])]
  BY <1>4
<1>6. Osc!BlobSort(s) = h[Len(s)]
  BY DEF Osc!BlobSort
<1> QED  BY <1>5, <1>6

\* Points are sorted, whatever their number.
LEMMA Sorted ==
    ASSUME NEW s \in Points
    PROVE  LET t == Osc!BlobSort(s) IN t \in Points /\ Len(t) = Len(s) /\ SettledFrom(t, 1)
<1>0. Len(s) \in Nat
  BY DEF Points
<1>1. PICK f : /\ f = [i \in 0 .. Len(s) |-> IF i = 0 THEN s ELSE Osc!Pass(f[i - 1])]
               /\ Osc!BlobSort(s) = f[Len(s)]
  BY PassesExist
<1> DEFINE Good(t, k) == t \in Points /\ Len(t) = Len(s) /\ SettledFrom(t, Len(s) - k + 1)
           T == {k \in Nat : k <= Len(s) => Good(f[k], k)}
<1>2. 0 \in T
  <2>1. f[0] = s
    BY <1>0, <1>1
  <2>2. SettledFrom(s, Len(s) + 1)
    BY <1>0 DEF SettledFrom
  <2> QED  BY <1>0, <2>1, <2>2
<1>3. ASSUME NEW k \in Nat, k \in T PROVE k + 1 \in T
  <2> SUFFICES ASSUME k + 1 <= Len(s) PROVE Good(f[k + 1], k + 1)
    BY <1>3
  <2>1. f[k + 1] = Osc!Pass(f[k])
    BY <1>0, <1>1
  <2>2. Good(f[k], k)
    BY <1>0, <1>3
  <2> DEFINE n == Len(s) - k + 1
  <2>3. n \in 2 .. Len(f[k]) + 1 /\ n - 1 = Len(s) - (k + 1) + 1 /\ SettledFrom(f[k], n) /\ f[k] \in Points
    BY <1>0, <2>2
  <2> HIDE DEF n
  <2>4. Osc!Pass(f[k]) \in Points /\ Len(Osc!Pass(f[k])) = Len(f[k]) /\ SettledFrom(Osc!Pass(f[k]), n - 1)
    BY <2>3, PassSettles
  <2> QED  BY <2>1, <2>2, <2>3, <2>4
<1>4. Len(s) \in T
  <2> HIDE DEF T
  <2> QED  BY <1>0, <1>2, <1>3, SetInduction
<1>5. Good(f[Len(s)], Len(s)) /\ Len(s) - Len(s) + 1 = 1
  BY <1>0, <1>4
<1> QED  BY <1>1, <1>5

-----------------------------------------------------------------------
(* The notification and the OSC server *)

ASSUME OscAssumption == Pictures \subseteq Seq(Int \X Int) /\ Room \in Nat /\ PipeSize \in Nat \ {0}

Pose == [counter : Nat, blobs : Points]
Shared == [state : {"INITIALIZING", "RUNNING"}, pose : Pose, notify : BOOLEAN]

OscTypes ==
    /\ osPc \in {"state", "get", "return", "wait", "drain", "ended"} /\ pipe \in 0 .. PipeSize
    /\ reader \in {"poll", "store", "token"} /\ poses \in Nat /\ last = 0
    /\ copied \in Pose /\ message \in Pose /\ com \in Shared

\* With no byte in the pipe and none to come the client has the pose, or is about to take it.
NewsInv ==
    ~silent /\ osSlave = "runs" /\ reader # "token" /\ pipe = 0
        /\ osPc \in {"return", "wait", "drain"} => copied.counter = com.pose.counter

OscInv == OscTypes /\ NewsInv

LEMMA OscBegins == Osc!Init => OscInv
<1> SUFFICES ASSUME Osc!Init PROVE OscInv
  OBVIOUS
<1>1. silent
  BY Zenon DEF Osc!Init
<1>2. /\ osPc = "state" /\ last = 0 /\ copied = Osc!NoPose /\ reader = "poll" /\ message = Osc!NoPose
      /\ com = [state |-> "INITIALIZING", pose |-> Osc!NoPose, notify |-> FALSE] /\ pipe = 0 /\ poses = 0
  BY DEF Osc!Init
<1>3. Osc!NoPose \in Pose /\ Osc!NoPose.counter = 0
  BY DEF Osc!NoPose, Pose, Points
<1>4. com \in Shared /\ com.pose = Osc!NoPose
  <2>1. FALSE \in BOOLEAN /\ "INITIALIZING" \in {"INITIALIZING", "RUNNING"}
    OBVIOUS
  <2> QED  BY <1>2, <1>3, <2>1, Zenon DEF Shared
<1>5. OscTypes
  BY <1>2, <1>3, <1>4, OscAssumption DEF OscTypes
<1> QED  BY <1>1, <1>2, <1>3, <1>4, <1>5 DEF OscInv, NewsInv

\* The server's steps but the sending.
LEMMA ServerLooks ==
    ASSUME OscInv, \/ Osc!StateGood \/ Osc!StateBad \/ Osc!Copy \/ Osc!Wake \/ Osc!Drain \/ Osc!Leave \/ Osc!Quit
    PROVE  OscInv'
<1>1. /\ last' = last /\ osSlave' = osSlave /\ reader' = reader /\ message' = message
      /\ silent' = silent /\ poses' = poses
  BY DEF Osc!StateGood, Osc!StateBad, Osc!Copy, Osc!Wake, Osc!Drain, Osc!Leave, Osc!Quit, Osc!client, Osc!slaveVars
<1>2. com' \in Shared /\ com'.pose = com.pose
  BY DEF Osc!StateGood, Osc!StateBad, Osc!Copy, Osc!Wake, Osc!Drain, Osc!Leave, Osc!Quit, OscInv, OscTypes, Shared
<1>3. /\ osPc' \in {"state", "get", "return", "wait", "drain", "ended"}
      /\ copied' = copied \/ copied' = com.pose
      /\ pipe' = pipe \/ (pipe' = 0 /\ osPc' = "get")
      /\ \/ osPc' = osPc /\ copied' = copied
         \/ osPc' = "return" /\ copied' = com.pose
         \/ osPc' = "drain" /\ pipe' > 0
         \/ osPc' \notin {"return", "wait", "drain"}
  BY DEF Osc!StateGood, Osc!StateBad, Osc!Copy, Osc!Wake, Osc!Drain, Osc!Leave, Osc!Quit, Osc!At, Osc!client,
     OscInv, OscTypes
<1>4. com.pose \in Pose
  BY DEF OscInv, OscTypes, Shared
<1>5. OscTypes'
  BY <1>1, <1>2, <1>3, <1>4, OscAssumption DEF OscInv, OscTypes
<1>7. NewsInv'
  BY <1>1, <1>2, <1>3 DEF OscInv, OscTypes, NewsInv
<1> QED  BY <1>5, <1>7 DEF OscInv

\* The pose is looked at, and found to be the one before.
LEMMA PoseSent == ASSUME OscInv, Osc!Return PROVE OscInv'
<1>1. /\ osPc = "return" /\ osPc' = "wait" /\ last' = last /\ copied' = copied /\ osSlave' = osSlave
      /\ reader' = reader /\ message' = message /\ com' = com /\ pipe' = pipe /\ silent' = silent /\ poses' = poses
  BY DEF Osc!Return, Osc!At, Osc!slaveVars, Osc!Extrapolated
<1>2. OscTypes'
  BY <1>1 DEF OscInv, OscTypes
<1>4. NewsInv'
  BY <1>1 DEF OscInv, NewsInv
<1> QED  BY <1>2, <1>4 DEF OscInv

\* The slave's steps.
LEMMA SlaveTells ==
    ASSUME OscInv, \/ Osc!TakeNotify \/ Osc!Receive \/ Osc!Store \/ Osc!Token \/ Osc!SlaveEnds \/ UNCHANGED oscVars
    PROVE  OscInv'
<1>1. osPc' = osPc /\ last' = last /\ copied' = copied
  BY DEF Osc!TakeNotify, Osc!Receive, Osc!Store, Osc!Token, Osc!SlaveEnds, oscVars, Osc!client
<1>2. CASE Osc!Receive
  <2>1. /\ poses' = poses + 1 /\ reader = "poll" /\ reader' = "store" /\ osSlave' = osSlave /\ com' = com
        /\ pipe' = pipe /\ silent' = silent
    BY <1>2 DEF Osc!Receive
  <2>2. PICK b \in Pictures : message' = [counter |-> poses', blobs |-> b]
    BY <1>2 DEF Osc!Receive
  <2>3. message' \in Pose /\ message'.counter = poses'
    BY <2>1, <2>2, OscAssumption DEF OscInv, OscTypes, Pose, Points
  <2>4. OscTypes'
    BY <1>1, <2>1, <2>3 DEF OscInv, OscTypes
  <2>6. NewsInv'
    BY <1>1, <2>1 DEF OscInv, NewsInv
  <2> QED  BY <2>4, <2>6 DEF OscInv
<1>3. CASE Osc!Store
  <2>1. /\ reader = "store" /\ reader' = "token" /\ osSlave' = osSlave /\ message' = message /\ pipe' = pipe
        /\ poses' = poses /\ com' = [com EXCEPT !.pose = message, !.state = "RUNNING"]
    BY <1>3 DEF Osc!Store
  <2>2. com' \in Shared /\ com'.pose = message
    BY <2>1 DEF OscInv, OscTypes, Shared
  <2>3. OscTypes'
    BY <1>1, <2>1, <2>2 DEF OscInv, OscTypes
  <2>5. NewsInv'
    BY <2>1 DEF NewsInv
  <2> QED  BY <2>3, <2>5 DEF OscInv
<1>4. CASE Osc!Token
  <2>1. /\ reader = "token" /\ reader' = "poll" /\ osSlave' = osSlave /\ message' = message /\ com' = com
        /\ poses' = poses /\ pipe' \in 0 .. PipeSize /\ (pipe' > 0 \/ silent')
    BY <1>4, OscAssumption DEF Osc!Token, OscInv, OscTypes
  <2>3. OscTypes'
    BY <1>1, <2>1 DEF OscInv, OscTypes
  <2>5. NewsInv'
    BY <2>1 DEF NewsInv
  <2> QED  BY <2>3, <2>5 DEF OscInv
<1>5. CASE Osc!TakeNotify \/ Osc!SlaveEnds \/ UNCHANGED oscVars
  <2>1. /\ reader' = reader /\ message' = message /\ com' = com /\ poses' = poses /\ pipe' = pipe
        /\ silent' = silent /\ (osSlave' = "runs" => osSlave = "runs")
    BY <1>5 DEF Osc!TakeNotify, Osc!SlaveEnds, oscVars
  <2>3. OscTypes'
    BY <1>1, <2>1 DEF OscInv, OscTypes
  <2>5. NewsInv'
    BY <1>1, <2>1 DEF OscInv, NewsInv
  <2> QED  BY <2>3, <2>5 DEF OscInv
<1> QED  BY <1>2, <1>3, <1>4, <1>5

LEMMA OscKeeps == OscInv /\ (Osc!Next \/ UNCHANGED oscVars) => OscInv'
BY ServerLooks, PoseSent, SlaveTells DEF Osc!Next

LEMMA OscSound == OscInv => Osc!TypeOK /\ Osc!NoSleepOnNews /\ Osc!PointsSorted
<1> SUFFICES ASSUME OscInv PROVE Osc!TypeOK /\ Osc!NoSleepOnNews /\ Osc!PointsSorted
  OBVIOUS
<1>1. copied.counter \in Nat /\ com.pose.counter \in Nat /\ copied.blobs \in Points
  BY DEF OscInv, OscTypes, Pose, Shared
<1>2. Osc!TypeOK
  BY <1>1 DEF OscInv, OscTypes, Osc!TypeOK
<1>3. Osc!NoSleepOnNews
  BY DEF OscInv, OscTypes, NewsInv, Osc!NoSleepOnNews
<1>4. Osc!PointsSorted
  <2> DEFINE n == IF Len(copied.blobs) < Room THEN Len(copied.blobs) ELSE Room
             cut == SubSeq(copied.blobs, 1, n)
             points == Osc!ForSending(copied.blobs)
  <2>1. cut \in Points
    <3>1. Len(copied.blobs) \in Nat /\ n \in 0 .. Len(copied.blobs)
      BY <1>1, OscAssumption DEF Points
    <3> HIDE DEF n
    <3> QED  BY <1>1, <3>1 DEF Points
  <2>2. points = Osc!BlobSort(cut)
    BY DEF Osc!ForSending
  <2> HIDE DEF cut, points
  <2>3. points \in Points /\ SettledFrom(points, 1)
    BY <2>1, <2>2, Sorted
  <2>4. ASSUME NEW j \in 2 .. Len(points) PROVE ~Osc!Less(points[j - 1], points[j])
    <3>1. j - 1 \in 1 .. Len(points) /\ j \in 1 .. Len(points) /\ j - 1 < j /\ 1 <= j
      BY <2>3 DEF Points
    <3> QED  BY <2>3, <3>1 DEF SettledFrom
  <2> QED  BY <2>4 DEF points, Osc!PointsSorted
<1> QED  BY <1>2, <1>3, <1>4

-----------------------------------------------------------------------
(* The clients together *)

clientVars == <<libraryVars, commandVars, oscVars, pluginVars, bridgeVars, mouseVars, keyboardVars,
                buttonVars, firmwareVars>>

ClientsInit ==
    /\ Library!Init /\ Command!Init /\ Osc!Init /\ Plugin!Init /\ Bridge!Init
    /\ Mouse!Init /\ Keyboard!Init /\ Button!Init /\ Firmware!Init

UseLibrary ==
    /\ Library!Next
    /\ UNCHANGED <<commandVars, oscVars, pluginVars, bridgeVars, mouseVars, keyboardVars,
                   buttonVars, firmwareVars>>

RunCommand ==
    /\ Command!Next
    /\ UNCHANGED <<libraryVars, oscVars, pluginVars, bridgeVars, mouseVars, keyboardVars,
                   buttonVars, firmwareVars>>

SendPoses ==
    /\ Osc!Next
    /\ UNCHANGED <<libraryVars, commandVars, pluginVars, bridgeVars, mouseVars, keyboardVars,
                   buttonVars, firmwareVars>>

RunPlugin ==
    /\ Plugin!Next
    /\ UNCHANGED <<libraryVars, commandVars, oscVars, bridgeVars, mouseVars, keyboardVars,
                   buttonVars, firmwareVars>>

PlayGames ==
    /\ Bridge!Next
    /\ UNCHANGED <<libraryVars, commandVars, oscVars, pluginVars, mouseVars, keyboardVars,
                   buttonVars, firmwareVars>>

RunMickey ==
    /\ Mouse!Next
    /\ UNCHANGED <<libraryVars, commandVars, oscVars, pluginVars, bridgeVars, keyboardVars,
                   buttonVars, firmwareVars>>

AssignKeys ==
    /\ Keyboard!Next
    /\ UNCHANGED <<libraryVars, commandVars, oscVars, pluginVars, bridgeVars, mouseVars,
                   buttonVars, firmwareVars>>

ClickButtons ==
    /\ Button!Next
    /\ UNCHANGED <<libraryVars, commandVars, oscVars, pluginVars, bridgeVars, mouseVars,
                   keyboardVars, firmwareVars>>

ExtractFirmware ==
    /\ Firmware!Next
    /\ UNCHANGED <<libraryVars, commandVars, oscVars, pluginVars, bridgeVars, mouseVars,
                   keyboardVars, buttonVars>>

ClientsNext ==
    \/ UseLibrary \/ RunCommand \/ SendPoses \/ RunPlugin \/ PlayGames
    \/ RunMickey \/ AssignKeys \/ ClickButtons \/ ExtractFirmware

ClientsSpec == ClientsInit /\ [][ClientsNext]_clientVars

\* The modules keep their types.
ClientsTypeOK ==
    /\ Library!TypeOK /\ Command!TypeOK /\ Osc!TypeOK /\ Plugin!TypeOK /\ Bridge!TypeOK
    /\ Mouse!TypeOK /\ Keyboard!TypeOK /\ Button!TypeOK
    /\ Firmware!TypeOK

\* What a program asks reaches the library: no pointer is left into a library
\* that was let go and is called on shutdown (linuxtrack.c:142-165), signals end up
\* where they belong however they fall (ltr_pipe.c:480-545), and the simulator's
\* plugin tracks when it is active (xlinuxtrack9.c:382-446).
RequestsHeeded ==
    /\ Library!ForgottenLoaded
    /\ Command!StateTold /\ Command!HupKept
    /\ Plugin!AskedAsActive

\* A pose reaches its reader: an OSC server never sleeps on one it did not copy
\* (ltlib.c:197-202, 446-460) and sorts its points (osc_server.c:20-68), a game is given data under the key
\* of its own profile (NPClient_main.c), and the pilot's head goes back to the seat
\* (xlinuxtrack9.c:396-446).
PosesPassedOn ==
    /\ Osc!NoSleepOnNews /\ Osc!PointsSorted
    /\ Bridge!KeyOfGame
    /\ Plugin!BaseIsSeat

\* The mouse does what was asked of it: it rests when paused, moves by the range
\* and the curve agreed to (mickey.cpp:332-585), listens to the keys shown
\* (keyb_x11.cpp:183-307), and leaves no button pressed (uinput_ifc.c).
MouseFaithful ==
    /\ Mouse!PausedAtRest /\ Mouse!CalibrationWatched /\ Mouse!OnlyWhatWasKept
    /\ Keyboard!WholeGrabs /\ Keyboard!OnlyTheShown
    /\ Button!NothingStuck

\* Under Wine: the firmware linked is whole (extractor.cpp), one TIRViews runs at a
\* time (rest.c, views/main.cpp), and a code pressed is the code kept (dinput.cpp).
WineFaithful ==
    /\ Firmware!LinkedIsWhole
    /\ Bridge!OneViews /\ Bridge!CodeHeld

ClientsInv ==
    /\ LibraryInv /\ CommandInv /\ OscInv /\ PluginInv /\ BridgeInv
    /\ MouseInv /\ KeyboardInv /\ ButtonInv /\ FirmwareInv

LEMMA ClientsBegin == ClientsInit => ClientsInv
BY LibraryBegins, CommandBegins, OscBegins, PluginBegins, BridgeBegins, MouseBegins, KeyboardBegins,
   ButtonBegins, FirmwareBegins DEF ClientsInit, ClientsInv

LEMMA ClientsKeep == ClientsInv /\ [ClientsNext]_clientVars => ClientsInv'
<1> SUFFICES ASSUME ClientsInv, [ClientsNext]_clientVars PROVE ClientsInv'
  OBVIOUS
<1>1. /\ Library!Next \/ UNCHANGED libraryVars
      /\ Command!Next \/ UNCHANGED commandVars
      /\ Osc!Next \/ UNCHANGED oscVars
      /\ Plugin!Next \/ UNCHANGED pluginVars
      /\ Bridge!Next \/ UNCHANGED bridgeVars
      /\ Mouse!Next \/ UNCHANGED mouseVars
      /\ Keyboard!Next \/ UNCHANGED keyboardVars
      /\ Button!Next \/ UNCHANGED buttonVars
      /\ Firmware!Next \/ UNCHANGED firmwareVars
  BY Zenon DEF ClientsNext, clientVars, UseLibrary, RunCommand, SendPoses, RunPlugin, PlayGames, RunMickey,
               AssignKeys, ClickButtons, ExtractFirmware
<1> QED  BY <1>1, LibraryKeeps, CommandKeeps, OscKeeps, PluginKeeps, BridgeKeeps, MouseKeeps, KeyboardKeeps,
            ButtonKeeps, FirmwareKeeps DEF ClientsInv

LEMMA ClientsInductive == ClientsSpec => []ClientsInv
BY ClientsBegin, ClientsKeep, PTL DEF ClientsSpec

\* The modules keep their types, for all values of their bounds.
THEOREM ClientsTyped == ClientsSpec => []ClientsTypeOK
<1>1. ClientsInv => ClientsTypeOK
  BY LibrarySound, CommandSound, OscSound, PluginSound, FirmwareSound
  DEF ClientsInv, ClientsTypeOK, BridgeInv, MouseInv, KeyboardInv, ButtonInv
<1> QED  BY <1>1, ClientsInductive, PTL

\* What is asked reaches the library: a function that linuxtrack_shutdown forgets never
\* points into a library that was closed, whatever is installed or fails between the
\* calls (linuxtrack.c:142-266); ltr_pipe tells the library what its state says, and a
\* request to recenter waits until it is carried out, wherever signals fall
\* (ltr_pipe.c:480-545, 1117-1188); the X-Plane plugin has asked the slave to suspend
\* exactly while it is inactive (xlinuxtrack9.c:382-446).
THEOREM RequestsAlwaysHeeded == ClientsSpec => []RequestsHeeded
<1>1. ClientsInv => RequestsHeeded
  BY LibrarySound, CommandSound, PluginSound DEF ClientsInv, RequestsHeeded
<1> QED  BY <1>1, ClientsInductive, PTL

\* A pose reaches its reader: the OSC server does not sleep over one it is to be told
\* of and did not copy (ltlib.c:197-202, 445-460), and its sort sorts any number of points
\* (osc_server.c:19-72); a game's data is under its own key (NPClient_main.c); the
\* pilot's head was in the seat when the plugin took its position as the base
\* (xlinuxtrack9.c:396-446).
THEOREM PosesAlwaysPassedOn == ClientsSpec => []PosesPassedOn
<1>1. ClientsInv => PosesPassedOn
  BY OscSound, PluginSound DEF ClientsInv, PosesPassedOn, BridgeInv
<1> QED  BY <1>1, ClientsInductive, PTL

\* The mouse does what was asked: nothing moves while paused, a calibration is watched,
\* and what was not kept is gone (mickey.cpp:193-585); a key is grabbed whole and
\* for a hot key that is shown (keyb_x11.cpp:183-307); with nothing held and nothing under
\* way no button stays pressed (uinput_ifc.c).
THEOREM MouseAlwaysFaithful == ClientsSpec => []MouseFaithful
<1>1. ClientsInv => MouseFaithful
  BY MouseSound, ButtonSound DEF ClientsInv, MouseFaithful, KeyboardInv
<1> QED  BY <1>1, ClientsInductive, PTL

\* Under Wine: what tir_firmware names was completed by the analysis, whatever the order
\* of files, results and requests, with any number of directories (extractor.cpp); no two
\* TIRViews run (rest.c, views/main.cpp); the code defined is the keys held (dinput.cpp).
THEOREM WineAlwaysFaithful == ClientsSpec => []WineFaithful
<1>1. ClientsInv => WineFaithful
  BY FirmwareSound, BridgeSound DEF ClientsInv, WineFaithful, BridgeInv
<1> QED  BY <1>1, ClientsInductive, PTL
=============================================================================
