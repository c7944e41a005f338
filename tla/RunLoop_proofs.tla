------------------------ MODULE RunLoop_proofs ------------------------
(***************************************************************************)
(* For any set of controlling threads: the run loop keeps its types, keeps *)
(* the driver protocol, never sleeps on a stored request, and implements   *)
(* the life cycle of module Device.                                        *)
(***************************************************************************)
EXTENDS RunLoop, TLAPS

BeforeInit == {"load", "check", "store", "flag", "init"}
Idle       == {"none", "start", "ended"}
Running    == {"top", "takeR", "clearR", "act"}
Suspended  == {"asleep", "test", "takeP", "clearP", "wake"}

\* A thread has stored its request and not yet raised change_flag.
Pending == \E c \in Controllers : ctlPc[c] \in {"flag", "check", "signal"}

\* state_mx is held exactly from the first to the last access of the request word.
LockInv == mx = "cal" <=> calPc \in {"takeR", "clearR", "takeP", "clearP"}

\* The library is loaded exactly from dlopen to dlclose.
LibraryInv == iface <=> calPc \notin Idle \cup {"load"}

\* Hardware and published state at each point of the device thread.
ModeInv ==
    /\ calPc \in Idle => hw = "closed" /\ state \in {"STOPPED", "INITIALIZING", "err_NOT_INITIALIZED"}
    /\ calPc \in BeforeInit => hw = "closed" /\ state = "INITIALIZING"
    /\ calPc = "begin" => hw = "capturing" /\ state = "INITIALIZING"
    /\ calPc \in Running => hw = "capturing" /\ state = "RUNNING"
    /\ calPc = "pausing" => hw = "capturing" /\ state = "PAUSED" /\ myReq = "PAUSE"
    /\ calPc \in Suspended => hw = "suspended" /\ state = "PAUSED"
    /\ calPc = "resumed" => hw = "capturing" /\ state = "PAUSED" /\ myReq = "RUN"
    /\ calPc = "closing" => hw = "capturing" /\ state \in {"RUNNING", "PAUSED", "err_PROCESSING_FRAME"}
    /\ calPc = "stopped" => hw = "closed" /\ state \in {"RUNNING", "PAUSED", "err_PROCESSING_FRAME"}
    /\ calPc = "unload" => hw = "closed" /\ state \in {"STOPPED", "err_NOT_INITIALIZED"}

\* Once the word has been cleared, a request in it comes with a raised flag or
\* with a thread that will raise it; while the flag is about to be cleared, or
\* the thread sleeps, it can only be the latter.
WakeInv ==
    /\ calPc \in {"clearR", "act", "pausing", "test", "wake", "resumed"} /\ request # "CONTINUE"
          => changeFlag \/ Pending
    /\ calPc \in {"clearP", "asleep"} /\ request # "CONTINUE" => Pending

IInv == TypeOK /\ LockInv /\ LibraryInv /\ ModeInv /\ WakeInv

USE DEF CalPcs, CtlPcs, Requests

\* The loop starts with nothing held, loaded or pending.
LEMMA InitIInv == Init => IInv
  BY DEF Init, IInv, TypeOK, LockInv, LibraryInv, ModeInv, WakeInv, Idle, BeforeInit,
         Running, Suspended

\* No step of any thread breaks a type.
LEMMA TypeStep == TypeOK /\ [Next]_vars => TypeOK'
<1> SUFFICES ASSUME TypeOK, [Next]_vars PROVE TypeOK' OBVIOUS
<1> USE DEF TypeOK
<1>1. ASSUME CalStep PROVE TypeOK'
  <2>1. CASE GetDevice BY <2>1 DEF GetDevice, CalAt, ctlVars
  <2>2. CASE LoadLibrary
    <3>1. iface' \in BOOLEAN /\ changeFlag' \in BOOLEAN BY <2>2, Zenon DEF LoadLibrary
    <3>2. calPc' \in CalPcs BY <2>2 DEF LoadLibrary, CalAt
    <3>3. UNCHANGED <<request, newRequest, state, mx, hw, myReq, ctlPc, ctlReq, alive>>
      BY <2>2 DEF LoadLibrary, ctlVars
    <3> QED BY <3>1, <3>2, <3>3
  <2>3. CASE CheckPaused BY <2>3 DEF CheckPaused, CalAt, ctlVars
  <2>4. CASE StoreRun
    <3>1. newRequest' \in BOOLEAN BY <2>4, Zenon DEF StoreRun
    <3>2. calPc' \in CalPcs /\ request' \in Requests BY <2>4 DEF StoreRun, CalAt
    <3>3. UNCHANGED <<state, iface, changeFlag, mx, hw, myReq, ctlPc, ctlReq, alive>>
      BY <2>4 DEF StoreRun, ctlVars
    <3> QED BY <3>1, <3>2, <3>3
  <2>5. CASE TrackerInit BY <2>5 DEF TrackerInit, CalAt, ctlVars
  <2>6. CASE Begin BY <2>6 DEF Begin, CalAt, ctlVars
  <2>7. CASE LockRunning BY <2>7 DEF LockRunning, TakeRequest, CalAt, ctlVars
  <2>8. CASE ClearRunning BY <2>8 DEF ClearRunning, ClearRequest, CalAt, ctlVars
  <2>9. CASE UnlockRunning BY <2>9 DEF UnlockRunning, CalAt, ctlVars
  <2>10. CASE ActPause BY <2>10 DEF ActPause, CalAt, ctlVars
  <2>11. CASE ActShutdown BY <2>11 DEF ActShutdown, CalAt, ctlVars
  <2>12. CASE GetFrame BY <2>12 DEF GetFrame, CalAt, ctlVars
  <2>13. CASE TestChange BY <2>13 DEF TestChange, TakeRequest, CalAt, ctlVars
  <2>14. CASE ClearPaused BY <2>14 DEF ClearPaused, ClearRequest, CalAt, ctlVars
  <2>15. CASE UnlockPaused BY <2>15 DEF UnlockPaused, CalAt, ctlVars
  <2>16. CASE WakeUp BY <2>16 DEF WakeUp, CalAt, ctlVars
  <2>17. CASE WakeToShutdown BY <2>17 DEF WakeToShutdown, CalAt, ctlVars
  <2>18. CASE StayPaused BY <2>18 DEF StayPaused, CalAt, ctlVars
  <2>19. CASE Close BY <2>19 DEF Close, CalAt, ctlVars
  <2>20. CASE UnloadLibrary
    <3>1. iface' \in BOOLEAN BY <2>20, Zenon DEF UnloadLibrary
    <3>2. calPc' \in CalPcs BY <2>20 DEF UnloadLibrary, CalAt
    <3>3. UNCHANGED <<request, newRequest, state, changeFlag, mx, hw, myReq, ctlPc, ctlReq, alive>>
      BY <2>20 DEF UnloadLibrary, ctlVars
    <3> QED BY <3>1, <3>2, <3>3
  <2> QED BY <1>1, <2>1, <2>2, <2>3, <2>4, <2>5, <2>6, <2>7, <2>8, <2>9, <2>10, <2>11, <2>12,
             <2>13, <2>14, <2>15, <2>16, <2>17, <2>18, <2>19, <2>20 DEF CalStep
<1>2. ASSUME NEW c \in Controllers, NEW r \in {"RUN", "PAUSE", "SHUTDOWN"}, Command(c, r) PROVE TypeOK'
  BY <1>2 DEF Command, CtlAt, calVars
<1>3. ASSUME NEW c \in Controllers, ChangeState(c) PROVE TypeOK'
  <2>1. newRequest' \in BOOLEAN BY <1>3, Zenon DEF ChangeState
  <2>2. ctlPc' \in [Controllers -> CtlPcs] /\ request' \in Requests
    BY <1>3 DEF ChangeState, CtlAt
  <2>3. UNCHANGED <<state, iface, changeFlag, mx, hw, calPc, myReq, ctlReq, alive>>
    BY <1>3 DEF ChangeState, calVars
  <2> QED BY <2>1, <2>2, <2>3
<1>4. ASSUME NEW c \in Controllers, CheckInterface(c) PROVE TypeOK'
  BY <1>4 DEF CheckInterface, CtlAt, calVars, AfterCall
<1>5. ASSUME NEW c \in Controllers, SignalRequest(c) PROVE TypeOK'
  BY <1>5 DEF SignalRequest, CtlAt, AfterCall
<1>6. ASSUME NEW c \in Controllers, CallNull(c) PROVE TypeOK'
  <2>1. alive' \in BOOLEAN BY <1>6, Zenon DEF CallNull
  <2>2. UNCHANGED <<request, newRequest, state, iface, changeFlag, mx, hw, calPc, myReq,
                    ctlPc, ctlReq>>
    BY <1>6 DEF CallNull, calVars, ctlVars
  <2> QED BY <2>1, <2>2
<1>7. CASE SpuriousWakeup BY <1>7 DEF SpuriousWakeup, CalAt, ctlVars
<1>8. CASE StartDevice BY <1>8 DEF StartDevice, ctlVars
<1>9. CASE Join BY <1>9, MainAssumption DEF Join, CtlAt
<1>10. CASE UNCHANGED vars BY <1>10 DEF vars
<1> QED BY <1>1, <1>2, <1>3, <1>4, <1>5, <1>6, <1>7, <1>8, <1>9, <1>10 DEF Next, CtlStep

\* The device thread takes and releases state_mx around the same accesses.
LEMMA LockStep == TypeOK /\ LockInv /\ [Next]_vars => LockInv'
<1> SUFFICES ASSUME TypeOK, LockInv, [Next]_vars PROVE LockInv' OBVIOUS
<1> USE DEF TypeOK, LockInv
<1>1. ASSUME CalStep PROVE LockInv'
  <2>1. CASE GetDevice BY <2>1 DEF GetDevice, CalAt, ctlVars
  <2>2. CASE LoadLibrary BY <2>2 DEF LoadLibrary, CalAt, ctlVars
  <2>3. CASE CheckPaused BY <2>3 DEF CheckPaused, CalAt, ctlVars
  <2>4. CASE StoreRun BY <2>4 DEF StoreRun, CalAt, ctlVars
  <2>5. CASE TrackerInit BY <2>5 DEF TrackerInit, CalAt, ctlVars
  <2>6. CASE Begin BY <2>6 DEF Begin, CalAt, ctlVars
  <2>7. CASE LockRunning BY <2>7 DEF LockRunning, TakeRequest, CalAt, ctlVars
  <2>8. CASE ClearRunning BY <2>8 DEF ClearRunning, ClearRequest, CalAt, ctlVars
  <2>9. CASE UnlockRunning BY <2>9 DEF UnlockRunning, CalAt, ctlVars
  <2>10. CASE ActPause BY <2>10 DEF ActPause, CalAt, ctlVars
  <2>11. CASE ActShutdown BY <2>11 DEF ActShutdown, CalAt, ctlVars
  <2>12. CASE GetFrame BY <2>12 DEF GetFrame, CalAt, ctlVars
  <2>13. CASE TestChange BY <2>13 DEF TestChange, TakeRequest, CalAt, ctlVars
  <2>14. CASE ClearPaused BY <2>14 DEF ClearPaused, ClearRequest, CalAt, ctlVars
  <2>15. CASE UnlockPaused BY <2>15 DEF UnlockPaused, CalAt, ctlVars
  <2>16. CASE WakeUp BY <2>16 DEF WakeUp, CalAt, ctlVars
  <2>17. CASE WakeToShutdown BY <2>17 DEF WakeToShutdown, CalAt, ctlVars
  <2>18. CASE StayPaused BY <2>18 DEF StayPaused, CalAt, ctlVars
  <2>19. CASE Close BY <2>19 DEF Close, CalAt, ctlVars
  <2>20. CASE UnloadLibrary BY <2>20 DEF UnloadLibrary, CalAt, ctlVars
  <2> QED BY <1>1, <2>1, <2>2, <2>3, <2>4, <2>5, <2>6, <2>7, <2>8, <2>9, <2>10, <2>11, <2>12,
             <2>13, <2>14, <2>15, <2>16, <2>17, <2>18, <2>19, <2>20 DEF CalStep
<1>2. ASSUME NEW c \in Controllers, NEW r \in {"RUN", "PAUSE", "SHUTDOWN"}, Command(c, r) PROVE LockInv'
  BY <1>2 DEF Command, CtlAt, calVars
<1>3. ASSUME NEW c \in Controllers, ChangeState(c) PROVE LockInv'
  BY <1>3 DEF ChangeState, CtlAt, calVars
<1>4. ASSUME NEW c \in Controllers, CheckInterface(c) PROVE LockInv'
  BY <1>4 DEF CheckInterface, CtlAt, calVars, AfterCall
<1>5. ASSUME NEW c \in Controllers, SignalRequest(c) PROVE LockInv'
  BY <1>5 DEF SignalRequest, CtlAt, AfterCall
<1>6. ASSUME NEW c \in Controllers, CallNull(c) PROVE LockInv'
  BY <1>6 DEF CallNull, calVars, ctlVars
<1>7. CASE SpuriousWakeup BY <1>7 DEF SpuriousWakeup, CalAt, ctlVars
<1>8. CASE StartDevice BY <1>8 DEF StartDevice, ctlVars
<1>9. CASE Join BY <1>9, MainAssumption DEF Join, CtlAt
<1>10. CASE UNCHANGED vars BY <1>10 DEF vars
<1> QED BY <1>1, <1>2, <1>3, <1>4, <1>5, <1>6, <1>7, <1>8, <1>9, <1>10 DEF Next, CtlStep

\* Only the device thread loads and unloads the library.
LEMMA LibraryStep == TypeOK /\ LibraryInv /\ [Next]_vars => LibraryInv'
<1> SUFFICES ASSUME TypeOK, LibraryInv, [Next]_vars PROVE LibraryInv' OBVIOUS
<1> USE DEF TypeOK, LibraryInv, Idle
<1>1. ASSUME CalStep PROVE LibraryInv'
  <2>1. CASE GetDevice BY <2>1 DEF GetDevice, CalAt, ctlVars
  <2>2. CASE LoadLibrary BY <2>2 DEF LoadLibrary, CalAt, ctlVars
  <2>3. CASE CheckPaused BY <2>3 DEF CheckPaused, CalAt, ctlVars
  <2>4. CASE StoreRun BY <2>4 DEF StoreRun, CalAt, ctlVars
  <2>5. CASE TrackerInit BY <2>5 DEF TrackerInit, CalAt, ctlVars
  <2>6. CASE Begin BY <2>6 DEF Begin, CalAt, ctlVars
  <2>7. CASE LockRunning BY <2>7 DEF LockRunning, TakeRequest, CalAt, ctlVars
  <2>8. CASE ClearRunning BY <2>8 DEF ClearRunning, ClearRequest, CalAt, ctlVars
  <2>9. CASE UnlockRunning BY <2>9 DEF UnlockRunning, CalAt, ctlVars
  <2>10. CASE ActPause BY <2>10 DEF ActPause, CalAt, ctlVars
  <2>11. CASE ActShutdown BY <2>11 DEF ActShutdown, CalAt, ctlVars
  <2>12. CASE GetFrame BY <2>12 DEF GetFrame, CalAt, ctlVars
  <2>13. CASE TestChange BY <2>13 DEF TestChange, TakeRequest, CalAt, ctlVars
  <2>14. CASE ClearPaused BY <2>14 DEF ClearPaused, ClearRequest, CalAt, ctlVars
  <2>15. CASE UnlockPaused BY <2>15 DEF UnlockPaused, CalAt, ctlVars
  <2>16. CASE WakeUp BY <2>16 DEF WakeUp, CalAt, ctlVars
  <2>17. CASE WakeToShutdown BY <2>17 DEF WakeToShutdown, CalAt, ctlVars
  <2>18. CASE StayPaused BY <2>18 DEF StayPaused, CalAt, ctlVars
  <2>19. CASE Close BY <2>19 DEF Close, CalAt, ctlVars
  <2>20. CASE UnloadLibrary BY <2>20 DEF UnloadLibrary, CalAt, ctlVars
  <2> QED BY <1>1, <2>1, <2>2, <2>3, <2>4, <2>5, <2>6, <2>7, <2>8, <2>9, <2>10, <2>11, <2>12,
             <2>13, <2>14, <2>15, <2>16, <2>17, <2>18, <2>19, <2>20 DEF CalStep
<1>2. ASSUME NEW c \in Controllers, NEW r \in {"RUN", "PAUSE", "SHUTDOWN"}, Command(c, r) PROVE LibraryInv'
  BY <1>2 DEF Command, CtlAt, calVars
<1>3. ASSUME NEW c \in Controllers, ChangeState(c) PROVE LibraryInv'
  BY <1>3 DEF ChangeState, CtlAt, calVars
<1>4. ASSUME NEW c \in Controllers, CheckInterface(c) PROVE LibraryInv'
  BY <1>4 DEF CheckInterface, CtlAt, calVars, AfterCall
<1>5. ASSUME NEW c \in Controllers, SignalRequest(c) PROVE LibraryInv'
  BY <1>5 DEF SignalRequest, CtlAt, AfterCall
<1>6. ASSUME NEW c \in Controllers, CallNull(c) PROVE LibraryInv'
  BY <1>6 DEF CallNull, calVars, ctlVars
<1>7. CASE SpuriousWakeup BY <1>7 DEF SpuriousWakeup, CalAt, ctlVars
<1>8. CASE StartDevice BY <1>8 DEF StartDevice, ctlVars
<1>9. CASE Join BY <1>9, MainAssumption DEF Join, CtlAt
<1>10. CASE UNCHANGED vars BY <1>10 DEF vars
<1> QED BY <1>1, <1>2, <1>3, <1>4, <1>5, <1>6, <1>7, <1>8, <1>9, <1>10 DEF Next, CtlStep

\* State and hardware change only where the device thread says so.
LEMMA ModeStep == TypeOK /\ ModeInv /\ [Next]_vars => ModeInv'
<1> SUFFICES ASSUME TypeOK, ModeInv, [Next]_vars PROVE ModeInv' OBVIOUS
<1> USE DEF TypeOK, ModeInv, Idle, BeforeInit, Running, Suspended
<1>1. ASSUME CalStep PROVE ModeInv'
  <2>1. CASE GetDevice BY <2>1 DEF GetDevice, CalAt, ctlVars
  <2>2. CASE LoadLibrary BY <2>2 DEF LoadLibrary, CalAt, ctlVars
  <2>3. CASE CheckPaused BY <2>3 DEF CheckPaused, CalAt, ctlVars
  <2>4. CASE StoreRun BY <2>4 DEF StoreRun, CalAt, ctlVars
  <2>5. CASE TrackerInit BY <2>5 DEF TrackerInit, CalAt, ctlVars
  <2>6. CASE Begin BY <2>6 DEF Begin, CalAt, ctlVars
  <2>7. CASE LockRunning BY <2>7 DEF LockRunning, TakeRequest, CalAt, ctlVars
  <2>8. CASE ClearRunning BY <2>8 DEF ClearRunning, ClearRequest, CalAt, ctlVars
  <2>9. CASE UnlockRunning BY <2>9 DEF UnlockRunning, CalAt, ctlVars
  <2>10. CASE ActPause BY <2>10 DEF ActPause, CalAt, ctlVars
  <2>11. CASE ActShutdown BY <2>11 DEF ActShutdown, CalAt, ctlVars
  <2>12. CASE GetFrame BY <2>12 DEF GetFrame, CalAt, ctlVars
  <2>13. CASE TestChange BY <2>13 DEF TestChange, TakeRequest, CalAt, ctlVars
  <2>14. CASE ClearPaused BY <2>14 DEF ClearPaused, ClearRequest, CalAt, ctlVars
  <2>15. CASE UnlockPaused BY <2>15 DEF UnlockPaused, CalAt, ctlVars
  <2>16. CASE WakeUp BY <2>16 DEF WakeUp, CalAt, ctlVars
  <2>17. CASE WakeToShutdown BY <2>17 DEF WakeToShutdown, CalAt, ctlVars
  <2>18. CASE StayPaused BY <2>18 DEF StayPaused, CalAt, ctlVars
  <2>19. CASE Close BY <2>19 DEF Close, CalAt, ctlVars
  <2>20. CASE UnloadLibrary BY <2>20 DEF UnloadLibrary, CalAt, ctlVars
  <2> QED BY <1>1, <2>1, <2>2, <2>3, <2>4, <2>5, <2>6, <2>7, <2>8, <2>9, <2>10, <2>11, <2>12,
             <2>13, <2>14, <2>15, <2>16, <2>17, <2>18, <2>19, <2>20 DEF CalStep
<1>2. ASSUME NEW c \in Controllers, NEW r \in {"RUN", "PAUSE", "SHUTDOWN"}, Command(c, r) PROVE ModeInv'
  BY <1>2 DEF Command, CtlAt, calVars
<1>3. ASSUME NEW c \in Controllers, ChangeState(c) PROVE ModeInv'
  BY <1>3 DEF ChangeState, CtlAt, calVars
<1>4. ASSUME NEW c \in Controllers, CheckInterface(c) PROVE ModeInv'
  BY <1>4 DEF CheckInterface, CtlAt, calVars, AfterCall
<1>5. ASSUME NEW c \in Controllers, SignalRequest(c) PROVE ModeInv'
  BY <1>5 DEF SignalRequest, CtlAt, AfterCall
<1>6. ASSUME NEW c \in Controllers, CallNull(c) PROVE ModeInv'
  BY <1>6 DEF CallNull, calVars, ctlVars
<1>7. CASE SpuriousWakeup BY <1>7 DEF SpuriousWakeup, CalAt, ctlVars
<1>8. CASE StartDevice BY <1>8 DEF StartDevice, ctlVars
<1>9. CASE Join BY <1>9, MainAssumption DEF Join, CtlAt
<1>10. CASE UNCHANGED vars BY <1>10 DEF vars
<1> QED BY <1>1, <1>2, <1>3, <1>4, <1>5, <1>6, <1>7, <1>8, <1>9, <1>10 DEF Next, CtlStep

\* No step strands a stored request.
LEMMA WakeStep == TypeOK /\ LockInv /\ LibraryInv /\ WakeInv /\ [Next]_vars => WakeInv'
<1> SUFFICES ASSUME TypeOK, LockInv, LibraryInv, WakeInv, [Next]_vars PROVE WakeInv' OBVIOUS
<1> USE DEF TypeOK, LockInv, LibraryInv, WakeInv, Pending, Idle
<1>1. ASSUME CalStep PROVE WakeInv'
  <2>1. CASE GetDevice BY <2>1 DEF GetDevice, CalAt, ctlVars
  <2>2. CASE LoadLibrary BY <2>2 DEF LoadLibrary, CalAt, ctlVars
  <2>3. CASE CheckPaused BY <2>3 DEF CheckPaused, CalAt, ctlVars
  <2>4. CASE StoreRun BY <2>4 DEF StoreRun, CalAt, ctlVars
  <2>5. CASE TrackerInit BY <2>5 DEF TrackerInit, CalAt, ctlVars
  <2>6. CASE Begin BY <2>6 DEF Begin, CalAt, ctlVars
  <2>7. CASE LockRunning BY <2>7 DEF LockRunning, TakeRequest, CalAt, ctlVars
  <2>8. CASE ClearRunning BY <2>8 DEF ClearRunning, ClearRequest, CalAt, ctlVars
  <2>9. CASE UnlockRunning BY <2>9 DEF UnlockRunning, CalAt, ctlVars
  <2>10. CASE ActPause BY <2>10 DEF ActPause, CalAt, ctlVars
  <2>11. CASE ActShutdown BY <2>11 DEF ActShutdown, CalAt, ctlVars
  <2>12. CASE GetFrame BY <2>12 DEF GetFrame, CalAt, ctlVars
  <2>13. CASE TestChange BY <2>13 DEF TestChange, TakeRequest, CalAt, ctlVars
  <2>14. CASE ClearPaused BY <2>14 DEF ClearPaused, ClearRequest, CalAt, ctlVars
  <2>15. CASE UnlockPaused BY <2>15 DEF UnlockPaused, CalAt, ctlVars
  <2>16. CASE WakeUp BY <2>16 DEF WakeUp, CalAt, ctlVars
  <2>17. CASE WakeToShutdown BY <2>17 DEF WakeToShutdown, CalAt, ctlVars
  <2>18. CASE StayPaused BY <2>18 DEF StayPaused, CalAt, ctlVars
  <2>19. CASE Close BY <2>19 DEF Close, CalAt, ctlVars
  <2>20. CASE UnloadLibrary BY <2>20 DEF UnloadLibrary, CalAt, ctlVars
  <2> QED BY <1>1, <2>1, <2>2, <2>3, <2>4, <2>5, <2>6, <2>7, <2>8, <2>9, <2>10, <2>11, <2>12,
             <2>13, <2>14, <2>15, <2>16, <2>17, <2>18, <2>19, <2>20 DEF CalStep
<1>2. ASSUME NEW c \in Controllers, NEW r \in {"RUN", "PAUSE", "SHUTDOWN"}, Command(c, r) PROVE WakeInv'
  BY <1>2 DEF Command, CtlAt, calVars
<1>3. ASSUME NEW c \in Controllers, ChangeState(c) PROVE WakeInv'
  BY <1>3 DEF ChangeState, CtlAt, calVars
<1>4. ASSUME NEW c \in Controllers, CheckInterface(c) PROVE WakeInv'
  BY <1>4 DEF CheckInterface, CtlAt, calVars, AfterCall
<1>5. ASSUME NEW c \in Controllers, SignalRequest(c) PROVE WakeInv'
  BY <1>5 DEF SignalRequest, CtlAt, AfterCall
<1>6. ASSUME NEW c \in Controllers, CallNull(c) PROVE WakeInv'
  BY <1>6 DEF CallNull, calVars, ctlVars
<1>7. CASE SpuriousWakeup BY <1>7 DEF SpuriousWakeup, CalAt, ctlVars
<1>8. CASE StartDevice BY <1>8 DEF StartDevice, ctlVars
<1>9. CASE Join BY <1>9, MainAssumption DEF Join, CtlAt
<1>10. CASE UNCHANGED vars BY <1>10 DEF vars
<1> QED BY <1>1, <1>2, <1>3, <1>4, <1>5, <1>6, <1>7, <1>8, <1>9, <1>10 DEF Next, CtlStep

\* The inductive invariant holds throughout.
THEOREM Inductive == Spec => []IInv
<1>1. IInv /\ [Next]_vars => IInv'
  BY TypeStep, LockStep, LibraryStep, ModeStep, WakeStep DEF IInv
<1> QED BY InitIInv, <1>1, PTL DEF Spec

\* Type correctness for any set of controlling threads.
THEOREM TypeCorrect == Spec => []TypeOK
<1>1. IInv => TypeOK BY DEF IInv
<1> QED BY Inductive, <1>1, PTL

\* No wake-up is lost (runloop.c:79-84 against cal.c:157-161 and runloop.c:113-120).
THEOREM NoRequestSleeps == Spec => []NoSleepingRequest
<1>1. IInv => NoSleepingRequest BY DEF IInv, WakeInv, Pending, NoSleepingRequest
<1> QED BY Inductive, <1>1, PTL

\* The driver is only ever called in the mode it expects.
THEOREM ProtocolKept == Spec => []TrackerProtocol
<1>1. IInv => TrackerProtocol
  BY DEF IInv, TypeOK, ModeInv, LibraryInv, TrackerProtocol, Idle, BeforeInit, Running, Suspended
<1> QED BY Inductive, <1>1, PTL


\* A step of the device thread is a step of the life cycle or leaves it alone.
LEMMA CalStepRefines == TypeOK /\ ModeInv /\ CalStep => [DeviceCycle!Next]_<<state, hw>>
<1> SUFFICES ASSUME TypeOK, ModeInv, CalStep PROVE [DeviceCycle!Next]_<<state, hw>> OBVIOUS
<1> USE DEF ModeInv, Idle, BeforeInit, Running, Suspended
<1>1. CASE GetDevice
  BY <1>1 DEF GetDevice, CalAt, DeviceCycle!Next, DeviceCycle!Start
<1>2. CASE TrackerInit
  BY <1>2 DEF TrackerInit, CalAt, DeviceCycle!Next, DeviceCycle!Open, DeviceCycle!FailToOpen
<1>3. CASE Begin
  BY <1>3 DEF Begin, CalAt, DeviceCycle!Next, DeviceCycle!Run
<1>4. CASE ActPause
  BY <1>4 DEF ActPause, CalAt, DeviceCycle!Next, DeviceCycle!Suspend, DeviceCycle!Darken
<1>5. CASE GetFrame
  BY <1>5 DEF GetFrame, CalAt, DeviceCycle!Next, DeviceCycle!Fail
<1>6. CASE WakeUp
  BY <1>6 DEF WakeUp, CalAt, DeviceCycle!Next, DeviceCycle!Light, DeviceCycle!Wake
<1>7. CASE WakeToShutdown
  BY <1>7 DEF WakeToShutdown, CalAt, DeviceCycle!Next, DeviceCycle!Light
<1>8. CASE Close
  BY <1>8 DEF Close, CalAt, DeviceCycle!Next, DeviceCycle!Close, DeviceCycle!Stop
<1>9. CASE CheckPaused BY <1>9 DEF CheckPaused
<1>10. CASE StoreRun BY <1>10 DEF StoreRun
<1>11. CASE LockRunning BY <1>11 DEF LockRunning
<1>12. CASE ClearRunning BY <1>12 DEF ClearRunning
<1>13. CASE UnlockRunning BY <1>13 DEF UnlockRunning
<1>14. CASE ActShutdown BY <1>14 DEF ActShutdown
<1>15. CASE TestChange BY <1>15 DEF TestChange
<1>16. CASE ClearPaused BY <1>16 DEF ClearPaused
<1>17. CASE UnlockPaused BY <1>17 DEF UnlockPaused
<1>18. CASE StayPaused BY <1>18 DEF StayPaused
<1>19. CASE LoadLibrary BY <1>19 DEF LoadLibrary
<1>20. CASE UnloadLibrary BY <1>20 DEF UnloadLibrary
<1> QED BY <1>1, <1>2, <1>3, <1>4, <1>5, <1>6, <1>7, <1>8, <1>9, <1>10,
           <1>11, <1>12, <1>13, <1>14, <1>15, <1>16, <1>17, <1>18, <1>19, <1>20 DEF CalStep

\* Controllers leave the published state and the hardware alone.
LEMMA CtlStepStutters ==
    /\ \A c \in Controllers : CtlStep(c) => UNCHANGED <<state, hw>>
    /\ \A c \in Controllers, r \in {"RUN", "PAUSE", "SHUTDOWN"} : Command(c, r) => UNCHANGED <<state, hw>>
    /\ SpuriousWakeup \/ StartDevice \/ Join => UNCHANGED <<state, hw>>
  BY DEF CtlStep, ChangeState, CheckInterface, SignalRequest, CallNull, Command,
         SpuriousWakeup, StartDevice, Join

\* The run loop implements the device life cycle, whoever controls it.
THEOREM RefinesDevice == Spec => DeviceSpec
<1>1. Init => DeviceCycle!Init BY DEF Init, DeviceCycle!Init
<1>2. IInv /\ [Next]_vars => [DeviceCycle!Next]_<<state, hw>>
  <2> SUFFICES ASSUME IInv, [Next]_vars PROVE [DeviceCycle!Next]_<<state, hw>> OBVIOUS
  <2>1. CASE CalStep BY <2>1, CalStepRefines DEF IInv
  <2>2. CASE Next /\ ~CalStep BY <2>2, CtlStepStutters DEF Next
  <2>3. CASE UNCHANGED vars BY <2>3 DEF vars
  <2> QED BY <2>1, <2>2, <2>3
<1> QED BY Inductive, <1>1, <1>2, PTL DEF Spec, DeviceSpec, DeviceCycle!Spec

=======================================================================
