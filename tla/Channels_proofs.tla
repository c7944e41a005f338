------------------------ MODULE Channels_proofs ------------------------
(***************************************************************************)
(* Theorems about what reaches a client.  About module Tracking, for any   *)
(* set of models and any bounds: its types, that a counted pose is         *)
(* measured from a centre of its own session and model, and that with a    *)
(* single point or an absolute model a request to recenter is withdrawn    *)
(* only by a frame that was the centre.  About PosePath, with masters that *)
(* come and go and a slave that registers late: that a client misses no    *)
(* counted pose of a master it has heard of, and extrapolates from no      *)
(* younger one.  About FrameFile, while the camera keeps its resolution:   *)
(* that client and master share one file, and that three buffers are       *)
(* enough for a copy of one picture.                                       *)
(***************************************************************************)
EXTENDS MCChannels, SequenceTheorems, TLAPS

-----------------------------------------------------------------------
(* Tracking.  Centred says nothing of the centre, the                       *)
(* request or the place in an update, on which the next pose depends.      *)

\* The centre of this class was taken in this session and with the model installed.
Fresh(c) == center[c].session = session /\ center[c].version = version

\* The updates this speaks of: nothing will be discarded, no model slipped in.
Normal == ~quietly /\ ~initRecenter

InCheck == pc \in {"flag", "store", "setup"}

\* From an update's sorting to its end the class is that of the model installed.
ClassKept ==
    ~quietly /\ (pc \in {"measure", "clear", "write", "count"} \/ (InCheck /\ caller = "update"))
        => class = Class[type]

\* Between frames, and in an update before its measuring, the centre is fresh or the
\* next measurement takes one.
FreshOrAsked ==
    Normal /\ (pc \in {"idle", "sort", "measure", "count", "hand"}
                  \/ (InCheck /\ caller = "update"))
        => recenter \/ Fresh(Class[type])

\* After the measuring it is fresh.
FreshMeasured == Normal /\ pc \in {"clear", "write"} => Fresh(class)

\* So is the pose that is about to be counted.
CountsCentred ==
    Normal /\ pc = "count" => /\ pose.center.session = pose.session
                              /\ pose.center.version = pose.version

\* A request is about to be withdrawn: its centre was taken.
TakenIfPoint == pc = "clear" /\ class # "three" => center[class].frame = frame

IInv ==
    /\ TypeOK
    /\ ClassKept /\ FreshOrAsked /\ FreshMeasured /\ CountsCentred /\ TakenIfPoint
    /\ Centred

-----------------------------------------------------------------------
(* Types. *)

LEMMA ClassInClasses == ASSUME NEW m \in AllModels PROVE Class[m] \in Classes
  BY DEF AllModels, Class, Classes

LEMMA ModelsKnown == Models \subseteq AllModels
  BY ConstantsAssumption

\* A centre taken from any frame has its type.
LEMMA CenterTyped ==
    ASSUME NEW s \in Nat, NEW v \in Nat, NEW f \in Nat
    PROVE  Center(s, v, f) \in CenterType
  BY DEF Center, CenterType

LEMMA NoCenterTyped == NoCenter \in CenterType
  BY CenterTyped DEF NoCenter

LEMMA TakenTyped == ASSUME TypeOK PROVE Taken \in [Classes -> CenterType]
  BY CenterTyped DEF TypeOK, Taken

LEMMA InitTyped == Init => TypeOK
<1> SUFFICES ASSUME Init PROVE TypeOK
  OBVIOUS
<1>1. "CAP" \in AllModels
  BY DEF AllModels, Class
<1>2. pose \in [frame : Nat, session : Nat, version : Nat, center : CenterType, counted : BOOLEAN]
  BY NoCenterTyped DEF Init, NoPose
<1> QED BY NoCenterTyped, <1>1, <1>2 DEF Init, TypeOK, Classes

LEMMA StepTyped == ASSUME TypeOK, [Next]_vars PROVE TypeOK'
<1> USE ModelsKnown DEF TypeOK, At, user, flags, install, work
<1>1. CASE ReadFlag BY <1>1 DEF ReadFlag
<1>2. CASE StoreFlag BY <1>2 DEF StoreFlag, Return
<1>3. CASE SetupFails BY <1>3 DEF SetupFails, Return
<1>4. CASE Install BY <1>4, NoCenterTyped DEF Install, Return
<1>5. CASE InitTracking BY <1>5 DEF InitTracking
<1>6. CASE Again BY <1>6 DEF Again
<1>7. CASE Sort BY <1>7, ClassInClasses DEF Sort
<1>8. CASE MeasurePoint BY <1>8, TakenTyped DEF MeasurePoint
<1>9. CASE MeasureThree BY <1>9, TakenTyped DEF MeasureThree
<1>10. CASE ClearRecenter BY <1>10 DEF ClearRecenter
<1>11. CASE WritePose BY <1>11 DEF WritePose
<1>12. CASE Count
  <2>1. recenter' \in BOOLEAN /\ initRecenter' \in BOOLEAN
    BY <1>12, Zenon DEF Count
  <2>2. PICK b \in BOOLEAN : pose' = [pose EXCEPT !.counted = b]
    BY <1>12, Zenon DEF Count
  <2>3. /\ pc' = "hand" /\ counter' \in Nat
        /\ UNCHANGED <<user, changed, install, center, work, session>>
    BY <1>12 DEF Count
  <2> QED BY <2>1, <2>2, <2>3
<1>13. CASE Begin BY <1>13 DEF Begin
<1>14. CASE End BY <1>14 DEF End
<1>15. CASE NewFrame BY <1>15 DEF NewFrame
<1>16. CASE HandOver BY <1>16 DEF HandOver
<1>17. CASE Recenter BY <1>17 DEF Recenter
<1>18. CASE ChooseModel BY <1>18 DEF ChooseModel
<1>19. CASE AnnounceChange BY <1>19 DEF AnnounceChange
<1>20. CASE UNCHANGED vars BY <1>20 DEF vars
<1> QED
  BY <1>1, <1>2, <1>3, <1>4, <1>5, <1>6, <1>7, <1>8, <1>9, <1>10, <1>11, <1>12, <1>13, <1>14,
     <1>15, <1>16, <1>17, <1>18, <1>19, <1>20 DEF Next, Device, Others

-----------------------------------------------------------------------
(* The invariant. *)

\* Before the first session nothing is counted.
LEMMA InitInv == Init => IInv
<1> SUFFICES ASSUME Init PROVE IInv
  OBVIOUS
<1>1. ClassKept /\ FreshOrAsked /\ FreshMeasured /\ CountsCentred /\ TakenIfPoint
  BY DEF Init, ClassKept, FreshOrAsked, FreshMeasured, CountsCentred, TakenIfPoint, InCheck
<1>2. Centred
  BY DEF Init, NoPose, Centred
<1> QED BY <1>1, <1>2, InitTyped DEF IInv

\* What a measurement that takes the centre leaves behind.
LEMMA TakenFresh ==
    ASSUME TypeOK
    PROVE  /\ Taken[class].session = session /\ Taken[class].version = version
           /\ Taken[class].frame = frame
           /\ \A c \in Classes : c # class => Taken[c] = center[c]
  BY DEF TypeOK, Taken, Center, CenterType

LEMMA StepInv == ASSUME IInv, [Next]_vars PROVE IInv'
<1> USE DEF IInv, At, user, flags, install, work, ClassKept, FreshOrAsked, FreshMeasured,
            CountsCentred, TakenIfPoint, Centred, Normal, InCheck, Fresh
<1>t. TypeOK /\ TypeOK'
  BY StepTyped
<1> USE <1>t
<1>1. CASE ReadFlag BY <1>1 DEF ReadFlag, TypeOK
<1>2. CASE StoreFlag BY <1>2 DEF StoreFlag, Return, TypeOK
<1>3. CASE SetupFails BY <1>3 DEF SetupFails, Return, TypeOK
<1>4. CASE Install BY <1>4, ClassInClasses DEF Install, Return, TypeOK
<1>5. CASE InitTracking BY <1>5 DEF InitTracking, TypeOK
<1>6. CASE Again BY <1>6 DEF Again, TypeOK
<1>7. CASE Sort BY <1>7, ClassInClasses DEF Sort, TypeOK
<1>8. CASE MeasurePoint BY <1>8, TakenFresh DEF MeasurePoint, TypeOK
<1>9. CASE MeasureThree BY <1>9, TakenFresh DEF MeasureThree, TypeOK
<1>10. CASE ClearRecenter BY <1>10 DEF ClearRecenter, TypeOK
<1>11. CASE WritePose BY <1>11 DEF WritePose, TypeOK
<1>12. CASE Count
  <2>1. /\ initRecenter' = FALSE /\ recenter' = (recenter \/ initRecenter)
        /\ pose' = [pose EXCEPT !.counted = ~initRecenter]
        /\ pc' = "hand" /\ pc = "count"
        /\ UNCHANGED <<type, version, quietly, center, session, class, caller, frame>>
    BY <1>12 DEF Count
  <2>2. ASSUME initRecenter PROVE IInv'
    <3>1. pose' = [pose EXCEPT !.counted = FALSE] /\ recenter' = TRUE
      BY <2>1, <2>2, Zenon
    <3> QED BY <2>1, <3>1 DEF TypeOK
  <2>3. ASSUME ~initRecenter PROVE IInv'
    <3>1. pose' = [pose EXCEPT !.counted = TRUE] /\ recenter' = recenter
      BY <2>1, <2>3, <1>t, Zenon DEF TypeOK
    <3> QED BY <2>1, <2>3, <3>1 DEF TypeOK
  <2> QED BY <2>2, <2>3
<1>13. CASE Begin BY <1>13 DEF Begin, TypeOK
<1>14. CASE End BY <1>14 DEF End, TypeOK
<1>15. CASE NewFrame BY <1>15 DEF NewFrame, TypeOK
<1>16. CASE HandOver BY <1>16 DEF HandOver, TypeOK
<1>17. CASE Recenter BY <1>17 DEF Recenter, TypeOK
<1>18. CASE ChooseModel BY <1>18 DEF ChooseModel, TypeOK
<1>19. CASE AnnounceChange BY <1>19 DEF AnnounceChange, TypeOK
<1>20. CASE UNCHANGED vars BY <1>20 DEF vars
<1> QED
  BY <1>1, <1>2, <1>3, <1>4, <1>5, <1>6, <1>7, <1>8, <1>9, <1>10, <1>11, <1>12, <1>13, <1>14,
     <1>15, <1>16, <1>17, <1>18, <1>19, <1>20 DEF Next, Device, Others

-----------------------------------------------------------------------
(* Theorems *)

LEMMA Invariance == Spec => []IInv
  BY InitInv, StepInv, PTL DEF Spec

\* Every variable keeps its type.
THEOREM TypeCorrect == Spec => []TypeOK
<1>1. IInv => TypeOK
  BY DEF IInv
<1> QED BY <1>1, Invariance, PTL

\* A counted pose is measured from a centre of its own session and model
\* (tracking.c:443-448), unless a model was installed by an update itself.
THEOREM CountedCentred == Spec => []Centred
<1>1. IInv => Centred
  BY DEF IInv
<1> QED BY <1>1, Invariance, PTL

\* With a single point or an absolute model no request to recenter is lost within a
\* session (tracking.c:149-154).
THEOREM RequestTaken == Spec => PointRecenterTaken
<1> DEFINE Kept == recenter /\ ~recenter' /\ class # "three" =>
                       pc = "ready" \/ center[class].frame = frame
<1>1. ASSUME IInv, [Next]_vars PROVE [Kept]_vars
  <2> SUFFICES ASSUME recenter, ~recenter', class # "three"
               PROVE  pc = "ready" \/ center[class].frame = frame
    OBVIOUS
  <2>1. CASE InitTracking BY <2>1 DEF InitTracking, At
  <2>2. CASE ClearRecenter BY <1>1, <2>2 DEF ClearRecenter, At, IInv, TakenIfPoint
  <2>3. ~Count BY Zenon DEF Count
  <2> QED BY <1>1, <2>1, <2>2, <2>3
     DEF Next, Device, Others, vars, flags, ReadFlag, StoreFlag, SetupFails, Install, Again, Sort,
         MeasurePoint, MeasureThree, WritePose, Begin, End, NewFrame, HandOver, Recenter,
         ChooseModel, AnnounceChange
<1> QED BY <1>1, Invariance, PTL DEF Spec, PointRecenterTaken
-----------------------------------------------------------------------
(* PosePath.  Its steps are steps of Tracking, or another master's start;  *)
(* what is on the way to the client is in the order in which it was made,  *)
(* by a master and by the masters one after the other.                     *)

\* A frame is worked on.
InUpdate ==
    \/ pc \in {"again", "sort", "measure", "clear", "write", "count", "hand"}
    \/ InCheck /\ caller # "init"

\* A counted pose has a count; only the first of a master has no frame, and all others are
\* of frames after the master's start.
Proper(m) ==
    /\ m.pose.counted => m.counter > 0
    /\ m.pose.frame = 0 => m.pose = NoPose
    /\ m.pose.frame > 0 => m.pose.frame > m.since

\* What the tracker has, as it would be sent.
Made == [pose |-> pose, counter |-> counter, since |-> since]

\* The pose that is made: uncounted until its update counts it.
PoseInv ==
    /\ since <= frame /\ (InUpdate => since < frame)
    /\ pose.frame <= frame /\ Proper(Made)
    /\ pc = "count" => ~pose.counted /\ pose.session = session /\ pose.frame = frame

\* Of two poses with their counts the second is not from an earlier frame, nor has it
\* a lower count; with the same count it is counted only if it is the same pose.
Older(p, n, q, k) ==
    /\ p.frame <= q.frame /\ n <= k
    /\ q.counted /\ n = k => p = q

\* Of two messages the first is the older, or of an earlier master.
OlderMessage(m, o) ==
    \/ m.since = o.since /\ Older(m.pose, m.counter, o.pose, o.counter)
    \/ m.since < o.since /\ m.pose.frame < o.since

\* Only these are stored in the mailbox with their pose.
Tells(m) == m.status = "RUNNING"

\* Everything on its way: mailbox, the reader's message, socket, and the master's pose.
ProperInv ==
    /\ Proper(mail) /\ Proper(current) /\ (Tells(msg) => Proper(msg))
    /\ \A i \in 1 .. Len(queue) : Tells(queue[i]) => Proper(queue[i])

OrderInv ==
    /\ current.since = since /\ OlderMessage(current, Made) /\ OlderMessage(mail, current)
    /\ Tells(msg) => OlderMessage(mail, msg) /\ OlderMessage(msg, current)
    /\ \A i \in 1 .. Len(queue) : Tells(queue[i]) =>
         /\ OlderMessage(mail, queue[i]) /\ OlderMessage(queue[i], current)
         /\ Tells(msg) => OlderMessage(msg, queue[i])
    /\ \A i, j \in 1 .. Len(queue) :
         i < j /\ Tells(queue[i]) /\ Tells(queue[j]) => OlderMessage(queue[i], queue[j])

\* The reader has stored the pose, and not yet the one before it.
HalfPose == readerPc = "half" /\ Tells(msg)
ReaderInv ==
    /\ readerPc = "wait" => ~Tells(msg)
    /\ HalfPose => mail.pose = msg.pose
    /\ posted = 0 => mainPc = "idle" /\ (lock = "free" => readerPc = "wait")

\* The mailbox has the pose the slave filtered last, and no younger one before it.
NoYounger(p, q) == q.frame = 0 \/ p.frame <= q.frame
PrevInv ==
    IF HalfPose THEN NoYounger(filtered, mail.pose)
    ELSE filtered.frame = mail.pose.frame /\ NoYounger(mail.prev, mail.pose)

\* What the client was told.
ToldInv ==
    /\ newest.since <= told.since /\ told.since <= mail.since
    /\ told.since = mail.since => told.counter <= mail.counter
    /\ posted = 0 /\ told.pose # NoPose => told.prev.frame <= told.pose.frame

\* In a master's first session the count is that of counted poses: it is 0 before the
\* first, and no update makes a pose that it does not count then.
Counted(p, n) ==
    n > 0 /\ p.session = 1 => p.counted /\ p.center.session = 1 /\ p.center.version = p.version
Starts == pc = "ready" \/ (InCheck /\ caller = "init")

CountedInv ==
    /\ session = 0 => pc = "off" /\ counter = 0
    /\ session = 1 /\ (initRecenter \/ Starts) => counter = 0
    /\ ~quietly =>
         /\ pc # "count" => Counted(pose, counter)
         /\ Counted(current.pose, current.counter) /\ Counted(mail.pose, mail.counter)
         /\ Tells(msg) => Counted(msg.pose, msg.counter)
         /\ \A i \in 1 .. Len(queue) :
              Tells(queue[i]) => Counted(queue[i].pose, queue[i].counter)
         /\ Counted(told.pose, told.counter)

PathInv ==
    /\ IInv /\ PathTypeOK /\ PoseInv /\ ProperInv /\ OrderInv /\ ReaderInv
    /\ PrevInv /\ ToldInv /\ CountedInv /\ NothingMissed

-----------------------------------------------------------------------
(* Steps and types of the path. *)

MailType == [pose : PoseType, prev : PoseType, counter : Nat, state : Statuses, since : Nat]
ToldType == [new : BOOLEAN, pose : PoseType, prev : PoseType, counter : Nat, since : Nat]

LEMMA NoPoseTyped == NoPose \in PoseType /\ NoPose.frame = 0 /\ ~NoPose.counted
<1>1. NoPose.counted = FALSE  BY DEF NoPose
<1>2. ~NoPose.counted  BY <1>1, Zenon
<1>3. NoPose \in PoseType  BY NoCenterTyped DEF NoPose, PoseType
<1> QED  BY <1>2, <1>3 DEF NoPose

LEMMA NoMessageTyped ==
    /\ NoMessage \in MessageType /\ NoMessage.pose = NoPose /\ NoMessage.counter = 0
    /\ NoMessage.since = 0 /\ NoMessage.status = "OK"
  BY NoPoseTyped DEF NoMessage, MessageType, Statuses

LEMMA PathSteps ==
    ASSUME [PathNext]_<<vars, pathVars>>
    PROVE  ([Next]_vars /\ since' = since) \/ NewMaster
<1> USE DEF masterVars, slaveVars, clientVars, pathVars, Change, Next
<1>1. CASE Master
  BY <1>1 DEF Master, StartSession, NoSession, Create, Serve, Register, Heartbeat, Leave, Join, Device
<1>2. CASE DeviceThread
  BY <1>2 DEF DeviceThread, Track, Initialize, Run, Pause, CaptureFails, NoDevice, NotInitialized,
              EndSession, Capture, NewPose
<1>3. CASE LockMail \/ StorePose \/ StoreRest \/ MainLocks \/ MainUnlocks
  BY <1>3 DEF LockMail, StorePose, StoreRest, MainLocks, MainUnlocks
<1>4. CASE Post \/ GetPose \/ (Others /\ UNCHANGED pathVars) \/ UNCHANGED <<vars, pathVars>>
  BY <1>4 DEF Post, GetPose
<1> QED  BY <1>1, <1>2, <1>3, <1>4 DEF PathNext

\* The new process has the types and the invariant of the first, with a pose of its own.
LEMMA RestartInv ==
    ASSUME TypeOK, Restart
    PROVE  TypeOK' /\ (IInv => IInv') /\ frame' = frame + 1 /\ pose' = NoPose /\ counter' = 0
<1>1. "CAP" \in AllModels  BY DEF AllModels, Class
<1>2. pose' \in [frame : Nat, session : Nat, version : Nat, center : CenterType, counted : BOOLEAN]
  BY NoCenterTyped DEF Restart, NoPose
<1>3. center' \in [Classes -> CenterType]  BY NoCenterTyped DEF Restart
<1>b. /\ untold' \in BOOLEAN /\ changed' \in BOOLEAN /\ recenter' \in BOOLEAN
      /\ initRecenter' \in BOOLEAN
  BY Zenon DEF Restart
<1>n. frame' \in Nat /\ version' \in Nat /\ counter' \in Nat /\ session' \in Nat
  BY DEF Restart, TypeOK
<1>p. pc' = "off" /\ type' = "CAP"  BY DEF Restart
<1>u. UNCHANGED <<setting, caller, fetched, good, class, quietly, changes, requests>>
  BY DEF Restart
<1>4. TypeOK'  BY <1>1, <1>2, <1>3, <1>b, <1>n, <1>p, <1>u DEF TypeOK
<1>5. ASSUME IInv PROVE IInv'
  <2>1. ~pose'.counted  BY NoPoseTyped DEF Restart
  <2> QED
    BY <1>4, <2>1 DEF IInv, Restart, ClassKept, FreshOrAsked, FreshMeasured, CountsCentred,
                      TakenIfPoint, Centred, InCheck
<1> QED  BY <1>4, <1>5 DEF Restart

LEMMA PoseFields ==
    ASSUME NEW p \in PoseType
    PROVE  p.frame \in Nat /\ p.session \in Nat /\ p.counted \in BOOLEAN
  BY DEF PoseType

\* What is compared with what.
Dated(m) == m.pose \in PoseType /\ m.counter \in Nat /\ m.since \in Nat

LEMMA MessageDated ==
    ASSUME NEW m \in MessageType
    PROVE  Dated(m) /\ m.status \in Statuses
  BY DEF MessageType, Dated

LEMMA MailDated == ASSUME NEW m \in MailType PROVE Dated(m)
  BY DEF MailType, Dated

LEMMA MadeDated ==
    ASSUME TypeOK, since \in Nat
    PROVE  Dated(Made) /\ Made.pose = pose /\ Made.counter = counter /\ Made.since = since
  BY DEF TypeOK, Made, Dated, PoseType

\* A message is put at the end of the queue, if the slave is there.
LEMMA Sent ==
    ASSUME queue \in Seq(MessageType), NEW m \in MessageType, Send(m)
    PROVE  /\ queue' \in Seq(MessageType)
           /\ \A i \in 1 .. Len(queue') : (i \in 1 .. Len(queue) /\ queue'[i] = queue[i])
                                          \/ (i = Len(queue) + 1 /\ queue'[i] = m)
<1>1. CASE queue' = Append(queue, m)
  <2>1. /\ queue' \in Seq(MessageType) /\ Len(queue') = Len(queue) + 1 /\ Len(queue) \in Nat
        /\ \A i \in 1 .. Len(queue) : queue'[i] = queue[i]
        /\ queue'[Len(queue) + 1] = m
    BY <1>1, AppendProperties, LenProperties
  <2> QED  BY <2>1
<1>2. CASE queue' = queue  BY <1>2
<1> QED  BY <1>1, <1>2 DEF Send

\* The first message is taken out.
LEMMA Received ==
    ASSUME queue \in Seq(MessageType), queue # <<>>, queue' = Tail(queue)
    PROVE  /\ Head(queue) \in MessageType /\ queue' \in Seq(MessageType)
           /\ Head(queue) = queue[1] /\ 1 \in 1 .. Len(queue)
           /\ Len(queue) \in Nat /\ Len(queue') = Len(queue) - 1
           /\ \A i \in 1 .. Len(queue') : i + 1 \in 1 .. Len(queue) /\ queue'[i] = queue[i + 1]
<1>1. Len(queue) \in Nat \ {0}  BY EmptySeq
<1>2. Head(queue) = queue[1]  OBVIOUS
<1> QED  BY <1>1, <1>2, HeadTailProperties

\* What the callbacks broadcast is a message, with the pose sent last ...
LEMMA StateMessage ==
    ASSUME current \in MessageType, NEW to \in Statuses
    PROVE  LET m == [current EXCEPT !.status = to]
           IN  /\ m \in MessageType /\ m.pose = current.pose /\ m.counter = current.counter
               /\ m.since = current.since
  BY DEF MessageType

\* ... or the one just made.
LEMMA PoseMessage ==
    ASSUME current \in MessageType, pose \in PoseType, counter \in Nat
    PROVE  LET m == [current EXCEPT !.pose = pose, !.counter = counter]
           IN  /\ m \in MessageType /\ m.pose = pose /\ m.counter = counter
               /\ m.since = current.since
  BY DEF MessageType

\* The slave is there or not, and hears of it.
Sends(m) == (current' = m /\ Send(m)) \/ UNCHANGED <<current, queue>>

\* The messages of a step that broadcasts one.
LEMMA StateSent ==
    ASSUME current \in MessageType, NEW to \in Statuses, StateChanged(to)
    PROVE  \E m \in MessageType : /\ Sends(m) /\ m.pose = current.pose
                                  /\ m.counter = current.counter /\ m.since = current.since
  BY StateMessage DEF StateChanged, Broadcast, wayVars, Sends

LEMMA PoseSent ==
    ASSUME current \in MessageType, pose \in PoseType, counter \in Nat, NewPose
    PROVE  \E m \in MessageType : /\ Sends(m) /\ m.pose = pose
                                  /\ m.counter = counter /\ m.since = current.since
  BY PoseMessage DEF NewPose, Broadcast, wayVars, Sends

\* The steps that tell of another state.
Changing == Initialize \/ Run \/ Pause \/ CaptureFails \/ NotInitialized \/ EndSession

LEMMA Changes ==
    ASSUME Changing
    PROVE  \E to \in Statuses : /\ StateChanged(to) /\ status' = to /\ pc = "idle"
                                /\ UNCHANGED <<masterVars, slaveVars, clientVars>>
  BY DEF Changing, Initialize, Run, Pause, CaptureFails, NotInitialized, EndSession, Change,
         StateChanged, Statuses, Errors

LEMMA BeatTyped ==
    LET m == [NoMessage EXCEPT !.status = "PAUSED"]
    IN  m \in MessageType /\ ~Tells(m)
  BY NoMessageTyped DEF MessageType, Statuses, Tells

\* The rest leaves the way of the messages alone.
Aside ==
    \/ StartSession \/ NoSession \/ Create \/ Serve \/ Register \/ Leave \/ Join
    \/ Track \/ NoDevice \/ Capture \/ MainLocks \/ MainUnlocks \/ Post \/ GetPose
    \/ Others /\ UNCHANGED pathVars
    \/ UNCHANGED <<vars, pathVars>>

LEMMA Apart ==
    Aside => UNCHANGED <<since, current, queue, mail, msg, filtered, readerPc>>
<1> USE DEF masterVars, wayVars, slaveVars, clientVars, pathVars
<1>1. CASE StartSession \/ NoSession \/ Create \/ Serve \/ Register \/ Leave \/ Join
  BY <1>1 DEF StartSession, NoSession, Create, Serve, Register, Leave, Join
<1>2. CASE Track \/ NoDevice \/ Capture \/ MainLocks \/ MainUnlocks \/ Post \/ GetPose
  BY <1>2 DEF Track, NoDevice, Capture, MainLocks, MainUnlocks, Post, GetPose
<1> QED  BY <1>1, <1>2 DEF Aside

LEMMA PathCases ==
    [PathNext]_<<vars, pathVars>> =>
        \/ Aside \/ Changing \/ NewPose \/ Heartbeat \/ NewMaster
        \/ LockMail \/ StorePose \/ StoreRest
  BY DEF PathNext, Master, DeviceThread, Aside, Changing

LEMMA PathInitTyped == PathInit => PathTypeOK
<1> SUFFICES ASSUME PathInit PROVE PathTypeOK
  OBVIOUS
<1>1. TypeOK  BY InitTyped DEF PathInit
<1>2. told \in ToldType /\ newest \in [pose : PoseType, since : Nat]
  BY NoPoseTyped DEF PathInit, ToldType
<1>3. current \in MessageType /\ msg \in MessageType  BY NoMessageTyped DEF PathInit
<1>4. mail \in MailType  BY NoPoseTyped DEF PathInit, MailType, Statuses
<1>5. queue \in Seq(MessageType)  BY EmptySeq DEF PathInit
<1>6. called \in BOOLEAN /\ registered \in BOOLEAN  BY Zenon DEF PathInit
<1> QED
  BY <1>1, <1>2, <1>3, <1>4, <1>5, <1>6, NoPoseTyped
     DEF PathInit, PathTypeOK, MailType, ToldType, Statuses, Errors

\* The mailbox is stored in two parts.
LEMMA StoreTyped ==
    ASSUME PathTypeOK, StorePose \/ StoreRest
    PROVE  mail' \in MailType /\ filtered' \in PoseType /\ msg' \in MessageType
<1>1. mail \in MailType /\ filtered \in PoseType /\ msg \in MessageType
  BY DEF PathTypeOK, MailType
<1>2. msg.pose \in PoseType /\ msg.counter \in Nat /\ msg.status \in Statuses /\ msg.since \in Nat
  BY <1>1 DEF MessageType
<1>3. CASE StorePose  BY <1>1, <1>2, <1>3, NoPoseTyped DEF StorePose, MailType
<1>4. CASE StoreRest  BY <1>1, <1>2, <1>4, NoMessageTyped DEF StoreRest, MailType
<1> QED  BY <1>3, <1>4

LEMMA ToldTyped ==
    ASSUME PathTypeOK, GetPose
    PROVE  told' \in ToldType /\ newest' \in [pose : PoseType, since : Nat]
<1>1. /\ mail.pose \in PoseType /\ mail.prev \in PoseType /\ mail.counter \in Nat
      /\ mail.since \in Nat
  BY DEF PathTypeOK
<1>2. (told.counter # mail.counter) \in BOOLEAN  BY Zenon
<1>3. FALSE \in BOOLEAN  BY Zenon
<1>4. told' \in ToldType
  <2>1. CASE mail.state \in Errors
    <3>1. told' = [new |-> FALSE, pose |-> NoPose, prev |-> NoPose, counter |-> 0,
                   since |-> mail.since]
      BY <2>1 DEF GetPose
    <3> QED  BY <3>1, <1>1, <1>3, NoPoseTyped DEF ToldType
  <2>2. CASE mail.state \notin Errors
    <3>1. PICK b \in BOOLEAN : told' = [new |-> b, pose |-> mail.pose, prev |-> mail.prev,
                                        counter |-> mail.counter, since |-> mail.since]
      BY <2>2, <1>2, Zenon DEF GetPose
    <3> QED  BY <3>1, <1>1 DEF ToldType
  <2> QED  BY <2>1, <2>2
<1>5. told'.pose \in PoseType  BY <1>4 DEF ToldType
<1>6. newest' = [pose |-> told'.pose, since |-> mail.since] \/ newest' = newest
  BY DEF GetPose
<1> QED  BY <1>1, <1>4, <1>5, <1>6 DEF PathTypeOK

\* The types, one group of variables after the other.
MastersTyped ==
    /\ status \in Statuses /\ masterPc \in {"out", "starting", "created", "loop", "leaving"}
    /\ called \in BOOLEAN /\ since \in Nat
WayTyped == current \in MessageType /\ registered \in BOOLEAN /\ queue \in Seq(MessageType)
SlaveTyped ==
    /\ mail \in MailType /\ filtered \in PoseType /\ msg \in MessageType
    /\ readerPc \in {"wait", "locked", "half"} /\ mainPc \in {"idle", "holds"}
    /\ lock \in {"free", "slave"}
ClientTold == posted \in Nat /\ told \in ToldType /\ newest \in [pose : PoseType, since : Nat]

LEMMA PathTypes ==
    /\ PathTypeOK <=> TypeOK /\ MastersTyped /\ WayTyped /\ SlaveTyped /\ ClientTold
    /\ PathTypeOK' <=> TypeOK' /\ MastersTyped' /\ WayTyped' /\ SlaveTyped' /\ ClientTold'
<1>1. PathTypeOK <=> TypeOK /\ MastersTyped /\ WayTyped /\ SlaveTyped /\ ClientTold
  BY Zenon DEF PathTypeOK, MastersTyped, WayTyped, SlaveTyped, ClientTold, MailType, ToldType
<1>2. PathTypeOK' <=> TypeOK' /\ MastersTyped' /\ WayTyped' /\ SlaveTyped' /\ ClientTold'
  BY Zenon DEF PathTypeOK, MastersTyped, WayTyped, SlaveTyped, ClientTold, MailType, ToldType
<1> QED  BY <1>1, <1>2

LEMMA PathStepTyped ==
    ASSUME PathTypeOK, [PathNext]_<<vars, pathVars>>
    PROVE  PathTypeOK'
<1>a. TypeOK /\ MastersTyped /\ WayTyped /\ SlaveTyped /\ ClientTold  BY PathTypes
<1>t. TypeOK'
  <2>1. CASE NewMaster  BY <1>a, <2>1, RestartInv DEF NewMaster
  <2> QED  BY <1>a, <2>1, PathSteps, StepTyped
<1>p. pose \in PoseType /\ counter \in Nat /\ frame \in Nat /\ frame' \in Nat
  BY <1>a, <1>t DEF TypeOK, PoseType
<1>m. UNCHANGED <<status, masterVars>> => MastersTyped'
  BY <1>a DEF masterVars, MastersTyped
<1>w. UNCHANGED wayVars => WayTyped'
  BY <1>a DEF wayVars, WayTyped
<1>s. UNCHANGED slaveVars => SlaveTyped'
  BY <1>a DEF slaveVars, SlaveTyped
<1>c. UNCHANGED clientVars => ClientTold'
  BY <1>a DEF clientVars, ClientTold
<1>x. UNCHANGED pathVars => UNCHANGED <<status, masterVars, wayVars, slaveVars, clientVars>>
  BY DEF pathVars
<1>k. ASSUME NEW m \in MessageType, Sends(m) PROVE current' \in MessageType /\ queue' \in Seq(MessageType)
  BY <1>a, <1>k, Sent DEF WayTyped, Sends
<1> SUFFICES MastersTyped' /\ WayTyped' /\ SlaveTyped' /\ ClientTold'
  BY <1>t, PathTypes
<1>1. CASE StartSession \/ NoSession \/ Create \/ Serve \/ Leave \/ Join
  <2>1. UNCHANGED <<status, since, wayVars, slaveVars, clientVars>>
    BY <1>1 DEF StartSession, NoSession, Create, Serve, Leave, Join
  <2>2. masterPc' \in {"out", "starting", "created", "loop", "leaving"}
    BY <1>1 DEF StartSession, NoSession, Create, Serve, Leave, Join
  <2>3. called' = called \/ called' = TRUE
    BY <1>1, Zenon DEF StartSession, NoSession, Create, Serve, Leave, Join
  <2>4. called' \in BOOLEAN  BY <1>a, <2>3, Zenon DEF MastersTyped
  <2> QED  BY <1>a, <1>w, <1>s, <1>c, <2>1, <2>2, <2>4 DEF MastersTyped
<1>2. CASE Register
  <2>1. UNCHANGED <<status, masterVars, current, queue, slaveVars, clientVars>>
    BY <1>2 DEF Register
  <2>2. registered' \in BOOLEAN  BY <1>2, Zenon DEF Register
  <2> QED  BY <1>a, <1>m, <1>s, <1>c, <2>1, <2>2 DEF WayTyped
<1>3. CASE Heartbeat
  <2>1. UNCHANGED <<status, masterVars, current, registered, slaveVars, clientVars>>
    BY <1>3 DEF Heartbeat
  <2>2. queue' \in Seq(MessageType)  BY <1>a, <1>3, BeatTyped, Sent DEF Heartbeat, WayTyped
  <2> QED  BY <1>a, <1>m, <1>s, <1>c, <2>1, <2>2 DEF WayTyped
<1>4. CASE NewMaster
  <2>1. UNCHANGED <<slaveVars, clientVars>>  BY <1>4 DEF NewMaster
  <2>2. MastersTyped'
    <3>1. called' \in BOOLEAN  BY <1>4, Zenon DEF NewMaster
    <3>2. status' = "STOPPED" /\ masterPc' = "out" /\ since' = frame'
      BY <1>4 DEF NewMaster
    <3> QED  BY <1>p, <3>1, <3>2 DEF MastersTyped, Statuses
  <2>3. registered' \in BOOLEAN  BY <1>4, Zenon DEF NewMaster
  <2>4. current' = [NoMessage EXCEPT !.since = frame'] /\ queue' = <<>>
    BY <1>4 DEF NewMaster
  <2>5. current' \in MessageType  BY <1>p, <2>4, NoMessageTyped DEF MessageType
  <2>6. queue' \in Seq(MessageType)  BY <2>4, EmptySeq
  <2> QED  BY <1>s, <1>c, <2>1, <2>2, <2>3, <2>5, <2>6 DEF WayTyped
<1>5. CASE Changing
  <2>1. PICK to \in Statuses : /\ StateChanged(to) /\ status' = to
                               /\ UNCHANGED <<masterVars, slaveVars, clientVars>>
    BY <1>5, Changes
  <2>2. PICK m \in MessageType : Sends(m)  BY <1>a, <2>1, StateSent DEF WayTyped
  <2>3. UNCHANGED registered  BY <2>1 DEF StateChanged, Broadcast, wayVars
  <2> QED
    BY <1>a, <1>s, <1>c, <1>k, <2>1, <2>2, <2>3 DEF MastersTyped, masterVars, WayTyped
<1>6. CASE NewPose
  <2>1. PICK m \in MessageType : Sends(m)  BY <1>a, <1>p, <1>6, PoseSent DEF WayTyped
  <2>2. UNCHANGED <<status, masterVars, registered, slaveVars, clientVars>>
    BY <1>6 DEF NewPose, Broadcast, wayVars
  <2> QED  BY <1>a, <1>m, <1>s, <1>c, <1>k, <2>1, <2>2 DEF WayTyped
<1>7. CASE LockMail
  <2>1. /\ queue # <<>> /\ msg' = Head(queue) /\ queue' = Tail(queue)
        /\ lock' = "slave" /\ readerPc' = "locked"
        /\ UNCHANGED <<status, masterVars, current, registered, mail, filtered, mainPc, clientVars>>
    BY <1>7 DEF LockMail
  <2>2. msg' \in MessageType /\ queue' \in Seq(MessageType)
    BY <1>a, <2>1, Received DEF WayTyped
  <2> QED  BY <1>a, <1>m, <1>c, <2>1, <2>2 DEF WayTyped, SlaveTyped
<1>8. CASE StorePose \/ StoreRest
  <2>1. /\ UNCHANGED <<status, masterVars, wayVars, mainPc, clientVars>>
        /\ readerPc' \in {"wait", "half"} /\ lock' \in {lock, "free"}
    BY <1>8 DEF StorePose, StoreRest
  <2> QED  BY <1>a, <1>m, <1>w, <1>c, <1>8, <2>1, StoreTyped DEF SlaveTyped
<1>9. CASE MainLocks \/ MainUnlocks
  <2>1. /\ UNCHANGED <<status, masterVars, wayVars, mail, filtered, msg, readerPc, clientVars>>
        /\ mainPc' \in {"idle", "holds"} /\ lock' \in {"free", "slave"}
    BY <1>9 DEF MainLocks, MainUnlocks
  <2> QED  BY <1>a, <1>m, <1>w, <1>c, <2>1 DEF SlaveTyped
<1>10. CASE Post
  BY <1>a, <1>m, <1>w, <1>s, <1>10 DEF Post, ClientTold
<1>11. CASE GetPose
  BY <1>a, <1>m, <1>w, <1>s, <1>11, ToldTyped DEF GetPose, ClientTold
<1>12. CASE Track \/ NoDevice \/ Capture \/ (Others /\ UNCHANGED pathVars) \/ UNCHANGED <<vars, pathVars>>
  <2>1. UNCHANGED pathVars  BY <1>12 DEF Track, NoDevice, Capture
  <2> QED  BY <1>m, <1>w, <1>s, <1>c, <1>x, <2>1
<1> QED
  BY <1>1, <1>2, <1>3, <1>4, <1>5, <1>6, <1>7, <1>8, <1>9, <1>10, <1>11, <1>12, PathCases DEF Aside

-----------------------------------------------------------------------
(* The order of what is on its way. *)

LEMMA OlderRefl == ASSUME NEW p \in PoseType, NEW n \in Nat PROVE Older(p, n, p, n)
  BY PoseFields DEF Older

LEMMA OlderTrans ==
    ASSUME NEW p \in PoseType, NEW n \in Nat, NEW q \in PoseType, NEW k \in Nat,
           NEW r \in PoseType, NEW l \in Nat, Older(p, n, q, k), Older(q, k, r, l)
    PROVE  Older(p, n, r, l)
<1>1. p.frame <= r.frame /\ n <= l  BY PoseFields DEF Older
<1>2. ASSUME r.counted, n = l PROVE p = r
  <2>1. n = k /\ k = l  BY <1>2 DEF Older
  <2>2. q = r  BY <1>2, <2>1 DEF Older
  <2> QED  BY <1>2, <2>1, <2>2 DEF Older
<1> QED  BY <1>1, <1>2 DEF Older

LEMMA MessageRefl == ASSUME NEW m, NEW o, Dated(m), o.pose = m.pose, o.counter = m.counter,
                            o.since = m.since
                     PROVE  OlderMessage(m, o)
  BY OlderRefl DEF OlderMessage, Dated

LEMMA MessageTrans ==
    ASSUME NEW m, NEW o, NEW r, Dated(m), Dated(o), Dated(r),
           OlderMessage(m, o), OlderMessage(o, r)
    PROVE  OlderMessage(m, r)
<1>f. /\ m.pose.frame \in Nat /\ o.pose.frame \in Nat /\ r.pose.frame \in Nat
      /\ m.since \in Nat /\ o.since \in Nat /\ r.since \in Nat
  BY PoseFields DEF Dated
<1>1. CASE m.since = o.since /\ o.since = r.since
  <2>1. Older(m.pose, m.counter, o.pose, o.counter) /\ Older(o.pose, o.counter, r.pose, r.counter)
    BY <1>1, <1>f DEF OlderMessage
  <2>2. Older(m.pose, m.counter, r.pose, r.counter)  BY <2>1, OlderTrans DEF Dated
  <2> QED  BY <1>1, <2>2 DEF OlderMessage
<1>2. CASE m.since < o.since
  BY <1>2, <1>f DEF OlderMessage
<1>3. CASE m.since = o.since /\ o.since < r.since
  BY <1>3, <1>f DEF OlderMessage, Older
<1> QED  BY <1>1, <1>2, <1>3, <1>f DEF OlderMessage

\* The same message is the older or the younger whatever else its record holds.
LEMMA MessageSame ==
    ASSUME NEW m, NEW n, NEW o, n.pose = m.pose, n.counter = m.counter, n.since = m.since
    PROVE  /\ OlderMessage(m, o) <=> OlderMessage(n, o)
           /\ OlderMessage(o, m) <=> OlderMessage(o, n)
           /\ Proper(m) <=> Proper(n)
  BY DEF OlderMessage, Proper

\* The tracker goes from one pose to a younger one.
LEMMA PoseGrows ==
    ASSUME TypeOK, since \in Nat, PoseInv, [Next]_vars, since' = since
    PROVE  PoseInv' /\ OlderMessage(Made, Made')
<1>a. /\ pose \in PoseType /\ counter \in Nat /\ frame \in Nat
      /\ caller \in {"init", "head", "update"}
  BY DEF TypeOK, PoseType
<1>b. pose.frame \in Nat  BY <1>a, PoseFields
<1>c. Older(pose, counter, pose, counter)  BY <1>a, OlderRefl
<1>d. /\ Made.pose = pose /\ Made.counter = counter /\ Made.since = since
      /\ Made'.pose = pose' /\ Made'.counter = counter' /\ Made'.since = since'
  BY DEF Made
<1>e. ASSUME Older(pose, counter, pose', counter') PROVE OlderMessage(Made, Made')
  BY <1>d, <1>e DEF OlderMessage
<1>f. Proper(Made)' <=> /\ pose'.counted => counter' > 0
                        /\ pose'.frame = 0 => pose' = NoPose
                        /\ pose'.frame > 0 => pose'.frame > since
  BY <1>d DEF Proper
<1>g. Proper(Made) <=> /\ pose.counted => counter > 0
                       /\ pose.frame = 0 => pose = NoPose
                       /\ pose.frame > 0 => pose.frame > since
  BY <1>d DEF Proper
<1>h. SUFFICES PoseInv' /\ Older(pose, counter, pose', counter')
  BY <1>e
<1> USE <1>a, <1>b, <1>f, <1>g DEF PoseInv, InUpdate, InCheck, At
<1>1. CASE WritePose
  <2>1. /\ pc = "write" /\ pc' = "count" /\ UNCHANGED <<frame, session, counter>>
        /\ pose' = [frame |-> frame, session |-> session, version |-> version,
                    center |-> center[class], counted |-> FALSE]
    BY <1>1 DEF WritePose, work
  <2>2. /\ pose'.frame = frame /\ pose'.session = session /\ pose'.counted = FALSE
    BY <2>1
  <2>3. ~pose'.counted  BY <2>2, Zenon
  <2>4. frame > since /\ frame > 0 /\ pose.frame <= frame  BY <2>1
  <2>5. PoseInv'  BY <2>1, <2>2, <2>3, <2>4
  <2>6. Older(pose, counter, pose', counter')  BY <2>1, <2>2, <2>3, <2>4 DEF Older
  <2> QED  BY <2>5, <2>6
<1>2. CASE Count
  <2>1. /\ pc = "count" /\ pc' = "hand" /\ UNCHANGED <<frame, session, caller>>
        /\ counter' = (IF initRecenter THEN counter ELSE counter + 1)
        /\ pose' = [pose EXCEPT !.counted = ~initRecenter]
    BY <1>2 DEF Count, work
  <2>2. /\ pose'.frame = pose.frame /\ frame > since /\ frame > 0 /\ pose.frame = frame
        /\ pose'.counted = ~initRecenter
    BY <2>1 DEF PoseType
  <2>3. CASE initRecenter
    <3>1. ~pose'.counted  BY <2>2, <2>3, Zenon
    <3>2. counter' = counter  BY <2>1, <2>3
    <3> QED  BY <2>1, <2>2, <3>1, <3>2 DEF Older
  <2>4. CASE ~initRecenter
    <3>1. counter' = counter + 1  BY <2>1, <2>4
    <3> QED  BY <2>1, <2>2, <3>1 DEF Older
  <2> QED  BY <2>3, <2>4
<1>3. ASSUME UNCHANGED <<pose, counter>> PROVE Older(pose, counter, pose', counter')
  BY <1>3, <1>c
<1> USE DEF user, flags, install, work, vars
<1>4. CASE Begin  BY <1>4, <1>3 DEF Begin
<1>5. CASE NewFrame  BY <1>5, <1>3 DEF NewFrame
<1>6. CASE StoreFlag  BY <1>6, <1>3 DEF StoreFlag, Return
<1>7. CASE SetupFails  BY <1>7, <1>3 DEF SetupFails, Return
<1>8. CASE Install  BY <1>8, <1>3 DEF Install, Return
<1>9. CASE Sort  BY <1>9, <1>3 DEF Sort
<1>10. CASE ReadFlag \/ InitTracking \/ Again \/ ClearRecenter \/ HandOver \/ End
  BY <1>10, <1>3 DEF ReadFlag, InitTracking, Again, ClearRecenter, HandOver, End
<1>11. CASE MeasurePoint \/ MeasureThree  BY <1>11, <1>3 DEF MeasurePoint, MeasureThree
<1>12. CASE Others \/ UNCHANGED vars
  BY <1>12, <1>3 DEF Others, Recenter, ChooseModel, AnnounceChange
<1> QED
  BY <1>1, <1>2, <1>4, <1>5, <1>6, <1>7, <1>8, <1>9, <1>10, <1>11, <1>12 DEF Next, Device

\* What a step of the path does to what is on its way: nothing but to finish with a message;
\* or it sends one, of poses or not; the reader takes the first; its pose is stored; or all is
\* lost with the master.
MailKept == mail'.pose = mail.pose /\ mail'.counter = mail.counter /\ mail'.since = mail.since
Quiet == UNCHANGED <<since, current, queue>> /\ MailKept /\ (msg' = msg \/ ~Tells(msg'))
Sending(m) == /\ current' = m /\ Send(m) /\ UNCHANGED <<since, mail, msg>>
              /\ m.since = since
              /\ \/ m.pose = current.pose /\ m.counter = current.counter
                 \/ m.pose = pose /\ m.counter = counter /\ pc = "hand"
Beating(m) == Send(m) /\ ~Tells(m) /\ UNCHANGED <<since, current, mail, msg>>
Taking == /\ queue # <<>> /\ queue' = Tail(queue) /\ msg' = Head(queue)
          /\ UNCHANGED <<since, current, mail>>
Storing == /\ Tells(msg) /\ UNCHANGED <<since, current, queue, msg>>
           /\ mail'.pose = msg.pose /\ mail'.counter = msg.counter /\ mail'.since = msg.since
Losing == /\ NewMaster /\ UNCHANGED <<mail, msg>> /\ queue' = <<>> /\ current'.pose = NoPose
          /\ current'.counter = 0 /\ current'.since = since' /\ since' = frame'

LEMMA PathMoves ==
    ASSUME PathInv, [PathNext]_<<vars, pathVars>>
    PROVE  \/ Quiet
           \/ \E m \in MessageType : Sending(m)
           \/ \E m \in MessageType : Beating(m)
           \/ Taking \/ Storing \/ Losing
<1>a. /\ current \in MessageType /\ pose \in PoseType /\ counter \in Nat /\ status \in Statuses
      /\ current.since = since /\ mail \in MailType /\ msg \in MessageType /\ frame \in Nat
  BY DEF PathInv, PathTypeOK, TypeOK, PoseType, OrderInv, MailType
<1>1. ASSUME NEW m \in MessageType, Sends(m), UNCHANGED <<since, mail, msg>>, m.since = current.since,
             \/ m.pose = current.pose /\ m.counter = current.counter
             \/ m.pose = pose /\ m.counter = counter /\ pc = "hand"
      PROVE  Quiet \/ Sending(m)
  BY <1>a, <1>1 DEF Sends, Sending, Quiet, MailKept
<1>2. CASE Changing
  <2>1. PICK to \in Statuses : /\ StateChanged(to)
                               /\ UNCHANGED <<masterVars, slaveVars, clientVars>>
    BY <1>2, Changes
  <2>2. UNCHANGED <<since, mail, msg>>  BY <2>1 DEF masterVars, slaveVars
  <2>3. PICK m \in MessageType : /\ Sends(m) /\ m.pose = current.pose
                                 /\ m.counter = current.counter /\ m.since = current.since
    BY <1>a, <2>1, StateSent
  <2> QED  BY <1>1, <2>2, <2>3
<1>3. CASE NewPose
  <2>1. PICK m \in MessageType : /\ Sends(m) /\ m.pose = pose
                                 /\ m.counter = counter /\ m.since = current.since
    BY <1>a, <1>3, PoseSent
  <2>2. UNCHANGED <<since, mail, msg>> /\ pc = "hand"
    BY <1>3 DEF NewPose, masterVars, slaveVars, HandOver, At
  <2> QED  BY <1>1, <2>1, <2>2
<1>4. CASE Heartbeat
  BY <1>4, BeatTyped DEF Heartbeat, Beating, masterVars, slaveVars
<1>5. CASE NewMaster
  <2>1. /\ UNCHANGED <<mail, msg>> /\ queue' = <<>> /\ since' = frame'
        /\ current' = [NoMessage EXCEPT !.since = frame']
    BY <1>5 DEF NewMaster, slaveVars
  <2>2. current'.pose = NoPose /\ current'.counter = 0 /\ current'.since = frame'
    BY <2>1, NoMessageTyped DEF MessageType
  <2> QED  BY <1>5, <2>1, <2>2 DEF Losing
<1>6. CASE LockMail
  BY <1>6 DEF LockMail, Taking, masterVars
<1>7. CASE StorePose
  <2>1. UNCHANGED <<since, current, queue, msg>>  BY <1>7 DEF StorePose, masterVars, wayVars
  <2>2. CASE Tells(msg)
    <3>1. mail' = [mail EXCEPT !.pose = msg.pose, !.prev = NoPose, !.counter = msg.counter,
                               !.since = msg.since]
      BY <1>7, <2>2 DEF StorePose, Tells
    <3>2. mail'.pose = msg.pose /\ mail'.counter = msg.counter /\ mail'.since = msg.since
      BY <3>1, <1>a DEF MailType
    <3> QED  BY <2>1, <2>2, <3>2 DEF Storing
  <2>3. CASE ~Tells(msg)  BY <1>7, <2>1, <2>3 DEF StorePose, Quiet, MailKept, Tells
  <2> QED  BY <2>2, <2>3
<1>8. CASE StoreRest
  <2>1. UNCHANGED <<since, current, queue>> /\ msg' = NoMessage
    BY <1>8 DEF StoreRest, masterVars, wayVars
  <2>2. MailKept  BY <1>8, <1>a DEF StoreRest, MailType, MailKept
  <2> QED  BY <2>1, <2>2, NoMessageTyped DEF Quiet, Tells
<1>9. CASE Aside  BY <1>9, Apart DEF Quiet, MailKept
<1> QED  BY <1>2, <1>3, <1>4, <1>5, <1>6, <1>7, <1>8, <1>9, PathCases

\* The pose that is sent comes in its place between those of the past and of the future.
LEMMA SentOlder ==
    ASSUME PathInv, NEW m \in MessageType, Sending(m)
    PROVE  Proper(m) /\ OlderMessage(current, m) /\ OlderMessage(m, Made)
<1>a. TypeOK /\ since \in Nat /\ current \in MessageType
  BY DEF PathInv, PathTypeOK
<1>b. /\ Dated(Made) /\ Made.pose = pose /\ Made.counter = counter /\ Made.since = since
  BY <1>a, MadeDated
<1>c. Dated(current)  BY <1>a, MessageDated
<1>d. /\ Proper(current) /\ Proper(Made) /\ OlderMessage(current, Made) /\ current.since = since
  BY DEF PathInv, OrderInv, ProperInv, PoseInv
<1>e. OlderMessage(current, current) /\ OlderMessage(Made, Made)  BY <1>b, <1>c, MessageRefl
<1>1. CASE m.pose = current.pose /\ m.counter = current.counter /\ m.since = current.since
  BY <1>d, <1>e, <1>1, MessageSame
<1>2. CASE m.pose = Made.pose /\ m.counter = Made.counter /\ m.since = Made.since
  BY <1>d, <1>e, <1>2, MessageSame
<1> QED  BY <1>1, <1>2, <1>b, <1>d DEF Sending

\* Another master starts later than all that is on its way was made.
LEMMA OlderThanMaster ==
    ASSUME TypeOK, since \in Nat, PoseInv, NEW m, Dated(m), OlderMessage(m, Made),
           NEW o, o.since = frame + 1
    PROVE  OlderMessage(m, o)
<1>1. /\ Made.pose = pose /\ Made.since = since /\ pose.frame \in Nat /\ frame \in Nat
      /\ m.pose.frame \in Nat /\ m.since \in Nat
  BY MadeDated, PoseFields DEF TypeOK, Dated, Made
<1>2. since <= frame /\ pose.frame <= frame  BY DEF PoseInv
<1> QED  BY <1>1, <1>2 DEF OlderMessage, Older

\* The order is kept.
LEMMA OrderKept ==
    ASSUME PathInv, [PathNext]_<<vars, pathVars>>
    PROVE  OrderInv' /\ ProperInv' /\ PoseInv'
<1>t. /\ TypeOK /\ TypeOK' /\ mail \in MailType /\ mail' \in MailType
      /\ current \in MessageType /\ current' \in MessageType
      /\ msg \in MessageType /\ msg' \in MessageType
      /\ queue \in Seq(MessageType) /\ queue' \in Seq(MessageType)
      /\ since \in Nat /\ since' \in Nat /\ frame \in Nat /\ frame' \in Nat
  BY PathStepTyped DEF PathInv, PathTypeOK, MailType, TypeOK
<1>f. /\ Dated(mail) /\ Dated(mail') /\ Dated(current) /\ Dated(current')
      /\ Dated(msg) /\ Dated(msg')
  BY <1>t, MailDated, MessageDated
<1>m. /\ Dated(Made) /\ Made.pose = pose /\ Made.counter = counter /\ Made.since = since
  BY <1>t, MadeDated
<1>n. /\ Dated(Made') /\ Made'.pose = pose' /\ Made'.counter = counter' /\ Made'.since = since'
  BY <1>t DEF TypeOK, Made, Dated, PoseType
<1>q. \A i \in 1 .. Len(queue) : Dated(queue[i])
  BY <1>t, ElementOfSeq, MessageDated
<1>o. OrderInv /\ ProperInv /\ PoseInv  BY DEF PathInv
<1>g. CASE ~NewMaster
  <2>a. [Next]_vars /\ since' = since  BY <1>g, PathSteps
  <2>b. PoseInv' /\ OlderMessage(Made, Made')  BY <1>t, <1>o, <2>a, PoseGrows
  <2>c. OlderMessage(current, Made')
    BY <1>f, <1>m, <1>n, <1>o, <2>b, MessageTrans DEF OrderInv
  <2> USE <2>b
  <2>1. CASE Quiet
    <3>1. \A o : OlderMessage(mail', o) <=> OlderMessage(mail, o)
      BY <2>1, MessageSame DEF Quiet, MailKept
    <3>2. Proper(mail')  BY <1>o, <2>1, MessageSame DEF Quiet, MailKept, ProperInv
    <3>3. UNCHANGED <<since, current, queue>> /\ (msg' = msg \/ ~Tells(msg'))
      BY <2>1 DEF Quiet
    <3> QED  BY <1>o, <2>c, <3>1, <3>2, <3>3 DEF OrderInv, ProperInv
  <2>2. ASSUME NEW m \in MessageType, Sending(m) PROVE OrderInv' /\ ProperInv'
    <3>1. Proper(m) /\ OlderMessage(current, m) /\ OlderMessage(m, Made)  BY <2>2, SentOlder
    <3>2. Dated(m)  BY MessageDated
    <3>3. OlderMessage(m, Made')  BY <1>m, <1>n, <2>b, <3>1, <3>2, MessageTrans
    <3>4. OlderMessage(m, m)  BY <3>2, MessageRefl
    <3>5. /\ current' = m /\ UNCHANGED <<since, mail, msg>> /\ m.since = since
      BY <2>2 DEF Sending
    <3>6. \A i \in 1 .. Len(queue') : (i \in 1 .. Len(queue) /\ queue'[i] = queue[i])
                                      \/ (i = Len(queue) + 1 /\ queue'[i] = m)
      BY <1>t, <2>2, Sent DEF Sending
    <3>7. OlderMessage(mail, m)
      BY <1>f, <1>o, <3>1, <3>2, MessageTrans DEF OrderInv
    <3>8. Tells(msg) => OlderMessage(msg, m)
      BY <1>f, <1>o, <3>1, <3>2, MessageTrans DEF OrderInv
    <3>9. \A i \in 1 .. Len(queue) : Tells(queue[i]) => OlderMessage(queue[i], m)
      BY <1>f, <1>q, <1>o, <3>1, <3>2, MessageTrans DEF OrderInv
    <3>l. Len(queue) \in Nat  BY <1>t, LenProperties
    <3>10. \A i \in 1 .. Len(queue') : Tells(queue'[i]) =>
             /\ OlderMessage(mail', queue'[i]) /\ OlderMessage(queue'[i], current')
             /\ Tells(msg') => OlderMessage(msg', queue'[i])
             /\ Proper(queue'[i])
      <4> TAKE i \in 1 .. Len(queue')
      <4>1. CASE i \in 1 .. Len(queue) /\ queue'[i] = queue[i]
        BY <1>o, <3>5, <3>9, <4>1 DEF OrderInv, ProperInv
      <4>2. CASE queue'[i] = m  BY <3>1, <3>4, <3>5, <3>7, <3>8, <4>2
      <4> QED  BY <3>6, <4>1, <4>2
    <3>11. \A i, j \in 1 .. Len(queue') : i < j /\ Tells(queue'[i]) /\ Tells(queue'[j]) =>
             OlderMessage(queue'[i], queue'[j])
      <4> TAKE i, j \in 1 .. Len(queue')
      <4> HAVE i < j /\ Tells(queue'[i]) /\ Tells(queue'[j])
      <4>1. i \in 1 .. Len(queue) /\ queue'[i] = queue[i]  BY <3>6, <3>l
      <4>2. CASE j \in 1 .. Len(queue) /\ queue'[j] = queue[j]
        BY <1>o, <4>1, <4>2 DEF OrderInv
      <4>3. CASE queue'[j] = m  BY <3>9, <4>1, <4>3
      <4> QED  BY <3>6, <4>2, <4>3
    <3> QED
      BY <1>o, <3>1, <3>3, <3>5, <3>7, <3>8, <3>10, <3>11 DEF OrderInv, ProperInv
  <2>3. ASSUME NEW m \in MessageType, Beating(m) PROVE OrderInv' /\ ProperInv'
    <3>1. UNCHANGED <<since, current, mail, msg>> /\ ~Tells(m)  BY <2>3 DEF Beating
    <3>2. \A i \in 1 .. Len(queue') : (i \in 1 .. Len(queue) /\ queue'[i] = queue[i])
                                      \/ (i = Len(queue) + 1 /\ queue'[i] = m)
      BY <1>t, <2>3, Sent DEF Beating
    <3>3. \A i \in 1 .. Len(queue') : Tells(queue'[i]) =>
             i \in 1 .. Len(queue) /\ queue'[i] = queue[i]
      BY <3>1, <3>2
    <3> QED  BY <1>o, <2>c, <3>1, <3>3 DEF OrderInv, ProperInv
  <2>4. CASE Taking
    <3>1. /\ Head(queue) = queue[1] /\ 1 \in 1 .. Len(queue) /\ Len(queue) \in Nat
          /\ Len(queue') = Len(queue) - 1
          /\ \A i \in 1 .. Len(queue') : i + 1 \in 1 .. Len(queue) /\ queue'[i] = queue[i + 1]
      BY <1>t, <2>4, Received DEF Taking
    <3>2. UNCHANGED <<since, current, mail>> /\ msg' = queue[1]  BY <2>4, <3>1 DEF Taking
    <3>3. \A i \in 1 .. Len(queue') : Tells(msg') /\ Tells(queue'[i]) => OlderMessage(msg', queue'[i])
      <4> TAKE i \in 1 .. Len(queue')
      <4>1. 1 < i + 1 /\ i + 1 \in 1 .. Len(queue) /\ queue'[i] = queue[i + 1]  BY <3>1
      <4> QED  BY <1>o, <3>1, <3>2, <4>1 DEF OrderInv
    <3>4. \A i, j \in 1 .. Len(queue') : i < j /\ Tells(queue'[i]) /\ Tells(queue'[j]) =>
             OlderMessage(queue'[i], queue'[j])
      <4> TAKE i, j \in 1 .. Len(queue')
      <4> HAVE i < j /\ Tells(queue'[i]) /\ Tells(queue'[j])
      <4>1. i + 1 \in 1 .. Len(queue) /\ j + 1 \in 1 .. Len(queue) /\ i + 1 < j + 1  BY <3>1
      <4> QED  BY <1>o, <3>1, <4>1 DEF OrderInv
    <3> QED  BY <1>o, <2>c, <3>1, <3>2, <3>3, <3>4 DEF OrderInv, ProperInv
  <2>5. CASE Storing
    <3>1. /\ Tells(msg) /\ UNCHANGED <<since, current, queue, msg>>
      BY <2>5 DEF Storing
    <3>2. \A o : OlderMessage(mail', o) <=> OlderMessage(msg, o)
      BY <2>5, MessageSame DEF Storing
    <3>3. Proper(mail')  BY <1>o, <2>5, MessageSame DEF Storing, ProperInv
    <3>4. OlderMessage(msg, msg)  BY <1>f, MessageRefl
    <3> QED  BY <1>o, <2>c, <3>1, <3>2, <3>3, <3>4 DEF OrderInv, ProperInv
  <2>6. ~Losing  BY <1>g DEF Losing
  <2> QED  BY <2>1, <2>2, <2>3, <2>4, <2>5, <2>6, PathMoves
<1>h. CASE NewMaster
  <2>1. /\ UNCHANGED <<mail, msg>> /\ queue' = <<>> /\ since' = frame'
        /\ current' = [NoMessage EXCEPT !.since = frame']
    BY <1>h DEF NewMaster, slaveVars
  <2>2. current'.pose = NoPose /\ current'.counter = 0 /\ current'.since = since'
    BY <2>1, NoMessageTyped DEF MessageType
  <2>3. /\ frame' = frame + 1 /\ pose' = NoPose /\ counter' = 0 /\ pc' = "off"
    BY <1>h, <1>t, RestartInv DEF NewMaster, Restart
  <2>4. OlderMessage(mail, Made)  BY <1>f, <1>m, <1>o, MessageTrans DEF OrderInv
  <2>5. OlderMessage(mail, current')  BY <1>t, <1>f, <1>o, <2>1, <2>2, <2>3, <2>4, OlderThanMaster
  <2>6. ASSUME Tells(msg) PROVE OlderMessage(msg, current')
    <3>1. OlderMessage(msg, Made)  BY <1>f, <1>m, <1>o, <2>6, MessageTrans DEF OrderInv
    <3> QED  BY <1>t, <1>f, <1>o, <2>1, <2>2, <2>3, <3>1, OlderThanMaster
  <2>7. OlderMessage(current', Made')  BY <1>f, <1>n, <2>2, <2>3, MessageRefl
  <2>8. Proper(current') /\ Proper(Made')
    BY <1>n, <2>2, <2>3, NoPoseTyped DEF Proper
  <2>9. PoseInv'
    <3>1. pose'.frame = 0 /\ ~InUpdate'  BY <2>3, NoPoseTyped DEF InUpdate, InCheck
    <3> QED  BY <1>t, <2>1, <2>3, <2>8, <3>1 DEF PoseInv
  <2>10. Len(queue') = 0  BY <2>1
  <2> QED
    BY <1>o, <2>1, <2>2, <2>5, <2>6, <2>7, <2>8, <2>9, <2>10 DEF OrderInv, ProperInv
<1> QED  BY <1>g, <1>h

-----------------------------------------------------------------------
(* The rest of the invariant of the path. *)

LEMMA ReaderKept ==
    ASSUME PathInv, [PathNext]_<<vars, pathVars>>
    PROVE  ReaderInv' /\ PrevInv'
<1>a. /\ ReaderInv /\ PrevInv /\ mail \in MailType /\ msg \in MessageType /\ filtered \in PoseType
      /\ readerPc \in {"wait", "locked", "half"} /\ posted \in Nat
  BY DEF PathInv, PathTypeOK, MailType
<1>f. /\ mail.pose \in PoseType /\ mail.prev \in PoseType /\ msg.pose \in PoseType
      /\ mail.pose.frame \in Nat /\ msg.pose.frame \in Nat /\ filtered.frame \in Nat
      /\ mail.since \in Nat /\ msg.since \in Nat
  BY <1>a, PoseFields DEF MailType, MessageType
<1>p. HalfPose <=> readerPc = "half" /\ Tells(msg)  BY DEF HalfPose
<1>q. HalfPose' <=> readerPc' = "half" /\ Tells(msg)'  BY DEF HalfPose
<1> USE DEF ReaderInv, slaveVars, clientVars
<1>1. ASSUME UNCHANGED <<mail, msg, filtered, readerPc>>,
             posted' = 0 => mainPc' = "idle" /\ (lock' = "free" => readerPc' = "wait")
      PROVE  ReaderInv' /\ PrevInv'
  BY <1>a, <1>p, <1>q, <1>1 DEF PrevInv, Tells
<1>2. CASE LockMail
  <2>1. /\ readerPc = "wait" /\ readerPc' = "locked" /\ lock' = "slave"
        /\ UNCHANGED <<mail, filtered, mainPc, posted>>
    BY <1>2 DEF LockMail
  <2>2. ~HalfPose /\ ~HalfPose'  BY <1>p, <1>q, <2>1
  <2> QED  BY <1>a, <2>1, <2>2 DEF PrevInv
<1>3. CASE StorePose
  <2>1. readerPc = "locked" /\ readerPc' = "half" /\ UNCHANGED <<filtered, msg, mainPc, lock, posted>>
    BY <1>3 DEF StorePose
  <2>2. ~HalfPose /\ filtered.frame = mail.pose.frame  BY <1>a, <1>p, <2>1 DEF PrevInv
  <2>3. CASE Tells(msg)
    <3>1. mail' = [mail EXCEPT !.pose = msg.pose, !.prev = NoPose, !.counter = msg.counter,
                               !.since = msg.since]
      BY <1>3, <2>3 DEF StorePose, Tells
    <3>2. mail'.pose = msg.pose  BY <1>a, <3>1 DEF MailType
    <3>3. HalfPose'  BY <1>q, <2>1, <2>3 DEF Tells
    <3>4. OlderMessage(mail, msg) /\ Proper(msg)
      BY <2>3 DEF PathInv, OrderInv, ProperInv
    <3>5. NoYounger(filtered, msg.pose)
      BY <1>f, <2>2, <3>4 DEF OlderMessage, Older, Proper, NoYounger
    <3> QED  BY <1>a, <2>1, <3>2, <3>3, <3>5 DEF PrevInv
  <2>4. CASE ~Tells(msg)
    <3>1. mail' = mail /\ ~HalfPose'  BY <1>3, <1>q, <2>1, <2>4 DEF StorePose, Tells
    <3> QED  BY <1>a, <2>1, <2>2, <3>1 DEF PrevInv
  <2> QED  BY <2>3, <2>4
<1>4. CASE StoreRest
  <2>1. /\ readerPc = "half" /\ readerPc' = "wait" /\ msg' = NoMessage
        /\ UNCHANGED <<mainPc, posted>>
    BY <1>4 DEF StoreRest
  <2>2. ~HalfPose' /\ ~Tells(msg)'  BY <1>q, <2>1, NoMessageTyped DEF Tells
  <2>3. CASE Tells(msg)
    <3>1. HalfPose  BY <1>p, <2>1, <2>3
    <3>2. mail'.pose = mail.pose /\ mail'.prev = filtered /\ filtered' = mail.pose
      BY <1>a, <1>4, <2>3, <3>1 DEF StoreRest, MailType, Tells
    <3> QED  BY <1>a, <1>f, <2>1, <2>2, <3>1, <3>2 DEF PrevInv
  <2>4. CASE ~Tells(msg)
    <3>1. ~HalfPose  BY <1>p, <2>4
    <3>2. mail'.pose = mail.pose /\ mail'.prev = mail.prev /\ filtered' = filtered
      BY <1>a, <1>4, <2>4 DEF StoreRest, MailType, Tells
    <3> QED  BY <1>a, <2>1, <2>2, <3>1, <3>2 DEF PrevInv
  <2> QED  BY <2>3, <2>4
<1>5. CASE MainLocks \/ MainUnlocks
  BY <1>a, <1>1, <1>5 DEF MainLocks, MainUnlocks
<1>6. CASE Post  BY <1>a, <1>1, <1>6 DEF Post
<1>7. CASE GetPose  BY <1>a, <1>1, <1>7 DEF GetPose
<1>8. ASSUME UNCHANGED <<slaveVars, posted>> PROVE ReaderInv' /\ PrevInv'
  BY <1>a, <1>1, <1>8
<1>9. CASE Changing
  BY <1>8, <1>9, Changes
<1>10. CASE NewPose \/ Heartbeat \/ NewMaster
  BY <1>8, <1>10 DEF NewPose, Heartbeat, NewMaster
<1>11. CASE StartSession \/ NoSession \/ Create \/ Serve \/ Register \/ Leave \/ Join
  BY <1>8, <1>11 DEF StartSession, NoSession, Create, Serve, Register, Leave, Join
<1>12. CASE Track \/ NoDevice \/ Capture \/ (Others /\ UNCHANGED pathVars) \/ UNCHANGED <<vars, pathVars>>
  BY <1>8, <1>12 DEF Track, NoDevice, Capture, pathVars
<1> QED
  BY <1>2, <1>3, <1>4, <1>5, <1>6, <1>7, <1>9, <1>10, <1>11, <1>12, PathCases DEF Aside

LEMMA ToldKept ==
    ASSUME PathInv, [PathNext]_<<vars, pathVars>>
    PROVE  ToldInv' /\ NothingMissed'
<1>a. /\ ToldInv /\ NothingMissed /\ PrevInv /\ ReaderInv /\ OrderInv /\ ProperInv
      /\ mail \in MailType /\ msg \in MessageType /\ mail.counter \in Nat /\ mail.since \in Nat
      /\ msg.counter \in Nat /\ msg.since \in Nat
      /\ told.counter \in Nat /\ told.since \in Nat /\ newest.since \in Nat /\ posted \in Nat
  BY DEF PathInv, PathTypeOK, MailType, MessageType
<1>1. ASSUME UNCHANGED <<told, newest>>, MailKept, posted' = 0 => posted = 0
      PROVE  ToldInv' /\ NothingMissed'
  BY <1>a, <1>1 DEF ToldInv, NothingMissed, MailKept
<1>2. CASE StorePose /\ Tells(msg)
  <2>1. UNCHANGED <<told, newest, posted>>  BY <1>2 DEF StorePose, clientVars
  <2>2. mail' = [mail EXCEPT !.pose = msg.pose, !.prev = NoPose, !.counter = msg.counter,
                             !.since = msg.since]
    BY <1>2 DEF StorePose, Tells
  <2>3. mail'.pose = msg.pose /\ mail'.counter = msg.counter /\ mail'.since = msg.since
    BY <1>a, <2>2 DEF MailType
  <2>4. /\ mail.since <= msg.since
        /\ mail.since = msg.since => Older(mail.pose, mail.counter, msg.pose, msg.counter)
    BY <1>a, <1>2 DEF OrderInv, OlderMessage
  <2>5. ToldInv'
    BY <1>a, <2>1, <2>3, <2>4 DEF ToldInv, Older
  <2>6. NothingMissed'
    <3> SUFFICES ASSUME mail'.pose.counted, told'.counter = mail'.counter,
                        newest'.since = mail'.since
                 PROVE  newest'.pose = mail'.pose
      BY DEF NothingMissed
    <3>1. newest.since = mail.since /\ told.since = mail.since /\ mail.since = msg.since
      BY <1>a, <2>1, <2>3, <2>4 DEF ToldInv
    <3>2. told.counter = mail.counter /\ mail.counter = msg.counter
      BY <1>a, <2>1, <2>3, <2>4, <3>1 DEF ToldInv, Older
    <3>3. mail.pose = msg.pose  BY <2>3, <2>4, <3>1, <3>2 DEF Older
    <3> QED  BY <1>a, <2>1, <2>3, <3>1, <3>2, <3>3 DEF NothingMissed
  <2> QED  BY <2>5, <2>6
<1>3. CASE (StorePose /\ ~Tells(msg)) \/ StoreRest
  <2>1. UNCHANGED <<told, newest, posted>>  BY <1>3 DEF StorePose, StoreRest, clientVars
  <2>2. MailKept  BY <1>3, <1>a DEF StorePose, StoreRest, MailType, MailKept, Tells
  <2> QED  BY <1>1, <2>1, <2>2
<1>4. CASE GetPose
  <2>1. UNCHANGED <<mail, posted>> /\ lock = "free"  BY <1>4 DEF GetPose, slaveVars
  <2>2. told'.new \in BOOLEAN  BY ToldTyped, <1>4 DEF PathInv, ToldType
  <2>3. newest' = IF told'.new THEN [pose |-> told'.pose, since |-> mail.since] ELSE newest
    BY <1>4 DEF GetPose
  <2>4. CASE mail.state \in Errors
    <3>1. told' = [new |-> FALSE, pose |-> NoPose, prev |-> NoPose, counter |-> 0,
                   since |-> mail.since]
      BY <1>4, <2>4 DEF GetPose
    <3>2. /\ told'.new = FALSE /\ told'.pose = NoPose /\ told'.counter = 0
          /\ told'.since = mail.since
      BY <3>1
    <3>3. newest' = newest  BY <2>3, <3>2, Zenon
    <3>4. mail.pose.counted => mail.counter > 0  BY <1>a DEF ProperInv, Proper
    <3> QED  BY <1>a, <2>1, <3>2, <3>3, <3>4 DEF ToldInv, NothingMissed
  <2>5. CASE mail.state \notin Errors
    <3>1. /\ told'.pose = mail.pose /\ told'.prev = mail.prev /\ told'.counter = mail.counter
          /\ told'.since = mail.since /\ told'.new = (told.counter # mail.counter)
      BY <1>4, <2>5 DEF GetPose
    <3>2. NothingMissed' /\ newest'.since <= mail.since
      <4>1. CASE told.counter = mail.counter
        <5>1. ~told'.new  BY <3>1, <4>1, Zenon
        <5>2. newest' = newest  BY <2>3, <5>1, Zenon
        <5> QED  BY <1>a, <2>1, <4>1, <5>2 DEF NothingMissed, ToldInv
      <4>2. CASE told.counter # mail.counter
        <5>1. told'.new  BY <3>1, <4>2, Zenon
        <5>2. newest' = [pose |-> told'.pose, since |-> mail.since]  BY <2>3, <5>1, Zenon
        <5> QED  BY <1>a, <2>1, <3>1, <5>2 DEF NothingMissed
      <4> QED  BY <4>1, <4>2
    <3>3. posted = 0 => ~HalfPose  BY <1>a, <2>1 DEF ReaderInv, HalfPose
    <3>4. mail.pose.frame = 0 => mail.pose = NoPose  BY <1>a DEF ProperInv, Proper
    <3> QED
      BY <1>a, <2>1, <3>1, <3>2, <3>3, <3>4 DEF ToldInv, PrevInv, NoYounger
  <2> QED  BY <2>4, <2>5
<1>5. ASSUME UNCHANGED <<mail, told, newest, posted>> PROVE ToldInv' /\ NothingMissed'
  BY <1>1, <1>5 DEF MailKept
<1>6. CASE Post
  <2>1. posted' = posted + 1 /\ UNCHANGED <<told, newest, mail>>  BY <1>6 DEF Post, slaveVars
  <2> QED  BY <1>a, <1>1, <2>1 DEF MailKept
<1>7. CASE LockMail \/ MainLocks \/ MainUnlocks
  BY <1>5, <1>7 DEF LockMail, MainLocks, MainUnlocks, clientVars
<1>8. CASE Changing
  BY <1>5, <1>8, Changes DEF slaveVars, clientVars
<1>9. CASE NewPose \/ Heartbeat \/ NewMaster
  BY <1>5, <1>9 DEF NewPose, Heartbeat, NewMaster, slaveVars, clientVars
<1>10. CASE StartSession \/ NoSession \/ Create \/ Serve \/ Register \/ Leave \/ Join
  BY <1>5, <1>10 DEF StartSession, NoSession, Create, Serve, Register, Leave, Join, slaveVars,
                     clientVars
<1>11. CASE Track \/ NoDevice \/ Capture \/ (Others /\ UNCHANGED pathVars) \/ UNCHANGED <<vars, pathVars>>
  BY <1>5, <1>11 DEF Track, NoDevice, Capture, pathVars, slaveVars, clientVars
<1> QED
  BY <1>2, <1>3, <1>4, <1>6, <1>7, <1>8, <1>9, <1>10, <1>11, PathCases DEF Aside

\* What tracking itself adds to it.
LEMMA CountGrows ==
    ASSUME IInv, pc = "count" => pose.session = session, CountedInv, [Next]_vars
    PROVE  /\ session' = 0 => pc' = "off" /\ counter' = 0
           /\ session' = 1 /\ (initRecenter \/ Starts)' => counter' = 0
           /\ ~quietly' => ~quietly
           /\ ~quietly' /\ pc' # "count" => Counted(pose, counter)'
<1>t. TypeOK /\ session \in Nat /\ counter \in Nat  BY DEF IInv, TypeOK
<1>1. CASE Count
  <2>1. /\ initRecenter' = FALSE /\ pose' = [pose EXCEPT !.counted = ~initRecenter]
        /\ counter' = (IF initRecenter THEN counter ELSE counter + 1)
        /\ pc' = "hand" /\ pc = "count" /\ UNCHANGED <<session, quietly, caller>>
    BY <1>1 DEF Count, At, user, install, work
  <2>2. session # 0 /\ pose.session = session
    BY <2>1, <1>t DEF CountedInv
  <2>3. initRecenter \in BOOLEAN  BY <1>t, Zenon DEF TypeOK
  <2>4. ~initRecenter'  BY <2>1, Zenon
  <2>5. ~Starts'  BY <2>1 DEF Starts, InCheck
  <2>6. CASE initRecenter
    <3>1. counter' = counter  BY <2>1, <2>6
    <3>2. session = 1 => counter' = 0  BY <2>6, <3>1 DEF CountedInv
    <3>3. pose'.session = session  BY <2>1, <2>2, <1>t DEF TypeOK
    <3>4. Counted(pose, counter)'  BY <3>2, <3>3 DEF Counted
    <3> QED  BY <1>t, <2>1, <2>2, <2>4, <2>5, <3>4
  <2>7. CASE ~initRecenter
    <3>1. pose' = [pose EXCEPT !.counted = TRUE]  BY <2>1, <2>3, <2>7, Zenon
    <3>2. /\ pose'.counted = TRUE /\ pose'.center = pose.center /\ pose'.version = pose.version
          /\ pose'.session = pose.session
      BY <3>1, <1>t DEF TypeOK
    <3>3. pose'.counted  BY <3>2, Zenon
    <3>4. ~quietly => /\ pose.center.session = pose.session
                      /\ pose.center.version = pose.version
      BY <2>1, <2>7 DEF IInv, CountsCentred, Normal
    <3>5. ~quietly' => Counted(pose, counter)'
      BY <2>1, <2>2, <3>2, <3>3, <3>4 DEF Counted
    <3> QED  BY <1>t, <2>1, <2>2, <2>4, <2>5, <3>5
  <2> QED  BY <2>6, <2>7
<1> USE DEF At, user, flags, install, work, InCheck, Starts, CountedInv
<1>2. CASE Install
  <2>1. ~quietly' => ~quietly  BY <1>2, Zenon DEF Install
  <2> QED  BY <1>2, <1>t, <2>1 DEF Install, Return, Counted, TypeOK
<1>3. CASE InitTracking
  <2>1. session = 1 => counter = 0  BY <1>3 DEF InitTracking
  <2> QED  BY <1>3, <1>t, <2>1 DEF InitTracking, Counted
<1>4. CASE Begin  BY <1>4, <1>t DEF Begin, Counted
<1>5. CASE ReadFlag \/ StoreFlag \/ SetupFails
  BY <1>5, <1>t DEF ReadFlag, StoreFlag, SetupFails, Return, Counted, TypeOK
<1>6. CASE Again \/ Sort \/ MeasurePoint \/ MeasureThree
  BY <1>6, <1>t DEF Again, Sort, MeasurePoint, MeasureThree, Counted
<1>7. CASE ClearRecenter \/ WritePose
  BY <1>7, <1>t DEF ClearRecenter, WritePose, Counted
<1>8. CASE End \/ NewFrame \/ HandOver
  BY <1>8, <1>t DEF End, NewFrame, HandOver, Counted
<1>9. CASE Recenter \/ ChooseModel \/ AnnounceChange \/ UNCHANGED vars
  BY <1>9, <1>t DEF Recenter, ChooseModel, AnnounceChange, vars, Counted
<1> QED
  BY <1>1, <1>2, <1>3, <1>4, <1>5, <1>6, <1>7, <1>8, <1>9 DEF Next, Device, Others

LEMMA CountedKept == ASSUME PathInv, [PathNext]_<<vars, pathVars>> PROVE CountedInv'
<1>t. /\ TypeOK /\ queue \in Seq(MessageType) /\ current \in MessageType /\ mail \in MailType
  BY DEF PathInv, PathTypeOK, MailType
<1>n. \A n : Counted(NoPose, n)  BY DEF Counted, NoPose
<1>g. /\ session' = 0 => pc' = "off" /\ counter' = 0
      /\ session' = 1 /\ (initRecenter \/ Starts)' => counter' = 0
      /\ ~quietly' => ~quietly
      /\ ~quietly' /\ pc' # "count" => Counted(pose, counter)'
  <2>1. CASE NewMaster
    <3>1. session' = 0 /\ pc' = "off" /\ counter' = 0 /\ quietly' = quietly /\ pose' = NoPose
      BY <2>1 DEF NewMaster, Restart
    <3> QED  BY <1>n, <3>1
  <2>2. CASE [Next]_vars  BY <2>2, CountGrows DEF PathInv, PoseInv
  <2> QED  BY <2>1, <2>2, PathSteps
<1> SUFFICES ASSUME ~quietly'
             PROVE  /\ Counted(current'.pose, current'.counter)
                    /\ Counted(mail'.pose, mail'.counter)
                    /\ Tells(msg') => Counted(msg'.pose, msg'.counter)
                    /\ \A i \in 1 .. Len(queue') :
                         Tells(queue'[i]) => Counted(queue'[i].pose, queue'[i].counter)
                    /\ Counted(told'.pose, told'.counter)
  BY <1>g DEF CountedInv, Counted
<1>o. /\ pc # "count" => Counted(pose, counter)
      /\ Counted(current.pose, current.counter) /\ Counted(mail.pose, mail.counter)
      /\ Tells(msg) => Counted(msg.pose, msg.counter)
      /\ \A i \in 1 .. Len(queue) :
           Tells(queue[i]) => Counted(queue[i].pose, queue[i].counter)
      /\ Counted(told.pose, told.counter)
  BY <1>g DEF PathInv, CountedInv
<1>1. Counted(told'.pose, told'.counter)
  <2>1. CASE GetPose
    <3>1. CASE mail.state \in Errors
      <4>1. told'.pose = NoPose  BY <2>1, <3>1 DEF GetPose
      <4> QED  BY <1>n, <4>1
    <3>2. CASE mail.state \notin Errors
      <4>1. told'.pose = mail.pose /\ told'.counter = mail.counter
        BY <2>1, <3>2 DEF GetPose
      <4> QED  BY <1>o, <4>1
    <3> QED  BY <3>1, <3>2
  <2>2. CASE UNCHANGED told  BY <2>2, <1>o
  <2>3. CASE Changing  BY <2>2, <2>3, Changes DEF clientVars
  <2>4. CASE NewPose \/ Heartbeat \/ NewMaster \/ LockMail \/ StorePose \/ StoreRest
    BY <2>2, <2>4 DEF NewPose, Heartbeat, NewMaster, LockMail, StorePose, StoreRest, clientVars
  <2>5. CASE StartSession \/ NoSession \/ Create \/ Serve \/ Register \/ Leave \/ Join
    BY <2>2, <2>5 DEF StartSession, NoSession, Create, Serve, Register, Leave, Join, clientVars
  <2>6. CASE Track \/ NoDevice \/ Capture \/ MainLocks \/ MainUnlocks \/ Post
             \/ (Others /\ UNCHANGED pathVars) \/ UNCHANGED <<vars, pathVars>>
    BY <2>2, <2>6 DEF Track, NoDevice, Capture, MainLocks, MainUnlocks, Post, pathVars, clientVars
  <2> QED  BY <2>1, <2>3, <2>4, <2>5, <2>6, PathCases DEF Aside
<1>2. CASE Quiet  BY <1>1, <1>2, <1>o DEF Quiet, MailKept
<1>3. ASSUME NEW m \in MessageType, Sending(m)
      PROVE  /\ Counted(current'.pose, current'.counter)
             /\ Counted(mail'.pose, mail'.counter)
             /\ Tells(msg') => Counted(msg'.pose, msg'.counter)
             /\ \A i \in 1 .. Len(queue') :
                  Tells(queue'[i]) => Counted(queue'[i].pose, queue'[i].counter)
  <2>1. current' = m /\ mail' = mail /\ msg' = msg  BY <1>3 DEF Sending
  <2>2. \A i \in 1 .. Len(queue') : (i \in 1 .. Len(queue) /\ queue'[i] = queue[i])
                                    \/ (i = Len(queue) + 1 /\ queue'[i] = m)
    BY <1>t, <1>3, Sent DEF Sending
  <2>3. Counted(m.pose, m.counter)  BY <1>3, <1>o DEF Sending
  <2> QED  BY <2>1, <2>2, <2>3, <1>o
<1>4. ASSUME NEW m \in MessageType, Beating(m)
      PROVE  \A i \in 1 .. Len(queue') :
               Tells(queue'[i]) => Counted(queue'[i].pose, queue'[i].counter)
  <2>1. \A i \in 1 .. Len(queue') : (i \in 1 .. Len(queue) /\ queue'[i] = queue[i])
                                    \/ (i = Len(queue) + 1 /\ queue'[i] = m)
    BY <1>t, <1>4, Sent DEF Beating
  <2> QED  BY <1>4, <1>o, <2>1 DEF Beating
<1>5. CASE \E m \in MessageType : Beating(m)
  <2>1. UNCHANGED <<current, mail, msg>>  BY <1>5 DEF Beating
  <2> QED  BY <1>1, <1>4, <1>5, <1>o, <2>1
<1>6. CASE Taking
  <2>1. /\ \A i \in 1 .. Len(queue') : i + 1 \in 1 .. Len(queue) /\ queue'[i] = queue[i + 1]
        /\ Head(queue) = queue[1] /\ 1 \in 1 .. Len(queue)
    BY <1>t, <1>6, Received DEF Taking
  <2> QED  BY <1>1, <1>6, <1>o, <2>1 DEF Taking
<1>7. CASE Storing  BY <1>1, <1>7, <1>o DEF Storing
<1>8. CASE Losing
  <2>1. Len(queue') = 0  BY <1>8 DEF Losing
  <2> QED  BY <1>1, <1>8, <1>o, <1>n, <2>1 DEF Losing
<1> QED  BY <1>1, <1>2, <1>3, <1>5, <1>6, <1>7, <1>8, PathMoves

LEMMA PathStart == PathInit => PathInv
<1> SUFFICES ASSUME PathInit PROVE PathInv
  OBVIOUS
<1>1. PathTypeOK  BY PathInitTyped
<1>2. /\ queue = <<>> /\ Len(queue) = 0 /\ pose = NoPose /\ current = NoMessage
      /\ mail.pose = NoPose /\ mail.prev = NoPose /\ mail.since = 0 /\ filtered = NoPose
      /\ msg = NoMessage /\ since = 0 /\ mail.counter = 0 /\ counter = 0 /\ frame = 0
      /\ pc = "off" /\ readerPc = "wait" /\ mainPc = "idle"
      /\ told.pose = NoPose /\ told.prev = NoPose /\ told.counter = 0 /\ told.since = 0
      /\ newest.since = 0
  BY DEF PathInit, Init
<1>3. Made.pose = NoPose /\ Made.counter = 0 /\ Made.since = 0  BY <1>2 DEF Made
<1>4. ~Tells(msg)  BY <1>2, NoMessageTyped DEF Tells
<1>5. PoseInv /\ ProperInv
  BY <1>2, <1>3, <1>4, NoPoseTyped, NoMessageTyped DEF PoseInv, ProperInv, Proper, InUpdate, InCheck
<1>6. OrderInv
  BY <1>2, <1>3, <1>4, NoPoseTyped, NoMessageTyped DEF OrderInv, OlderMessage, Older
<1>7. ReaderInv /\ PrevInv
  BY <1>2, <1>4, NoPoseTyped DEF ReaderInv, PrevInv, NoYounger, HalfPose
<1>8. ToldInv /\ NothingMissed
  BY <1>2, NoPoseTyped DEF ToldInv, NothingMissed
<1>9. CountedInv
  <2>1. session = 0  BY DEF PathInit, Init
  <2>2. \A n : Counted(NoPose, n)  BY DEF Counted, NoPose
  <2> QED  BY <1>2, <1>4, <2>1, <2>2, NoMessageTyped DEF CountedInv
<1>10. IInv  BY InitInv DEF PathInit
<1> QED  BY <1>1, <1>5, <1>6, <1>7, <1>8, <1>9, <1>10 DEF PathInv

LEMMA PathStep == PathInv /\ [PathNext]_<<vars, pathVars>> => PathInv'
<1> SUFFICES ASSUME PathInv, [PathNext]_<<vars, pathVars>> PROVE PathInv'
  OBVIOUS
<1>1. PathTypeOK'  BY PathStepTyped DEF PathInv
<1>2. IInv'
  <2>1. CASE NewMaster  BY <2>1, RestartInv DEF PathInv, PathTypeOK, NewMaster
  <2> QED  BY <2>1, PathSteps, StepInv DEF PathInv
<1> QED
  BY <1>1, <1>2, OrderKept, ReaderKept, ToldKept, CountedKept DEF PathInv

\* A client that polls at any rate and was told of a pose of this master is told of every
\* counted pose but those that others have replaced (ltlib.c:170-184), and the pose it
\* extrapolates from is no younger than the pose itself (ltr_srv_slave.c:163-172); what it is
\* told is new, with a count, in a master's first session is counted, and measured from a
\* centre of that session and its model (tracking.c:441-450).  For any number of frames,
\* sessions and masters, a slave that registers at any time, and any number of messages on
\* their way and of commands.
THEOREM PosesAlwaysTold == PathSpec => []PosesTold
<1>1. PathInv => PosesTold
  <2> SUFFICES ASSUME PathInv PROVE PosesTold
    OBVIOUS
  <2>1. NothingMissed /\ PrevPose  BY DEF PathInv, ToldInv, PrevPose
  <2>2. NewIsCentred
    BY DEF PathInv, CountedInv, Counted, NewIsCentred
  <2> QED  BY <2>1, <2>2 DEF PosesTold
<1> QED  BY <1>1, PathStart, PathStep, PTL DEF PathSpec

-----------------------------------------------------------------------
(* FrameFile.  While the camera keeps its resolution there is one file;    *)
(* the master writes where no copy is that it has not left two pictures    *)
(* behind.                                                                 *)

File == Pictures!FileType
Three == Pictures!Buffers
Bitmap == Nat \X Nat

\* Who works with a file has one, from the first picture of a session to its end.
UsedFiles ==
    /\ mPc \in {"reset", "publish", "black", "clear", "copying", "copied", "hook"} => mFile # 0
    /\ mPc \notin {"dead", "map"} /\ mArea # 0 => mFile # 0
    /\ mPc \notin {"dead", "idle"} => area # 0
    /\ mPc \notin {"dead", "idle", "map"} /\ target # Pictures!Null => mFile # 0
    /\ mPc = "clear" => target \in Three
    /\ mPc = "black" => target = 1
    /\ cPc \in {"header", "lower", "upper", "copied"} => cFile # 0

PicturesTyped == Pictures!TypeOK /\ UsedFiles

LEMMA ThreeBuffers == Three = 0 .. 2 /\ Pictures!Gui = 3 /\ Pictures!Null = 4
  BY DEF Three, Pictures!Buffers, Pictures!FRAME_BUFFERS, Pictures!Gui, Pictures!Null

\* The buffers take turns.
LEMMA Turns ==
    ASSUME NEW b \in Three
    PROVE  /\ Pictures!After(b) \in Three /\ Pictures!After(b) # b
           /\ Pictures!After(Pictures!After(b)) # b
           /\ Pictures!After(0) = 1
<1>1. CASE b = 0  BY <1>1, ThreeBuffers DEF Pictures!After, Pictures!FRAME_BUFFERS
<1>2. CASE b = 1  BY <1>2, ThreeBuffers DEF Pictures!After, Pictures!FRAME_BUFFERS
<1>3. CASE b = 2  BY <1>3, ThreeBuffers DEF Pictures!After, Pictures!FRAME_BUFFERS
<1> QED  BY <1>1, <1>2, <1>3, ThreeBuffers

\* A file with one thing changed.
LEMMA Stored ==
    ASSUME files \in Seq(File), NEW i \in 1 .. Len(files), NEW f \in File,
           files' = [files EXCEPT ![i] = f]
    PROVE  /\ files' \in Seq(File) /\ Len(files') = Len(files) /\ Len(files) \in Nat
           /\ files'[i] = f
           /\ \A j \in 1 .. Len(files) : j # i => files'[j] = files[j]
  BY ExceptSeq, LenProperties

LEMMA HeaderStored ==
    ASSUME NEW f \in File, NEW b \in Three, NEW a \in Areas \cup {0}, NEW n \in Nat
    PROVE  /\ [f EXCEPT !.flag = b, !.area = a] \in File
           /\ [f EXCEPT !.flag = b] \in File
           /\ [f EXCEPT !.size = n] \in File
  BY DEF File, Three, Bitmap, Pictures!FileType

LEMMA NewFileTyped ==
    ASSUME NEW n \in Nat
    PROVE  /\ Pictures!NewFile(n) \in File
           /\ Pictures!NewFile(n).size = n /\ Pictures!NewFile(n).flag = 0
           /\ Pictures!NewFile(n).area = 0
           /\ \A b \in Three : Pictures!NewFile(n).buf[b] = <<0, 0>>
  BY ThreeBuffers DEF File, Three, Bitmap, Pictures!FileType, Pictures!NewFile

LEMMA BytesTyped ==
    ASSUME NEW a \in Areas \cup {0} 
    PROVE  a \in Nat /\ Pictures!Bytes(a) \in Nat \ {0} /\ Pictures!Bytes(a) = 3 * a + 12
<1>1. a \in Nat  BY AreasAssumption
<1> QED  BY <1>1 DEF Pictures!Bytes, Pictures!FRAME_BUFFERS, Pictures!Header

\* ltr_int_mmap_file leaves a file of that name and size, and all others alone.
LEMMA Mapped ==
    ASSUME files \in Seq(File), name \in 0 .. Len(files), NEW n \in Nat, Pictures!MapFile(n)
    PROVE  /\ files' \in Seq(File) /\ Len(files) \in Nat /\ Len(files') \in Nat
           /\ Len(files') = Len(files) + (IF name = 0 THEN 1 ELSE 0)
           /\ name' \in 1 .. Len(files') /\ name' = (IF name = 0 THEN Len(files) + 1 ELSE name)
           /\ files'[name'].size = n
           /\ name # 0 => /\ files'[name].flag = files[name].flag
                          /\ files'[name].area = files[name].area
                          /\ files'[name].buf = files[name].buf
           /\ name = 0 => files'[name'] = Pictures!NewFile(n)
           /\ \A j \in 1 .. Len(files) : j # name => files'[j] = files[j]
<1>1. Len(files) \in Nat  BY LenProperties
<1>2. CASE name = 0
  <2>1. files' = Append(files, Pictures!NewFile(n)) /\ name' = Len(files) + 1
    BY <1>2 DEF Pictures!MapFile
  <2>2. Pictures!NewFile(n) \in File /\ Pictures!NewFile(n).size = n  BY NewFileTyped
  <2> QED  BY <1>1, <1>2, <2>1, <2>2, AppendProperties
<1>3. CASE name # 0
  <2>1. name \in 1 .. Len(files)  BY <1>1, <1>3
  <2>2. files[name] \in File  BY <2>1, ElementOfSeq
  <2> DEFINE f == [files[name] EXCEPT !.size = n]
  <2>3. f \in File /\ f.size = n /\ f.flag = files[name].flag /\ f.area = files[name].area
        /\ f.buf = files[name].buf
    BY <2>2 DEF File, Pictures!FileType
  <2>4. files' = [files EXCEPT ![name] = f] /\ name' = name
    BY <1>3 DEF Pictures!MapFile
  <2> HIDE DEF f
  <2> QED  BY <1>1, <1>3, <2>1, <2>3, <2>4, Stored
<1> QED  BY <1>2, <1>3

\* What the master's stores leave alone.
OthersKept ==
    /\ files' \in Seq(File) /\ Len(files') = Len(files) /\ Len(files) \in Nat
    /\ \A j \in 1 .. Len(files) : j # mFile => files'[j] = files[j]

\* A half, a whole buffer, the header of its file with something else in it.
Wrote(b, h, what) ==
    LET f == files[mFile]
        g == files'[mFile]
    IN /\ OthersKept /\ f \in File /\ g \in File
       /\ g.size = f.size /\ g.area = f.area /\ g.flag = f.flag
       /\ g.buf[b][h] = what /\ \A k \in {1, 2} : k # h => g.buf[b][k] = f.buf[b][k]
       /\ \A c \in Three : c # b => g.buf[c] = f.buf[c]

Cleared(b) ==
    LET f == files[mFile]
        g == files'[mFile]
    IN /\ OthersKept /\ f \in File /\ g \in File
       /\ g.size = f.size /\ g.area = f.area /\ g.flag = f.flag
       /\ g.buf[b] = <<0, 0>> /\ \A c \in Three : c # b => g.buf[c] = f.buf[c]

Headed(b, a) ==
    LET f == files[mFile]
        g == files'[mFile]
    IN /\ OthersKept /\ f \in File /\ g \in File
       /\ g.size = f.size /\ g.area = a /\ g.flag = b /\ g.buf = f.buf

LEMMA WriteStores ==
    ASSUME files \in Seq(File), mFile \in 1 .. Len(files),
           NEW b \in Three, NEW h \in {1, 2}, NEW what \in Nat, Pictures!Write(b, h, what)
    PROVE  Wrote(b, h, what)
<1> DEFINE f == files[mFile]
<1>1. f \in File  BY ElementOfSeq
<1>2. f.buf \in [Three -> Bitmap]  BY <1>1 DEF File, Three, Bitmap, Pictures!FileType
<1>3. f.buf[b] \in Bitmap  BY <1>2
<1> DEFINE w == [f.buf[b] EXCEPT ![h] = what]
<1>4. w \in Bitmap /\ w[h] = what /\ \A k \in {1, 2} : k # h => w[k] = f.buf[b][k]
  <2>1. CASE h = 1  BY <1>3, <2>1 DEF Bitmap
  <2>2. CASE h = 2  BY <1>3, <2>2 DEF Bitmap
  <2> QED  BY <2>1, <2>2
<1> DEFINE u == [f.buf EXCEPT ![b] = w]
           g == [f EXCEPT !.buf = u]
<1>5. files' = [files EXCEPT ![mFile] = g]  BY DEF Pictures!Write
<1> HIDE DEF w
<1>6. u \in [Three -> Bitmap] /\ u[b] = w /\ \A c \in Three : c # b => u[c] = f.buf[c]
  BY <1>2, <1>4
<1> HIDE DEF u, f
<1>7. g \in File /\ g.size = f.size /\ g.area = f.area /\ g.flag = f.flag /\ g.buf = u
  BY <1>1, <1>6 DEF File, Three, Bitmap, Pictures!FileType
<1> HIDE DEF g
<1>8. OthersKept /\ files'[mFile] = g  BY <1>5, <1>7, Stored DEF OthersKept
<1> QED  BY <1>1, <1>4, <1>6, <1>7, <1>8 DEF f, Wrote

LEMMA ClearStores ==
    ASSUME files \in Seq(File), mFile \in 1 .. Len(files), NEW b \in Three,
           files' = [files EXCEPT ![mFile].buf[b] = <<0, 0>>]
    PROVE  Cleared(b)
<1> DEFINE f == files[mFile]
<1>1. f \in File  BY ElementOfSeq
<1>2. f.buf \in [Three -> Bitmap]  BY <1>1 DEF File, Three, Bitmap, Pictures!FileType
<1> DEFINE u == [f.buf EXCEPT ![b] = <<0, 0>>]
           g == [f EXCEPT !.buf = u]
<1>5. files' = [files EXCEPT ![mFile] = g]  OBVIOUS
<1>6. u \in [Three -> Bitmap] /\ u[b] = <<0, 0>> /\ \A c \in Three : c # b => u[c] = f.buf[c]
  BY <1>2 DEF Bitmap
<1> HIDE DEF u, f
<1>7. g \in File /\ g.size = f.size /\ g.area = f.area /\ g.flag = f.flag /\ g.buf = u
  BY <1>1, <1>6 DEF File, Three, Bitmap, Pictures!FileType
<1> HIDE DEF g
<1>8. OthersKept /\ files'[mFile] = g  BY <1>5, <1>7, Stored DEF OthersKept
<1> QED  BY <1>1, <1>6, <1>7, <1>8 DEF f, Cleared

LEMMA FlagStores ==
    ASSUME files \in Seq(File), mFile \in 1 .. Len(files), NEW b \in Three,
           area \in Areas \cup {0}
    PROVE  /\ Pictures!Flag(b) => Headed(b, area)
           /\ files' = [files EXCEPT ![mFile].flag = b] => Headed(b, files[mFile].area)
<1>1. files[mFile] \in File  BY ElementOfSeq
<1> DEFINE g == [files[mFile] EXCEPT !.flag = b, !.area = area]
           r == [files[mFile] EXCEPT !.flag = b]
<1>2. /\ g \in File /\ g.size = files[mFile].size /\ g.area = area /\ g.flag = b
      /\ g.buf = files[mFile].buf
      /\ r \in File /\ r.size = files[mFile].size /\ r.area = files[mFile].area /\ r.flag = b
      /\ r.buf = files[mFile].buf
  BY <1>1, HeaderStored DEF File, Pictures!FileType
<1>3. Pictures!Flag(b) => files' = [files EXCEPT ![mFile] = g]  BY <1>1 DEF Pictures!Flag
<1>4. files' = [files EXCEPT ![mFile].flag = b] => files' = [files EXCEPT ![mFile] = r]
  OBVIOUS
<1> HIDE DEF g, r
<1>5. files' = [files EXCEPT ![mFile] = g] => OthersKept /\ files'[mFile] = g
  BY <1>2, Stored DEF OthersKept
<1>6. files' = [files EXCEPT ![mFile] = r] => OthersKept /\ files'[mFile] = r
  BY <1>2, Stored DEF OthersKept
<1> QED  BY <1>1, <1>2, <1>3, <1>4, <1>5, <1>6 DEF Headed

\* The fields of a file.
LEMMA FileFields ==
    ASSUME NEW f \in File
    PROVE  /\ f.size \in Nat /\ f.flag \in Three /\ f.area \in Areas \cup {0}
           /\ \A b \in Three : f.buf[b] \in Bitmap /\ f.buf[b][1] \in Nat /\ f.buf[b][2] \in Nat
<1>1. f.size \in Nat /\ f.flag \in Three /\ f.area \in Areas \cup {0} /\ f.buf \in [Three -> Bitmap]
  BY DEF File, Three, Bitmap, Pictures!FileType
<1>2. \A b \in Three : f.buf[b] \in Bitmap  BY <1>1
<1>3. \A w \in Bitmap : w[1] \in Nat /\ w[2] \in Nat  BY DEF Bitmap
<1> QED  BY <1>1, <1>2, <1>3

\* The type, part by part.
FilesTyped == /\ files \in Seq(File) /\ name \in 0 .. Len(files)
              /\ mFile \in 0 .. Len(files) /\ cFile \in 0 .. Len(files)
MasterTyped ==
    /\ mArea \in Areas \cup {0} /\ area \in Areas \cup {0}
    /\ target \in Three \cup {Pictures!Gui, Pictures!Null} /\ picture \in Nat
    /\ mPc \in {"dead", "idle", "draw", "drawing", "drawn", "map", "reset", "publish", "black",
                "clear", "copying", "copied", "hook"}
    /\ sent \in Areas \cup {0} /\ known \in Areas \cup {0}
    /\ overlap \in Nat
ClientTyped ==
    /\ asked \in Areas \cup {0} /\ cBytes \in Nat
    /\ cPc \in {"dead", "idle", "map", "header", "lower", "upper", "copied"}
    /\ seen \in [area : Areas \cup {0}, flag : Three] /\ got \in Bitmap
    /\ starts \in [{"master", "stream", "client"} -> Nat]
FlagsTyped == hooked \in BOOLEAN /\ resized \in BOOLEAN

LEMMA TypeParts ==
    Pictures!TypeOK <=> FilesTyped /\ MasterTyped /\ ClientTyped /\ FlagsTyped
  BY DEF Pictures!TypeOK, FilesTyped, MasterTyped, ClientTyped, FlagsTyped, File, Three, Bitmap

LEMMA TypeParts2 ==
    Pictures!TypeOK' <=> FilesTyped' /\ MasterTyped' /\ ClientTyped' /\ FlagsTyped'
  BY TypeParts, PTL

LEMMA PicturesInitTyped == Pictures!Init => PicturesTyped
<1> SUFFICES ASSUME Pictures!Init PROVE PicturesTyped
  OBVIOUS
<1>1. FilesTyped  BY EmptySeq DEF Pictures!Init, FilesTyped
<1>2. MasterTyped /\ ClientTyped
  BY ThreeBuffers DEF Pictures!Init, MasterTyped, ClientTyped, Bitmap
<1>3. FlagsTyped  BY Zenon DEF Pictures!Init, FlagsTyped
<1>4. UsedFiles  BY DEF Pictures!Init, UsedFiles
<1> QED  BY <1>1, <1>2, <1>3, <1>4, TypeParts DEF PicturesTyped

\* What every step of the master does to its file, and where it is.
LEMMA Effects ==
    ASSUME PicturesTyped
    PROVE  /\ Pictures!DrawLower =>
                 IF target \in Three THEN mFile # 0 /\ Wrote(target, 1, picture') ELSE UNCHANGED files
           /\ Pictures!DrawUpper =>
                 IF target \in Three THEN mFile # 0 /\ Wrote(target, 2, picture) ELSE UNCHANGED files
           /\ Pictures!Reset => mFile # 0 /\ Headed(0, files[mFile].area)
           /\ Pictures!PublishDrawn => mFile # 0 /\ Headed(target, area) /\ target \in Three
                                       /\ target = Pictures!After(files[mFile].flag)
           /\ Pictures!PublishBlack => mFile # 0 /\ Headed(0, area)
           /\ Pictures!Black => mFile # 0 /\ Cleared(0)
           /\ Pictures!Clear => mFile # 0 /\ target \in Three /\ Cleared(target)
           /\ Pictures!CopyLower =>
                 mFile # 0 /\ Wrote(Pictures!After(files[mFile].flag), 1, picture)
           /\ Pictures!CopyUpper =>
                 mFile # 0 /\ Wrote(Pictures!After(files[mFile].flag), 2, picture)
           /\ Pictures!PublishCopied =>
                 mFile # 0 /\ Headed(Pictures!After(files[mFile].flag), area)
<1>a. FilesTyped /\ MasterTyped /\ ClientTyped /\ FlagsTyped /\ UsedFiles
  BY TypeParts DEF PicturesTyped
<1>t. files \in Seq(File) /\ Len(files) \in Nat  BY <1>a, LenProperties DEF FilesTyped
<1>m. mFile # 0 => mFile \in 1 .. Len(files)  BY <1>a, <1>t DEF FilesTyped
<1>v. area \in Areas \cup {0} /\ picture \in Nat  BY <1>a DEF MasterTyped
<1>e. mFile # 0 => files[mFile].flag \in Three /\ Pictures!After(files[mFile].flag) \in Three
  <2> SUFFICES ASSUME mFile # 0
               PROVE  files[mFile].flag \in Three /\ Pictures!After(files[mFile].flag) \in Three
    OBVIOUS
  <2>1. files[mFile] \in File  BY <1>t, <1>m, ElementOfSeq
  <2> QED  BY <2>1, FileFields, Turns
<1>1. ASSUME Pictures!DrawLower
      PROVE  IF target \in Three THEN mFile # 0 /\ Wrote(target, 1, picture') ELSE UNCHANGED files
  <2>1. CASE target \in Three
    <3>1. mFile # 0
      BY <1>a, <1>1, <2>1, ThreeBuffers DEF Pictures!DrawLower, Pictures!At, UsedFiles
    <3>2. Pictures!Write(target, 1, picture') /\ picture' \in Nat
      BY <1>v, <1>1, <2>1 DEF Pictures!DrawLower, Three
    <3> QED  BY <1>t, <1>m, <2>1, <3>1, <3>2, WriteStores
  <2>2. CASE target \notin Three
    BY <1>1, <2>2 DEF Pictures!DrawLower, Three
  <2> QED  BY <2>1, <2>2
<1>2. ASSUME Pictures!DrawUpper
      PROVE  IF target \in Three THEN mFile # 0 /\ Wrote(target, 2, picture) ELSE UNCHANGED files
  <2>1. CASE target \in Three
    <3>1. mFile # 0
      BY <1>a, <1>2, <2>1, ThreeBuffers DEF Pictures!DrawUpper, Pictures!At, UsedFiles
    <3>2. Pictures!Write(target, 2, picture)
      BY <1>2, <2>1 DEF Pictures!DrawUpper, Three
    <3> QED  BY <1>t, <1>m, <1>v, <2>1, <3>1, <3>2, WriteStores
  <2>2. CASE target \notin Three
    BY <1>2, <2>2 DEF Pictures!DrawUpper, Three
  <2> QED  BY <2>1, <2>2
<1>3. ASSUME Pictures!Reset PROVE mFile # 0 /\ Headed(0, files[mFile].area)
  <2>1. mFile # 0  BY <1>a, <1>3 DEF Pictures!Reset, Pictures!At, UsedFiles
  <2>2. files' = [files EXCEPT ![mFile].flag = 0] /\ 0 \in Three
    BY <1>3, ThreeBuffers DEF Pictures!Reset
  <2> QED  BY <1>t, <1>m, <1>v, <2>1, <2>2, FlagStores
<1>4. ASSUME Pictures!PublishDrawn
      PROVE  /\ mFile # 0 /\ Headed(target, area) /\ target \in Three
             /\ target = Pictures!After(files[mFile].flag)
  <2>1. mFile # 0  BY <1>a, <1>4 DEF Pictures!PublishDrawn, Pictures!At, UsedFiles
  <2>2. target = Pictures!After(files[mFile].flag) /\ Pictures!Flag(target)
    BY <1>4 DEF Pictures!PublishDrawn
  <2>3. target \in Three  BY <1>e, <2>1, <2>2
  <2> QED  BY <1>t, <1>m, <1>v, <2>1, <2>2, <2>3, FlagStores
<1>5. ASSUME Pictures!PublishBlack PROVE mFile # 0 /\ Headed(0, area)
  <2>1. mFile # 0  BY <1>a, <1>5 DEF Pictures!PublishBlack, Pictures!At, UsedFiles
  <2>2. Pictures!Flag(0) /\ 0 \in Three  BY <1>5, ThreeBuffers DEF Pictures!PublishBlack
  <2> QED  BY <1>t, <1>m, <1>v, <2>1, <2>2, FlagStores
<1>6. ASSUME Pictures!Black PROVE mFile # 0 /\ Cleared(0)
  <2>1. mFile # 0  BY <1>a, <1>6 DEF Pictures!Black, Pictures!At, UsedFiles
  <2>2. PICK b \in Three : b = 0  BY ThreeBuffers
  <2>3. files' = [files EXCEPT ![mFile].buf[b] = <<0, 0>>]
    BY <1>6, <2>2 DEF Pictures!Black
  <2>4. Cleared(b)  BY <1>t, <1>m, <2>1, <2>3, ClearStores
  <2> QED  BY <2>1, <2>2, <2>4
<1>7. ASSUME Pictures!Clear PROVE mFile # 0 /\ target \in Three /\ Cleared(target)
  <2>1. mFile # 0 /\ target \in Three  BY <1>a, <1>7 DEF Pictures!Clear, Pictures!At, UsedFiles
  <2>2. files' = [files EXCEPT ![mFile].buf[target] = <<0, 0>>]  BY <1>7 DEF Pictures!Clear
  <2> QED  BY <1>t, <1>m, <2>1, <2>2, ClearStores
<1>8. ASSUME Pictures!CopyLower
      PROVE  mFile # 0 /\ Wrote(Pictures!After(files[mFile].flag), 1, picture)
  <2>1. mFile # 0  BY <1>a, <1>8 DEF Pictures!CopyLower, Pictures!At, UsedFiles
  <2> QED  BY <1>t, <1>m, <1>v, <1>e, <1>8, <2>1, WriteStores DEF Pictures!CopyLower
<1>9. ASSUME Pictures!CopyUpper
      PROVE  mFile # 0 /\ Wrote(Pictures!After(files[mFile].flag), 2, picture)
  <2>1. mFile # 0  BY <1>a, <1>9 DEF Pictures!CopyUpper, Pictures!At, UsedFiles
  <2> QED  BY <1>t, <1>m, <1>v, <1>e, <1>9, <2>1, WriteStores DEF Pictures!CopyUpper
<1>10. ASSUME Pictures!PublishCopied
       PROVE  mFile # 0 /\ Headed(Pictures!After(files[mFile].flag), area)
  <2>1. mFile # 0  BY <1>a, <1>10 DEF Pictures!PublishCopied, Pictures!At, UsedFiles
  <2> QED  BY <1>t, <1>m, <1>v, <1>e, <1>10, <2>1, FlagStores DEF Pictures!PublishCopied
<1> QED  BY <1>1, <1>2, <1>3, <1>4, <1>5, <1>6, <1>7, <1>8, <1>9, <1>10

Stores ==
    \/ Pictures!DrawLower \/ Pictures!DrawUpper \/ Pictures!Reset \/ Pictures!PublishDrawn
    \/ Pictures!PublishBlack \/ Pictures!Black \/ Pictures!Clear \/ Pictures!CopyLower
    \/ Pictures!CopyUpper \/ Pictures!PublishCopied

LEMMA StoresKeep ==
    ASSUME PicturesTyped, Stores
    PROVE  /\ UNCHANGED files \/ (mFile # 0 /\ OthersKept)
           /\ UNCHANGED <<name, hooked, mFile, area, sent, resized, known, starts>>
           /\ UNCHANGED Pictures!clientVars
<1>1. UNCHANGED files \/ (mFile # 0 /\ OthersKept)
  BY Effects DEF Stores, Wrote, Cleared, Headed
<1>2. /\ UNCHANGED <<name, hooked, mFile, area, sent, resized, known, starts>>
      /\ UNCHANGED Pictures!clientVars
  BY DEF Stores, Pictures!DrawLower, Pictures!DrawUpper, Pictures!Reset, Pictures!PublishDrawn,
         Pictures!PublishBlack, Pictures!Black, Pictures!Clear, Pictures!CopyLower,
         Pictures!CopyUpper, Pictures!PublishCopied
<1> QED  BY <1>1, <1>2

\* Every step keeps the types.
LEMMA PicturesStepTyped == ASSUME PicturesTyped, [Pictures!Next]_(Pictures!vars) PROVE PicturesTyped'
<1>a. FilesTyped /\ MasterTyped /\ ClientTyped /\ FlagsTyped /\ UsedFiles
  BY TypeParts DEF PicturesTyped
<1>b. Len(files) \in Nat  BY <1>a, LenProperties DEF FilesTyped

<1>c. cFile # 0 => cFile \in 1 .. Len(files)  BY <1>a, <1>b DEF FilesTyped
<1>g. SUFFICES (FilesTyped /\ MasterTyped /\ ClientTyped /\ FlagsTyped /\ UsedFiles)'
  BY TypeParts2 DEF PicturesTyped
<1>r. /\ \A i \in {"master", "stream", "client"} : Pictures!Count(i)
                => starts' \in [{"master", "stream", "client"} -> Nat]
  BY <1>a DEF Pictures!Count, ClientTyped
<1>1. CASE Pictures!StartMaster
  <2>1. FilesTyped' /\ MasterTyped'
    BY <1>a, <1>1 DEF Pictures!StartMaster, Pictures!At, Pictures!fileVars, Pictures!clientVars,
                      FilesTyped, MasterTyped
  <2>2. ClientTyped'
    BY <1>a, <1>1, <1>r DEF Pictures!StartMaster, Pictures!clientVars, ClientTyped
  <2>3. FlagsTyped'  BY <1>a, <1>1, Zenon DEF Pictures!StartMaster, FlagsTyped
  <2>4. UsedFiles'
    BY <1>a, <1>1 DEF Pictures!StartMaster, Pictures!At, Pictures!clientVars, UsedFiles
  <2> QED  BY <2>1, <2>2, <2>3, <2>4
<1>2. CASE Pictures!MasterEnds
  <2>1. FilesTyped' /\ MasterTyped' /\ ClientTyped' /\ UsedFiles'
    BY <1>a, <1>2 DEF Pictures!MasterEnds, Pictures!fileVars, Pictures!clientVars,
                      FilesTyped, MasterTyped, ClientTyped, UsedFiles
  <2>2. FlagsTyped'  BY <1>a, <1>2, Zenon DEF Pictures!MasterEnds, FlagsTyped
  <2> QED  BY <2>1, <2>2
<1>3. CASE Pictures!StartStream
  <2>1. FilesTyped' /\ MasterTyped'
    BY <1>a, <1>3 DEF Pictures!StartStream, Pictures!At, Pictures!fileVars, Pictures!clientVars,
                      FilesTyped, MasterTyped
  <2>2. ClientTyped'
    BY <1>a, <1>3, <1>r DEF Pictures!StartStream, Pictures!clientVars, ClientTyped
  <2>3. (resized \/ area \notin {0, area'}) \in BOOLEAN  BY Zenon
  <2>4. FlagsTyped'  BY <1>a, <1>3, <2>3, Zenon DEF Pictures!StartStream, FlagsTyped
  <2>5. area' # 0  BY <1>3, AreasAssumption DEF Pictures!StartStream
  <2>6. UsedFiles'
    BY <1>a, <1>3, <2>5 DEF Pictures!StartStream, Pictures!At, Pictures!clientVars, UsedFiles
  <2> QED  BY <2>1, <2>2, <2>4, <2>6
<1>f. UNCHANGED <<hooked, resized>> => FlagsTyped'
  BY <1>a, Zenon DEF FlagsTyped
<1> USE DEF Pictures!fileVars, Pictures!clientVars, Pictures!masterVars, Pictures!At, Pictures!Go
<1>5. CASE Pictures!Unmap
  <2>1. FilesTyped' /\ MasterTyped' /\ ClientTyped' /\ UsedFiles' /\ UNCHANGED <<hooked, resized>>
    BY <1>a, <1>b, <1>5 DEF Pictures!Unmap, FilesTyped, MasterTyped, ClientTyped, UsedFiles
  <2> QED  BY <1>f, <2>1
<1>6. CASE Pictures!Map
  <2>0. Pictures!MapFile(Pictures!Bytes(area)) /\ mFile' = name' /\ Pictures!Bytes(area) \in Nat
        /\ UNCHANGED cFile
    BY <1>a, <1>6, BytesTyped DEF Pictures!Map, MasterTyped
  <2>1. FilesTyped' /\ mFile' # 0
    BY <1>a, <1>b, <2>0, Mapped DEF FilesTyped
  <2>2. MasterTyped' /\ ClientTyped' /\ UsedFiles' /\ UNCHANGED <<hooked, resized>>
    BY <1>a, <1>6, <2>1 DEF Pictures!Map, MasterTyped, ClientTyped, UsedFiles
  <2> QED  BY <1>f, <2>1, <2>2
<1>7. CASE Pictures!KeepMap
  <2>0. area \in Nat /\ area # 0 /\ mArea \in Nat
    BY <1>a, <1>7, AreasAssumption DEF Pictures!KeepMap, MasterTyped, UsedFiles
  <2>1. FilesTyped' /\ MasterTyped' /\ ClientTyped' /\ UsedFiles' /\ UNCHANGED <<hooked, resized>>
    BY <1>a, <1>7, <2>0 DEF Pictures!KeepMap, FilesTyped, MasterTyped, ClientTyped, UsedFiles
  <2> QED  BY <1>f, <2>1
<1>4. CASE Stores
  <2>0. /\ UNCHANGED files \/ (mFile # 0 /\ OthersKept)
        /\ UNCHANGED <<name, hooked, mFile, area, sent, resized, known, starts>>
        /\ UNCHANGED Pictures!clientVars
    BY <1>4, StoresKeep
  <2>1. FilesTyped'
    BY <1>a, <1>b, <2>0 DEF FilesTyped, OthersKept
  <2>2. ClientTyped'  BY <1>a, <2>0 DEF ClientTyped
  <2>3. CASE Pictures!DrawLower \/ Pictures!DrawUpper
    BY <1>a, <1>f, <2>0, <2>1, <2>2, <2>3
       DEF Pictures!DrawLower, Pictures!DrawUpper, MasterTyped, UsedFiles
  <2>4. CASE Pictures!PublishDrawn
    <3>1. target \in Three  BY <2>4, Effects
    <3>2. /\ target' = Pictures!After(target) /\ overlap' = overlap + 1
          /\ mPc = "publish" /\ mPc' = "clear"
          /\ UNCHANGED <<mArea, picture>>
      BY <2>4 DEF Pictures!PublishDrawn
    <3>3. target' \in Three  BY <3>1, <3>2, Turns
    <3>4. MasterTyped' /\ UsedFiles'
      BY <1>a, <2>0, <3>2, <3>3 DEF MasterTyped, UsedFiles
    <3> QED  BY <1>f, <2>0, <2>1, <2>2, <3>4
  <2>5. CASE Pictures!Reset \/ Pictures!PublishBlack \/ Pictures!Black
    <3>1. /\ mArea' \in {mArea, area} /\ overlap' \in {overlap, overlap + 2}
          /\ mPc' \in {"publish", "black", "clear"} /\ mPc \in {"reset", "publish", "black"}
          /\ mPc' = "clear" => mPc = "black"
          /\ target' = target \/ (mPc' = "black" /\ target' = 1)
          /\ mPc' = "black" => target' = 1
          /\ UNCHANGED picture
      BY <2>5 DEF Pictures!Reset, Pictures!PublishBlack, Pictures!Black
    <3>2. MasterTyped'  BY <1>a, <2>0, <3>1, ThreeBuffers DEF MasterTyped
    <3>3. UsedFiles'  BY <1>a, <2>0, <3>1, ThreeBuffers DEF UsedFiles
    <3> QED  BY <1>f, <2>0, <2>1, <2>2, <3>2, <3>3
  <2>6. CASE Pictures!Clear \/ Pictures!CopyLower \/ Pictures!CopyUpper \/ Pictures!PublishCopied
    <3>1. /\ mPc' \in {"hook", "copying", "copied"} /\ mPc \in {"clear", "publish", "copying", "copied"}
          /\ overlap' \in {overlap, overlap + 1} /\ UNCHANGED <<mArea, target, picture>>
      BY <2>6 DEF Pictures!Clear, Pictures!CopyLower, Pictures!CopyUpper, Pictures!PublishCopied
    <3>2. MasterTyped'  BY <1>a, <2>0, <3>1 DEF MasterTyped
    <3>3. UsedFiles'  BY <1>a, <2>0, <3>1 DEF UsedFiles
    <3> QED  BY <1>f, <2>0, <2>1, <2>2, <3>2, <3>3
  <2> QED  BY <1>4, <2>3, <2>4, <2>5, <2>6 DEF Stores
<1>8. CASE Pictures!Hook
  <2>1. FilesTyped' /\ MasterTyped' /\ ClientTyped' /\ UsedFiles' /\ UNCHANGED <<hooked, resized>>
    BY <1>a, <1>8 DEF Pictures!Hook, FilesTyped, MasterTyped, ClientTyped, UsedFiles
  <2> QED  BY <1>f, <2>1
<1>9. CASE Pictures!Deliver
  <2>1. FilesTyped' /\ MasterTyped' /\ ClientTyped' /\ UsedFiles' /\ UNCHANGED <<hooked, resized>>
    BY <1>a, <1>9 DEF Pictures!Deliver, FilesTyped, MasterTyped, ClientTyped, UsedFiles
  <2> QED  BY <1>f, <2>1
<1>10. CASE Pictures!StartClient
  <2>1. FilesTyped' /\ MasterTyped' /\ ClientTyped' /\ UsedFiles' /\ UNCHANGED <<hooked, resized>>
    BY <1>a, <1>b, <1>r, <1>10
       DEF Pictures!StartClient, FilesTyped, MasterTyped, ClientTyped, UsedFiles
  <2> QED  BY <1>f, <2>1
<1>11. CASE Pictures!GiveUp
  <2>1. FilesTyped' /\ MasterTyped' /\ ClientTyped' /\ UsedFiles' /\ UNCHANGED <<hooked, resized>>
    BY <1>a, <1>b, <1>11 DEF Pictures!GiveUp, FilesTyped, MasterTyped, ClientTyped, UsedFiles
  <2> QED  BY <1>f, <2>1
<1>12. CASE Pictures!MapAgain
  <2>0. /\ Pictures!MapFile(Pictures!Bytes(asked)) /\ cFile' = name'
        /\ Pictures!Bytes(asked) \in Nat /\ UNCHANGED mFile
    BY <1>a, <1>12, BytesTyped DEF Pictures!MapAgain, ClientTyped
  <2>1. FilesTyped' /\ cFile' # 0  BY <1>a, <1>b, <2>0, Mapped DEF FilesTyped
  <2>2. MasterTyped' /\ ClientTyped' /\ UsedFiles' /\ UNCHANGED <<hooked, resized>>
    BY <1>a, <1>12, <2>0, <2>1 DEF Pictures!MapAgain, MasterTyped, ClientTyped, UsedFiles
  <2> QED  BY <1>f, <2>1, <2>2
<1>13. CASE Pictures!Keep
  <2>1. FilesTyped' /\ MasterTyped' /\ ClientTyped' /\ UsedFiles' /\ UNCHANGED <<hooked, resized>>
    BY <1>a, <1>13 DEF Pictures!Keep, FilesTyped, MasterTyped, ClientTyped, UsedFiles
  <2> QED  BY <1>f, <2>1
<1>h. cFile # 0 => files[cFile] \in File  BY <1>a, <1>c, ElementOfSeq DEF FilesTyped
<1>14. CASE Pictures!ReadHeader
  <2>0. files[cFile] \in File  BY <1>a, <1>h, <1>14 DEF Pictures!ReadHeader, UsedFiles
  <2>1. seen' \in [area : Areas \cup {0}, flag : Three]
    BY <1>14, <2>0, FileFields DEF Pictures!ReadHeader
  <2>2. overlap' \in Nat  BY <1>14 DEF Pictures!ReadHeader
  <2>3. FilesTyped' /\ MasterTyped' /\ ClientTyped' /\ UsedFiles' /\ UNCHANGED <<hooked, resized>>
    BY <1>a, <1>14, <2>1, <2>2
       DEF Pictures!ReadHeader, FilesTyped, MasterTyped, ClientTyped, UsedFiles
  <2> QED  BY <1>f, <2>3
<1>15. CASE Pictures!ReadLower \/ Pictures!ReadUpper
  <2>0. files[cFile] \in File /\ seen.flag \in Three
    BY <1>a, <1>h, <1>15 DEF Pictures!ReadLower, Pictures!ReadUpper, UsedFiles, ClientTyped
  <2>1. files[cFile].buf[seen.flag][1] \in Nat /\ files[cFile].buf[seen.flag][2] \in Nat
    BY <2>0, FileFields
  <2>2. got' \in Bitmap
    BY <1>a, <1>15, <2>1 DEF Pictures!ReadLower, Pictures!ReadUpper, ClientTyped, Bitmap
  <2>3. FilesTyped' /\ MasterTyped' /\ ClientTyped' /\ UsedFiles' /\ UNCHANGED <<hooked, resized>>
    BY <1>a, <1>15, <2>2
       DEF Pictures!ReadLower, Pictures!ReadUpper, FilesTyped, MasterTyped, ClientTyped, UsedFiles
  <2> QED  BY <1>f, <2>3
<1>16. CASE Pictures!Return
  <2>1. FilesTyped' /\ MasterTyped' /\ ClientTyped' /\ UsedFiles' /\ UNCHANGED <<hooked, resized>>
    BY <1>a, <1>16 DEF Pictures!Return, FilesTyped, MasterTyped, ClientTyped, UsedFiles
  <2> QED  BY <1>f, <2>1
<1>17. CASE UNCHANGED Pictures!vars
  <2>1. FilesTyped' /\ MasterTyped' /\ ClientTyped' /\ UsedFiles' /\ UNCHANGED <<hooked, resized>>
    BY <1>a, <1>17 DEF Pictures!vars, FilesTyped, MasterTyped, ClientTyped, UsedFiles
  <2> QED  BY <1>f, <2>1
<1> QED
  BY <1>1, <1>2, <1>3, <1>4, <1>5, <1>6, <1>7, <1>8, <1>9, <1>10, <1>11, <1>12, <1>13, <1>14, <1>15, <1>16, <1>17
     DEF Pictures!Next, Pictures!Master, Pictures!Client, Stores

-----------------------------------------------------------------------
(* While the camera keeps its resolution: there is one file, of the size   *)
(* for it, and who has mapped a file has mapped that one.                  *)

Sizes == /\ mArea \in {0, area} /\ sent \in {0, area} /\ known \in {0, area}
         /\ asked \in {0, area} /\ seen.area \in {0, area}

OneFile ==
    /\ Len(files) <= 1 /\ name = Len(files) /\ mFile \in {0, name} /\ cFile \in {0, name}
    /\ name # 0 => /\ area # 0 /\ files[name].size = Pictures!Bytes(area)
                   /\ files[name].area \in {0, area}

Mappings ==
    /\ cBytes = (IF cFile = 0 THEN 0 ELSE Pictures!Bytes(area))
    /\ cPc = "map" => cFile = 0 /\ asked = area /\ area # 0
    /\ mPc \in {"map", "reset"} => mArea = 0 /\ target = Pictures!Null
    /\ mPc = "map" => mFile = 0
    /\ mPc \notin {"dead", "map", "reset"} => (mArea = 0 <=> mFile = 0)
    /\ mFile = 0 /\ mPc \notin {"dead", "idle"} => target = Pictures!Null

Fixed == Sizes /\ OneFile /\ Mappings

\* A resolution that has changed stays changed.
LEMMA ResizedStays ==
    ASSUME [Pictures!Next]_(Pictures!vars), ~resized' PROVE ~resized
<1>1. CASE Pictures!StartStream  BY <1>1, Zenon DEF Pictures!StartStream
<1>2. CASE UNCHANGED resized  BY <1>2, Zenon
<1>3. CASE Stores
  <2>1. UNCHANGED resized
    BY <1>3 DEF Stores, Pictures!DrawLower, Pictures!DrawUpper, Pictures!Reset,
       Pictures!PublishDrawn, Pictures!PublishBlack, Pictures!Black, Pictures!Clear,
       Pictures!CopyLower, Pictures!CopyUpper, Pictures!PublishCopied, Zenon
  <2> QED  BY <1>2, <2>1
<1>4. [Pictures!Next]_(Pictures!vars) /\ ~Pictures!StartStream /\ ~Stores => UNCHANGED resized
  BY DEF Pictures!vars, Pictures!Next, Pictures!Master, Pictures!Client, Pictures!masterVars,
         Pictures!StartMaster, Pictures!MasterEnds, Pictures!Unmap, Pictures!Map,
         Pictures!KeepMap, Pictures!Hook, Pictures!Deliver, Pictures!StartClient,
         Pictures!GiveUp, Pictures!MapAgain, Pictures!Keep, Pictures!ReadHeader,
         Pictures!ReadLower, Pictures!ReadUpper, Pictures!Return, Stores
<1> QED  BY <1>1, <1>2, <1>3, <1>4

LEMMA FixedStep ==
    ASSUME PicturesTyped, [Pictures!Next]_(Pictures!vars), ~resized', Fixed PROVE Fixed'
<1>a. FilesTyped /\ MasterTyped /\ ClientTyped /\ FlagsTyped /\ UsedFiles
  BY TypeParts DEF PicturesTyped
<1>b. /\ files \in Seq(File) /\ Len(files) \in Nat
      /\ mFile # 0 => mFile \in 1 .. Len(files)
      /\ cFile # 0 => cFile \in 1 .. Len(files)
  BY <1>a, LenProperties DEF FilesTyped
<1>c. /\ area \in Nat /\ mArea \in Nat /\ known \in Nat /\ cBytes \in Nat
      /\ Pictures!Bytes(area) \in Nat \ {0} /\ Pictures!Bytes(area) = 3 * area + 12
  BY <1>a, BytesTyped DEF MasterTyped, ClientTyped
<1> USE DEF Pictures!fileVars, Pictures!clientVars, Pictures!masterVars, Pictures!At, Pictures!Go,
            Sizes, OneFile, Mappings, Fixed
<1>1. CASE Pictures!StartStream
  <2>1. area = 0 \/ area' = area  BY <1>1, Zenon DEF Pictures!StartStream
  <2>2. area' \in Areas /\ area' # 0  BY <1>1, AreasAssumption DEF Pictures!StartStream
  <2> QED  BY <1>a, <1>1, <2>1, <2>2 DEF Pictures!StartStream, UsedFiles
<1>2. CASE Pictures!StartMaster \/ Pictures!MasterEnds \/ Pictures!Hook \/ Pictures!Deliver
  BY <1>a, <1>2
     DEF Pictures!StartMaster, Pictures!MasterEnds, Pictures!Hook, Pictures!Deliver, UsedFiles
<1>3. CASE Pictures!Unmap \/ Pictures!KeepMap
  BY <1>a, <1>c, <1>3 DEF Pictures!Unmap, Pictures!KeepMap, UsedFiles
<1>4. CASE Pictures!Map
  <2>1. Pictures!MapFile(Pictures!Bytes(area)) /\ mFile' = name'
    BY <1>4 DEF Pictures!Map
  <2>2. name \in 0 .. Len(files)  BY <1>a DEF FilesTyped
  <2>3. /\ Len(files') <= 1 /\ name' = Len(files') /\ name' # 0
        /\ files'[name'].size = Pictures!Bytes(area) /\ files'[name'].area \in {0, area}
        /\ name # 0 => name' = name
    BY <1>b, <1>c, <2>1, <2>2, Mapped, NewFileTyped
  <2> QED  BY <1>a, <1>4, <2>1, <2>3 DEF Pictures!Map, UsedFiles
<1>5. CASE Stores
  <2>1. /\ UNCHANGED files \/ (mFile # 0 /\ OthersKept)
        /\ UNCHANGED <<name, hooked, mFile, area, sent, resized, known, starts>>
        /\ UNCHANGED Pictures!clientVars
    BY <1>5, StoresKeep
  <2>2. /\ mFile # 0 /\ OthersKept => files'[mFile].size = files[mFile].size
        /\ mFile # 0 /\ OthersKept => files'[mFile].area \in {files[mFile].area, area}
    BY <1>5, Effects DEF Stores, Wrote, Cleared, Headed
  <2>3. OneFile'  BY <2>1, <2>2 DEF OthersKept
  <2>4. Sizes' /\ Mappings'
    BY <1>a, <1>5, <2>1 DEF Stores, Pictures!DrawLower, Pictures!DrawUpper, Pictures!Reset,
       Pictures!PublishDrawn, Pictures!PublishBlack, Pictures!Black, Pictures!Clear,
       Pictures!CopyLower, Pictures!CopyUpper, Pictures!PublishCopied, UsedFiles
  <2> QED  BY <2>3, <2>4
<1>6. CASE Pictures!StartClient \/ Pictures!GiveUp \/ Pictures!Keep
  BY <1>a, <1>c, <1>6 DEF Pictures!StartClient, Pictures!GiveUp, Pictures!Keep
<1>7. CASE Pictures!MapAgain
  <2>1. Pictures!MapFile(Pictures!Bytes(area)) /\ cFile' = name' /\ cFile = 0 /\ area # 0
    BY <1>7 DEF Pictures!MapAgain
  <2>2. name \in 0 .. Len(files)  BY <1>a DEF FilesTyped
  <2>3. /\ Len(files') <= 1 /\ name' = Len(files') /\ name' # 0
        /\ files'[name'].size = Pictures!Bytes(area) /\ files'[name'].area \in {0, area}
        /\ name # 0 => name' = name
    BY <1>b, <1>c, <2>1, <2>2, Mapped, NewFileTyped
  <2> QED  BY <1>a, <1>7, <2>1, <2>3 DEF Pictures!MapAgain
<1>8. CASE Pictures!ReadHeader
  <2>1. cFile = name /\ name # 0  BY <1>a, <1>8 DEF Pictures!ReadHeader, UsedFiles
  <2>2. seen'.area \in {0, area} /\ cPc' \in {"idle", "lower"}
    BY <1>8, <2>1 DEF Pictures!ReadHeader
  <2> QED  BY <1>8, <2>2 DEF Pictures!ReadHeader
<1>9. CASE Pictures!ReadLower \/ Pictures!ReadUpper \/ Pictures!Return \/ UNCHANGED Pictures!vars
  BY <1>9 DEF Pictures!ReadLower, Pictures!ReadUpper, Pictures!Return, Pictures!vars
<1> QED
  BY <1>1, <1>2, <1>3, <1>4, <1>5, <1>6, <1>7, <1>8, <1>9
     DEF Pictures!Next, Pictures!Master, Pictures!Client, Stores

-----------------------------------------------------------------------
(* The master's turns: what it draws next goes to the buffer after the     *)
(* current one, and whatever the flag names is complete.                   *)

Turn ==
    /\ target \in Three /\ mPc \notin {"dead", "idle"} =>
         target = Pictures!After(files[mFile].flag)
    /\ mPc \in {"copying", "copied"} => target = Pictures!Gui
    /\ mPc \in {"clear", "hook"} => target # Pictures!Null
    /\ mPc = "black" => files[mFile].flag = 0

Halves(file, b) == file.buf[b][1] = file.buf[b][2]

Complete ==
    /\ mPc \in {"drawn", "publish"} /\ target \in Three => Halves(files[mFile], target)
    /\ mPc = "drawing" /\ target \in Three => files[mFile].buf[target][1] = picture
    /\ mPc = "copying" => files[mFile].buf[Pictures!After(files[mFile].flag)][1] = picture
    /\ mPc = "copied" => Halves(files[mFile], Pictures!After(files[mFile].flag))
    /\ mFile # 0 /\ target # Pictures!Null /\ mPc # "black" =>
         Halves(files[mFile], files[mFile].flag)

\* What the master has mapped is what it was for whoever has not stored into it.
LEMMA MappedKept ==
    ASSUME PicturesTyped, Fixed, Pictures!MapAgain
    PROVE  UNCHANGED mFile /\ (mFile # 0 => /\ files'[mFile].flag = files[mFile].flag
                                            /\ files'[mFile].buf = files[mFile].buf)
<1>a. FilesTyped  BY TypeParts DEF PicturesTyped
<1>1. /\ Pictures!MapFile(Pictures!Bytes(asked)) /\ UNCHANGED mFile
      /\ files \in Seq(File) /\ name \in 0 .. Len(files)
      /\ mFile \in {0, name} /\ Pictures!Bytes(asked) \in Nat
  BY <1>a, TypeParts, BytesTyped
     DEF Pictures!MapAgain, Pictures!masterVars, FilesTyped, Fixed, OneFile, PicturesTyped, ClientTyped
<1> QED  BY <1>1, Mapped

\* A mapping is never too small.
LEMMA NothingToUnmap ==
    ASSUME PicturesTyped, Fixed, Pictures!Unmap PROVE mFile = 0 /\ target = Pictures!Null
<1>1. mArea \in {0, area} /\ area > mArea /\ mPc = "drawn"
  BY DEF Pictures!Unmap, Pictures!At, Fixed, Sizes
<1>a. area \in Nat  BY TypeParts, BytesTyped DEF PicturesTyped, MasterTyped
<1>2. mArea = 0  BY <1>1, <1>a
<1> QED  BY <1>1, <1>2 DEF Fixed, Mappings

LEMMA TurnStep ==
    ASSUME PicturesTyped, [Pictures!Next]_(Pictures!vars), Fixed, Turn PROVE Turn'
<1>a. FilesTyped /\ MasterTyped /\ ClientTyped /\ FlagsTyped /\ UsedFiles
  BY TypeParts DEF PicturesTyped
<1>b. mFile # 0 => /\ files[mFile].flag \in Three
                   /\ Pictures!After(files[mFile].flag) \in Three
  <2>1. mFile # 0 => files[mFile] \in File
    BY <1>a, LenProperties, ElementOfSeq DEF FilesTyped
  <2> QED  BY <2>1, FileFields, Turns
<1> USE ThreeBuffers DEF Pictures!At, Pictures!Go, Turn
<1>1. CASE Pictures!StartMaster \/ Pictures!MasterEnds \/ Pictures!StartStream
  BY <1>1 DEF Pictures!StartMaster, Pictures!MasterEnds, Pictures!StartStream
<1>u. CASE Pictures!Unmap
  BY <1>a, <1>u, NothingToUnmap DEF Pictures!Unmap
<1>2. CASE Pictures!KeepMap \/ Pictures!Hook \/ Pictures!Deliver \/ UNCHANGED Pictures!vars
  BY <1>2 DEF Pictures!KeepMap, Pictures!Hook, Pictures!Deliver,
     Pictures!vars, Pictures!fileVars, Pictures!masterVars
<1>3. CASE Pictures!Map
  BY <1>3 DEF Pictures!Map, Fixed, Mappings
<1>4. CASE Pictures!DrawLower \/ Pictures!DrawUpper \/ Pictures!CopyLower \/ Pictures!CopyUpper
           \/ Pictures!Clear
  <2>1. mFile # 0 /\ files' # files => files'[mFile].flag = files[mFile].flag
    BY <1>4, Effects DEF Wrote, Cleared
  <2>2. /\ UNCHANGED <<mFile, target>>
        /\ mPc' \in {"drawing", "drawn", "copying", "copied", "hook"}
        /\ mPc \in {"draw", "drawing", "publish", "copying", "clear"}
        /\ mPc' = "hook" => target \in Three
        /\ mPc' \in {"copying", "copied"} => target = Pictures!Gui
    <3>1. CASE Pictures!CopyLower
      <4>1. target # Pictures!Null /\ target # Pictures!After(files[mFile].flag)
            /\ mPc = "publish" /\ mPc' = "copying" /\ UNCHANGED <<mFile, target>>
        BY <3>1 DEF Pictures!CopyLower
      <4> QED  BY <1>a, <4>1 DEF MasterTyped
    <3>2. CASE ~Pictures!CopyLower
      BY <1>4, <3>2, Effects
         DEF Pictures!DrawLower, Pictures!DrawUpper, Pictures!CopyUpper, Pictures!Clear
    <3> QED  BY <3>1, <3>2
  <2>3. target \in Three => mFile # 0
    BY <1>a, <2>2 DEF UsedFiles
  <2> QED  BY <2>1, <2>2, <2>3
<1>5. CASE Pictures!Reset
  <2>1. mPc = "reset" /\ mPc' = "publish" /\ UNCHANGED <<mFile, target>>
    BY <1>5 DEF Pictures!Reset
  <2> QED  BY <2>1 DEF Fixed, Mappings
<1>6. CASE Pictures!PublishDrawn
  <2>1. /\ target' = Pictures!After(target) /\ mPc' = "clear" /\ UNCHANGED mFile
        /\ mFile # 0 /\ target \in Three /\ files'[mFile].flag = target
    BY <1>6, Effects DEF Pictures!PublishDrawn, Headed
  <2> QED  BY <2>1, Turns
<1>7. CASE Pictures!PublishBlack
  <2>1. /\ target' = 1 /\ mPc' = "black" /\ UNCHANGED mFile
        /\ mFile # 0 /\ files'[mFile].flag = 0
    BY <1>7, Effects DEF Pictures!PublishBlack, Headed
  <2> QED  BY <2>1, Turns
<1>8. CASE Pictures!Black
  <2>1. /\ mPc = "black" /\ mPc' = "clear" /\ UNCHANGED <<mFile, target>> /\ target = 1
        /\ mFile # 0 /\ files'[mFile].flag = files[mFile].flag
    BY <1>a, <1>8, Effects DEF Pictures!Black, Cleared, UsedFiles
  <2> QED  BY <2>1
<1>9. CASE Pictures!PublishCopied
  <2>1. mPc = "copied" /\ mPc' = "hook" /\ UNCHANGED <<mFile, target>>
    BY <1>9 DEF Pictures!PublishCopied
  <2> QED  BY <2>1
<1>10. CASE Pictures!MapAgain
  <2>1. UNCHANGED <<mPc, target>>  BY <1>10 DEF Pictures!MapAgain, Pictures!masterVars
  <2>2. target \in Three /\ mPc \notin {"dead", "idle"} => mFile # 0
    BY DEF Fixed, Mappings
  <2>3. mPc = "black" => mFile # 0  BY <1>a DEF UsedFiles
  <2> QED  BY <1>10, <2>1, <2>2, <2>3, MappedKept
<1>11. CASE UNCHANGED <<files, Pictures!masterVars>>
  BY <1>11 DEF Pictures!masterVars
<1>12. CASE Pictures!Client /\ ~Pictures!MapAgain
  BY <1>11, <1>12 DEF Pictures!Client, Pictures!StartClient, Pictures!GiveUp, Pictures!Keep,
     Pictures!ReadHeader, Pictures!ReadLower, Pictures!ReadUpper, Pictures!Return,
     Pictures!fileVars
<1> QED
  BY <1>1, <1>u, <1>2, <1>3, <1>4, <1>5, <1>6, <1>7, <1>8, <1>9, <1>10, <1>12
     DEF Pictures!Next, Pictures!Master

LEMMA CompleteStep ==
    ASSUME PicturesTyped, [Pictures!Next]_(Pictures!vars), Fixed, Turn, Complete PROVE Complete'
<1>a. FilesTyped /\ MasterTyped /\ ClientTyped /\ FlagsTyped /\ UsedFiles
  BY TypeParts DEF PicturesTyped
<1>b. mFile # 0 => /\ files[mFile].flag \in Three
                   /\ Pictures!After(files[mFile].flag) \in Three
                   /\ Pictures!After(files[mFile].flag) # files[mFile].flag
  <2>1. mFile # 0 => files[mFile] \in File
    BY <1>a, LenProperties, ElementOfSeq DEF FilesTyped
  <2> QED  BY <2>1, FileFields, Turns
<1> USE ThreeBuffers DEF Pictures!At, Pictures!Go, Complete, Halves
<1>1. CASE Pictures!StartMaster \/ Pictures!MasterEnds \/ Pictures!StartStream
  BY <1>1 DEF Pictures!StartMaster, Pictures!MasterEnds, Pictures!StartStream
<1>u. CASE Pictures!Unmap
  BY <1>a, <1>u, NothingToUnmap DEF Pictures!Unmap
<1>2. CASE Pictures!KeepMap \/ Pictures!Hook \/ Pictures!Deliver \/ UNCHANGED Pictures!vars
  BY <1>a, <1>2 DEF Pictures!KeepMap, Pictures!Hook, Pictures!Deliver, UsedFiles, Turn,
     Pictures!vars, Pictures!fileVars, Pictures!masterVars
<1>3. CASE Pictures!Map
  BY <1>3 DEF Pictures!Map, Fixed, Mappings
<1>4. CASE Pictures!DrawLower
  <2>1. mPc = "draw" /\ mPc' = "drawing" /\ UNCHANGED <<mFile, target>>
    BY <1>4 DEF Pictures!DrawLower
  <2>2. CASE target \in Three
    <3>1. mFile # 0 /\ Wrote(target, 1, picture')  BY <1>4, <2>2, Effects
    <3>2. target # files[mFile].flag  BY <1>b, <2>1, <2>2, <3>1 DEF Turn
    <3> QED  BY <1>b, <2>1, <2>2, <3>1, <3>2 DEF Wrote
  <2>3. CASE target \notin Three
    BY <1>4, <2>1, <2>3, Effects
  <2> QED  BY <2>2, <2>3
<1>5. CASE Pictures!DrawUpper
  <2>1. mPc = "drawing" /\ mPc' = "drawn" /\ UNCHANGED <<mFile, target, picture>>
    BY <1>5 DEF Pictures!DrawUpper
  <2>2. CASE target \in Three
    <3>1. mFile # 0 /\ Wrote(target, 2, picture)  BY <1>5, <2>2, Effects
    <3>2. target # files[mFile].flag  BY <1>b, <2>1, <2>2, <3>1 DEF Turn
    <3> QED  BY <1>b, <2>1, <2>2, <3>1, <3>2 DEF Wrote
  <2>3. CASE target \notin Three
    BY <1>5, <2>1, <2>3, Effects
  <2> QED  BY <2>2, <2>3
<1>6. CASE Pictures!Reset
  BY <1>6 DEF Pictures!Reset, Fixed, Mappings
<1>7. CASE Pictures!PublishDrawn
  <2>1. /\ mPc = "publish" /\ mPc' = "clear" /\ UNCHANGED mFile
        /\ mFile # 0 /\ target \in Three /\ Headed(target, area)
    BY <1>7, Effects DEF Pictures!PublishDrawn
  <2> QED  BY <2>1 DEF Headed
<1>8. CASE Pictures!PublishBlack
  BY <1>8 DEF Pictures!PublishBlack
<1>9. CASE Pictures!Black
  <2>1. /\ mPc = "black" /\ mPc' = "clear" /\ UNCHANGED <<mFile, target>>
        /\ mFile # 0 /\ Cleared(0) /\ files[mFile].flag = 0
    BY <1>a, <1>9, Effects DEF Pictures!Black, Turn
  <2> QED  BY <2>1 DEF Cleared
<1>10. CASE Pictures!Clear
  <2>1. /\ mPc = "clear" /\ mPc' = "hook" /\ UNCHANGED <<mFile, target>>
        /\ mFile # 0 /\ target \in Three /\ Cleared(target)
    BY <1>10, Effects DEF Pictures!Clear
  <2>2. target # files[mFile].flag  BY <1>b, <2>1 DEF Turn
  <2> QED  BY <1>b, <2>1, <2>2 DEF Cleared
<1>11. CASE Pictures!CopyLower
  <2>1. /\ mPc = "publish" /\ mPc' = "copying" /\ UNCHANGED <<mFile, target, picture>>
        /\ mFile # 0 /\ Wrote(Pictures!After(files[mFile].flag), 1, picture)
    BY <1>11, Effects DEF Pictures!CopyLower
  <2> QED  BY <1>b, <2>1 DEF Wrote
<1>12. CASE Pictures!CopyUpper
  <2>1. /\ mPc = "copying" /\ mPc' = "copied" /\ UNCHANGED <<mFile, target, picture>>
        /\ mFile # 0 /\ Wrote(Pictures!After(files[mFile].flag), 2, picture)
    BY <1>12, Effects DEF Pictures!CopyUpper
  <2> QED  BY <1>b, <2>1 DEF Wrote
<1>13. CASE Pictures!PublishCopied
  <2>1. /\ mPc = "copied" /\ mPc' = "hook" /\ UNCHANGED <<mFile, target>>
        /\ mFile # 0 /\ Headed(Pictures!After(files[mFile].flag), area)
    BY <1>13, Effects DEF Pictures!PublishCopied
  <2> QED  BY <1>b, <2>1 DEF Headed
<1>14. CASE Pictures!MapAgain
  <2>1. UNCHANGED <<mPc, target, picture>>
    BY <1>14 DEF Pictures!MapAgain, Pictures!masterVars
  <2>2. /\ target \in Three /\ mPc \notin {"dead", "idle"} => mFile # 0
        /\ mPc \in {"copying", "copied"} => mFile # 0
    BY <1>a DEF Fixed, Mappings, UsedFiles
  <2> QED  BY <1>14, <2>1, <2>2, MappedKept
<1>15. CASE UNCHANGED <<files, Pictures!masterVars>>
  BY <1>15 DEF Pictures!masterVars
<1>16. CASE Pictures!Client /\ ~Pictures!MapAgain
  BY <1>15, <1>16 DEF Pictures!Client, Pictures!StartClient, Pictures!GiveUp, Pictures!Keep,
     Pictures!ReadHeader, Pictures!ReadLower, Pictures!ReadUpper, Pictures!Return,
     Pictures!fileVars
<1> QED
  BY <1>1, <1>u, <1>2, <1>3, <1>4, <1>5, <1>6, <1>7, <1>8, <1>9, <1>10, <1>11, <1>12, <1>13,
     <1>14, <1>16
     DEF Pictures!Next, Pictures!Master

-----------------------------------------------------------------------
(* A client's copy: the buffer it reads is complete, and the master comes  *)
(* to it only after two more publications.                                 *)

\* The master draws into no buffer before the flag has been stored anew.
Starting == mPc \in {"dead", "idle", "black"} \/ target = Pictures!Null

Reading ==
    cPc \in {"lower", "upper", "copied"} /\ overlap < 2 =>
        /\ overlap = 0 => seen.flag = files[cFile].flag \/ Starting
        /\ overlap = 1 => Pictures!After(seen.flag) = files[cFile].flag \/ Starting
        /\ cPc # "copied" => Halves(files[cFile], seen.flag)
        /\ cPc = "upper" => got[1] = files[cFile].buf[seen.flag][1]
        /\ cPc = "copied" => got[1] = got[2]

LEMMA ReadingStep ==
    ASSUME PicturesTyped, [Pictures!Next]_(Pictures!vars), Fixed, Turn, Reading PROVE Reading'
<1>a. FilesTyped /\ MasterTyped /\ ClientTyped /\ FlagsTyped /\ UsedFiles
  BY TypeParts DEF PicturesTyped
<1>b. overlap \in Nat /\ seen.flag \in Three /\ got \in Bitmap
  BY <1>a DEF MasterTyped, ClientTyped
<1>c. /\ cPc \in {"header", "lower", "upper", "copied"} => cFile # 0
      /\ cFile # 0 /\ mFile # 0 => cFile = mFile
  BY <1>a DEF UsedFiles, Fixed, OneFile
<1>d. /\ Pictures!After(seen.flag) \in Three /\ Pictures!After(seen.flag) # seen.flag
      /\ Pictures!After(Pictures!After(seen.flag)) # seen.flag
  BY <1>b, Turns
<1> USE ThreeBuffers DEF Pictures!At, Pictures!Go
\* It is not there yet, or has lost the race.
<1>1. CASE cPc' \notin {"lower", "upper", "copied"} \/ overlap' >= 2
  <2>1. overlap' \in Nat
    BY PicturesStepTyped, TypeParts2 DEF PicturesTyped, MasterTyped
  <2> QED  BY <1>1, <2>1 DEF Reading
<1>2. SUFFICES ASSUME cPc' \in {"lower", "upper", "copied"}, overlap' < 2
               PROVE  Reading'
  <2>1. overlap' \in Nat
    BY PicturesStepTyped, TypeParts2 DEF PicturesTyped, MasterTyped
  <2> QED  BY <1>1, <1>2, <2>1
\* The buffer that is copied stays, and so does the flag, where it matters.
<1>3. ASSUME UNCHANGED <<cFile, cPc, seen, got, overlap>>,
             files'[cFile].buf[seen.flag] = files[cFile].buf[seen.flag],
             Starting' \/ (~Starting /\ files'[cFile].flag = files[cFile].flag)
      PROVE  Reading'
  BY <1>2, <1>3, <1>b DEF Reading, Halves
\* The buffer that is copied stays, and the flag is moved on by one.
<1>4. ASSUME UNCHANGED <<cFile, cPc, seen, got>>, overlap' = overlap + 1, ~Starting,
             files'[cFile].buf[seen.flag] = files[cFile].buf[seen.flag],
             files'[cFile].flag = Pictures!After(files[cFile].flag)
      PROVE  Reading'
  BY <1>2, <1>4, <1>b DEF Reading, Halves
<1>m. CASE UNCHANGED Pictures!clientVars
  <2>u. /\ UNCHANGED <<cFile, cPc, seen, got>> /\ cFile # 0
        /\ cPc \in {"lower", "upper", "copied"}
    BY <1>m, <1>2, <1>c DEF Pictures!clientVars
  <2>r. overlap < 2 /\ ~Starting => /\ Pictures!After(files[cFile].flag) # seen.flag
                                   /\ files[cFile].flag \in Three
    BY <2>u, <1>b, <1>d, Turns DEF Reading
  \* The master stores into the buffer after the current one only.
  <2>s. ASSUME mFile # 0, overlap' \in {overlap, overlap + 1}, ~Starting,
               \/ \E h \in {1, 2} : \E what : Wrote(Pictures!After(files[mFile].flag), h, what)
               \/ Cleared(Pictures!After(files[mFile].flag))
               \/ \E b, a : Headed(b, a)
        PROVE  files'[cFile].buf[seen.flag] = files[cFile].buf[seen.flag]
    <3>1. cFile = mFile /\ overlap < 2  BY <2>s, <2>u, <1>b, <1>c, <1>2
    <3> QED  BY <2>s, <2>r, <1>b, <3>1 DEF Wrote, Cleared, Headed
  <2>1. CASE UNCHANGED files /\ UNCHANGED overlap /\ (Starting' \/ ~Starting)
    BY <1>3, <2>1, <2>u
  <2>2. CASE \/ Pictures!StartMaster \/ Pictures!MasterEnds \/ Pictures!StartStream
             \/ Pictures!Unmap \/ Pictures!KeepMap \/ Pictures!Hook \/ Pictures!Deliver
             \/ UNCHANGED Pictures!vars
    BY <2>1, <2>2 DEF Pictures!StartMaster, Pictures!MasterEnds, Pictures!StartStream,
       Pictures!Unmap, Pictures!KeepMap, Pictures!Hook, Pictures!Deliver, Pictures!vars,
       Pictures!fileVars, Pictures!masterVars, Starting, Turn
  <2>3. CASE Pictures!Map
    <3>1. /\ Pictures!MapFile(Pictures!Bytes(area)) /\ UNCHANGED overlap
          /\ mPc' = "reset" /\ target' = Pictures!Null
          /\ files \in Seq(File) /\ name \in 0 .. Len(files) /\ cFile = name
          /\ Pictures!Bytes(area) \in Nat
      BY <2>3, <2>u, <1>a, BytesTyped
         DEF Pictures!Map, FilesTyped, MasterTyped, Fixed, OneFile, Mappings
    <3>2. files'[cFile].buf = files[cFile].buf  BY <3>1, <2>u, Mapped
    <3> QED  BY <1>3, <2>u, <3>1, <3>2 DEF Starting
  <2>4. CASE Pictures!DrawLower \/ Pictures!DrawUpper
    <3>1. /\ UNCHANGED <<overlap, target>> /\ mPc \in {"draw", "drawing"}
          /\ mPc' \in {"drawing", "drawn"}
      BY <2>4 DEF Pictures!DrawLower, Pictures!DrawUpper
    <3>2. CASE target \in Three
      <4>1. /\ mFile # 0 /\ target = Pictures!After(files[mFile].flag) /\ ~Starting
            /\ \E h \in {1, 2} : \E what : Wrote(Pictures!After(files[mFile].flag), h, what)
        BY <2>4, <3>1, <3>2, Effects DEF Starting, Turn
      <4> QED  BY <4>1, <3>1, <2>s, <2>u, <1>3, <1>c DEF Wrote
    <3>3. CASE target \notin Three
      BY <2>4, <3>1, <3>3, <2>1, Effects DEF Starting
    <3> QED  BY <3>2, <3>3
  <2>5. CASE Pictures!Reset \/ Pictures!PublishBlack
    <3>1. /\ UNCHANGED overlap /\ Starting' /\ mFile # 0 /\ \E b, a : Headed(b, a)
      BY <2>5, Effects
         DEF Pictures!Reset, Pictures!PublishBlack, Starting, Fixed, Mappings
    <3> QED  BY <3>1, <1>3, <2>u, <1>c DEF Headed
  <2>6. CASE Pictures!Black
    BY <2>6, <1>b, <1>2 DEF Pictures!Black
  <2>7. CASE Pictures!Clear \/ Pictures!CopyLower \/ Pictures!CopyUpper
    <3>1. /\ UNCHANGED overlap /\ mFile # 0 /\ ~Starting
          /\ \/ \E h \in {1, 2} : \E what : Wrote(Pictures!After(files[mFile].flag), h, what)
             \/ Cleared(Pictures!After(files[mFile].flag))
      BY <2>7, Effects
         DEF Pictures!Clear, Pictures!CopyLower, Pictures!CopyUpper, Starting, Turn
    <3> QED  BY <3>1, <1>3, <2>s, <2>u, <1>c DEF Wrote, Cleared
  <2>8. CASE Pictures!PublishDrawn \/ Pictures!PublishCopied
    <3>1. /\ overlap' = overlap + 1 /\ mFile # 0 /\ ~Starting
          /\ \E a : Headed(Pictures!After(files[mFile].flag), a)
      BY <2>8, Effects DEF Pictures!PublishDrawn, Pictures!PublishCopied, Starting, Turn
    <3> QED  BY <3>1, <1>4, <2>s, <2>u, <1>c DEF Headed
  <2>9. CASE Pictures!Client
    <3>1. cPc' # cPc \/ cPc = "idle" \/ cPc = "dead"
      BY <2>9 DEF Pictures!Client, Pictures!StartClient, Pictures!GiveUp, Pictures!MapAgain,
         Pictures!Keep, Pictures!ReadHeader, Pictures!ReadLower, Pictures!ReadUpper,
         Pictures!Return
    <3> QED  BY <3>1, <2>u
  <2> QED
    BY <2>2, <2>3, <2>4, <2>5, <2>6, <2>7, <2>8, <2>9 DEF Pictures!Next, Pictures!Master
<1>5. CASE Pictures!ReadHeader
  <2>1. /\ cPc = "header" /\ UNCHANGED <<files, cFile, mPc, target>> /\ cPc' = "lower"
        /\ seen'.flag = files[cFile].flag
        /\ overlap' = (IF Pictures!Whole(files[cFile]) THEN 0 ELSE 2)
    BY <1>5, <1>2 DEF Pictures!ReadHeader, Pictures!fileVars, Pictures!masterVars
  <2>2. overlap' = 0 /\ Pictures!Whole(files[cFile])  BY <2>1, <1>2
  <2> QED  BY <2>1, <2>2 DEF Reading, Pictures!Whole, Halves
<1>6. CASE Pictures!ReadLower
  <2>1. /\ cPc = "lower" /\ cPc' = "upper" /\ UNCHANGED <<files, cFile, mPc, target, seen, overlap>>
        /\ got' = [got EXCEPT ![1] = files[cFile].buf[seen.flag][1]]
    BY <1>6 DEF Pictures!ReadLower, Pictures!fileVars, Pictures!masterVars
  <2>2. got'[1] = files[cFile].buf[seen.flag][1]  BY <2>1, <1>b DEF Bitmap
  <2> QED  BY <2>1, <2>2, <1>2 DEF Reading, Halves, Starting
<1>7. CASE Pictures!ReadUpper
  <2>1. /\ cPc = "upper" /\ cPc' = "copied" /\ UNCHANGED <<files, cFile, mPc, target, seen, overlap>>
        /\ got' = [got EXCEPT ![2] = files[cFile].buf[seen.flag][2]]
    BY <1>7 DEF Pictures!ReadUpper, Pictures!fileVars, Pictures!masterVars
  <2>2. got'[1] = got[1] /\ got'[2] = files[cFile].buf[seen.flag][2]  BY <2>1, <1>b DEF Bitmap
  <2> QED  BY <2>1, <2>2, <1>2 DEF Reading, Halves, Starting
<1>8. CASE Pictures!StartClient \/ Pictures!GiveUp \/ Pictures!MapAgain \/ Pictures!Keep
           \/ Pictures!Return
  BY <1>2, <1>8 DEF Pictures!StartClient, Pictures!GiveUp, Pictures!MapAgain, Pictures!Keep,
     Pictures!Return
<1>9. UNCHANGED Pictures!clientVars \/ Pictures!Client
  <2>1. CASE Stores  BY <2>1, StoresKeep
  <2>2. CASE Pictures!Master /\ ~Stores
    BY <2>2 DEF Pictures!Master, Stores, Pictures!StartMaster, Pictures!MasterEnds,
       Pictures!StartStream, Pictures!Unmap, Pictures!Map, Pictures!KeepMap, Pictures!Hook
  <2>3. CASE Pictures!Deliver \/ UNCHANGED Pictures!vars
    BY <2>3 DEF Pictures!Deliver, Pictures!vars
  <2> QED  BY <2>1, <2>2, <2>3 DEF Pictures!Next
<1> QED  BY <1>m, <1>5, <1>6, <1>7, <1>8, <1>9 DEF Pictures!Client

-----------------------------------------------------------------------
\* The inductive invariant of the pictures.
PicturesInv == PicturesTyped /\ (~resized => Fixed /\ Turn /\ Complete /\ Reading)

LEMMA PicturesStep == PicturesInv /\ [Pictures!Next]_(Pictures!vars) => PicturesInv'
<1> SUFFICES ASSUME PicturesInv, [Pictures!Next]_(Pictures!vars) PROVE PicturesInv'
  OBVIOUS
<1>1. PicturesTyped'  BY PicturesStepTyped DEF PicturesInv
<1>2. ASSUME ~resized' PROVE Fixed' /\ Turn' /\ Complete' /\ Reading'
  <2>1. ~resized  BY <1>2, ResizedStays
  <2>2. PicturesTyped /\ Fixed /\ Turn /\ Complete /\ Reading  BY <2>1 DEF PicturesInv
  <2> QED  BY <1>2, <2>2, FixedStep, TurnStep, CompleteStep, ReadingStep
<1> QED  BY <1>1, <1>2 DEF PicturesInv

LEMMA PicturesInit == Pictures!Init => PicturesInv
<1> SUFFICES ASSUME Pictures!Init PROVE PicturesInv
  OBVIOUS
<1>1. PicturesTyped  BY PicturesInitTyped
<1>2. Fixed /\ Turn /\ Complete /\ Reading
  BY ThreeBuffers, EmptySeq
     DEF Pictures!Init, Fixed, Sizes, OneFile, Mappings, Turn, Complete, Reading
<1> QED  BY <1>1, <1>2 DEF PicturesInv

LEMMA PicturesSound == PicturesInv => PicturesSeen
<1> SUFFICES ASSUME PicturesInv, ~resized PROVE PicturesSeen
  BY DEF PicturesSeen, Pictures!SameFile, Pictures!ReadInside, Pictures!CurrentWhole,
         Pictures!OnePicture
<1>a. /\ PicturesTyped /\ Fixed /\ Turn /\ Complete /\ Reading
      /\ MasterTyped /\ ClientTyped /\ FilesTyped /\ UsedFiles
  BY TypeParts DEF PicturesInv, PicturesTyped
<1>1. Pictures!SameFile  BY <1>a DEF Pictures!SameFile, Fixed, OneFile
<1>2. Pictures!ReadInside
  <2> SUFFICES ASSUME cPc \in {"lower", "upper"} PROVE Pictures!Inside
    BY DEF Pictures!ReadInside
  <2>1. /\ cFile # 0 /\ cBytes = Pictures!Bytes(area) /\ files[cFile].size = Pictures!Bytes(area)
        /\ seen.area \in {0, area} /\ seen.flag \in 0 .. 2 /\ area \in Areas \cup {0}
    BY <1>a, ThreeBuffers
       DEF UsedFiles, Fixed, OneFile, Mappings, Sizes, ClientTyped, MasterTyped
  <2>2. area \in Nat /\ Pictures!Bytes(area) = 3 * area + 12  BY <2>1, BytesTyped
  <2>3. Pictures!Header = 12  BY DEF Pictures!Header
  <2>4. 12 + (seen.flag + 1) * seen.area <= 3 * area + 12
    <3>1. CASE seen.flag = 0  BY <2>1, <2>2, <3>1
    <3>2. CASE seen.flag = 1  BY <2>1, <2>2, <3>2
    <3>3. CASE seen.flag = 2  BY <2>1, <2>2, <3>3
    <3> QED  BY <2>1, <3>1, <3>2, <3>3
  <2> QED  BY <2>1, <2>2, <2>3, <2>4 DEF Pictures!Inside
<1>3. Pictures!CurrentWhole
  BY <1>a DEF Pictures!CurrentWhole, Pictures!Whole, Complete, Halves
<1>4. Pictures!OnePicture
  <2> SUFFICES ASSUME cPc = "copied", overlap < 2 PROVE got[1] = got[2]
    BY DEF Pictures!OnePicture
  <2> QED  BY <1>a DEF Reading
<1> QED  BY <1>1, <1>2, <1>3, <1>4 DEF PicturesSeen

\* While the camera keeps its resolution: client and master map the same file, a copy
\* stays inside it, the current picture is complete, and a copy is of one picture
\* unless the master has gone round meanwhile (ipc_utils.c:279-296, ltlib.c:433-441,
\* ltlib_int.c:59-77); for any resolutions, and any number of pictures, sessions and
\* restarts of either side.
THEOREM PicturesAlwaysSeen == Pictures!Spec => []PicturesSeen
<1>1. PicturesInv /\ [Pictures!Next]_(Pictures!vars) => PicturesInv'
  BY PicturesStep
<1> QED  BY <1>1, PicturesInit, PicturesSound, PTL DEF Pictures!Spec

-----------------------------------------------------------------------
(* The three ways together. *)

\* The trackers' counted poses, their way to a client and the pictures' keep their types,
\* for any values of the bounds.
THEOREM ChannelsTyped == MCSpec => []ChannelsTypeOK
<1> DEFINE Typed == PathTypeOK /\ PicturesTyped
<1>1. MCInit => Typed
  BY PathInitTyped, PicturesInitTyped DEF MCInit
<1>2. Typed /\ [MCNext]_mcVars => Typed'
  <2> SUFFICES ASSUME Typed, [MCNext]_mcVars PROVE Typed'
    OBVIOUS
  <2>1. CASE TrackOnly
    <3>1. TypeOK'  BY <2>1, StepTyped DEF TrackOnly, PathTypeOK
    <3>2. UNCHANGED pathVars /\ UNCHANGED pictureVars  BY <2>1 DEF TrackOnly
    <3>3. PathTypeOK'
      BY <3>1, <3>2, Zenon DEF PathTypeOK, pathVars, masterVars, wayVars, slaveVars, clientVars
    <3>4. [Pictures!Next]_(Pictures!vars)
      BY <3>2 DEF pictureVars, Pictures!vars, Pictures!fileVars, Pictures!masterVars,
                  Pictures!clientVars
    <3> QED  BY <3>3, <3>4, PicturesStepTyped
  <2>2. CASE Sessions \/ Masters \/ UNCHANGED mcVars
    <3>1. [PathNext]_<<vars, pathVars>> /\ UNCHANGED pictureVars
      BY <2>2 DEF Sessions, Masters, WholePath, mcVars
    <3>2. PathTypeOK'  BY <3>1, PathStepTyped
    <3>3. [Pictures!Next]_(Pictures!vars)
      BY <3>1 DEF pictureVars, Pictures!vars, Pictures!fileVars, Pictures!masterVars,
                  Pictures!clientVars
    <3> QED  BY <3>2, <3>3, PicturesStepTyped
  <2>3. CASE SeePictures
    <3>1. Pictures!Next /\ UNCHANGED vars /\ UNCHANGED pathVars  BY <2>3 DEF SeePictures
    <3>2. PathTypeOK'  BY <3>1, PathStepTyped
    <3> QED  BY <3>1, <3>2, PicturesStepTyped
  <2> QED  BY <2>1, <2>2, <2>3 DEF MCNext
<1>3. Typed => ChannelsTypeOK
  BY DEF ChannelsTypeOK, PicturesTyped
<1> QED  BY <1>1, <1>2, <1>3, PTL DEF MCSpec
=======================================================================
