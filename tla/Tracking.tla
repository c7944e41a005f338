--------------------------- MODULE Tracking ---------------------------
(***************************************************************************)
(* From camera frames to counted poses: tracking.c with the model type of  *)
(* pose.c and the change flag of pref_global.c.                            *)
(*                                                                         *)
(* The device thread works frame by frame.  Any thread asks to recenter    *)
(* and the GUI announces another model, both by a plain store into a flag  *)
(* the device thread reads and clears; every such load and store is a step *)
(* of its own.  Poses are abstracted to where they come from: the frame,   *)
(* the model and the centre they were measured from.                       *)
(***************************************************************************)
EXTENDS Naturals

CONSTANTS Models,        \* the model types the GUI offers, a subset of AllModels
          MaxFrames,     \* bound: frames
          MaxChanges,    \* bound: models chosen by the user
          MaxRequests,   \* bound: requests to recenter
          MaxSessions    \* bound: sessions of the device thread

Class == [SINGLE |-> "point", FACE |-> "point", ABSOLUTE |-> "absolute",
          CAP |-> "three", CLIP |-> "three"]
AllModels == DOMAIN Class
Classes == {"point", "absolute", "three"}

ASSUME ConstantsAssumption ==
    /\ Models \subseteq AllModels /\ Models # {}
    /\ {MaxFrames, MaxChanges, MaxRequests, MaxSessions} \subseteq Nat

VARIABLES
    setting,       \* the model in the preferences
    untold,        \* the GUI has changed it and not announced it yet
    changed,       \* model_changed
    type,          \* pose.c's type
    version,       \* how many models have been installed
    center,        \* where each class of models is measured from
    recenter, initRecenter,
    pc, caller,    \* the device thread, and who called ltr_int_check_pose
    fetched,       \* the flag as ltr_int_model_changed read it
    frame, good,   \* the frame worked on; it has the points its model needs
    class,         \* the kind of update it goes through
    pose, counter, \* current_pose and counter_d
    session,
    quietly,       \* a model was installed by the update itself
    changes, requests   \* counters for the bounds

flags == <<changed, recenter, initRecenter>>
install == <<type, version, quietly>>
work == <<caller, fetched, frame, good, class>>
user == <<setting, untold, changes, requests>>
vars == <<setting, untold, changed, type, version, center, recenter, initRecenter, pc, caller,
          fetched, frame, good, class, pose, counter, session, quietly, changes, requests>>

\* A centre taken from a frame, in a session and with a model; NoCenter is what the
\* program or ltr_int_pose_init starts with.
Center(s, v, f) == [session |-> s, version |-> v, frame |-> f]
NoCenter == Center(0, 0, 0)
NoPose == [frame |-> 0, session |-> 0, version |-> 0, center |-> NoCenter, counted |-> FALSE]

Init ==
    /\ setting \in Models /\ untold = FALSE /\ changed = TRUE
    /\ type = "CAP" /\ version = 0 /\ center = [c \in Classes |-> NoCenter]
    /\ recenter = FALSE /\ initRecenter = FALSE
    /\ pc = "off" /\ caller = "init" /\ fetched = FALSE
    /\ frame = 0 /\ good = FALSE /\ class = "point"
    /\ pose = NoPose /\ counter = 0
    /\ session = 0 /\ quietly = FALSE /\ changes = 0 /\ requests = 0

At(p, q) == pc = p /\ pc' = q

-----------------------------------------------------------------------
(* ltr_int_check_pose, called from three places. *)

Return(ok) == CASE caller = "init"   -> IF ok THEN "ready" ELSE "off"
                [] caller = "head"   -> "again"
                [] caller = "update" -> IF ok THEN "measure" ELSE "hand"

ReadFlag ==
    /\ At("flag", "store") /\ fetched' = changed
    /\ UNCHANGED <<user, flags, install, center, caller, frame, good, class, pose, counter, session>>

StoreFlag ==
    /\ At("store", IF fetched THEN "setup" ELSE Return(TRUE))
    /\ changed' = FALSE
    /\ UNCHANGED <<user, install, center, recenter, initRecenter, work, pose, counter, session>>

\* The model's section lacks something, and the old model stays.
SetupFails ==
    /\ At("setup", Return(FALSE))
    /\ UNCHANGED <<user, flags, install, center, work, pose, counter, session>>

\* ltr_int_pose_init: the type is stored first; three points that make no base are
\* reported after that.
Install ==
    /\ \/ /\ At("setup", Return(TRUE))
          /\ center' = IF Class[setting] = "three" THEN [center EXCEPT !["three"] = NoCenter]
                       ELSE center
       \/ Class[setting] = "three" /\ At("setup", Return(FALSE)) /\ UNCHANGED center
    /\ type' = setting /\ version' = version + 1
    /\ quietly' = (quietly \/ caller = "update")
    /\ UNCHANGED <<user, flags, work, pose, counter, session>>

-----------------------------------------------------------------------
(* A session of the device. *)

Begin ==
    /\ session < MaxSessions /\ session' = session + 1
    /\ At("off", "flag") /\ caller' = "init"
    /\ UNCHANGED <<user, flags, install, center, fetched, frame, good, class, pose, counter>>

InitTracking ==
    /\ At("ready", "idle")
    /\ initRecenter' = TRUE /\ recenter' = FALSE
    /\ UNCHANGED <<user, changed, install, center, work, pose, counter, session>>

End ==
    /\ At("idle", "off")
    /\ UNCHANGED <<user, flags, install, center, work, pose, counter, session>>

\* ltr_int_update_pose: a new model is installed before the frame is used ...
NewFrame ==
    /\ frame < MaxFrames /\ frame' = frame + 1
    /\ good' \in BOOLEAN
    /\ At("idle", IF changed THEN "flag" ELSE "sort") /\ caller' = "head"
    /\ UNCHANGED <<user, flags, install, center, fetched, class, pose, counter, session>>

\* Mutant: the centre of the model before is kept.
AgainKeepingCenter ==
    /\ At("again", "sort")
    /\ UNCHANGED <<user, flags, install, center, work, pose, counter, session>>

\* ... and whatever became of that, the frame is a new centre.
Again ==
    /\ At("again", "sort") /\ recenter' = TRUE
    /\ UNCHANGED <<user, changed, initRecenter, install, center, work, pose, counter, session>>

Sort ==
    /\ class' = Class[type]
    /\ IF Class[type] = "three"
         THEN At("sort", IF good THEN "measure" ELSE "hand") /\ UNCHANGED caller
         ELSE At("sort", "flag") /\ caller' = "update"
    /\ UNCHANGED <<user, flags, install, center, fetched, frame, good, pose, counter, session>>

Taken == [center EXCEPT ![class] = Center(session, version, frame)]

\* Mutant: a frame that cannot be used withdraws the request as well.
MeasurePointAnyway ==
    /\ class # "three"
    /\ IF recenter
         THEN At("measure", "clear") /\ center' = IF class = "point" /\ ~good THEN center ELSE Taken
         ELSE At("measure", "write") /\ UNCHANGED center
    /\ UNCHANGED <<user, flags, install, work, pose, counter, session>>

\* update_pose_1pt and update_absolute_pose, which asks nothing of the blobs.
MeasurePoint ==
    /\ class # "three"
    /\ IF class = "point" /\ ~good
         THEN At("measure", "hand") /\ UNCHANGED center
         ELSE IF recenter THEN At("measure", "clear") /\ center' = Taken
                          ELSE At("measure", "write") /\ UNCHANGED center
    /\ UNCHANGED <<user, flags, install, work, pose, counter, session>>

\* ltr_int_pose_process_blobs, told at its call whether to recenter; it may have
\* done so when it fails.
MeasureThree ==
    /\ class = "three"
    /\ \/ At("measure", "clear") /\ center' = IF recenter THEN Taken ELSE center
       \/ At("measure", "hand") /\ center' \in {center, IF recenter THEN Taken ELSE center}
    /\ UNCHANGED <<user, flags, install, work, pose, counter, session>>

ClearRecenter ==
    /\ At("clear", "write") /\ recenter' = FALSE
    /\ UNCHANGED <<user, changed, initRecenter, install, center, work, pose, counter, session>>

WritePose ==
    /\ At("write", "count")
    /\ pose' = [frame |-> frame, session |-> session, version |-> version,
                center |-> center[class], counted |-> FALSE]
    /\ UNCHANGED <<user, flags, install, center, work, counter, session>>

\* Mutant: the first valid frame counts like any other.
CountFirst ==
    /\ At("count", "hand")
    /\ initRecenter' = FALSE
    /\ recenter' = (recenter \/ initRecenter)
    /\ counter' = counter + 1
    /\ pose' = [pose EXCEPT !.counted = TRUE]
    /\ UNCHANGED <<user, changed, install, center, work, session>>

\* The first valid frame of a session is not counted, the next one is its centre.
Count ==
    /\ At("count", "hand")
    /\ initRecenter' = FALSE
    /\ recenter' = (recenter \/ initRecenter)
    /\ counter' = IF initRecenter THEN counter ELSE counter + 1
    /\ pose' = [pose EXCEPT !.counted = ~initRecenter]
    /\ UNCHANGED <<user, changed, install, center, work, session>>

\* The frame callback takes the pose out; current_pose stays.
HandOver ==
    /\ At("hand", "idle")
    /\ UNCHANGED <<user, flags, install, center, work, pose, counter, session>>

Device == \/ ReadFlag \/ StoreFlag \/ SetupFails \/ Install \/ InitTracking
          \/ Again \/ Sort \/ MeasurePoint \/ MeasureThree \/ ClearRecenter
          \/ WritePose \/ Count

\* Another process: its statics, with the model from the file.  Frames are counted on.
Restart ==
    /\ frame < MaxFrames /\ frame' = frame + 1
    /\ untold' = FALSE /\ changed' = TRUE
    /\ type' = "CAP" /\ version' = 0 /\ center' = [c \in Classes |-> NoCenter]
    /\ recenter' = FALSE /\ initRecenter' = FALSE /\ pc' = "off"
    /\ pose' = NoPose /\ counter' = 0 /\ session' = 0
    /\ UNCHANGED <<setting, caller, fetched, good, class, quietly, changes, requests>>

-----------------------------------------------------------------------
(* The other threads. *)

Recenter ==
    /\ requests < MaxRequests /\ requests' = requests + 1
    /\ recenter' = TRUE
    /\ UNCHANGED <<setting, untold, changes, changed, initRecenter, install, center, pc, work,
                   pose, counter, session>>

ChooseModel ==
    /\ changes < MaxChanges /\ changes' = changes + 1
    /\ setting' \in Models /\ untold' = TRUE
    /\ UNCHANGED <<requests, flags, install, center, pc, work, pose, counter, session>>

AnnounceChange ==
    /\ untold /\ untold' = FALSE /\ changed' = TRUE
    /\ UNCHANGED <<setting, changes, requests, recenter, initRecenter, install, center, pc, work,
                   pose, counter, session>>

Others == Recenter \/ ChooseModel \/ AnnounceChange

Next == Device \/ Begin \/ End \/ NewFrame \/ HandOver \/ Others

Spec == Init /\ [][Next]_vars

-----------------------------------------------------------------------
(* Properties *)

\* Every variable keeps its type.
CenterType == [session : Nat, version : Nat, frame : Nat]
TypeOK ==
    /\ setting \in Models /\ untold \in BOOLEAN /\ changed \in BOOLEAN
    /\ type \in AllModels /\ version \in Nat
    /\ center \in [Classes -> CenterType]
    /\ recenter \in BOOLEAN /\ initRecenter \in BOOLEAN
    /\ pc \in {"off", "flag", "store", "setup", "ready", "idle", "again", "sort", "measure",
               "clear", "write", "count", "hand"}
    /\ caller \in {"init", "head", "update"} /\ fetched \in BOOLEAN
    /\ frame \in Nat /\ good \in BOOLEAN /\ class \in Classes
    /\ pose \in [frame : Nat, session : Nat, version : Nat, center : CenterType, counted : BOOLEAN]
    /\ counter \in Nat /\ session \in Nat /\ quietly \in BOOLEAN
    /\ changes \in Nat /\ requests \in Nat

\* A counted pose is measured from a centre taken in its own session and with its own
\* model (tracking.c:412-415, :443-448), whatever requests to recenter come in
\* between, as long as no model slips in during an update.
Centred ==
    pose.counted /\ ~quietly => /\ pose.center.session = pose.session
                                /\ pose.center.version = pose.version

\* With a single point or an absolute model a request to recenter is withdrawn only
\* by a frame that became the centre, or by a new session or process (tracking.c:149-154).
PointRecenterTaken ==
    [][recenter /\ ~recenter' /\ class # "three" =>
          pc = "ready" \/ Restart \/ center[class].frame = frame]_vars

-----------------------------------------------------------------------
(* What the documentation promises and the code does not keep: TLC refutes *)
(* each of the following; README.md tells how.                             *)

\* README.devel:48-49: a request to recenter "will be carried out as soon as possible",
\* with three points too.
RecenterTaken ==
    [][recenter /\ ~recenter' => pc = "ready" \/ center[class].frame = frame]_vars

\* tracking.c:444: the first valid frame is discarded "to allow good recenter on the
\* next one"; here whatever the user does meanwhile.
AlwaysCentred ==
    pose.counted => /\ pose.center.session = pose.session
                    /\ pose.center.version = pose.version

\* A model that was announced (pref_global.c:36) is looked at: the flag is lowered
\* by a caller that has seen it raised.
AnnouncementSeen == [][changed /\ ~changed' => fetched]_vars
=======================================================================
