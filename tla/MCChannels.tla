-------------------------- MODULE MCChannels --------------------------
(***************************************************************************)
(* What reaches a client: counted poses (module Tracking, and PosePath     *)
(* with the processes in between) and pictures (module FrameFile).  The    *)
(* two ways share nothing, and a behaviour goes one of them only, as       *)
(* subject says; Tracking is also checked on its own, with more frames and *)
(* with changes of the model, which the rest of the way would multiply.    *)
(***************************************************************************)
EXTENDS PosePath

CONSTANTS TrackFrames,    \* bound: frames, in tracking on its own
          SessionFrames,  \* bound: frames, where poses go all the way in one master's sessions
          Areas, MaxPictures, MaxStreams, MaxMasters, MaxClients,
          ResizedPictures \* bound: pictures, where the camera's resolution changes

\* A picture has at least one pixel.
ASSUME AreasAssumption == Areas \subseteq Nat \ {0}

VARIABLES subject, files, name, hooked, mFile, mArea, area, target, picture, mPc, sent, known,
          cFile, cBytes, cPc, asked, seen, got, overlap, resized, starts

pictureVars == <<files, name, hooked, mFile, mArea, area, target, picture, mPc, sent, known,
                 cFile, cBytes, cPc, asked, seen, got, overlap, resized, starts>>
mcVars == <<subject, vars, pathVars, pictureVars>>

Pictures == INSTANCE FrameFile

MCInit ==
    /\ subject \in {"tracking", "sessions", "masters", "pictures"} /\ PathInit /\ Pictures!Init
    /\ subject = "pictures" => setting = type
    /\ subject \in {"sessions", "masters"} => Class[setting] = "point"

TrackOnly == /\ subject = "tracking" /\ Next /\ UNCHANGED <<subject, pathVars, pictureVars>>
             /\ frame' <= TrackFrames

\* The whole path, in the sessions of one master, or for the first of several.  What the device
\* thread does between two poses the others do not see: it does it in one go.
WholePath == /\ PathNext /\ UNCHANGED <<subject, pictureVars>>
             /\ pc \notin {"off", "idle", "hand"} => pc' # pc
             /\ changes' = 0 /\ requests' = 0
Sessions == subject = "sessions" /\ WholePath /\ since' = 0 /\ frame' <= SessionFrames
Masters == /\ subject = "masters" /\ WholePath
           /\ session' <= 1 /\ posted' = 0 /\ masterPc' # "leaving"
           /\ status' \in {"STOPPED", "INITIALIZING", "RUNNING"}

SeePictures == /\ subject = "pictures" /\ Pictures!Next /\ UNCHANGED <<subject, vars, pathVars>>
               /\ resized' => picture' <= ResizedPictures

MCNext == TrackOnly \/ Sessions \/ Masters \/ SeePictures

MCSpec == MCInit /\ [][MCNext]_mcVars

\* The modules keep their types.
ChannelsTypeOK == PathTypeOK /\ Pictures!TypeOK

\* A client that was told of a pose of a master is told of all of them that it finds
\* (ltlib.c:170-184), in the master's first session of poses measured from its centre
\* (tracking.c:441-450), and the pose it extrapolates from is no younger one
\* (ltr_srv_slave.c:163-172).
PosesTold == NothingMissed /\ NewIsCentred /\ PrevPose

\* Client and master map the same file (ipc_utils.c:279-296), a client reads inside
\* its mapping and the file (ltlib.c:433-441), the current picture is complete, and a
\* copy met by one publication at most is of one picture (ltlib_int.c:59-77).
PicturesSeen ==
    Pictures!SameFile /\ Pictures!ReadInside /\ Pictures!CurrentWhole /\ Pictures!OnePicture
=======================================================================
