-------------------------- MODULE FrameFile ---------------------------
(***************************************************************************)
(* Camera pictures on their way to a client: the file frames.dat that a    *)
(* master publishes them in (ltlib_int.c) and a client reads them from     *)
(* (ltlib.c), both through the calls of ipc_utils.c that map a file.       *)
(*                                                                         *)
(* Nothing is locked.  The file holds three buffers and says which one is  *)
(* the current one; either side may remove it and make another.  Pictures  *)
(* are numbered and a buffer is written and read in two halves.            *)
(***************************************************************************)
EXTENDS Naturals, Sequences

CONSTANTS Areas,         \* width times height, for the resolutions of the camera
          MaxPictures,   \* bound: pictures taken
          MaxStreams,    \* bound: sessions of the device, all masters together
          MaxMasters,    \* bound: masters started
          MaxClients     \* bound: clients started

FRAME_BUFFERS == 3
Buffers == 0..(FRAME_BUFFERS - 1)
Header == 12
Bytes(area) == FRAME_BUFFERS * area + Header

Gui == FRAME_BUFFERS          \* frame->bitmap: a buffer of the file, the GUI's or NULL
Null == FRAME_BUFFERS + 1

VARIABLES
    files, name,          \* every file made; the one called frames.dat, 0 if there is none
    hooked,               \* the master is the GUI, whose hook supplies bitmaps
    mFile, mArea,         \* the master's mapping, current_w * current_h
    area, target,         \* this session's frame: its area, its bitmap
    picture, mPc,         \* pictures so far; the device thread
    sent, known,           \* the resolution broadcast last, and as the mailbox has it
    cFile, cBytes, cPc,   \* the client: its mapping, and where in ltr_get_frame it is
    asked,                 \* the resolution it read in the mailbox
    seen, got,            \* the header it read, the halves it copied
    overlap,              \* publications since it read the header, or more
    resized,              \* the camera's resolution has changed at some time
    starts                \* counters for the bounds

fileVars == <<files, name>>
masterVars == <<hooked, mFile, mArea, area, target, picture, mPc, sent, resized>>
clientVars == <<cFile, cBytes, cPc, asked, seen, got>>
vars == <<fileVars, masterVars, known, clientVars, overlap, starts>>

NewFile(bytes) == [size |-> bytes, flag |-> 0, area |-> 0, buf |-> [b \in Buffers |-> <<0, 0>>]]

Init ==
    /\ files = <<>> /\ name = 0
    /\ hooked = FALSE /\ mFile = 0 /\ mArea = 0 /\ area = 0 /\ target = Null
    /\ picture = 0 /\ mPc = "dead" /\ sent = 0 /\ known = 0 /\ resized = FALSE
    /\ cFile = 0 /\ cBytes = 0 /\ cPc = "dead" /\ asked = 0
    /\ seen = [area |-> 0, flag |-> 0] /\ got = <<0, 0>> /\ overlap = 0
    /\ starts = [master |-> 0, stream |-> 0, client |-> 0]

Count(what) == starts' = [starts EXCEPT ![what] = @ + 1]

\* Mutant: a file that is there is replaced.
MapFileAnew(bytes) ==
    files' = Append(files, NewFile(bytes)) /\ name' = Len(files) + 1

\* ltr_int_mmap_file: the file of that name, made if there is none, cut to the size.
MapFile(bytes) ==
    IF name = 0
      THEN files' = Append(files, NewFile(bytes)) /\ name' = Len(files) + 1
      ELSE files' = [files EXCEPT ![name].size = bytes] /\ UNCHANGED name

-----------------------------------------------------------------------
(* The master. *)

At(p, q) == mPc = p /\ mPc' = q

StartMaster ==
    /\ starts.master < MaxMasters /\ Count("master")
    /\ At("dead", "idle") /\ hooked' \in BOOLEAN /\ mFile' = 0 /\ mArea' = 0 /\ sent' = 0
    /\ UNCHANGED <<fileVars, area, target, picture, resized, known, clientVars, overlap>>

\* It ends, or dies, and leaves the file behind.
MasterEnds ==
    /\ mPc # "dead" /\ mPc' = "dead" /\ mFile' = 0
    /\ UNCHANGED <<fileVars, hooked, mArea, area, target, picture, sent, resized, known, clientVars,
                   overlap, starts>>

\* ltr_int_rl_run starts without a bitmap.
StartStream ==
    /\ starts.stream < MaxStreams /\ Count("stream")
    /\ At("idle", "draw")
    /\ area' \in Areas /\ resized' = (resized \/ area \notin {0, area'})
    /\ target' = Null
    /\ UNCHANGED <<fileVars, hooked, mFile, mArea, picture, sent, known, clientVars, overlap>>

\* Half h of the buffer at index b of the master's mapping.
Write(b, h, what) == files' = [files EXCEPT ![mFile].buf[b][h] = what]

\* The driver draws the picture where the last call left the bitmap.
DrawLower ==
    /\ picture < MaxPictures /\ picture' = picture + 1
    /\ At("draw", "drawing")
    /\ IF target \in Buffers THEN Write(target, 1, picture') ELSE UNCHANGED files
    /\ UNCHANGED <<name, hooked, mFile, mArea, area, target, sent, resized, known, clientVars,
                   overlap, starts>>

DrawUpper ==
    /\ At("drawing", "drawn")
    /\ IF target \in Buffers THEN Write(target, 2, picture) ELSE UNCHANGED files
    /\ UNCHANGED <<name, hooked, mFile, mArea, area, target, picture, sent, resized, known,
                   clientVars, overlap, starts>>

\* publish_frame: room for a larger picture is made in another file, whoever made
\* the one of that name.
Unmap ==
    /\ area > mArea /\ At("drawn", "map")
    /\ name' = IF mFile = 0 THEN name ELSE 0
    /\ mFile' = 0
    /\ UNCHANGED <<files, hooked, mArea, area, target, picture, sent, resized, known, clientVars,
                   overlap, starts>>

Map ==
    /\ At("map", "reset")
    /\ MapFile(Bytes(area)) /\ mFile' = name'
    /\ UNCHANGED <<hooked, mArea, area, target, picture, sent, resized, known, clientVars, overlap,
                   starts>>

KeepMap ==
    /\ area <= mArea /\ mPc = "drawn" /\ mPc' = IF area = mArea THEN "publish" ELSE "reset"
    /\ UNCHANGED <<fileVars, hooked, mFile, mArea, area, target, picture, sent, resized, known,
                   clientVars, overlap, starts>>

Reset ==
    /\ At("reset", "publish") /\ mArea' = area
    /\ files' = [files EXCEPT ![mFile].flag = 0]
    /\ UNCHANGED <<name, hooked, mFile, area, target, picture, sent, resized, known, clientVars,
                   overlap, starts>>

\* Mutant: one buffer too few in turn.
AfterOfTwo(b) == (b + 1) % (FRAME_BUFFERS - 1)

\* Mutant: no turn at all.
AfterUnwrapped(b) == b + 1

\* inc_frame_index
After(b) == (b + 1) % FRAME_BUFFERS

Flag(b) == files' = [files EXCEPT ![mFile].flag = b, ![mFile].area = area]

\* The picture was drawn in the file.
PublishDrawn ==
    /\ At("publish", "clear")
    /\ LET current == After(files[mFile].flag)
       IN /\ target = current
          /\ Flag(current) /\ target' = After(current) /\ overlap' = overlap + 1
    /\ UNCHANGED <<name, hooked, mFile, mArea, area, picture, sent, resized, known, clientVars,
                   starts>>

\* There was no bitmap yet: a black picture, and the file's second buffer from now on.
PublishBlack ==
    /\ target = Null
    /\ At("publish", "black")
    /\ Flag(0) /\ target' = 1
    /\ UNCHANGED <<name, hooked, mFile, mArea, area, picture, sent, resized, known, clientVars,
                   overlap, starts>>

\* Whoever copies meanwhile gets something else: it counts as two publications.
Black ==
    /\ At("black", "clear")
    /\ files' = [files EXCEPT ![mFile].buf[0] = <<0, 0>>] /\ overlap' = overlap + 2
    /\ UNCHANGED <<name, hooked, mFile, mArea, area, target, picture, sent, resized, known,
                   clientVars, starts>>

Clear ==
    /\ At("clear", "hook")
    /\ files' = [files EXCEPT ![mFile].buf[target] = <<0, 0>>]
    /\ UNCHANGED <<name, hooked, mFile, mArea, area, target, picture, sent, resized, known,
                   clientVars, overlap, starts>>

\* Mutant: the flag is stored before the copy is complete.
CopyLowerFlagged ==
    /\ At("publish", "copying")
    /\ target # Null /\ target # After(files[mFile].flag)
    /\ LET b == After(files[mFile].flag)
       IN files' = [files EXCEPT ![mFile].buf[b][1] = picture, ![mFile].flag = b]
    /\ UNCHANGED <<name, hooked, mFile, mArea, area, target, picture, sent, resized, known,
                   clientVars, overlap, starts>>

\* The GUI has the picture: it is copied.
CopyLower ==
    /\ At("publish", "copying")
    /\ target # Null /\ target # After(files[mFile].flag)
    /\ Write(After(files[mFile].flag), 1, picture)
    /\ UNCHANGED <<name, hooked, mFile, mArea, area, target, picture, sent, resized, known,
                   clientVars, overlap, starts>>

CopyUpper ==
    /\ At("copying", "copied") /\ Write(After(files[mFile].flag), 2, picture)
    /\ UNCHANGED <<name, hooked, mFile, mArea, area, target, picture, sent, resized, known,
                   clientVars, overlap, starts>>

PublishCopied ==
    /\ At("copied", "hook")
    /\ Flag(After(files[mFile].flag)) /\ overlap' = overlap + 1
    /\ UNCHANGED <<name, hooked, mFile, mArea, area, target, picture, sent, resized, known,
                   clientVars, starts>>

\* The frame callback tells the resolution; the GUI's hook sets the next bitmap.
Hook ==
    /\ mPc = "hook" /\ mPc' \in {"draw", "idle"}
    /\ sent' = area
    /\ target' \in IF hooked THEN {Gui, Null} ELSE {target}
    /\ UNCHANGED <<fileVars, hooked, mFile, mArea, area, picture, resized, known, clientVars,
                   overlap, starts>>

\* The client's slave stores what was broadcast.
Deliver ==
    /\ sent # 0 /\ known' = sent
    /\ UNCHANGED <<fileVars, masterVars, clientVars, overlap, starts>>

Master ==
    \/ StartMaster \/ MasterEnds \/ StartStream \/ DrawLower \/ DrawUpper \/ Unmap \/ Map \/ KeepMap
    \/ Reset \/ PublishDrawn \/ PublishBlack \/ Black \/ Clear \/ CopyLower \/ CopyUpper \/ PublishCopied
    \/ Hook

-----------------------------------------------------------------------
(* The client, in ltr_get_frame. *)

Go(p, q) == cPc = p /\ cPc' = q

StartClient ==
    /\ starts.client < MaxClients /\ Count("client")
    /\ cPc' = "idle" /\ cFile' = 0 /\ cBytes' = 0
    /\ UNCHANGED <<fileVars, masterVars, known, asked, seen, got, overlap>>

\* Mutant: one compares with what three pictures take.
GiveUpEarly ==
    /\ known > 0 /\ Bytes(known) >= cBytes /\ Go("idle", "map") /\ asked' = known
    /\ name' = IF cFile = 0 THEN name ELSE 0
    /\ cFile' = 0 /\ cBytes' = 0
    /\ UNCHANGED <<files, masterVars, known, seen, got, overlap, starts>>

\* A mapping smaller than ONE picture is given up, and the file of that name removed.
GiveUp ==
    /\ known > cBytes /\ Go("idle", "map") /\ asked' = known
    /\ name' = IF cFile = 0 THEN name ELSE 0
    /\ cFile' = 0 /\ cBytes' = 0
    /\ UNCHANGED <<files, masterVars, known, seen, got, overlap, starts>>

\* Mutant: it makes room for one picture.
MapOne ==
    /\ Go("map", "header")
    /\ MapFile(asked + Header) /\ cFile' = name' /\ cBytes' = asked + Header
    /\ UNCHANGED <<masterVars, known, asked, seen, got, overlap, starts>>

MapAgain ==
    /\ Go("map", "header")
    /\ MapFile(Bytes(asked)) /\ cFile' = name' /\ cBytes' = Bytes(asked)
    /\ UNCHANGED <<masterVars, known, asked, seen, got, overlap, starts>>

Keep ==
    /\ known <= cBytes /\ cFile # 0 /\ Go("idle", "header") /\ asked' = known
    /\ UNCHANGED <<fileVars, masterVars, known, cFile, cBytes, seen, got, overlap, starts>>

\* The picture named by the flag is complete.
Whole(file) == file.buf[file.flag][1] = file.buf[file.flag][2]

ReadHeader ==
    /\ cPc = "header"
    /\ seen' = [area |-> files[cFile].area, flag |-> files[cFile].flag]
    /\ cPc' = IF asked < seen'.area THEN "idle" ELSE "lower"
    /\ overlap' = IF Whole(files[cFile]) THEN 0 ELSE 2
    /\ UNCHANGED <<fileVars, masterVars, known, cFile, cBytes, asked, got, starts>>

ReadLower ==
    /\ Go("lower", "upper")
    /\ got' = [got EXCEPT ![1] = files[cFile].buf[seen.flag][1]]
    /\ UNCHANGED <<fileVars, masterVars, known, cFile, cBytes, asked, seen, overlap, starts>>

ReadUpper ==
    /\ Go("upper", "copied")
    /\ got' = [got EXCEPT ![2] = files[cFile].buf[seen.flag][2]]
    /\ UNCHANGED <<fileVars, masterVars, known, cFile, cBytes, asked, seen, overlap, starts>>

Return ==
    /\ Go("copied", "idle")
    /\ UNCHANGED <<fileVars, masterVars, known, cFile, cBytes, asked, seen, got, overlap, starts>>

Client == StartClient \/ GiveUp \/ MapAgain \/ Keep \/ ReadHeader \/ ReadLower \/ ReadUpper \/ Return

Next == Master \/ Deliver \/ Client

Spec == Init /\ [][Next]_vars

-----------------------------------------------------------------------
(* Properties *)

\* Every variable keeps its type.
FileType == [size : Nat, flag : Buffers, area : Areas \cup {0}, buf : [Buffers -> Nat \X Nat]]
TypeOK ==
    /\ files \in Seq(FileType) /\ name \in 0..Len(files)
    /\ hooked \in BOOLEAN /\ mFile \in 0..Len(files) /\ mArea \in Areas \cup {0}
    /\ area \in Areas \cup {0} /\ target \in Buffers \cup {Gui, Null} /\ picture \in Nat
    /\ mPc \in {"dead", "idle", "draw", "drawing", "drawn", "map", "reset", "publish", "black",
                "clear", "copying", "copied", "hook"}
    /\ {sent, known, asked} \subseteq Areas \cup {0}
    /\ cFile \in 0..Len(files) /\ cBytes \in Nat
    /\ cPc \in {"dead", "idle", "map", "header", "lower", "upper", "copied"}
    /\ seen \in [area : Areas \cup {0}, flag : Buffers] /\ got \in Nat \X Nat
    /\ overlap \in Nat /\ resized \in BOOLEAN
    /\ starts \in [{"master", "stream", "client"} -> Nat]

\* While the camera keeps its resolution, a client and a master that have both mapped
\* the file have mapped the same one, whoever came first and whoever was restarted.
SameFile == ~resized /\ mFile # 0 /\ cFile # 0 => mFile = cFile

Inside == /\ Header + (seen.flag + 1) * seen.area <= cBytes
          /\ cBytes <= files[cFile].size

\* As long, what a client copies is inside its mapping and inside the file.
ReadInside == ~resized /\ cPc \in {"lower", "upper"} => Inside

\* As long, the picture named by the flag is complete from the first that a master has
\* published on, except while it is made black.
CurrentWhole ==
    ~resized /\ mFile # 0 /\ target # Null /\ mPc # "black" => Whole(files[mFile])

\* As long, a copy of such a picture, during which the master published once at most
\* and made none black, is of one picture: that is what three buffers are for.
OnePicture == ~resized /\ cPc = "copied" /\ overlap < 2 => got[1] = got[2]

-----------------------------------------------------------------------
(* What the code does not keep: TLC refutes each of the following, the     *)
(* last three when the camera's resolution changes; README.md tells how.   *)

\* The picture a header names is complete, whichever master named it.
AlwaysWhole == ~resized /\ mPc = "publish" => Whole(files[mFile])

\* A client that knows the camera's resolution copies from the file the master
\* publishes in.
AlwaysSameFile == cPc = "lower" /\ mPc = "hook" /\ asked = area => mFile = cFile

\* No copy leaves its mapping and the file.
AlwaysInside == cPc \in {"lower", "upper"} => Inside

\* The master's mapping is backed by its file.
MasterInside == mFile # 0 => Bytes(mArea) <= files[mFile].size
=======================================================================
