----------------------------- MODULE Extractor ------------------------------
(***************************************************************************)
(* Getting the TrackIR firmware and installing the Wine bridge: the dialog *)
(* TirFwExtractor and its thread (qt_gui/extractor.cpp, hashing.cpp), the  *)
(* download (downloading.cpp), the Wine process (wine_launcher.cpp), blobs *)
(* (extract.c), game data (game_data.c), and the chain of dialogs that     *)
(* PluginInstall steps through (plugin_install.cpp).                       *)
(*                                                                         *)
(* A directory under ~/.config/linuxtrack is a number, 0 for none; the     *)
(* symbolic link tir_firmware names one of them.  Files are told apart by  *)
(* what the thread makes of them.  Wine, the network, the file system and  *)
(* the user are external.                                                  *)
(***************************************************************************)
EXTENDS Integers, Sequences, FiniteSets

CONSTANTS Blocks,       \* the firmware blocks spec.txt describes
          Trees,        \* the file sequences a directory can hold
          MaxStarts     \* bound on extractions begun

Items == Blocks \cup {"game", "views"}

VARIABLES buttons,      \* the dialog's buttons are enabled
          download,     \* "idle", "busy"
          wine,         \* the process: "idle", "regedit" (the installer's run fails)
          wineInitialized,
          pending,      \* results of Wine not handled yet, a sequence of BOOLEAN
          destPath,     \* the dialog's
          dirs,         \* directories made
          contents,     \* directory -> the items in it
          link,         \* the directory tir_firmware names
          thread,       \* "idle", "running", "done" (finished() not handled)
          files,        \* what the thread has still to look at
          threadDest,   \* the thread's destPath
          found,        \* items whose flag is set
          everything,
          state,        \* PluginInstall's: "DONE", "TIR_FW", "MFC", "LTR_W"
          overlapped,   \* history: an extraction began beside another
          byBlob,       \* history: the link was last set by tryBlob
          starts

vars == <<buttons, download, wine, wineInitialized, pending, destPath, dirs, contents,
          link, thread, files, threadDest, found, everything, state, overlapped,
          byBlob, starts>>

work == <<thread, files, threadDest, found, everything>>
outside == <<download, wine, pending>>
disk == <<dirs, contents>>

\* wineInitialized is read before anything sets it.
Init ==
  /\ buttons = TRUE /\ download = "idle" /\ wine = "idle" /\ pending = <<>>
  /\ wineInitialized \in BOOLEAN
  /\ destPath = 0 /\ dirs = 0 /\ contents = <<>> /\ link = 0
  /\ thread = "idle" /\ files = <<>> /\ threadDest = 0 /\ found = {}
  /\ everything = FALSE /\ state = "DONE" /\ overlapped = FALSE /\ byBlob = FALSE
  /\ starts = 0

\* makeDestPath: a fresh directory, filled with its first items.
MakeDestPath(items) ==
  /\ dirs' = dirs + 1 /\ destPath' = dirs + 1 /\ contents' = Append(contents, items)

Working == thread # "idle" \/ wine # "idle" \/ pending # <<>> \/ download # "idle"

Begin ==
  /\ buttons /\ starts < MaxStarts /\ starts' = starts + 1
  /\ overlapped' = (overlapped \/ Working)

\* TirFwExtractThread::start, ignored while the thread runs.
StartThread(tree) ==
  IF thread = "running" THEN UNCHANGED work
  ELSE /\ thread' = "running" /\ files' = tree /\ threadDest' = destPath'
       /\ found' = {} /\ UNCHANGED everything

\* Wine is started with a command it refuses while another one runs.
RunWine == wine' = "regedit"

\* on_BrowseInstaller_pressed, the installer has a blob: extract_blob reports
\* success whatever files it skipped, and the result is linked.
BrowseBlob(items) ==
  /\ Begin /\ MakeDestPath(items) /\ link' = dirs + 1 /\ byBlob' = TRUE
  /\ UNCHANGED <<buttons, outside, wineInitialized, work, state>>

\* It has none (its new directory stays, empty): commenceExtraction.
BrowseInstaller ==
  /\ Begin /\ MakeDestPath({}) /\ buttons' = FALSE /\ RunWine
  /\ UNCHANGED <<download, pending, wineInitialized, link, work, state, byBlob>>

\* browseDirPressed
BrowseDir(tree) ==
  /\ Begin /\ buttons' = FALSE /\ MakeDestPath({}) /\ StartThread(tree)
  /\ UNCHANGED <<outside, wineInitialized, link, state, byBlob>>

\* on_DownloadButton_pressed, download: refused while busy, which leaves the
\* buttons off; a file that cannot be made reports at once.
Download(opened) ==
  /\ Begin
  /\ IF download = "busy" THEN buttons' = FALSE /\ UNCHANGED download
     ELSE IF opened THEN buttons' = FALSE /\ download' = "busy"
     ELSE UNCHANGED <<buttons, download>>
  /\ UNCHANGED <<wine, pending, wineInitialized, destPath, disk, link, work, state, byBlob>>

\* Downloading::finished and downloadDone: "bad" the network, "norename" the
\* file that cannot be renamed, which is reported as a failure, then as done.
Downloaded(result) ==
  /\ download = "busy" /\ download' = "idle"
  /\ buttons' = (buttons \/ result # "ok")
  /\ IF result = "bad" THEN UNCHANGED wine ELSE RunWine
  /\ UNCHANGED <<pending, wineInitialized, destPath, disk, link, work, state, overlapped,
                 byBlob, starts>>

\* The process ends or does not start: WineLauncher::finished or error, which a
\* crash raises both.
WineEnds(results) ==
  /\ wine = "regedit" /\ pending' = results
  /\ wine' = "idle"
  /\ UNCHANGED <<buttons, download, wineInitialized, destPath, disk, link, work, state,
                 overlapped, byBlob, starts>>

\* Mutant: an error of Wine ends the attempt with a message.
WineFinishedStrict ==
  /\ wine = "idle" /\ pending # <<>>
  /\ pending' = Tail(pending) \o (IF Head(pending) /\ ~wineInitialized
                                  THEN <<FALSE>> ELSE <<>>)
  /\ wineInitialized' = TRUE
  /\ IF wineInitialized /\ Head(pending) THEN MakeDestPath({}) /\ StartThread(<<>>)
     ELSE UNCHANGED <<destPath, disk, work>>
  /\ UNCHANGED <<buttons, download, wine, link, state, overlapped, byBlob, starts>>

\* TirFwExtractor::wineFinished.  After the prefix, the installer: its run names
\* the program with the quotes around it, so it cannot start (one more error),
\* and the first of a crash's two results finds the process still running (it
\* is ignored).  After that, the analysis of a prefix nothing was installed in.
WineFinished ==
  /\ wine = "idle" /\ pending # <<>>
  /\ IF ~wineInitialized
     THEN /\ wineInitialized' = TRUE /\ UNCHANGED <<destPath, disk, work>>
          /\ pending' = IF Len(pending) > 1 THEN Tail(pending) ELSE <<FALSE>>
     ELSE /\ UNCHANGED wineInitialized
          /\ MakeDestPath({}) /\ StartThread(<<>>) /\ pending' = Tail(pending)
  /\ UNCHANGED <<buttons, download, wine, link, state, overlapped, byBlob, starts>>

\* One file: TIRViews.dll is copied (not over an existing one), sgl.dat decoded
\* over what is there, any other file searched for blocks.
HasFlag(item, ok) == IF ok THEN found \cup {item} ELSE found \ {item}

\* Mutant: the file is counted as found before it is copied.
LookEarly(f) ==
  /\ found' = HasFlag(IF f = "badgame" THEN "game" ELSE f, f \in Items)
  /\ contents' = IF f = "views" THEN contents
                 ELSE [contents EXCEPT ![threadDest] = @ \cup ({f} \cap Items)]

Look(f) ==
  LET there == contents[threadDest]
      put(items) == contents' = [contents EXCEPT ![threadDest] = items]
  IN \/ /\ f = "views" /\ found' = HasFlag("views", "views" \notin there)
        /\ put(there \cup {"views"})
     \/ /\ f = "game" /\ found' = HasFlag("game", TRUE) /\ put(there \cup {"game"})
     \/ /\ f = "badgame" /\ found' = HasFlag("game", FALSE) /\ put(there \ {"game"})
     \/ /\ f \in Blocks /\ found' = found \cup {f} /\ put(there \cup {f})
     \/ /\ f = "other" /\ UNCHANGED <<found, contents>>

\* findCandidates, one file a step; it stops as soon as all is found.
Analyse ==
  /\ thread = "running"
  /\ IF found = Items \/ files = <<>>
     THEN /\ thread' = "done" /\ everything' = (found = Items)
          /\ UNCHANGED <<files, found, contents>>
     ELSE /\ Look(Head(files)) /\ files' = Tail(files) /\ UNCHANGED <<thread, everything>>
  /\ UNCHANGED <<buttons, outside, wineInitialized, destPath, dirs, link, threadDest, state,
                 overlapped, byBlob, starts>>

FirmwareInstalled == link # 0 /\ Items \subseteq contents[link]

\* PluginInstall::finished, whatever the result
Advance(linked) ==
  state' = CASE state = "TIR_FW" -> IF linked THEN "MFC" ELSE "TIR_FW"
             [] state = "MFC" -> "LTR_W"
             [] OTHER -> "DONE"

\* threadFinished: the dialog's destPath is linked.
ThreadFinished ==
  /\ thread = "done" /\ thread' = "idle" /\ buttons' = TRUE
  /\ IF everything THEN link' = destPath /\ byBlob' = FALSE ELSE UNCHANGED <<link, byBlob>>
  /\ Advance(link' # 0 /\ Items \subseteq contents[link'])
  /\ UNCHANGED <<outside, wineInitialized, destPath, disk, files, threadDest, found,
                 everything, overlapped, starts>>

\* installWinePlugin, on_TIRFWButton_pressed
InstallPressed ==
  /\ state' = (IF ~FirmwareInstalled THEN "TIR_FW"
               ELSE IF "mfc" \in contents[link] THEN "LTR_W" ELSE "MFC")
  /\ UNCHANGED <<buttons, outside, wineInitialized, destPath, disk, link, work, overlapped,
                 byBlob, starts>>

\* External: the user puts mfc42u.dll there, which the dialog for it cannot
\* (its Wine command is quoted the same way).
MfcPlaced ==
  /\ link # 0 /\ contents' = [contents EXCEPT ![link] = @ \cup {"mfc"}]
  /\ UNCHANGED <<buttons, outside, wineInitialized, destPath, dirs, link, work, state,
                 overlapped, byBlob, starts>>

\* PluginInstall::finished for the bridge's own installer
BridgeDone ==
  /\ state = "LTR_W" /\ state' = "DONE"
  /\ UNCHANGED <<buttons, outside, wineInitialized, destPath, disk, link, work, overlapped,
                 byBlob, starts>>

\* What goes on by itself once begun.
Progress ==
  \/ \E r \in {"ok", "bad", "norename"} : Downloaded(r)
  \/ \E r \in {<<TRUE>>, <<FALSE>>, <<FALSE, FALSE>>} : WineEnds(r)
  \/ WineFinished \/ Analyse \/ ThreadFinished

Next ==
  \/ Progress \/ BrowseInstaller \/ InstallPressed \/ MfcPlaced \/ BridgeDone
  \/ \E items \in SUBSET Items : BrowseBlob(items)
  \/ \E tree \in Trees : BrowseDir(tree)
  \/ \E opened \in BOOLEAN : Download(opened)

Spec == Init /\ [][Next]_vars

\* Processes end, the network answers, the event loop and the thread run.
FairSpec == Spec /\ WF_vars(Progress)

-----------------------------------------------------------------------------
TypeOK ==
  /\ {buttons, wineInitialized, everything, overlapped, byBlob} \subseteq BOOLEAN
  /\ download \in {"idle", "busy"} /\ wine \in {"idle", "regedit"}
  /\ thread \in {"idle", "running", "done"} /\ found \subseteq Items
  /\ dirs = Len(contents) /\ {destPath, link, threadDest} \subseteq 0..dirs
  /\ \A d \in 1..dirs : contents[d] \subseteq Items \cup {"mfc"}
  /\ state \in {"DONE", "TIR_FW", "MFC", "LTR_W"} /\ starts \in 0..MaxStarts
  /\ Len(pending) =< 2

\* tir_firmware is never switched to a directory the analysis did not complete:
\* whatever order the files came in, however often one came, whatever Wine and
\* the network did, what the thread reported as everything is in the directory
\* linked.  Left out: blobs, and two extractions at once.
LinkedIsWhole == link # 0 /\ ~byBlob /\ ~overlapped => Items \subseteq contents[link]

\* However an extraction goes wrong, the dialog's buttons come back.
Begun == ~buttons
Over == buttons
ButtonsReturn == Begun ~> Over

\* Refuted: BlobIsWhole (link # 0 => Items \subseteq contents[link]: extract_blob
\* returns 0 after errors), OneAtATime (~overlapped: a file that cannot be
\* renamed enables the buttons and starts Wine), FoundStays (an item once found
\* stays found: a second TIRViews.dll cannot be copied and clears the flag),
\* PrefixFirst (the installer runs in the prefix prepared for it: nothing
\* initialises wineInitialized, nothing resets it, and the installer cannot
\* start).
=============================================================================
