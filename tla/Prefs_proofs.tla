------------------------------- MODULE Prefs_proofs -------------------------------
(***************************************************************************)
(* Proofs about Prefs for every set of settings, every default file, any   *)
(* number of threads, and a disk that may or may not run out of room:      *)
(*                                                                         *)
(*   TypeCorrect      every variable keeps its type, and the preference    *)
(*                    file or the one kept beside it always exists;        *)
(*   SaveRecoverable  the last save can be read back, whatever step of the *)
(*                    next one the process is killed in;                   *)
(*   FlagTold         while the process serves nobody, no setting is       *)
(*                    missing from the file when the flag is down;         *)
(*                                                                         *)
(* and about the store of sections and the settings kept in it, each part  *)
(* with an invariant of its own and at the end all of them together:       *)
(*                                                                         *)
(*   LastWriteAlwaysRead, AlwaysReadsBack   of the store (StoreInv);       *)
(*   SettingsAlwaysAgree  a setting is the same in the forms, in memory,   *)
(*                    in its section, in the drivers and in the slaves     *)
(*                    (SettingsInv).                                       *)
(*                                                                         *)
(* Recoverable is not inductive: that a file may be removed or renamed     *)
(* rests on where in the save the process is.  FilesInv says which files   *)
(* there are at each step, KeptInv which of them holds the last save: the  *)
(* preference file while it is there, and the old one in the window        *)
(* between the two renames.                                                *)
(***************************************************************************)
EXTENDS Prefs, Integers, Sequences, FiniteSetTheorems, TLAPS

FilesInv ==
    /\ pc \notin {"down", "read", "install"} => disk.main.there
    /\ pc \in {"write", "parse", "remove", "keep", "install"} => disk.new.there
    /\ pc = "keep" => disk.old = Missing

KeptInv ==
    /\ disk.main.there /\ disk.main.whole => saved \subseteq disk.main.has
    /\ ~disk.main.there /\ disk.old.whole => saved \subseteq disk.old.has

Inv == TypeOK /\ FilesInv /\ KeptInv

-----------------------------------------------------------------------------
LEMMA InitInv == Init => Inv
<1> SUFFICES ASSUME Init PROVE Inv
  OBVIOUS
<1>1. /\ disk.main = Whole(Default) /\ disk.old = Missing
      /\ disk = [main |-> Whole(Default), new |-> Missing, old |-> Missing]
  BY DEF Init
<1>2. Whole(Default) \in File /\ Missing \in File
  BY PrefixAssumption DEF Whole, Missing, File
<1>3. disk \in [main: File, new: File, old: File]
  BY <1>1, <1>2
<1>4. TypeOK
  <2>1. disk.main.there BY <1>1 DEF Whole
  <2>2. QED BY <1>3, <2>1, PrefixAssumption DEF Init, TypeOK, Pcs
<1>5. FilesInv /\ KeptInv BY <1>1 DEF Init, FilesInv, KeptInv, Whole, Missing
<1>6. QED BY <1>4, <1>5 DEF Inv

\* No step breaks the invariant.
LEMMA StepInv == ASSUME Inv, [Next]_vars PROVE Inv'
<1> USE PrefixAssumption, SaverAssumption
        DEF Inv, TypeOK, FilesInv, KeptInv, File, Pcs, GoTo
<1>1. CASE Start BY <1>1 DEF Start
<1>2. CASE ReadOwn BY <1>2 DEF ReadOwn, Parses
<1>3. CASE CopyDefault BY <1>3 DEF CopyDefault, Whole
<1>4. CASE CheckPrefix BY <1>4 DEF CheckPrefix
<1>5. CASE Discard BY <1>5 DEF Discard
<1>6. CASE LoadDefaults BY <1>6 DEF LoadDefaults, Whole
<1>7. CASE Reread BY <1>7 DEF Reread, Parses, Rejects
<1>8. CASE Save BY <1>8 DEF Save
<1>9. CASE OpenNew BY <1>9 DEF OpenNew
<1>10. CASE WriteNew
  <2>1. CASE disk' = [disk EXCEPT !.new = Whole(live)]
    BY <1>10, <2>1 DEF WriteNew, Whole
  <2>2. ASSUME NEW s \in SUBSET live,
               disk' = [disk EXCEPT !.new = [there |-> TRUE, whole |-> FALSE, has |-> s]]
        PROVE  Inv'
    BY <1>10, <2>2 DEF WriteNew
  <2>3. QED BY <1>10, <2>1, <2>2 DEF WriteNew
<1>11. CASE ParseBack BY <1>11 DEF ParseBack
<1>12. CASE ParseFails BY <1>12 DEF ParseFails
<1>13. CASE RemoveOld BY <1>13 DEF RemoveOld, Missing
<1>14. CASE KeepOld
  <2>1. /\ disk'.main = Missing /\ disk'.old = disk.main /\ disk'.new = disk.new
        /\ disk' \in [main: File, new: File, old: File]
    BY <1>14 DEF KeepOld, Missing
  <2>2. disk.main.there BY <1>14 DEF KeepOld
  <2>3. QED BY <1>14, <2>1, <2>2 DEF KeepOld, Missing
<1>15. CASE Install BY <1>15 DEF Install, Missing
<1>16. CASE ResetFlag BY <1>16 DEF ResetFlag
<1>17. CASE Crash BY <1>17 DEF Crash
<1>18. CASE Serve BY <1>18 DEF Serve
<1>19. CASE \E t \in Threads : SetValue(t) BY <1>19 DEF SetValue
<1>20. CASE UNCHANGED vars BY <1>20 DEF vars
<1>21. QED
  BY <1>1, <1>2, <1>3, <1>4, <1>5, <1>6, <1>7, <1>8, <1>9, <1>10, <1>11, <1>12, <1>13,
     <1>14, <1>15, <1>16, <1>17, <1>18, <1>19, <1>20 DEF Next

LEMMA Inductive == Spec => []Inv
<1>1. Inv /\ [Next]_vars => Inv' BY StepInv
<1>2. QED BY InitInv, <1>1, PTL DEF Spec

\* Every variable keeps its type, and a save never leaves the process without both
\* the preference file and the one kept beside it (pref.cpp:521-531).
THEOREM TypeCorrect == Spec => []TypeOK
<1>1. Inv => TypeOK BY DEF Inv
<1>2. QED BY Inductive, <1>1, PTL

\* The last save that succeeded is on disk at every step of the next one
\* (ltr_int_save_prefs), unless a file was cut short by a full disk.
THEOREM SaveRecoverable == Spec => []Recoverable
<1>1. Inv => Recoverable
  <2>1. CASE disk.main.there BY <2>1 DEF Inv, KeptInv, Recoverable
  <2>2. CASE ~disk.main.there BY <2>2 DEF Inv, TypeOK, KeptInv, Recoverable
  <2>3. QED BY <2>1, <2>2
<1>2. QED BY Inductive, <1>1, PTL

-----------------------------------------------------------------------------
\* In a process that serves nobody the file a save writes holds what memory holds
\* until the save has ended, so that lowering the flag at its end is right.
FlagInv ==
    /\ pc \in {"down", "read"} => ~serving
    /\ pc = "write" => ~disk.new.whole
    /\ ~serving =>
         /\ pc \in {"prefix", "idle"} /\ ~flag /\ disk.main.whole
               => live \subseteq disk.main.has
         /\ pc \in {"parse", "remove", "keep", "install"} /\ disk.new.whole
               => live \subseteq disk.new.has
         /\ pc = "reset" /\ disk.main.whole => live \subseteq disk.main.has

LEMMA FlagStep == ASSUME Inv, FlagInv, [Next]_vars PROVE FlagInv'
<1> USE DEF Inv, TypeOK, FilesInv, FlagInv, File, Pcs, GoTo
<1>1. CASE Start BY <1>1 DEF Start
<1>2. CASE ReadOwn BY <1>2 DEF ReadOwn
<1>3. CASE CopyDefault BY <1>3 DEF CopyDefault, Whole
<1>4. CASE CheckPrefix BY <1>4 DEF CheckPrefix
<1>5. CASE Discard BY <1>5 DEF Discard
<1>6. CASE LoadDefaults BY <1>6 DEF LoadDefaults
<1>7. CASE Reread BY <1>7 DEF Reread
<1>8. CASE Save BY <1>8 DEF Save
<1>9. CASE OpenNew BY <1>9 DEF OpenNew
<1>10. CASE WriteNew BY <1>10 DEF WriteNew, Whole
<1>11. CASE ParseBack BY <1>11 DEF ParseBack
<1>12. CASE ParseFails BY <1>12 DEF ParseFails
<1>13. CASE RemoveOld BY <1>13 DEF RemoveOld, Missing
<1>14. CASE KeepOld BY <1>14 DEF KeepOld, Missing
<1>15. CASE Install BY <1>15 DEF Install, Missing
<1>16. CASE ResetFlag BY <1>16 DEF ResetFlag
<1>17. CASE Crash BY <1>17 DEF Crash
<1>18. CASE Serve BY <1>18 DEF Serve
<1>19. CASE \E t \in Threads : SetValue(t) BY <1>19 DEF SetValue
<1>20. CASE UNCHANGED vars BY <1>20 DEF vars
<1>21. QED
  BY <1>1, <1>2, <1>3, <1>4, <1>5, <1>6, <1>7, <1>8, <1>9, <1>10, <1>11, <1>12, <1>13,
     <1>14, <1>15, <1>16, <1>17, <1>18, <1>19, <1>20 DEF Next

\* The server, and a GUI that serves nobody, forget no setting
\* (pref.cpp:312-345, 532).
THEOREM FlagTold == Spec => []AloneForgetsNothing
<1>1. Init => FlagInv BY DEF Init, FlagInv
<1>2. Inv /\ FlagInv /\ [Next]_vars => FlagInv' BY FlagStep
<1>3. FlagInv => AloneForgetsNothing BY DEF FlagInv, AloneForgetsNothing, NothingForgotten
<1>4. QED BY Inductive, <1>1, <1>2, <1>3, PTL DEF Spec

-----------------------------------------------------------------------------
(* The sections in memory (Sections), for any threads, names and values,    *)
(* and any number of calls: what is read is what was written last, and the  *)
(* store that is printed is read back as the same.  Two threads may make    *)
(* one section twice.  The index leads to the first of them (IndexInv), and *)
(* nothing is ever written to another, which is what ReadsBack says; so     *)
(* neither holds by itself.                                                 *)

CONSTANTS Names, Candidates, Written, MaxCalls

VARIABLES stored, index, sePc, want, trial, latest, given, alone, broken, seCalls

Store == INSTANCE Sections WITH pc <- sePc

\* The names tried for a new section are names.
CandidatesKnown == \A i \in DOMAIN Candidates : Candidates[i] \in Names

\* A section as it is stored.
Section == [name : Names, val : Written \cup {Store!None}]
\* What a call may want: a section, perhaps a new one, and a value or none.
Wanted == (Names \cup {Store!NewName}) \X (Written \cup {Store!None})
StorePcs == {"out", "look", "try", "add", "insert", "write"}

\* The types the proofs need, of the sequence as of the functions.
StoreTypes ==
    /\ stored \in Seq(Section)
    /\ index \in [Names -> 0 .. Len(stored)]
    /\ latest \in [Names -> Written \cup {Store!None}]
    /\ sePc \in [Threads -> StorePcs]
    /\ want \in [Threads -> Wanted]
    /\ \A t \in Threads : sePc[t] \in {"look", "add", "insert", "write"} => want[t][1] \in Names

\* The index leads to a section of the name asked for.
IndexInv == \A n \in Names : index[n] # 0 => stored[index[n]].name = n

\* The inductive invariant.
StoreInv == StoreTypes /\ IndexInv /\ Store!ReadsBack /\ Store!LastWriteRead

-----------------------------------------------------------------------

\* One element of a sequence is replaced.
LEMMA Replaced ==
    ASSUME NEW S, NEW s \in Seq(S), NEW k \in 1 .. Len(s), NEW e \in S
    PROVE  /\ [s EXCEPT ![k] = e] \in Seq(S) /\ Len([s EXCEPT ![k] = e]) = Len(s)
           /\ \A i \in 1 .. Len(s) : [s EXCEPT ![k] = e][i] = IF i = k THEN e ELSE s[i]
OBVIOUS

\* The store starts empty.
LEMMA StoreBegins == Store!Init => StoreInv
<1> SUFFICES ASSUME Store!Init PROVE StoreInv  OBVIOUS
<1>1. stored = <<>> /\ Len(stored) = 0 /\ stored \in Seq(Section)  BY DEF Store!Init
<1>2. StoreTypes  BY <1>1 DEF Store!Init, StoreTypes, StorePcs, Wanted
<1>3. IndexInv /\ Store!ReadsBack /\ Store!LastWriteRead
  BY <1>1 DEF Store!Init, IndexInv, Store!ReadsBack, Store!LastWriteRead, Store!Value
<1> QED  BY <1>2, <1>3 DEF StoreInv

\* Only the thread that makes a step changes where it is and what it wants.
LEMMA ThreadTyped ==
    ASSUME StoreTypes, NEW t \in Threads, NEW p \in StorePcs,
           NEW w \in Wanted,
           p \in {"look", "add", "insert", "write"} => w[1] \in Names,
           sePc' = [sePc EXCEPT ![t] = p], want' = [want EXCEPT ![t] = w]
    PROVE  /\ sePc' \in [Threads -> StorePcs]
           /\ want' \in [Threads -> Wanted]
           /\ \A u \in Threads : sePc'[u] \in {"look", "add", "insert", "write"} => want'[u][1] \in Names
<1> USE DEF StoreTypes
<1>1. sePc' \in [Threads -> StorePcs]  OBVIOUS
<1>2. want' \in [Threads -> Wanted]  OBVIOUS
<1>3. ASSUME NEW u \in Threads, sePc'[u] \in {"look", "add", "insert", "write"} PROVE want'[u][1] \in Names
  <2>1. CASE u = t  BY <1>3, <2>1
  <2>2. CASE u # t  BY <1>3, <2>2
  <2> QED  BY <2>1, <2>2
<1> QED  BY <1>1, <1>2, <1>3

\* A step that leaves the store and what was written last alone keeps the other parts.
LEMMA StoreKept ==
    ASSUME StoreInv, stored' = stored, index' = index, latest' = latest
    PROVE  IndexInv' /\ Store!ReadsBack' /\ Store!LastWriteRead'
BY DEF StoreInv, IndexInv, Store!ReadsBack, Store!LastWriteRead, Store!Value

\* A call begins.
LEMMA CallInv ==
    ASSUME StoreInv, NEW t \in Threads,
           (\E n \in Names, v \in Written : Store!SetValue(t, n, v)) \/ Store!AddUnique(t)
    PROVE  StoreInv'
<1>1. stored' = stored /\ index' = index /\ latest' = latest
  BY DEF Store!SetValue, Store!AddUnique, Store!Call
<1>2. StoreTypes'
  <2>1. ASSUME NEW n \in Names, NEW v \in Written, Store!SetValue(t, n, v) PROVE StoreTypes'
    <3>1. <<n, v>> \in Wanted /\ <<n, v>>[1] \in Names  BY DEF Wanted
    <3> QED  BY <2>1, <3>1, <1>1, ThreadTyped DEF Store!SetValue, StoreInv, StoreTypes, StorePcs
  <2>2. CASE Store!AddUnique(t)
    <3>1. <<Store!NewName, Store!None>> \in Wanted  BY DEF Wanted
    <3> QED  BY <2>2, <3>1, <1>1, ThreadTyped DEF Store!AddUnique, StoreInv, StoreTypes, StorePcs
  <2> QED  BY <2>1, <2>2
<1> QED  BY <1>1, <1>2, StoreKept DEF StoreInv

\* sectionExists, whose answer may be stale when it is acted on.
LEMMA LookInv == ASSUME StoreInv, NEW t \in Threads, Store!Look(t) PROVE StoreInv'
<1>1. stored' = stored /\ index' = index /\ latest' = latest  BY DEF Store!Look
<1>2. want' = [want EXCEPT ![t] = want[t]] /\ want[t] \in Wanted
  BY DEF Store!Look, StoreInv, StoreTypes
<1>3. want[t][1] \in Names  BY DEF Store!Look, StoreInv, StoreTypes
<1>4. PICK p \in {"write", "add", "insert"} : sePc' = [sePc EXCEPT ![t] = p]
  BY DEF Store!Look, StoreInv, StoreTypes
<1>5. StoreTypes'  BY <1>1, <1>2, <1>3, <1>4, ThreadTyped DEF StoreInv, StoreTypes, StorePcs
<1> QED  BY <1>1, <1>5, StoreKept DEF StoreInv

\* A name is tried.
LEMMA TryInv == ASSUME CandidatesKnown, StoreInv, NEW t \in Threads, Store!Try(t) PROVE StoreInv'
<1>1. stored' = stored /\ index' = index /\ latest' = latest  BY DEF Store!Try
<1>2. StoreTypes'
  <2>1. CASE sePc' = sePc /\ want' = want  BY <1>1, <2>1 DEF StoreInv, StoreTypes
  <2>2. CASE ~(sePc' = sePc /\ want' = want)
    <3>1. /\ sePc' = [sePc EXCEPT ![t] = "add"]
          /\ want' = [want EXCEPT ![t] = <<Candidates[trial[t]], Store!None>>]
          /\ Candidates[trial[t]] \in Names
      BY <2>2 DEF Store!Try, CandidatesKnown
    <3>2. <<Candidates[trial[t]], Store!None>> \in Wanted  BY <3>1 DEF Wanted
    <3> QED  BY <3>1, <3>2, <1>1, ThreadTyped DEF StoreInv, StoreTypes, StorePcs
  <2> QED  BY <2>1, <2>2
<1> QED  BY <1>1, <1>2, StoreKept DEF StoreInv

\* A section is put at the end; it becomes the one of its name only if there was none.
LEMMA InsertInv == ASSUME StoreInv, NEW t \in Threads, Store!Insert(t) PROVE StoreInv'
<1> DEFINE n == want[t][1]
           new == [name |-> n, val |-> Store!None]
<1>1. n \in Names /\ new \in Section  BY DEF Store!Insert, StoreInv, StoreTypes, Section
<1>2. stored \in Seq(Section) /\ Len(stored) \in Nat  BY DEF StoreInv, StoreTypes
<1>3. /\ stored' \in Seq(Section) /\ Len(stored') = Len(stored) + 1
      /\ \A i \in 1 .. Len(stored) : stored'[i] = stored[i]
      /\ stored'[Len(stored) + 1] = new
  BY <1>1, <1>2 DEF Store!Insert
<1>4. index' = IF index[n] # 0 THEN index ELSE [index EXCEPT ![n] = Len(stored) + 1]
  BY DEF Store!Insert, Store!Registered
<1>5. index \in [Names -> 0 .. Len(stored)]  BY DEF StoreInv, StoreTypes
<1>6. index' \in [Names -> 0 .. Len(stored')]  BY <1>1, <1>2, <1>3, <1>4, <1>5
<1>7. StoreTypes'
  <2>1. sePc' = [sePc EXCEPT ![t] = "write"] /\ want' = [want EXCEPT ![t] = want[t]]
    BY DEF Store!Insert, StoreInv, StoreTypes
  <2>2. want[t] \in Wanted  BY DEF StoreInv, StoreTypes
  <2> QED  BY <1>1, <1>3, <1>6, <2>1, <2>2, ThreadTyped DEF Store!Insert, StoreInv, StoreTypes, StorePcs
<1>8. IndexInv'
  BY <1>1, <1>2, <1>3, <1>4, <1>5 DEF StoreInv, IndexInv
<1>9. Store!ReadsBack'
  <2> SUFFICES ASSUME NEW i \in 1 .. Len(stored) + 1
               PROVE  \/ i = index'[stored'[i].name]
                      \/ /\ index'[stored'[i].name] # 0 /\ index'[stored'[i].name] < i
                         /\ stored'[i].val = Store!None
    BY <1>2, <1>3 DEF Store!ReadsBack
  <2>1. CASE i = Len(stored) + 1  BY <1>1, <1>2, <1>3, <1>4, <1>5, <2>1
  <2>2. CASE i \in 1 .. Len(stored)
    <3>0. stored[i] \in Section  BY <1>2, <2>2
    <3>1. stored[i].name \in Names  BY <3>0 DEF Section
    <3>2. index[stored[i].name] # 0  BY <1>2, <2>2 DEF StoreInv, Store!ReadsBack
    <3>3. index'[stored[i].name] = index[stored[i].name]  BY <1>4, <1>5, <3>1, <3>2
    <3> QED  BY <1>2, <1>3, <2>2, <3>3 DEF StoreInv, Store!ReadsBack
  <2> QED  BY <1>2, <2>1, <2>2
<1>10. Store!LastWriteRead'
  <2> SUFFICES ASSUME NEW m \in Names PROVE Store!Value(m)' = latest'[m]  BY DEF Store!LastWriteRead
  <2>1. Store!Value(m) = latest[m] /\ latest' = latest  BY DEF StoreInv, Store!LastWriteRead, Store!Insert
  <2>2. CASE m = n /\ index[n] = 0  BY <1>1, <1>2, <1>3, <1>4, <1>5, <2>1, <2>2 DEF Store!Value, Store!None
  <2>3. CASE ~(m = n /\ index[n] = 0)
    <3>1. index'[m] = index[m]  BY <1>1, <1>4, <1>5, <2>3
    <3> QED  BY <1>2, <1>3, <1>5, <2>1, <3>1 DEF Store!Value
  <2> QED  BY <2>2, <2>3
<1> QED  BY <1>7, <1>8, <1>9, <1>10 DEF StoreInv

\* The value goes to the section the index leads to.
LEMMA WriteInv == ASSUME StoreInv, NEW t \in Threads, Store!Write(t) PROVE StoreInv'
<1> DEFINE n == want[t][1]
           v == want[t][2]
<1>1. n \in Names /\ v \in Written \cup {Store!None}  BY DEF Wanted, Store!Write, StoreInv, StoreTypes
<1>2. stored \in Seq(Section) /\ Len(stored) \in Nat /\ index \in [Names -> 0 .. Len(stored)]
  BY DEF StoreInv, StoreTypes
<1>3. index' = index /\ sePc' = [sePc EXCEPT ![t] = "out"] /\ want' = [want EXCEPT ![t] = want[t]]
  BY DEF Store!Write, StoreInv, StoreTypes
<1>4. want[t] \in Wanted  BY DEF StoreInv, StoreTypes
<1>5. CASE stored' = stored /\ latest' = latest
  <2>1. StoreTypes'  BY <1>3, <1>4, <1>5, ThreadTyped DEF StoreInv, StoreTypes, StorePcs
  <2> QED  BY <1>3, <1>5, <2>1, StoreKept DEF StoreInv
<1>6. CASE ~(stored' = stored /\ latest' = latest)
  <2>1. /\ index[n] # 0 /\ stored' = [stored EXCEPT ![index[n]].val = v]
        /\ latest' = [latest EXCEPT ![n] = v]
    BY <1>6 DEF Store!Write
  <2>2. index[n] \in 1 .. Len(stored) /\ stored[index[n]] \in Section  BY <1>1, <1>2, <2>1
  <2>3. [stored[index[n]] EXCEPT !.val = v] \in Section  BY <1>1, <2>2 DEF Section
  <2>e. stored' = [stored EXCEPT ![index[n]] = [stored[index[n]] EXCEPT !.val = v]]  BY <2>1
  <2>4. /\ stored' \in Seq(Section) /\ Len(stored') = Len(stored)
        /\ \A i \in 1 .. Len(stored) :
              stored'[i] = IF i = index[n] THEN [stored[index[n]] EXCEPT !.val = v] ELSE stored[i]
    BY <1>2, <2>e, <2>2, <2>3, Replaced
  <2>5. /\ \A i \in 1 .. Len(stored) : stored'[i].name = stored[i].name
        /\ stored'[index[n]].val = v
    <3>1. /\ [stored[index[n]] EXCEPT !.val = v].name = stored[index[n]].name
          /\ [stored[index[n]] EXCEPT !.val = v].val = v
      BY <2>2 DEF Section
    <3> QED  BY <2>2, <2>4, <3>1
  <2>6. StoreTypes'
    BY <1>1, <1>2, <1>3, <1>4, <2>1, <2>4, ThreadTyped DEF StoreInv, StoreTypes, StorePcs
  <2>7. IndexInv'
    <3> SUFFICES ASSUME NEW m \in Names, index[m] # 0 PROVE stored'[index[m]].name = m
      BY <1>3 DEF IndexInv
    <3>1. index[m] \in 1 .. Len(stored)  BY <1>2
    <3> QED  BY <2>5, <3>1 DEF StoreInv, IndexInv
  <2>8. Store!ReadsBack'
    <3> SUFFICES ASSUME NEW i \in 1 .. Len(stored)
                 PROVE  \/ i = index[stored[i].name]
                        \/ /\ index[stored[i].name] # 0 /\ index[stored[i].name] < i
                           /\ stored'[i].val = Store!None
      <4>1. DOMAIN stored' = 1 .. Len(stored)  BY <1>2, <2>4
      <4> QED  BY <1>3, <2>5, <4>1 DEF Store!ReadsBack
    <3>1. CASE i = index[n]  BY <1>1, <2>1, <3>1 DEF StoreInv, IndexInv
    <3>2. CASE i # index[n]
      <4>1. stored'[i] = stored[i]  BY <2>4, <3>2
      <4>2. i \in DOMAIN stored  BY <1>2
      <4> QED  BY <4>1, <4>2 DEF StoreInv, Store!ReadsBack
    <3> QED  BY <3>1, <3>2
  <2>9. Store!LastWriteRead'
    <3> SUFFICES ASSUME NEW m \in Names PROVE Store!Value(m)' = latest'[m]  BY DEF Store!LastWriteRead
    <3>1. latest \in [Names -> Written \cup {Store!None}] /\ Store!Value(m) = latest[m]
      BY DEF StoreInv, StoreTypes, Store!LastWriteRead
    <3>2. CASE m = n  BY <1>1, <1>3, <2>1, <2>5, <3>1, <3>2 DEF Store!Value
    <3>3. CASE m # n
      <4>1. index[m] # 0 => index[m] # index[n]  BY <1>1, <2>1, <3>3 DEF StoreInv, IndexInv
      <4> QED  BY <1>2, <1>3, <2>1, <2>4, <3>1, <3>3, <4>1 DEF Store!Value
    <3> QED  BY <3>2, <3>3
  <2> QED  BY <2>6, <2>7, <2>8, <2>9 DEF StoreInv
<1> QED  BY <1>5, <1>6

\* Everything is cleared away.
LEMMA ClearInv == ASSUME StoreInv, NEW t \in Threads, Store!Clear(t) PROVE StoreInv'
<1>1. stored' = <<>> /\ Len(stored') = 0 /\ stored' \in Seq(Section)  BY DEF Store!Clear
<1>2. index' = [n \in Names |-> 0] /\ latest' = [n \in Names |-> Store!None]  BY DEF Store!Clear
<1>3. StoreTypes'  BY <1>1, <1>2 DEF Store!Clear, StoreInv, StoreTypes
<1>4. IndexInv' /\ Store!ReadsBack' /\ Store!LastWriteRead'
  BY <1>1, <1>2 DEF IndexInv, Store!ReadsBack, Store!LastWriteRead, Store!Value
<1> QED  BY <1>3, <1>4 DEF StoreInv

\* Every step keeps it: one case per action.
LEMMA StoreKeeps == CandidatesKnown /\ StoreInv /\ [Store!Next]_(Store!vars) => StoreInv'
<1> SUFFICES ASSUME CandidatesKnown, StoreInv, [Store!Next]_(Store!vars) PROVE StoreInv'  OBVIOUS
<1>1. CASE UNCHANGED Store!vars
  <2>1. StoreTypes'  BY <1>1 DEF Store!vars, StoreInv, StoreTypes
  <2> QED  BY <1>1, <2>1, StoreKept DEF Store!vars, StoreInv
<1>2. ASSUME NEW t \in Threads,
             \/ \E n \in Names, v \in Written : Store!SetValue(t, n, v)
             \/ Store!AddUnique(t) \/ Store!Look(t) \/ Store!Try(t)
             \/ Store!Insert(t) \/ Store!Write(t) \/ Store!Clear(t)
      PROVE  StoreInv'
  BY <1>2, CallInv, LookInv, TryInv, InsertInv, WriteInv, ClearInv
<1> QED  BY <1>1, <1>2 DEF Store!Next

\* It holds in every reachable state.
LEMMA StoreInductive == ASSUME CandidatesKnown PROVE Store!Spec => []StoreInv
<1>1. StoreInv /\ [Store!Next]_(Store!vars) => StoreInv'  BY StoreKeeps
<1> QED  BY <1>1, StoreBegins, PTL DEF Store!Spec

-----------------------------------------------------------------------

\* Whatever value is read from the preferences is the one written last, though two
\* threads made its section at once (prefs::setValue, prefs::getValue).
THEOREM LastWriteAlwaysRead == ASSUME CandidatesKnown PROVE Store!Spec => []Store!LastWriteRead
<1>1. StoreInv => Store!LastWriteRead  BY DEF StoreInv
<1> QED  BY <1>1, StoreInductive, PTL

\* The file read back gives the same store: of two sections of one name the later one
\* was never written to (operator<< of prefs, prefs::addItem).
THEOREM AlwaysReadsBack == ASSUME CandidatesKnown PROVE Store!Spec => []Store!ReadsBack
<1>1. StoreInv => Store!ReadsBack  BY DEF StoreInv
<1> QED  BY <1>1, StoreInductive, PTL

-----------------------------------------------------------------------
(* The types of the store, and that a name given out is nobody else's.  A   *)
(* thread that is alone has nobody to take the name it was given before it  *)
(* makes the section (GivenInv).                                            *)

StoreCount == {alone, broken} \subseteq BOOLEAN /\ seCalls \in 0 .. MaxCalls

GivenInv ==
    /\ given \in Seq(Names)
    /\ alone => \A t, u \in Threads : sePc[t] # "out" /\ sePc[u] # "out" => t = u
    /\ alone => \A i \in DOMAIN given :
          index[given[i]] # 0 \/ \E t \in Threads : sePc[t] \in {"add", "insert"} /\ want[t][1] = given[i]
    /\ Store!NamesUnique

NamesInv == StoreCount /\ GivenInv

ASSUME StoreAssumption == CandidatesKnown /\ MaxCalls \in Nat

LEMMA NamesBegin == Store!Init => NamesInv
<1> SUFFICES ASSUME Store!Init PROVE NamesInv  OBVIOUS
<1>1. given = <<>> /\ DOMAIN given = {} /\ given \in Seq(Names)  BY DEF Store!Init
<1>2. StoreCount
  <2>1. {alone, broken} \subseteq BOOLEAN  BY Zenon DEF Store!Init
  <2>2. seCalls \in 0 .. MaxCalls  BY StoreAssumption DEF Store!Init
  <2> QED  BY <2>1, <2>2 DEF StoreCount
<1>3. GivenInv  BY <1>1 DEF Store!Init, GivenInv, Store!NamesUnique
<1> QED  BY <1>2, <1>3 DEF NamesInv

\* A call begins, or everything is cleared away: whoever is still alone is alone from now on.
LEMMA BeginNames ==
    ASSUME StoreInv, NamesInv, NEW t \in Threads, sePc[t] = "out", sePc' \in [Threads -> StorePcs],
           \A u \in Threads \ {t} : sePc'[u] = sePc[u],
           alone' = (alone /\ \A u \in Threads \ {t} : sePc[u] = "out"),
           given' = <<>> \/ (given' = given /\ index' = index)
    PROVE  GivenInv' /\ alone' \in BOOLEAN
<1>1. alone' \in BOOLEAN /\ (alone' => alone /\ \A u \in Threads : sePc[u] = "out")
  BY Zenon
<1>2. given' \in Seq(Names)
  <2>1. given \in Seq(Names) /\ <<>> \in Seq(Names)  BY DEF NamesInv, GivenInv
  <2> QED  BY <2>1
<1>3. alone' => \A u, v \in Threads : sePc'[u] # "out" /\ sePc'[v] # "out" => u = v
  BY <1>1
<1>4. CASE given' = <<>>
  <2>1. DOMAIN given' = {}  BY <1>4
  <2> QED  BY <1>1, <1>2, <1>3, <2>1 DEF GivenInv, Store!NamesUnique
<1>5. CASE given' = given /\ index' = index
  <2>1. ASSUME alone' PROVE \A i \in DOMAIN given : index[given[i]] # 0
    BY <1>1, <2>1 DEF NamesInv, GivenInv
  <2>2. Store!NamesUnique'
    BY <1>1, <1>5 DEF NamesInv, GivenInv, Store!NamesUnique
  <2> QED  BY <1>1, <1>2, <1>3, <1>5, <2>1, <2>2 DEF GivenInv
<1> QED  BY <1>4, <1>5

\* A thread goes on: the section whose name it was given is there before it goes.
LEMMA GoOnNames ==
    ASSUME StoreInv, NamesInv, NEW t \in Threads, NEW p \in StorePcs, sePc[t] # "out", sePc' = [sePc EXCEPT ![t] = p],
           alone' = alone, given' = given, want' = want, index' \in [Names -> Nat],
           \A n \in Names : index[n] # 0 => index'[n] # 0,
           sePc[t] \in {"add", "insert"} => p \in {"add", "insert"} \/ index'[want[t][1]] # 0
    PROVE  GivenInv'
<1>1. given' \in Seq(Names)  BY DEF NamesInv, GivenInv
<1>2. sePc \in [Threads -> StorePcs]  BY DEF StoreInv, StoreTypes
<1>3. alone' => \A u, v \in Threads : sePc'[u] # "out" /\ sePc'[v] # "out" => u = v
  BY <1>2 DEF NamesInv, GivenInv
<1>4. ASSUME alone, NEW i \in DOMAIN given
      PROVE  index'[given[i]] # 0 \/ \E u \in Threads : sePc'[u] \in {"add", "insert"} /\ want'[u][1] = given[i]
  <2>1. given[i] \in Names  BY DEF NamesInv, GivenInv
  <2>2. CASE index[given[i]] # 0  BY <2>1, <2>2
  <2>3. ASSUME NEW u \in Threads, sePc[u] \in {"add", "insert"}, want[u][1] = given[i]
        PROVE  index'[given[i]] # 0 \/ (sePc'[u] \in {"add", "insert"} /\ want'[u][1] = given[i])
    BY <1>2, <2>3
  <2> QED  BY <1>4, <2>2, <2>3 DEF NamesInv, GivenInv
<1>5. Store!NamesUnique'  BY DEF NamesInv, GivenInv, Store!NamesUnique
<1> QED  BY <1>1, <1>3, <1>4, <1>5 DEF GivenInv

\* A name is given out that has no section: nobody else has been given it.
LEMMA TryNames ==
    ASSUME CandidatesKnown, StoreInv, NamesInv, NEW t \in Threads, Store!Try(t)
    PROVE  GivenInv'
<1> DEFINE name == Candidates[trial[t]]
<1>0. sePc \in [Threads -> StorePcs] /\ want \in [Threads -> Wanted] /\ given \in Seq(Names)
  BY DEF StoreInv, StoreTypes, NamesInv, GivenInv
<1>1. sePc[t] = "try" /\ name \in Names /\ UNCHANGED <<index, alone>>
  BY DEF Store!Try, Store!Rest, CandidatesKnown
<1>2. CASE UNCHANGED <<sePc, want, given>>
  BY <1>1, <1>2 DEF NamesInv, GivenInv, Store!NamesUnique
<1>3. CASE ~UNCHANGED <<sePc, want, given>>
  <2>1. /\ index[name] = 0 /\ want' = [want EXCEPT ![t] = <<name, Store!None>>]
        /\ given' = Append(given, name) /\ sePc' = [sePc EXCEPT ![t] = "add"]
    BY <1>3 DEF Store!Try, Store!SectionExists
  <2>2. /\ given' \in Seq(Names) /\ DOMAIN given' = 1 .. Len(given) + 1 /\ DOMAIN given = 1 .. Len(given)
        /\ given'[Len(given) + 1] = name /\ \A i \in 1 .. Len(given) : given'[i] = given[i]
    BY <1>0, <1>1, <2>1
  <2>3. ASSUME alone PROVE \A i \in 1 .. Len(given) : index[given[i]] # 0 /\ given[i] # name
    <3>1. \A u \in Threads : sePc[u] \notin {"add", "insert"}
      BY <1>1, <2>3 DEF NamesInv, GivenInv
    <3> QED  BY <2>1, <2>2, <2>3, <3>1 DEF NamesInv, GivenInv
  <2>4. alone' => \A u, v \in Threads : sePc'[u] # "out" /\ sePc'[v] # "out" => u = v
    BY <1>0, <1>1, <2>1 DEF NamesInv, GivenInv
  <2>5. sePc'[t] = "add" /\ want'[t][1] = name  BY <1>0, <2>1
  <2>6. Store!NamesUnique'
    <3>1. alone => \A i, j \in 1 .. Len(given) : given[i] = given[j] => i = j
      BY <2>2 DEF NamesInv, GivenInv, Store!NamesUnique
    <3>2. Len(given) \in Nat  BY <1>0
    <3>3. alone => \A i, j \in 1 .. Len(given) + 1 : given'[i] = given'[j] => i = j
      BY <2>2, <2>3, <3>1, <3>2
    <3> QED  BY <1>1, <2>2, <3>3 DEF Store!NamesUnique
  <2>7. ASSUME alone, NEW i \in 1 .. Len(given) + 1
        PROVE  index'[given'[i]] # 0 \/ \E u \in Threads : sePc'[u] \in {"add", "insert"} /\ want'[u][1] = given'[i]
    <3>1. CASE i = Len(given) + 1  BY <2>2, <2>5, <3>1
    <3>2. CASE i # Len(given) + 1
      <4>1. i \in 1 .. Len(given)  BY <1>0, <3>2
      <4> QED  BY <1>1, <2>2, <2>3, <2>7, <4>1
    <3> QED  BY <3>1, <3>2
  <2> QED  BY <1>1, <2>2, <2>4, <2>6, <2>7 DEF GivenInv
<1> QED  BY <1>2, <1>3

LEMMA NamesKeep == CandidatesKnown /\ StoreInv /\ NamesInv /\ [Store!Next]_(Store!vars) => NamesInv'
<1> SUFFICES ASSUME CandidatesKnown, StoreInv, NamesInv, [Store!Next]_(Store!vars) PROVE NamesInv'  OBVIOUS
<1>0. /\ sePc \in [Threads -> StorePcs] /\ index \in [Names -> Nat] /\ StoreCount /\ MaxCalls \in Nat
      /\ \A t \in Threads : sePc[t] \in {"look", "add", "insert", "write"} => want[t][1] \in Names
  BY StoreAssumption DEF StoreInv, StoreTypes, NamesInv
<1>1. CASE UNCHANGED Store!vars
  BY <1>1 DEF Store!vars, NamesInv, StoreCount, GivenInv, Store!NamesUnique
<1>2. ASSUME NEW t \in Threads, Store!AddUnique(t) \/ \E n \in Names, v \in Written : Store!SetValue(t, n, v)
      PROVE  NamesInv'
  <2>1. sePc[t] = "out" /\ seCalls < MaxCalls /\ seCalls' = seCalls + 1 /\ UNCHANGED <<index, given, broken>>
    BY <1>2 DEF Store!AddUnique, Store!SetValue, Store!Call
  <2>2. alone' = (alone /\ \A u \in Threads \ {t} : sePc[u] = "out")
    BY <1>2, Zenon DEF Store!AddUnique, Store!SetValue, Store!Call
  <2>3. \E p \in StorePcs : sePc' = [sePc EXCEPT ![t] = p]
    BY <1>2 DEF Store!AddUnique, Store!SetValue, StorePcs
  <2>4. GivenInv' /\ alone' \in BOOLEAN
    <3>1. sePc' \in [Threads -> StorePcs] /\ \A u \in Threads \ {t} : sePc'[u] = sePc[u]
      BY <1>0, <2>3
    <3> QED  BY <2>1, <2>2, <3>1, BeginNames
  <2> QED  BY <1>0, <2>1, <2>4 DEF NamesInv, StoreCount
<1>3. ASSUME NEW t \in Threads, Store!Clear(t) PROVE NamesInv'
  <2>1. sePc[t] = "out" /\ seCalls < MaxCalls /\ seCalls' = seCalls + 1 /\ given' = <<>> /\ UNCHANGED <<sePc, broken>>
    BY <1>3 DEF Store!Clear
  <2>2. alone' = (alone /\ \A u \in Threads \ {t} : sePc[u] = "out")
    BY <1>3, Zenon DEF Store!Clear
  <2>3. GivenInv' /\ alone' \in BOOLEAN
    BY <1>0, <2>1, <2>2, BeginNames
  <2> QED  BY <1>0, <2>1, <2>3 DEF NamesInv, StoreCount
<1>4. ASSUME NEW t \in Threads, Store!Try(t) PROVE NamesInv'
  <2>1. StoreCount'  BY <1>0, <1>4 DEF Store!Try, Store!Rest, StoreCount
  <2> QED  BY <1>4, <2>1, TryNames DEF NamesInv
<1>5. ASSUME NEW t \in Threads, Store!Look(t) PROVE NamesInv'
  <2>1. StoreCount'  BY <1>0, <1>5 DEF Store!Look, Store!Rest, StoreCount
  <2>2. sePc[t] \in {"look", "add"} /\ UNCHANGED <<index, alone, given, want>>
    BY <1>5 DEF Store!Look, Store!Rest
  <2>3. PICK p \in StorePcs : sePc' = [sePc EXCEPT ![t] = p]
             /\ (p \in {"add", "insert"} \/ index[want[t][1]] # 0)
    BY <1>0, <1>5 DEF Store!Look, Store!SectionExists, StorePcs
  <2>4. GivenInv'  BY <1>0, <2>2, <2>3, GoOnNames
  <2> QED  BY <2>1, <2>4 DEF NamesInv
<1>6. ASSUME NEW t \in Threads, Store!Insert(t) PROVE NamesInv'
  <2>1. StoreCount'  BY <1>0, <1>6 DEF Store!Insert, Store!Rest, StoreCount
  <2>2. sePc[t] = "insert" /\ sePc' = [sePc EXCEPT ![t] = "write"] /\ UNCHANGED <<alone, given, want>>
    BY <1>6 DEF Store!Insert, Store!Rest
  <2>3. want[t][1] \in Names  BY <1>0, <2>2
  <2>4. Len(stored) \in Nat  BY DEF StoreInv, StoreTypes
  <2>5. index' \in [Names -> Nat] /\ index'[want[t][1]] # 0 /\ \A n \in Names : index[n] # 0 => index'[n] # 0
    BY <1>0, <1>6, <2>3, <2>4 DEF Store!Insert, Store!Registered
  <2>6. "write" \in StorePcs  BY DEF StorePcs
  <2>7. GivenInv'  BY <2>2, <2>5, <2>6, GoOnNames
  <2> QED  BY <2>1, <2>7 DEF NamesInv
<1>7. ASSUME NEW t \in Threads, Store!Write(t) PROVE NamesInv'
  <2>1. StoreCount'  BY <1>0, <1>7 DEF Store!Write, Store!Rest, StoreCount
  <2>2. sePc[t] = "write" /\ sePc' = [sePc EXCEPT ![t] = "out"] /\ UNCHANGED <<alone, given, want, index>>
    BY <1>7 DEF Store!Write, Store!Rest
  <2>3. "out" \in StorePcs  BY DEF StorePcs
  <2>4. GivenInv'  BY <1>0, <2>2, <2>3, GoOnNames
  <2> QED  BY <2>1, <2>4 DEF NamesInv
<1> QED  BY <1>1, <1>2, <1>3, <1>4, <1>5, <1>6, <1>7 DEF Store!Next

\* What the store promises.
StoreAgrees == Store!TypeOK /\ Store!LastWriteRead /\ Store!ReadsBack /\ Store!NamesUnique

LEMMA StoreSound == StoreInv /\ NamesInv => StoreAgrees
<1> SUFFICES ASSUME StoreInv, NamesInv PROVE StoreAgrees  OBVIOUS
<1>1. \A i \in DOMAIN stored : stored[i].name \in Names /\ stored[i].val \in Written \cup {Store!None}
  <2>1. \A i \in DOMAIN stored : stored[i] \in Section  BY DEF StoreInv, StoreTypes
  <2> QED  BY <2>1 DEF Section
<1>2. Store!TypeOK  BY <1>1 DEF StoreInv, StoreTypes, StorePcs, NamesInv, StoreCount, Store!TypeOK
<1> QED  BY <1>2 DEF StoreInv, NamesInv, GivenInv, StoreAgrees

-----------------------------------------------------------------------
(* The axes in the preferences, in the GUI and in a slave (Axes).         *)

CONSTANTS Axes, ProfileSections, LargestFilter, LoadCap, MaxCommon, AxisDefaults, AxChanges

VARIABLES axFile, axDisk, handle, profile, profileSection, ffs, common, axSlave, joining, channel,
          posing, defaulted, raced, axChanges

AxisSettings == INSTANCE Axes WITH
      SectionOf <- ProfileSections, Defaults <- AxisDefaults,
      Filters <- 0 .. LargestFilter, MaxChanges <- AxChanges, file <- axFile, disk <- axDisk,
      slave <- axSlave, changes <- axChanges

settingsVars == <<axFile, axDisk, handle, profile, profileSection, ffs, common, axSlave, joining,
                  channel, posing, defaulted, raced, axChanges>>

-----------------------------------------------------------------------
(* The form of an axis (AxisForm).                                        *)

CONSTANTS Axis, Mults, Limits, MaxEdits

VARIABLES form, afOpened, touched, afFile, edits

Form == INSTANCE AxisForm WITH opened <- afOpened, file <- afFile

formVars == <<form, afOpened, touched, afFile, edits>>

-----------------------------------------------------------------------
(* The device tab (Devices).                                              *)

CONSTANTS Links, AxesOf, Confs, DefaultConf, DvChanges

VARIABLES gui, plugged, combo, dvDisk, crashed, dvStrayed, dvChanges

DeviceTab == INSTANCE Devices WITH MaxChanges <- DvChanges, disk <- dvDisk, strayed <- dvStrayed

deviceVars == <<gui, plugged, combo, dvDisk, crashed, dvStrayed, dvChanges>>

-----------------------------------------------------------------------
(* The model tab (Models).                                                *)

CONSTANTS ModelNames, Files, DevTypes, MdSteps

VARIABLES conf, mdDisk, mdCurrent, items, selected, tweaker, offered, mdl, dev, warned, changed,
          guiPc, trPc, using, stale, blank, mdSteps

ModelTab == INSTANCE Models WITH
      Names <- ModelNames, MaxSteps <- MdSteps, disk <- mdDisk, current <- mdCurrent

modelVars == <<conf, mdDisk, mdCurrent, items, selected, tweaker, offered, mdl, dev, warned,
               changed, guiPc, trPc, using, stale, blank, mdSteps>>

-----------------------------------------------------------------------
(* The main window (MainForm).                                            *)

CONSTANTS Starts, MaxUser

VARIABLES box, cache, prefs, mwFlag, mainFile, backup, tracking, told, polled, buttonsFor, sending,
          listener, option, zip, ended, answer, outdated, crossed, dropped, mfSteps

MainWindow == INSTANCE MainForm WITH flag <- mwFlag

windowVars == <<box, cache, prefs, mwFlag, mainFile, backup, tracking, told, polled, buttonsFor,
                sending, listener, option, zip, ended, answer, outdated, crossed, dropped,
                mfSteps>>

-----------------------------------------------------------------------
(* Files are of somebody, and the option is on, off or not there. *)
Contents == [who : {"user", "package", "nobody"}, opt : {"absent", "no", "yes"}, prefix : BOOLEAN]

\* What is on disk when the GUI starts.
ASSUME StartsAssumption == Starts \subseteq Contents \X Contents /\ MaxUser \in Nat

Listeners == {"gone", MainWindow!Joining(TRUE), MainWindow!Joining(FALSE), "there"}
ZipStates == {"ready", "disabled", "packing"}
Answers == {"none", "close", "save"}

\* Types, in the groups that steps change.
BoxTypes ==
    /\ {box, cache, mwFlag, sending, outdated, dropped, ended} \subseteq BOOLEAN /\ answer \in Answers
    /\ prefs \in Contents /\ mainFile \in Contents /\ backup \in Contents /\ zip \in ZipStates /\ mfSteps \in 0 .. MaxUser
StateTypes ==
    {tracking, polled, buttonsFor} \subseteq MainWindow!TrackerStates /\ told \in Seq(MainWindow!TrackerStates)
SlaveTypes == listener \in Listeners /\ {option, crossed} \subseteq BOOLEAN
WindowTypes == BoxTypes /\ StateTypes /\ SlaveTypes

\* The box, the preferences and the file.
KeepsInv == MainWindow!OptionAgrees /\ MainWindow!NothingUnsaved /\ MainWindow!LastKept

\* A slave that joins is going to be told what the cache holds, unless the GUI is about to tell it or has
\* told it too early.
HearInv ==
    ~sending /\ ~crossed =>
        /\ listener = "there" => option = cache
        /\ listener = MainWindow!Joining(TRUE) => cache = TRUE
        /\ listener = MainWindow!Joining(FALSE) => cache = FALSE

\* The last state told is the tracker's.
ToldInv == IF told = <<>> THEN buttonsFor = tracking ELSE told[Len(told)] = tracking

WindowInv == WindowTypes /\ KeepsInv /\ HearInv /\ ToldInv

\* What is read from a file with its Prefix set says of the option what the file said.
LEMMA ReadsPrefixed ==
    ASSUME NEW c \in Contents
    PROVE  /\ MainWindow!Prefixed(c) \in Contents /\ MainWindow!Reads(MainWindow!Prefixed(c)) = MainWindow!Reads(c)
           /\ MainWindow!Reads(c) \in BOOLEAN
           /\ c.prefix => MainWindow!Prefixed(c) = c
<1>1. MainWindow!Prefixed(c) \in Contents  BY Zenon DEF Contents, MainWindow!Prefixed
<1>2. MainWindow!Prefixed(c).opt = c.opt  BY DEF Contents, MainWindow!Prefixed
<1>3. c.prefix => MainWindow!Prefixed(c) = c  BY DEF Contents, MainWindow!Prefixed
<1>4. MainWindow!Reads(c) \in BOOLEAN  BY DEF MainWindow!Reads
<1> QED  BY <1>1, <1>2, <1>3, <1>4 DEF MainWindow!Reads

\* A save that does what it is to do leaves what it was given, and any save a file, that or the old one
\* or none.
LEMMA StoredFile ==
    ASSUME NEW c \in Contents, NEW there \in Contents, NEW result \in MainWindow!Results
    PROVE  /\ MainWindow!Stored(c, there, result) \in Contents
           /\ MainWindow!Stored(c, there, result) \in {c, there, MainWindow!NoFile}
           /\ result = "done" => MainWindow!Stored(c, there, result) = c
<1>1. MainWindow!NoFile \in Contents  BY DEF MainWindow!NoFile, Contents
<1> HIDE DEF Contents
<1> QED  BY <1>1 DEF MainWindow!Stored, MainWindow!Results

\* Reading a file again leaves it as it is, or adds its Prefix: flag and file fit the preferences.
LEMMA RereadFits ==
    ASSUME NEW c \in Contents, NEW there \in Contents, NEW dirty \in BOOLEAN, NEW result \in MainWindow!Results,
           dirty \/ there = c \/ ~c.prefix
    PROVE  /\ MainWindow!FlagAfter(c, dirty, result) \in BOOLEAN /\ MainWindow!FileAfter(c, there, result) \in Contents
           /\ ~MainWindow!FlagAfter(c, dirty, result)
                 => MainWindow!Prefixed(c) = MainWindow!FileAfter(c, there, result)
<1>1. CASE c.prefix
  <2>1. MainWindow!FlagAfter(c, dirty, result) = dirty /\ MainWindow!FileAfter(c, there, result) = there
    BY <1>1, Zenon DEF MainWindow!FlagAfter, MainWindow!FileAfter
  <2> QED  BY <1>1, <2>1, ReadsPrefixed
<1>2. CASE ~c.prefix
  <2>1. /\ MainWindow!FlagAfter(c, dirty, result) = (result # "done")
        /\ MainWindow!FileAfter(c, there, result) = MainWindow!Stored(MainWindow!Prefixed(c), there, result)
    BY <1>2, Zenon DEF MainWindow!FlagAfter, MainWindow!FileAfter
  <2>2. MainWindow!Prefixed(c) \in Contents  BY ReadsPrefixed
  <2>3. /\ MainWindow!FileAfter(c, there, result) \in Contents
        /\ result = "done" => MainWindow!FileAfter(c, there, result) = MainWindow!Prefixed(c)
    BY <2>1, <2>2, StoredFile
  <2>4. MainWindow!FlagAfter(c, dirty, result) \in BOOLEAN
        /\ (~MainWindow!FlagAfter(c, dirty, result) => result = "done")
    BY <2>1, Zenon
  <2> QED  BY <2>3, <2>4, Zenon
<1> QED  BY <1>1, <1>2

LEMMA WindowBegins == MainWindow!Init => WindowInv
<1> SUFFICES ASSUME MainWindow!Init PROVE WindowInv  OBVIOUS
<1>1. PICK s \in Starts, result \in MainWindow!Results :
         LET content == IF s[1] # MainWindow!NoFile THEN s[1]
                        ELSE IF s[2] # MainWindow!NoFile THEN s[2] ELSE MainWindow!DefaultFile
             legacy == s[1] = MainWindow!NoFile /\ s[2] # MainWindow!NoFile
         IN  /\ prefs = MainWindow!Prefixed(content) /\ mwFlag = MainWindow!FlagAfter(content, legacy, result)
             /\ mainFile = MainWindow!FileAfter(content, IF legacy THEN MainWindow!NoFile ELSE content, result)
  BY Zenon DEF MainWindow!Init
<1>2. s[1] \in Contents /\ s[2] \in Contents  BY StartsAssumption
<1>3. MainWindow!NoFile \in Contents /\ MainWindow!DefaultFile \in Contents
  BY DEF MainWindow!NoFile, MainWindow!DefaultFile, Contents
<1> DEFINE content == IF s[1] # MainWindow!NoFile THEN s[1]
                      ELSE IF s[2] # MainWindow!NoFile THEN s[2] ELSE MainWindow!DefaultFile
           legacy == s[1] = MainWindow!NoFile /\ s[2] # MainWindow!NoFile
           there == IF legacy THEN MainWindow!NoFile ELSE content
<1>4. content \in Contents /\ there \in Contents /\ legacy \in BOOLEAN /\ (legacy \/ there = content)
  BY <1>2, <1>3
<1>5. prefs = MainWindow!Prefixed(content) /\ mwFlag = MainWindow!FlagAfter(content, legacy, result)
      /\ mainFile = MainWindow!FileAfter(content, there, result)
  BY <1>1
<1> HIDE DEF content, legacy, there
<1>6. prefs \in Contents /\ mwFlag \in BOOLEAN /\ mainFile \in Contents /\ (~mwFlag => prefs = mainFile)
  BY <1>4, <1>5, RereadFits, ReadsPrefixed
<1>7. cache = MainWindow!Reads(prefs) /\ cache \in BOOLEAN /\ box = cache
  <2>1. cache = MainWindow!Reads(prefs) /\ box = cache  BY Zenon DEF MainWindow!Init
  <2> QED  BY <1>6, <2>1, ReadsPrefixed
<1>8. /\ ~sending /\ ~option /\ ~ended /\ ~outdated /\ ~crossed /\ ~dropped
      /\ sending \in BOOLEAN /\ option \in BOOLEAN /\ ended \in BOOLEAN
      /\ outdated \in BOOLEAN /\ crossed \in BOOLEAN /\ dropped \in BOOLEAN
  BY Zenon DEF MainWindow!Init
<1>9. /\ tracking = "stopped" /\ told = <<>> /\ polled = "stopped" /\ buttonsFor = "stopped"
      /\ listener = "gone" /\ zip = "ready" /\ mfSteps = 0 /\ backup = MainWindow!NoFile /\ answer = "none"
  BY DEF MainWindow!Init
<1>10. WindowTypes
  BY <1>3, <1>6, <1>7, <1>8, <1>9, StartsAssumption
  DEF WindowTypes, BoxTypes, StateTypes, SlaveTypes, MainWindow!TrackerStates, Listeners, ZipStates, Answers
<1>11. KeepsInv
  BY <1>6, <1>7, <1>8, Zenon
  DEF KeepsInv, MainWindow!OptionAgrees, MainWindow!NothingUnsaved, MainWindow!LastKept
<1>12. HearInv /\ ToldInv  BY <1>9 DEF HearInv, ToldInv, MainWindow!Joining
<1> QED  BY <1>10, <1>11, <1>12 DEF WindowInv

\* What a step leaves alone stays right.
LEMMA KeepsSame ==
    ASSUME KeepsInv, UNCHANGED <<box, cache, prefs, mwFlag, mainFile, ended, answer, outdated, dropped>>
    PROVE  KeepsInv'
<1>1. /\ box' = box /\ cache' = cache /\ prefs' = prefs /\ mwFlag' = mwFlag /\ mainFile' = mainFile
      /\ ended' = ended /\ answer' = answer /\ outdated' = outdated /\ dropped' = dropped
  BY Zenon
<1> QED
  BY <1>1 DEF KeepsInv, MainWindow!OptionAgrees, MainWindow!NothingUnsaved, MainWindow!LastKept, MainWindow!Reads

LEMMA HearSame == ASSUME HearInv, UNCHANGED <<sending, crossed, listener, option, cache>> PROVE HearInv'
<1>1. sending' = sending /\ crossed' = crossed /\ listener' = listener /\ option' = option /\ cache' = cache  BY Zenon
<1>2. (sending' <=> sending) /\ (crossed' <=> crossed)  BY <1>1
<1> QED  BY <1>1, <1>2, Zenon DEF HearInv, MainWindow!Joining

LEMMA ToldSame == ASSUME ToldInv, UNCHANGED <<told, tracking, buttonsFor>> PROVE ToldInv'
<1>1. told' = told /\ tracking' = tracking /\ buttonsFor' = buttonsFor  BY Zenon
<1> QED  BY <1>1 DEF ToldInv

LEMMA BoxTypesSame ==
    ASSUME BoxTypes, UNCHANGED <<box, cache, prefs, mwFlag, mainFile, backup, sending, zip, ended, answer, outdated, dropped>>,
           mfSteps' = mfSteps \/ mfSteps' \in 0 .. MaxUser
    PROVE  BoxTypes'
BY Zenon DEF BoxTypes
LEMMA StateTypesSame == ASSUME StateTypes, UNCHANGED <<tracking, told, polled, buttonsFor>> PROVE StateTypes'
BY Zenon DEF StateTypes
LEMMA SlaveTypesSame == ASSUME SlaveTypes, UNCHANGED <<listener, option, crossed>> PROVE SlaveTypes'
BY Zenon DEF SlaveTypes

\* The user does something: the window is there, and nothing is being sent.
LEMMA UserDoes == ASSUME WindowInv, MainWindow!User PROVE ~ended /\ ~sending /\ mfSteps' \in 0 .. MaxUser
<1>1. ~ended /\ ~sending /\ mfSteps < MaxUser /\ mfSteps' = mfSteps + 1  BY Zenon DEF MainWindow!User
<1>2. mfSteps \in 0 .. MaxUser /\ MaxUser \in Nat  BY StartsAssumption DEF WindowInv, WindowTypes, BoxTypes
<1> QED  BY <1>1, <1>2

\* Steps that are about one of the three groups alone.
LEMMA CheckKeeps == ASSUME WindowInv, NEW b \in BOOLEAN, MainWindow!Check(b) PROVE WindowInv'
<1>1. /\ MainWindow!User /\ box' = b /\ cache' = b /\ prefs' = [prefs EXCEPT !.opt = MainWindow!Key(b)]
      /\ mwFlag' = TRUE /\ outdated' = FALSE /\ sending' = TRUE
      /\ UNCHANGED <<mainFile, backup, zip, ended, answer, dropped>>
      /\ UNCHANGED <<tracking, told, polled, buttonsFor>> /\ UNCHANGED <<listener, option, crossed>>
  BY Zenon DEF MainWindow!Check, MainWindow!files, MainWindow!states, MainWindow!slaves
<1>2. ~ended /\ mfSteps' \in 0 .. MaxUser  BY <1>1, UserDoes
<1>3. MainWindow!Key(b) \in {"absent", "no", "yes"} /\ (b <=> MainWindow!Key(b) = "yes")  BY DEF MainWindow!Key
<1>4. BoxTypes /\ StateTypes /\ SlaveTypes /\ KeepsInv /\ ToldInv  BY Zenon DEF WindowInv, WindowTypes
<1>5. prefs' \in Contents /\ prefs'.opt = MainWindow!Key(b)
  <2>1. prefs \in Contents  BY <1>4 DEF BoxTypes
  <2> QED  BY <1>1, <1>3, <2>1 DEF Contents
<1>6. BoxTypes'  BY <1>1, <1>2, <1>4, <1>5, Zenon DEF BoxTypes
<1>7. WindowTypes'  BY <1>1, <1>4, <1>6, StateTypesSame, SlaveTypesSame DEF WindowTypes
<1>8. KeepsInv'
  <2>1. MainWindow!OptionAgrees'  BY <1>1, <1>3, <1>5, Zenon DEF MainWindow!OptionAgrees, MainWindow!Reads
  <2>2. MainWindow!NothingUnsaved'  BY <1>1, <1>2 DEF MainWindow!NothingUnsaved
  <2>3. MainWindow!LastKept'  BY <1>1, <1>4 DEF KeepsInv, MainWindow!LastKept
  <2> QED  BY <2>1, <2>2, <2>3 DEF KeepsInv
<1>9. HearInv'  BY <1>1 DEF HearInv
<1>10. ToldInv'  BY <1>1, <1>4, ToldSame
<1> QED  BY <1>7, <1>8, <1>9, <1>10 DEF WindowInv

LEMMA MiscChangeKeeps == ASSUME WindowInv, MainWindow!MiscChange PROVE WindowInv'
<1>1. /\ sending' = FALSE /\ option' = (IF listener = "gone" THEN option ELSE cache)
      /\ crossed' = (listener = MainWindow!Joining(~cache)) /\ UNCHANGED listener
      /\ UNCHANGED <<box, cache, prefs, mwFlag, mainFile, backup, zip, ended, answer, outdated, dropped, mfSteps>>
      /\ UNCHANGED <<tracking, told, polled, buttonsFor>>
  BY Zenon DEF MainWindow!MiscChange, MainWindow!files, MainWindow!states
<1>2. BoxTypes /\ StateTypes /\ SlaveTypes /\ KeepsInv /\ ToldInv  BY Zenon DEF WindowInv, WindowTypes
<1>3. cache \in BOOLEAN /\ option \in BOOLEAN /\ listener \in Listeners  BY <1>2 DEF BoxTypes, SlaveTypes
<1>4. BoxTypes'  BY <1>1, <1>2, Zenon DEF BoxTypes
<1>5. SlaveTypes'  BY <1>1, <1>3, Zenon DEF SlaveTypes
<1>6. WindowTypes'  BY <1>1, <1>2, <1>4, <1>5, StateTypesSame DEF WindowTypes
<1>7. HearInv'
  <2>1. listener' = listener /\ cache' = cache  BY <1>1, Zenon
  <2>2. listener = "there" => option' = cache  BY <1>1, Zenon
  <2>3. CASE cache = TRUE
    <3>1. crossed' <=> listener = MainWindow!Joining(FALSE)  BY <1>1, <2>3, Zenon
    <3> QED  BY <2>1, <2>2, <2>3, <3>1, Zenon DEF HearInv
  <2>4. CASE cache = FALSE
    <3>1. crossed' <=> listener = MainWindow!Joining(TRUE)  BY <1>1, <2>4, Zenon
    <3> QED  BY <2>1, <2>2, <2>4, <3>1, Zenon DEF HearInv
  <2> QED  BY <1>3, <2>3, <2>4, Zenon
<1>8. KeepsInv'  BY <1>1, <1>2, KeepsSame, Zenon
<1>9. ToldInv'  BY <1>1, <1>2, ToldSame, Zenon
<1> QED  BY <1>6, <1>7, <1>8, <1>9 DEF WindowInv

\* A save, whatever comes of it, leaves the flag up or the preferences in the file, if there is one.
LEMMA SaveRight ==
    ASSUME prefs \in Contents, mainFile \in Contents, mwFlag \in BOOLEAN, MainWindow!SavePrefs,
           ~mwFlag => mainFile \in {prefs, MainWindow!NoFile}
    PROVE  /\ mainFile' \in Contents /\ mwFlag' \in BOOLEAN
           /\ ~mwFlag' => mainFile' \in {prefs, MainWindow!NoFile}
<1>1. PICK result \in MainWindow!Results :
          mainFile' = MainWindow!Stored(prefs, mainFile, result) /\ mwFlag' = (mwFlag /\ result # "done")
  BY Zenon DEF MainWindow!SavePrefs
<1>2. /\ mainFile' \in Contents /\ mainFile' \in {prefs, mainFile, MainWindow!NoFile}
      /\ (result = "done" => mainFile' = prefs)
  BY <1>1, StoredFile
<1>3. mwFlag' \in BOOLEAN /\ (mwFlag /\ ~mwFlag' => result = "done")  BY <1>1, Zenon
<1>4. CASE mwFlag  BY <1>2, <1>3, <1>4
<1>5. CASE ~mwFlag  BY <1>2, <1>3, <1>5
<1> QED  BY <1>4, <1>5

LEMMA SaveKeeps == ASSUME WindowInv, MainWindow!Save PROVE WindowInv'
<1>1. /\ MainWindow!User /\ MainWindow!SavePrefs
      /\ UNCHANGED <<box, cache, prefs, backup, sending, zip, ended, answer, outdated, dropped>>
      /\ UNCHANGED <<tracking, told, polled, buttonsFor>> /\ UNCHANGED <<listener, option, crossed>>
      /\ UNCHANGED <<told, tracking, buttonsFor>>
  BY Zenon DEF MainWindow!Save, MainWindow!states, MainWindow!slaves
<1>2. ~ended /\ mfSteps' \in 0 .. MaxUser  BY <1>1, UserDoes
<1>3. BoxTypes /\ StateTypes /\ SlaveTypes /\ KeepsInv /\ HearInv /\ ToldInv  BY Zenon DEF WindowInv, WindowTypes
<1>4. prefs \in Contents /\ mainFile \in Contents /\ mwFlag \in BOOLEAN  BY <1>3, Zenon DEF BoxTypes
<1>5. ~mwFlag => mainFile \in {prefs, MainWindow!NoFile}  BY <1>3, Zenon DEF KeepsInv, MainWindow!NothingUnsaved
<1>6. /\ mainFile' \in Contents /\ mwFlag' \in BOOLEAN
      /\ ~mwFlag' => mainFile' \in {prefs, MainWindow!NoFile}
  BY <1>1, <1>4, <1>5, SaveRight
<1>7. BoxTypes'  BY <1>1, <1>2, <1>3, <1>6, Zenon DEF BoxTypes
<1>8. WindowTypes'  BY <1>1, <1>3, <1>7, StateTypesSame, SlaveTypesSame DEF WindowTypes
<1>9. KeepsInv'
  <2>1. MainWindow!OptionAgrees' /\ MainWindow!LastKept'
    BY <1>1, <1>3 DEF KeepsInv, MainWindow!OptionAgrees, MainWindow!LastKept, MainWindow!Reads
  <2>2. prefs' = prefs /\ ~ended'  BY <1>1, <1>2, Zenon
  <2>3. MainWindow!NothingUnsaved'  BY <1>6, <2>2, Zenon DEF MainWindow!NothingUnsaved
  <2> QED  BY <2>1, <2>3 DEF KeepsInv
<1>10. HearInv'
  <2>1. UNCHANGED <<sending, crossed, listener, option, cache>>  BY <1>1, Zenon
  <2> QED  BY <1>3, <2>1, HearSame, Zenon
<1>11. ToldInv'  BY <1>1, <1>3, ToldSame, Zenon
<1> QED  BY <1>8, <1>9, <1>10, <1>11 DEF WindowInv

\* rereadPrefs: whatever the file is, the preferences and the flag fit it.
LEMMA RereadRight ==
    ASSUME BoxTypes, NEW c \in Contents, MainWindow!Reread(c)
    PROVE  /\ prefs' \in Contents /\ mainFile' \in Contents /\ mwFlag' \in BOOLEAN /\ outdated' \in BOOLEAN
           /\ (~mwFlag' => prefs' = mainFile') /\ (~outdated' => MainWindow!Reads(prefs') = cache)
<1>1. PICK result \in MainWindow!Results : /\ mwFlag' = MainWindow!FlagAfter(c, FALSE, result)
                                            /\ mainFile' = MainWindow!FileAfter(c, c, result)
  BY Zenon DEF MainWindow!Reread
<1>2. prefs' = MainWindow!Prefixed(c) /\ outdated' = (MainWindow!Reads(c) # cache)  BY Zenon DEF MainWindow!Reread
<1>3. /\ mwFlag' \in BOOLEAN /\ mainFile' \in Contents /\ (~mwFlag' => prefs' = mainFile')
  <2>1. FALSE \/ c = c \/ ~c.prefix  OBVIOUS
  <2> QED  BY <1>1, <1>2, <2>1, RereadFits
<1>4. prefs' \in Contents /\ MainWindow!Reads(prefs') = MainWindow!Reads(c)  BY <1>2, ReadsPrefixed
<1>5. outdated' \in BOOLEAN /\ (~outdated' => MainWindow!Reads(c) = cache)  BY <1>2, Zenon
<1> QED  BY <1>3, <1>4, <1>5, Zenon

LEMMA RereadKeeps ==
    ASSUME WindowInv, NEW c \in Contents, MainWindow!User, MainWindow!Reread(c), backup' \in Contents, ~dropped',
           UNCHANGED <<box, cache, sending, zip, ended, answer>>, dropped' \in BOOLEAN,
           UNCHANGED <<tracking, told, polled, buttonsFor>>, UNCHANGED <<listener, option, crossed>>
    PROVE  WindowInv'
<1>1. ~ended /\ mfSteps' \in 0 .. MaxUser  BY UserDoes
<1>2. BoxTypes /\ StateTypes /\ SlaveTypes /\ KeepsInv /\ HearInv /\ ToldInv  BY Zenon DEF WindowInv, WindowTypes
<1>3. /\ prefs' \in Contents /\ mainFile' \in Contents /\ mwFlag' \in BOOLEAN /\ outdated' \in BOOLEAN
      /\ (~mwFlag' => prefs' = mainFile') /\ (~outdated' => MainWindow!Reads(prefs') = cache)
  BY <1>2, RereadRight
<1>4. BoxTypes'  BY <1>1, <1>2, <1>3, Zenon DEF BoxTypes
<1>5. WindowTypes'  BY <1>2, <1>4, StateTypesSame, SlaveTypesSame DEF WindowTypes
<1>6. KeepsInv'
  <2>1. MainWindow!OptionAgrees'
    <3>1. box' = cache' /\ cache' = cache  BY <1>2, Zenon DEF KeepsInv, MainWindow!OptionAgrees
    <3> QED  BY <1>3, <3>1, Zenon DEF MainWindow!OptionAgrees, MainWindow!Reads
  <2>2. MainWindow!NothingUnsaved'  BY <1>1, <1>3 DEF MainWindow!NothingUnsaved
  <2> QED  BY <2>1, <2>2 DEF KeepsInv, MainWindow!LastKept
<1>7. HearInv'
  <2>1. UNCHANGED <<sending, crossed, listener, option, cache>>  BY Zenon
  <2> QED  BY <1>2, <2>1, HearSame, Zenon
<1>8. ToldInv'  BY <1>2, ToldSame, Zenon
<1> QED  BY <1>5, <1>6, <1>7, <1>8 DEF WindowInv

LEMMA DiscardKeeps == ASSUME WindowInv, MainWindow!Discard PROVE WindowInv'
<1>1. /\ MainWindow!User /\ MainWindow!Reread(mainFile) /\ UNCHANGED <<box, cache, sending, zip, ended, answer>>
      /\ backup' = backup /\ dropped' = dropped
      /\ UNCHANGED <<tracking, told, polled, buttonsFor>> /\ UNCHANGED <<listener, option, crossed>>
  BY Zenon DEF MainWindow!Discard, MainWindow!states, MainWindow!slaves
<1>2. mainFile \in Contents /\ backup \in Contents /\ dropped \in BOOLEAN /\ ~dropped
  BY Zenon DEF WindowInv, WindowTypes, BoxTypes, KeepsInv, MainWindow!LastKept
<1>3. backup' \in Contents /\ ~dropped' /\ dropped' \in BOOLEAN  BY <1>1, <1>2
<1> QED  BY <1>1, <1>2, <1>3, RereadKeeps

\* However the copy of the default preferences fails, those before are in the file or in its backup.
LEMMA CopyKeeps ==
    ASSUME mainFile \in Contents, backup \in Contents,
           NEW fails \in {"nothing", "remove", "rename", "copy"}
    PROVE  /\ MainWindow!CopyDefault(fails)[1] \in Contents /\ MainWindow!CopyDefault(fails)[2] \in Contents
           /\ mainFile # MainWindow!NoFile =>
                 mainFile \in {MainWindow!CopyDefault(fails)[1], MainWindow!CopyDefault(fails)[2]}
<1>1. MainWindow!NoFile \in Contents /\ MainWindow!DefaultFile \in Contents
  BY DEF MainWindow!NoFile, MainWindow!DefaultFile, Contents
<1> HIDE DEF Contents
<1>2. CASE mainFile = MainWindow!NoFile  BY <1>1, <1>2 DEF MainWindow!CopyDefault
<1>3. CASE mainFile # MainWindow!NoFile
  <2>1. CASE fails = "remove" /\ backup # MainWindow!NoFile  BY <1>3, <2>1 DEF MainWindow!CopyDefault
  <2>2. CASE fails = "rename"  BY <1>1, <1>3, <2>2 DEF MainWindow!CopyDefault
  <2>3. CASE fails = "copy"  BY <1>1, <1>3, <2>3 DEF MainWindow!CopyDefault
  <2>4. CASE ~(fails = "remove" /\ backup # MainWindow!NoFile) /\ fails # "rename" /\ fails # "copy"
    BY <1>1, <1>3, <2>4 DEF MainWindow!CopyDefault
  <2> QED  BY <2>1, <2>2, <2>3, <2>4
<1> QED  BY <1>2, <1>3

LEMMA DefaultsKeeps == ASSUME WindowInv, MainWindow!Defaults PROVE WindowInv'
<1>1. PICK fails \in {"nothing", "remove", "rename", "copy"} :
          LET f == MainWindow!CopyDefault(fails) IN
          /\ MainWindow!Reread(f[1]) /\ backup' = f[2]
          /\ dropped' = (dropped \/ (mainFile # MainWindow!NoFile /\ ~MainWindow!Same(mainFile, f[1])
                                     /\ ~MainWindow!Same(mainFile, f[2])))
  BY Zenon DEF MainWindow!Defaults
<1>2. /\ MainWindow!User /\ UNCHANGED <<box, cache, sending, zip, ended, answer>>
      /\ UNCHANGED <<tracking, told, polled, buttonsFor>> /\ UNCHANGED <<listener, option, crossed>>
  BY Zenon DEF MainWindow!Defaults, MainWindow!states, MainWindow!slaves
<1>3. mainFile \in Contents /\ backup \in Contents /\ dropped \in BOOLEAN /\ ~dropped
  BY Zenon DEF WindowInv, WindowTypes, BoxTypes, KeepsInv, MainWindow!LastKept
<1> DEFINE one == MainWindow!CopyDefault(fails)[1]
           two == MainWindow!CopyDefault(fails)[2]
<1>4. one \in Contents /\ two \in Contents /\ (mainFile # MainWindow!NoFile => mainFile \in {one, two})
  BY <1>3, CopyKeeps
<1>5. /\ MainWindow!Reread(one) /\ backup' = two
      /\ dropped' = (dropped \/ (mainFile # MainWindow!NoFile /\ ~MainWindow!Same(mainFile, one)
                                 /\ ~MainWindow!Same(mainFile, two)))
  BY <1>1, Zenon
<1> HIDE DEF one, two
<1>6. MainWindow!Same(mainFile, mainFile)  BY DEF MainWindow!Same
<1>7. dropped' = FALSE
  <2>1. mainFile = MainWindow!NoFile \/ mainFile = one \/ mainFile = two  BY <1>4
  <2> QED  BY <1>3, <1>5, <1>6, <2>1, Zenon
<1>8. backup' \in Contents /\ ~dropped' /\ dropped' \in BOOLEAN  BY <1>4, <1>5, <1>7
<1> QED  BY <1>2, <1>4, <1>5, <1>8, RereadKeeps

\* The session ends, for a slave too.
LEMMA EndedRight ==
    ASSUME StateTypes, SlaveTypes, ToldInv, MainWindow!Ended, UNCHANGED <<polled, buttonsFor>>
    PROVE  StateTypes' /\ SlaveTypes' /\ ToldInv' /\ HearInv'
<1>1. listener' = "gone" /\ crossed' = FALSE /\ option' = option  BY Zenon DEF MainWindow!Ended
<1>2. SlaveTypes'  BY <1>1, Zenon DEF SlaveTypes, Listeners
<1>3. HearInv'  BY <1>1 DEF HearInv, MainWindow!Joining
<1>4. polled' = polled /\ buttonsFor' = buttonsFor  BY Zenon
<1>5. CASE tracking = "stopped"
  <2>1. tracking' = tracking /\ told' = told  BY <1>5, Zenon DEF MainWindow!Ended
  <2> QED  BY <1>2, <1>3, <1>4, <2>1, StateTypesSame, ToldSame, Zenon
<1>6. CASE tracking # "stopped"
  <2>1. tracking' = "stopped" /\ told' = Append(told, "stopped")
    BY <1>6, Zenon DEF MainWindow!Ended, MainWindow!Change
  <2>2. told \in Seq(MainWindow!TrackerStates) /\ "stopped" \in MainWindow!TrackerStates
    BY DEF StateTypes, MainWindow!TrackerStates
  <2>3. told' \in Seq(MainWindow!TrackerStates) /\ told' # <<>> /\ told'[Len(told')] = "stopped"  BY <2>1, <2>2
  <2>4. StateTypes'  BY <1>4, <2>1, <2>2, <2>3 DEF StateTypes
  <2>5. ToldInv'  BY <2>1, <2>3 DEF ToldInv
  <2> QED  BY <1>2, <1>3, <2>4, <2>5
<1> QED  BY <1>5, <1>6

\* The window is closed: who was not asked has the preferences in the file.
LEMMA CloseKeeps == ASSUME WindowInv, MainWindow!Close PROVE WindowInv'
<1>1. /\ MainWindow!User /\ ended' = TRUE /\ MainWindow!Ended /\ MainWindow!SaveOnExit
      /\ UNCHANGED <<polled, buttonsFor>>
      /\ UNCHANGED <<box, cache, prefs, backup, sending, zip, outdated, dropped>>
  BY Zenon DEF MainWindow!Close
<1>2. mfSteps' \in 0 .. MaxUser  BY <1>1, UserDoes
<1>3. BoxTypes /\ StateTypes /\ SlaveTypes /\ KeepsInv /\ ToldInv  BY Zenon DEF WindowInv, WindowTypes
<1>4. StateTypes' /\ SlaveTypes' /\ ToldInv' /\ HearInv'  BY <1>1, <1>3, EndedRight, Zenon
<1>5. prefs \in Contents /\ mainFile \in Contents /\ mwFlag \in BOOLEAN /\ answer \in Answers
      /\ (~mwFlag => mainFile \in {prefs, MainWindow!NoFile})
  BY <1>3, Zenon DEF BoxTypes, KeepsInv, MainWindow!NothingUnsaved
<1>6. /\ mainFile' \in Contents /\ mwFlag' \in BOOLEAN /\ answer' \in Answers
      /\ (~mwFlag' => mainFile' \in {prefs, MainWindow!NoFile})
      /\ (answer' = "none" => mainFile' \in {prefs, MainWindow!NoFile})
  <2>1. CASE ~mwFlag
    <3>1. UNCHANGED mainFile /\ UNCHANGED mwFlag /\ UNCHANGED answer  BY <1>1, <2>1, Zenon DEF MainWindow!SaveOnExit
    <3> QED  BY <1>5, <2>1, <3>1, Zenon
  <2>2. CASE mwFlag
    <3>1. CASE answer' = "close" /\ UNCHANGED mainFile /\ UNCHANGED mwFlag
      <4>1. mwFlag' <=> mwFlag  BY <3>1, Zenon
      <4>2. answer' \in Answers /\ answer' # "none"  BY <3>1 DEF Answers
      <4> QED  BY <1>5, <2>2, <3>1, <4>1, <4>2, Zenon
    <3>2. CASE answer' = "save" /\ MainWindow!SavePrefs
      <4>1. answer' \in Answers /\ answer' # "none"  BY <3>2 DEF Answers
      <4>2. /\ mainFile' \in Contents /\ mwFlag' \in BOOLEAN
            /\ ~mwFlag' => mainFile' \in {prefs, MainWindow!NoFile}
        BY <1>5, <3>2, SaveRight
      <4> QED  BY <4>1, <4>2, Zenon
    <3> QED  BY <1>1, <2>2, <3>1, <3>2, Zenon DEF MainWindow!SaveOnExit
  <2> QED  BY <2>1, <2>2, Zenon
<1>7. BoxTypes'  BY <1>1, <1>2, <1>3, <1>6, Zenon DEF BoxTypes
<1>8. WindowTypes'  BY <1>4, <1>7 DEF WindowTypes
<1>9. KeepsInv'
  <2>1. MainWindow!OptionAgrees' /\ MainWindow!LastKept'
    BY <1>1, <1>3 DEF KeepsInv, MainWindow!OptionAgrees, MainWindow!LastKept, MainWindow!Reads
  <2>2. prefs' = prefs  BY <1>1, Zenon
  <2>3. MainWindow!NothingUnsaved'  BY <1>6, <2>2, Zenon DEF MainWindow!NothingUnsaved
  <2> QED  BY <2>1, <2>3 DEF KeepsInv
<1> QED  BY <1>4, <1>8, <1>9, Zenon DEF WindowInv

\* A step that leaves the preferences alone, and tells at most what the tracker does.
LEMMA RestKeeps ==
    ASSUME WindowInv, UNCHANGED <<box, cache, prefs, mwFlag, mainFile, backup, zip, answer, outdated, dropped, sending, ended>>,
           mfSteps' = mfSteps \/ MainWindow!User, StateTypes', SlaveTypes', HearInv', ToldInv'
    PROVE  WindowInv'
<1>1. mfSteps' = mfSteps \/ mfSteps' \in 0 .. MaxUser  BY UserDoes, Zenon
<1>2. BoxTypes /\ KeepsInv  BY Zenon DEF WindowInv, WindowTypes
<1>3. UNCHANGED <<box, cache, prefs, mwFlag, mainFile, backup, sending, zip, ended, answer, outdated, dropped>>  BY Zenon
<1>4. UNCHANGED <<box, cache, prefs, mwFlag, mainFile, ended, answer, outdated, dropped>>  BY Zenon
<1>5. BoxTypes'  BY <1>1, <1>2, <1>3, BoxTypesSame, Zenon
<1>6. KeepsInv'  BY <1>2, <1>4, KeepsSame, Zenon
<1> QED  BY <1>5, <1>6, Zenon DEF WindowInv, WindowTypes

\* ltr_int_cal_set_state: the state that is announced is the tracker's.
LEMMA ChangeRight ==
    ASSUME StateTypes, NEW to \in MainWindow!TrackerStates, MainWindow!Change(to), UNCHANGED <<polled, buttonsFor>>
    PROVE  StateTypes' /\ ToldInv'
<1>1. tracking' = to /\ told' = Append(told, to) /\ polled' = polled /\ buttonsFor' = buttonsFor
  BY Zenon DEF MainWindow!Change
<1>2. told \in Seq(MainWindow!TrackerStates)  BY DEF StateTypes
<1>3. told' \in Seq(MainWindow!TrackerStates) /\ told' # <<>> /\ told'[Len(told')] = to  BY <1>1, <1>2
<1>4. StateTypes'  BY <1>1, <1>3 DEF StateTypes
<1>5. ToldInv'  BY <1>1, <1>3 DEF ToldInv
<1> QED  BY <1>4, <1>5

LEMMA ButtonsKeep ==
    ASSUME WindowInv,
           MainWindow!Start \/ MainWindow!Run \/ MainWindow!Pause \/ MainWindow!Wake
    PROVE  WindowInv'
<1>1. \E to \in MainWindow!TrackerStates : MainWindow!Change(to)
  <2>1. {"initializing", "running", "paused"} \subseteq MainWindow!TrackerStates  BY DEF MainWindow!TrackerStates
  <2> QED  BY <2>1, Zenon DEF MainWindow!Start, MainWindow!Run, MainWindow!Pause, MainWindow!Wake
<1>2. /\ UNCHANGED <<box, cache, prefs, mwFlag, mainFile, backup, zip, answer, outdated, dropped, sending, ended>>
      /\ UNCHANGED <<listener, option, crossed>> /\ UNCHANGED <<polled, buttonsFor>>
      /\ UNCHANGED <<sending, crossed, listener, option, cache>>
      /\ (mfSteps' = mfSteps \/ MainWindow!User)
  <2>1. CASE MainWindow!Start
    BY <2>1, Zenon DEF MainWindow!Start, MainWindow!rest, MainWindow!files, MainWindow!slaves
  <2>2. CASE MainWindow!Run
    BY <2>2, Zenon DEF MainWindow!Run, MainWindow!rest, MainWindow!files, MainWindow!slaves
  <2>3. CASE MainWindow!Pause
    BY <2>3, Zenon DEF MainWindow!Pause, MainWindow!rest, MainWindow!files, MainWindow!slaves
  <2>4. CASE MainWindow!Wake
    BY <2>4, Zenon DEF MainWindow!Wake, MainWindow!rest, MainWindow!files, MainWindow!slaves
  <2> QED  BY <2>1, <2>2, <2>3, <2>4, Zenon
<1>3. StateTypes /\ SlaveTypes /\ HearInv  BY Zenon DEF WindowInv, WindowTypes
<1>4. StateTypes' /\ ToldInv'  BY <1>1, <1>2, <1>3, ChangeRight, Zenon
<1>5. SlaveTypes' /\ HearInv'  BY <1>2, <1>3, SlaveTypesSame, HearSame, Zenon
<1> QED  BY <1>2, <1>4, <1>5, RestKeeps, Zenon

LEMMA SessionEnds == ASSUME WindowInv, MainWindow!Stop \/ MainWindow!Fail PROVE WindowInv'
<1>1. /\ UNCHANGED <<box, cache, prefs, mwFlag, mainFile, backup, zip, answer, outdated, dropped, sending, ended>>
      /\ MainWindow!Ended /\ UNCHANGED <<polled, buttonsFor>> /\ (mfSteps' = mfSteps \/ MainWindow!User)
  BY Zenon DEF MainWindow!Stop, MainWindow!Fail, MainWindow!rest, MainWindow!files
<1>2. StateTypes /\ SlaveTypes /\ ToldInv  BY Zenon DEF WindowInv, WindowTypes
<1>3. StateTypes' /\ SlaveTypes' /\ ToldInv' /\ HearInv'  BY <1>1, <1>2, EndedRight, Zenon
<1> QED  BY <1>1, <1>3, RestKeeps, Zenon

\* stateChanged: what was told last stays last, or has been told.
LEMMA DeliverKeeps == ASSUME WindowInv, MainWindow!Deliver PROVE WindowInv'
<1>1. /\ told # <<>> /\ buttonsFor' = Head(told) /\ told' = Tail(told) /\ tracking' = tracking /\ polled' = polled
      /\ UNCHANGED <<box, cache, prefs, mwFlag, mainFile, backup, zip, answer, outdated, dropped, sending, ended>>
      /\ UNCHANGED <<listener, option, crossed>> /\ UNCHANGED <<sending, crossed, listener, option, cache>>
      /\ mfSteps' = mfSteps
  BY Zenon DEF MainWindow!Deliver, MainWindow!rest, MainWindow!files, MainWindow!slaves
<1>2. StateTypes /\ SlaveTypes /\ HearInv /\ ToldInv  BY Zenon DEF WindowInv, WindowTypes
<1>3. told \in Seq(MainWindow!TrackerStates) /\ told # <<>> /\ told[Len(told)] = tracking
  BY <1>1, <1>2 DEF StateTypes, ToldInv
<1>4. Head(told) \in MainWindow!TrackerStates /\ Tail(told) \in Seq(MainWindow!TrackerStates)  BY <1>3
<1>5. StateTypes'  BY <1>1, <1>2, <1>4 DEF StateTypes
<1>6. ToldInv'
  <2>1. CASE Len(told) = 1  BY <1>1, <1>3, <2>1 DEF ToldInv
  <2>2. CASE Len(told) # 1
    <3>1. Len(Tail(told)) = Len(told) - 1 /\ Len(told) \in Nat /\ Len(told) > 1
      <4>1. Len(told) \in Nat /\ Len(told) # 0  BY <1>3
      <4>2. Len(Tail(told)) = Len(told) - 1  BY <1>3
      <4> QED  BY <2>2, <4>1, <4>2
    <3>3. Tail(told) # <<>>
      <4> DEFINE rest == Tail(told)
      <4>1. Len(rest) = Len(told) - 1  BY <3>1
      <4> HIDE DEF rest
      <4>2. rest # <<>>  BY <3>1, <4>1
      <4> QED  BY <4>2 DEF rest
    <3>2. Tail(told)[Len(told) - 1] = told[Len(told)]  BY <1>3, <3>1
    <3> QED  BY <1>1, <1>3, <3>1, <3>2, <3>3 DEF ToldInv
  <2> QED  BY <2>1, <2>2
<1>7. SlaveTypes' /\ HearInv'  BY <1>1, <1>2, SlaveTypesSame, HearSame, Zenon
<1> QED  BY <1>1, <1>5, <1>6, <1>7, RestKeeps, Zenon

LEMMA PollKeeps == ASSUME WindowInv, MainWindow!PollState PROVE WindowInv'
<1>1. /\ polled' = tracking /\ UNCHANGED <<told, tracking, buttonsFor>>
      /\ UNCHANGED <<box, cache, prefs, mwFlag, mainFile, backup, zip, answer, outdated, dropped, sending, ended>>
      /\ UNCHANGED <<listener, option, crossed>> /\ UNCHANGED <<sending, crossed, listener, option, cache>>
      /\ mfSteps' = mfSteps
  BY Zenon DEF MainWindow!PollState, MainWindow!rest, MainWindow!files, MainWindow!slaves
<1>2. StateTypes /\ SlaveTypes /\ HearInv /\ ToldInv  BY Zenon DEF WindowInv, WindowTypes
<1>3. StateTypes'
  <2>1. told' = told /\ tracking' = tracking /\ buttonsFor' = buttonsFor  BY <1>1, Zenon
  <2> QED  BY <1>1, <1>2, <2>1 DEF StateTypes
<1>4. SlaveTypes' /\ HearInv' /\ ToldInv'  BY <1>1, <1>2, SlaveTypesSame, HearSame, ToldSame, Zenon
<1> QED  BY <1>1, <1>3, <1>4, RestKeeps, Zenon

\* signalNewSlave, in its two steps: the slave that is there has been told the cache.
LEMMA JoinKeeps == ASSUME WindowInv, MainWindow!Join PROVE WindowInv'
<1>1. /\ listener' = MainWindow!Joining(cache) /\ option' = MainWindow!Reads(mainFile) /\ crossed' = crossed
      /\ UNCHANGED <<box, cache, prefs, mwFlag, mainFile, backup, zip, answer, outdated, dropped, sending, ended>>
      /\ UNCHANGED <<tracking, told, polled, buttonsFor>> /\ UNCHANGED <<told, tracking, buttonsFor>>
      /\ mfSteps' = mfSteps
  BY Zenon DEF MainWindow!Join, MainWindow!rest, MainWindow!files, MainWindow!states
<1>2. BoxTypes /\ StateTypes /\ SlaveTypes /\ ToldInv  BY Zenon DEF WindowInv, WindowTypes
<1>3. cache \in BOOLEAN /\ mainFile \in Contents /\ crossed \in BOOLEAN  BY <1>2, Zenon DEF BoxTypes, SlaveTypes
<1>4. MainWindow!Reads(mainFile) \in BOOLEAN  BY <1>3, ReadsPrefixed
<1>5. cache = TRUE \/ cache = FALSE  BY <1>3, Zenon
<1>6. listener' \in Listeners  BY <1>1, <1>5, Zenon DEF Listeners
<1>7. SlaveTypes'  BY <1>1, <1>3, <1>4, <1>6, Zenon DEF SlaveTypes
<1>8. HearInv'
  <2>1. MainWindow!Joining(TRUE) # MainWindow!Joining(FALSE) /\ MainWindow!Joining(TRUE) # "there"
        /\ MainWindow!Joining(FALSE) # "there"
    BY DEF MainWindow!Joining
  <2>2. cache' = cache  BY <1>1, Zenon
  <2> QED  BY <1>1, <1>5, <2>1, <2>2, Zenon DEF HearInv
<1>9. StateTypes' /\ ToldInv'  BY <1>1, <1>2, StateTypesSame, ToldSame, Zenon
<1> QED  BY <1>1, <1>7, <1>8, <1>9, RestKeeps, Zenon

LEMMA SignalKeeps == ASSUME WindowInv, MainWindow!SignalNewSlave PROVE WindowInv'
<1>1. /\ listener' = "there" /\ option' = (listener = MainWindow!Joining(TRUE)) /\ crossed' = crossed
      /\ listener \in {MainWindow!Joining(TRUE), MainWindow!Joining(FALSE)}
      /\ UNCHANGED <<box, cache, prefs, mwFlag, mainFile, backup, zip, answer, outdated, dropped, sending, ended>>
      /\ UNCHANGED <<tracking, told, polled, buttonsFor>> /\ UNCHANGED <<told, tracking, buttonsFor>>
      /\ mfSteps' = mfSteps
  BY Zenon DEF MainWindow!SignalNewSlave, MainWindow!rest, MainWindow!files, MainWindow!states
<1>2. BoxTypes /\ StateTypes /\ SlaveTypes /\ HearInv /\ ToldInv  BY Zenon DEF WindowInv, WindowTypes
<1>3. crossed \in BOOLEAN /\ sending \in BOOLEAN /\ cache \in BOOLEAN  BY <1>2, Zenon DEF BoxTypes, SlaveTypes
<1>4. SlaveTypes'  BY <1>1, <1>3, Zenon DEF SlaveTypes, Listeners
<1>5. MainWindow!Joining(TRUE) # MainWindow!Joining(FALSE) /\ MainWindow!Joining(TRUE) # "there"
      /\ MainWindow!Joining(FALSE) # "there"
  BY DEF MainWindow!Joining
<1>6. ~sending /\ ~crossed => option' = cache
  <2>1. CASE listener = MainWindow!Joining(TRUE)  BY <1>1, <1>2, <2>1, Zenon DEF HearInv
  <2>2. CASE listener = MainWindow!Joining(FALSE)
    <3>1. listener # MainWindow!Joining(TRUE)  BY <1>5, <2>2
    <3>2. option' = FALSE  BY <1>1, <3>1, Zenon
    <3> QED  BY <1>2, <2>2, <3>2, Zenon DEF HearInv
  <2> QED  BY <1>1, <2>1, <2>2, Zenon
<1>7. HearInv'
  <2>1. sending' = sending /\ crossed' = crossed /\ cache' = cache  BY <1>1, Zenon
  <2>2. (sending' <=> sending) /\ (crossed' <=> crossed)  BY <2>1
  <2> QED  BY <1>1, <1>5, <1>6, <2>1, <2>2, Zenon DEF HearInv
<1>8. StateTypes' /\ ToldInv'  BY <1>1, <1>2, StateTypesSame, ToldSame, Zenon
<1> QED  BY <1>1, <1>4, <1>7, <1>8, RestKeeps, Zenon

LEMMA PackageKeeps == ASSUME WindowInv, MainWindow!Package \/ MainWindow!LogsPackaged PROVE WindowInv'
<1>1. /\ zip' \in ZipStates /\ UNCHANGED <<box, cache, prefs, mwFlag, mainFile, backup, sending, ended, answer, outdated, dropped>>
      /\ UNCHANGED <<box, cache, prefs, mwFlag, mainFile, ended, answer, outdated, dropped>>
      /\ UNCHANGED <<tracking, told, polled, buttonsFor>> /\ UNCHANGED <<told, tracking, buttonsFor>>
      /\ UNCHANGED <<listener, option, crossed>> /\ UNCHANGED <<sending, crossed, listener, option, cache>>
      /\ (mfSteps' = mfSteps \/ MainWindow!User)
  <2>1. CASE MainWindow!Package
    BY <2>1, Zenon DEF MainWindow!Package, MainWindow!files, MainWindow!states, MainWindow!slaves, ZipStates
  <2>2. CASE MainWindow!LogsPackaged
    BY <2>2, Zenon DEF MainWindow!LogsPackaged, MainWindow!files, MainWindow!states, MainWindow!slaves, ZipStates
  <2> QED  BY <2>1, <2>2, Zenon
<1>2. BoxTypes /\ StateTypes /\ SlaveTypes /\ KeepsInv /\ HearInv /\ ToldInv  BY Zenon DEF WindowInv, WindowTypes
<1>3. mfSteps' = mfSteps \/ mfSteps' \in 0 .. MaxUser  BY <1>1, UserDoes, Zenon
<1>4. BoxTypes'  BY <1>1, <1>2, <1>3, Zenon DEF BoxTypes
<1>5. StateTypes' /\ SlaveTypes' /\ KeepsInv' /\ HearInv' /\ ToldInv'
  BY <1>1, <1>2, StateTypesSame, SlaveTypesSame, KeepsSame, HearSame, ToldSame, Zenon
<1> QED  BY <1>4, <1>5 DEF WindowInv, WindowTypes

LEMMA WindowKeeps == WindowInv /\ [MainWindow!Next]_windowVars => WindowInv'
<1> SUFFICES ASSUME WindowInv, [MainWindow!Next]_windowVars PROVE WindowInv'  OBVIOUS
<1>1. CASE UNCHANGED windowVars
  <2>1. /\ UNCHANGED <<box, cache, prefs, mwFlag, mainFile, backup, sending, zip, ended, answer, outdated, dropped>>
        /\ mfSteps' = mfSteps /\ UNCHANGED <<box, cache, prefs, mwFlag, mainFile, ended, answer, outdated, dropped>>
        /\ UNCHANGED <<tracking, told, polled, buttonsFor>> /\ UNCHANGED <<told, tracking, buttonsFor>>
        /\ UNCHANGED <<listener, option, crossed>> /\ UNCHANGED <<sending, crossed, listener, option, cache>>
    BY <1>1, Zenon DEF windowVars
  <2> QED
    BY <2>1, BoxTypesSame, StateTypesSame, SlaveTypesSame, KeepsSame, HearSame, ToldSame, Zenon DEF WindowInv, WindowTypes
<1>2. CASE MainWindow!Next
  <2>1. CASE \E b \in BOOLEAN : MainWindow!Check(b)  BY <2>1, CheckKeeps, Zenon
  <2>2. CASE MainWindow!MiscChange \/ MainWindow!Save \/ MainWindow!Discard \/ MainWindow!Defaults \/ MainWindow!Close
    BY <2>2, MiscChangeKeeps, SaveKeeps, DiscardKeeps, DefaultsKeeps, CloseKeeps, Zenon
  <2>3. CASE \/ MainWindow!Start \/ MainWindow!Run \/ MainWindow!Pause \/ MainWindow!Wake
             \/ MainWindow!Stop \/ MainWindow!Fail \/ MainWindow!Deliver \/ MainWindow!PollState
    BY <2>3, ButtonsKeep, SessionEnds, DeliverKeeps, PollKeeps, Zenon
  <2>4. CASE MainWindow!Join \/ MainWindow!SignalNewSlave \/ MainWindow!Package \/ MainWindow!LogsPackaged
    BY <2>4, JoinKeeps, SignalKeeps, PackageKeeps, Zenon
  <2> QED  BY <1>2, <2>1, <2>2, <2>3, <2>4, Zenon DEF MainWindow!Next
<1> QED  BY <1>1, <1>2

WindowAgrees ==
    /\ MainWindow!OptionAgrees /\ MainWindow!NothingUnsaved /\ MainWindow!LastKept
    /\ MainWindow!SlaveHears /\ MainWindow!ButtonsFollow

\* What the invariant says of the window is what was wanted.
LEMMA WindowSound == WindowInv => MainWindow!TypeOK /\ WindowAgrees
<1> SUFFICES ASSUME WindowInv PROVE MainWindow!TypeOK /\ WindowAgrees  OBVIOUS
<1>1. BoxTypes /\ StateTypes /\ SlaveTypes /\ KeepsInv /\ HearInv /\ ToldInv  BY Zenon DEF WindowInv, WindowTypes
<1>2. /\ {box, cache, mwFlag, sending, option, ended, outdated, crossed, dropped} \subseteq BOOLEAN
      /\ answer \in {"none", "close", "save"}
  BY <1>1, Zenon DEF BoxTypes, SlaveTypes, Answers
<1>3. \A i \in DOMAIN told : told[i] \in MainWindow!TrackerStates  BY <1>1 DEF StateTypes
<1>4. MainWindow!TypeOK
  BY <1>1, <1>2, <1>3, Zenon DEF MainWindow!TypeOK, BoxTypes, StateTypes, SlaveTypes, Listeners, ZipStates
<1>5. MainWindow!SlaveHears  BY <1>1, Zenon DEF HearInv, MainWindow!SlaveHears
<1>6. MainWindow!ButtonsFollow  BY <1>1, Zenon DEF ToldInv, MainWindow!ButtonsFollow
<1> QED  BY <1>1, <1>4, <1>5, <1>6 DEF KeepsInv, WindowAgrees

-----------------------------------------------------------------------
(* The forms: an axis has values the widgets offer; a slider's step is one  *)
(* sensitivity of the two that share it.                                  *)
AxisValues == [l : Limits, r : Limits, mult : Mults, enabled : BOOLEAN]

\* Sections hold what the widgets offer, and both sensitivities of a step are among it.
ASSUME AxisAssumption ==
    /\ Axis \subseteq AxisValues /\ Limits \subseteq Nat /\ Mults \subseteq Nat /\ MaxEdits \in Nat
    /\ \A m \in Mults : 2 * Form!Slider(m) \in Mults

FormSteps == {Form!Slider(m) : m \in Mults}

\* A form as it may be while signals run.
Row == [l : Limits, r : Limits, mult : Mults, enabled : BOOLEAN, left : Limits \cup {0}, right : Limits \cup {0},
        sens : FormSteps \cup {0}, factor : FormSteps \cup {0}, enable : BOOLEAN, symetrical : BOOLEAN,
        starting : BOOLEAN, initializing : BOOLEAN]

\* A form when they have run out, but for the sensitivity; and when all have.
LimitsShow(s) ==
    /\ s \in Row /\ s.starting = FALSE /\ s.initializing = FALSE
    /\ s.left = s.l /\ s.right = s.r /\ s.enable = s.enabled
    /\ (s.symetrical => s.l = s.r)
Settled(s) == LimitsShow(s) /\ s.sens = Form!Slider(s.mult) /\ s.factor = Form!Slider(s.mult)

FormInv ==
    /\ Settled(form) /\ afOpened \in AxisValues /\ afFile \in AxisValues
    /\ touched \in BOOLEAN /\ edits \in 0 .. MaxEdits /\ Form!LookingIsFree

\* Setting a slider to the sensitivity of its step leaves it where it is.
LEMMA SliderStep ==
    /\ \A m \in Mults : Form!Slider(m) \in FormSteps
    /\ \A w \in FormSteps : w \in Int /\ 2 * w \in Mults /\ Form!Slider(2 * w) = w
<1>1. \A m \in Mults : Form!Slider(m) \in FormSteps  BY DEF FormSteps
<1>2. ASSUME NEW w \in FormSteps PROVE w \in Int /\ 2 * w \in Mults /\ Form!Slider(2 * w) = w
  <2>1. PICK m \in Mults : w = Form!Slider(m)  BY DEF FormSteps
  <2>2. w \in Int  BY <2>1, AxisAssumption DEF Form!Slider
  <2>3. 2 * w \in Mults  BY <2>1, AxisAssumption
  <2>4. (2 * w) \div 2 = w  BY <2>2
  <2> QED  BY <2>2, <2>3, <2>4 DEF Form!Slider
<1> QED  BY <1>1, <1>2

\* The curve shows the axis, and changes nothing of it.
LEMMA CurveIs ==
    ASSUME NEW s \in Row, s.initializing = FALSE
    PROVE  Form!InitCurve(s) = [s EXCEPT !.left = s.l, !.right = s.r, !.factor = Form!Slider(s.mult),
                                         !.symetrical = (s.l = s.r)]
<1> DEFINE a == [s EXCEPT !.initializing = TRUE]
           b == Form!Symetrical(a, s.l = s.r)
           c == Form!ShowFactor(b)
           d == Form!ShowR(c, s.r)
           e == Form!ShowL(d, s.l)
<1>0. /\ a = [s EXCEPT !.initializing = TRUE] /\ b = Form!Symetrical(a, s.l = s.r) /\ c = Form!ShowFactor(b)
      /\ d = Form!ShowR(c, s.r) /\ e = Form!ShowL(d, s.l) /\ Form!InitCurve(s) = [e EXCEPT !.initializing = FALSE]
  BY Zenon DEF Form!InitCurve
<1> HIDE DEF a, b, c, d, e
<1>1. a \in Row  BY <1>0 DEF Row
<1>2. \E x \in Limits \cup {0} : b = [a EXCEPT !.symetrical = (s.l = s.r), !.right = x]
  <2>1. CASE s.symetrical = (s.l = s.r)
    <3>1. b = a  BY <1>0, <2>1 DEF Row, Form!Symetrical
    <3>2. a = [a EXCEPT !.symetrical = (s.l = s.r), !.right = s.right]  BY <1>0, <2>1 DEF Row
    <3> QED  BY <1>0, <3>1, <3>2 DEF Row
  <2>2. CASE s.symetrical # (s.l = s.r) /\ s.l = s.r
    <3>1. b = Form!ShowR([a EXCEPT !.symetrical = TRUE], s.left)  BY <1>0, <2>2 DEF Row, Form!Symetrical
    <3>2. Form!ShowR([a EXCEPT !.symetrical = TRUE], s.left) = [a EXCEPT !.symetrical = TRUE, !.right = s.left]
      BY <1>0 DEF Row, Form!ShowR, Form!MoveL, Form!MoveR
    <3> QED  BY <1>0, <2>2, <3>1, <3>2 DEF Row
  <2>3. CASE s.symetrical # (s.l = s.r) /\ s.l # s.r
    <3>1. b = [a EXCEPT !.symetrical = FALSE]  BY <1>0, <2>3 DEF Row, Form!Symetrical
    <3>2. [a EXCEPT !.symetrical = FALSE] = [a EXCEPT !.symetrical = FALSE, !.right = s.right]  BY <1>0 DEF Row
    <3>3. (s.l = s.r) = FALSE  BY <2>3
    <3>4. s.right \in Limits \cup {0}  BY DEF Row
    <3> QED  BY <3>1, <3>2, <3>3, <3>4, Zenon
  <2> QED  BY <2>1, <2>2, <2>3
<1>3. PICK x \in Limits \cup {0} : b = [a EXCEPT !.symetrical = (s.l = s.r), !.right = x]  BY <1>2
<1>4. c = [a EXCEPT !.symetrical = (s.l = s.r), !.right = x, !.factor = Form!Slider(s.mult)]
  BY <1>0, <1>3 DEF Row, Form!ShowFactor
<1>5. Form!Slider(s.mult) \in FormSteps  BY SliderStep DEF Row
<1>6. c \in Row /\ c.initializing = TRUE
  <2>1. c.initializing = TRUE  BY <1>0, <1>1, <1>4 DEF Row
  <2>2. \A y \in BOOLEAN : [a EXCEPT !.symetrical = y, !.right = x, !.factor = Form!Slider(s.mult)] \in Row
    BY <1>1, <1>5 DEF Row
  <2>3. (s.l = s.r) \in BOOLEAN  BY Zenon
  <2> QED  BY <1>4, <2>1, <2>2, <2>3, Zenon
<1>7. \E y \in Limits \cup {0} : d = [a EXCEPT !.symetrical = (s.l = s.r), !.right = s.r, !.left = y,
                                              !.factor = Form!Slider(s.mult)]
  <2>1. d = [c EXCEPT !.right = s.r, !.left = IF c.symetrical /\ c.right # s.r THEN s.r ELSE c.left]
    BY <1>0, <1>6 DEF Row, Form!ShowR, Form!MoveL, Form!MoveR
  <2> DEFINE y == IF c.symetrical /\ c.right # s.r THEN s.r ELSE c.left
  <2>2. y \in Limits \cup {0}  BY <1>6 DEF Row
  <2> HIDE DEF y
  <2>3. d = [c EXCEPT !.right = s.r, !.left = y]  BY <2>1 DEF y
  <2>4. d = [a EXCEPT !.symetrical = (s.l = s.r), !.right = s.r, !.left = y, !.factor = Form!Slider(s.mult)]
    BY <1>1, <1>4, <2>3 DEF Row
  <2> QED  BY <2>2, <2>4
<1>8. PICK y \in Limits \cup {0} : d = [a EXCEPT !.symetrical = (s.l = s.r), !.right = s.r, !.left = y,
                                              !.factor = Form!Slider(s.mult)]
  BY <1>7
<1>9. e = [a EXCEPT !.symetrical = (s.l = s.r), !.right = s.r, !.left = s.l, !.factor = Form!Slider(s.mult)]
  <2>1. e = [d EXCEPT !.left = s.l, !.right = IF d.symetrical /\ d.left # s.l THEN s.l ELSE d.right]
    BY <1>0, <1>1, <1>5, <1>8 DEF Row, Form!ShowL, Form!MoveL, Form!MoveR
  <2>2. (IF d.symetrical /\ d.left # s.l THEN s.l ELSE d.right) = s.r  BY <1>1, <1>8 DEF Row
  <2>3. e = [d EXCEPT !.left = s.l, !.right = s.r]  BY <2>1, <2>2, Zenon
  <2> QED  BY <1>1, <1>8, <2>3 DEF Row
<1> QED  BY <1>0, <1>9 DEF Row

\* What is set in a form leaves it one.
LEMMA RowWith ==
    ASSUME NEW s \in Row, NEW x \in Limits, NEW y \in Limits, NEW m \in Mults, NEW b \in BOOLEAN
    PROVE  /\ [s EXCEPT !.l = x, !.r = y, !.mult = m, !.enabled = b] \in Row
           /\ [s EXCEPT !.starting = FALSE] \in Row
           /\ [s EXCEPT !.enabled = b, !.enable = b] \in Row
<1>1. [s EXCEPT !.l = x, !.r = y, !.mult = m, !.enabled = b] \in Row  BY DEF Row
<1>2. [s EXCEPT !.starting = FALSE] \in Row  BY DEF Row
<1>3. [s EXCEPT !.enabled = b, !.enable = b] \in Row  BY DEF Row
<1> QED  BY <1>1, <1>2, <1>3

\* A profile that is being opened shows the axis, and changes nothing of it.
LEMMA ProfileIs ==
    ASSUME NEW s \in Row, s.starting = TRUE
    PROVE  Form!InitProfile(s) = [s EXCEPT !.enable = s.enabled, !.sens = Form!Slider(s.mult)]
<1>1. \A t \in Row : t.starting = TRUE => Form!ShowSens(t) = [t EXCEPT !.sens = Form!Slider(t.mult)]
  BY DEF Row, Form!ShowSens
<1>2. CASE s.enable = s.enabled
  <2>1. Form!InitProfile(s) = Form!ShowSens(s)  BY <1>2, Zenon DEF Form!InitProfile
  <2>2. Form!ShowSens(s) = [s EXCEPT !.sens = Form!Slider(s.mult)]  BY <1>1
  <2> QED  BY <1>2, <2>1, <2>2 DEF Row
<1>3. CASE s.enable # s.enabled
  <2> DEFINE t == [s EXCEPT !.enable = s.enabled]
  <2>1. Form!InitProfile(s) = Form!ShowSens(t)
    <3>1. ~(s.enable = s.enabled) /\ s.starting  BY <1>3
    <3> QED  BY <3>1, Zenon DEF Form!InitProfile
  <2>2. t \in Row /\ t.starting = TRUE /\ t.mult = s.mult  BY DEF Row
  <2> HIDE DEF t
  <2>3. Form!ShowSens(t) = [t EXCEPT !.sens = Form!Slider(s.mult)]  BY <1>1, <2>2
  <2> QED  BY <2>1, <2>3 DEF t, Row
<1> QED  BY <1>2, <1>3

\* A form that was opened shows its axis, whatever it was built on.
LEMMA FreshIs ==
    ASSUME NEW old, old.l \in Limits, old.r \in Limits, old.mult \in Mults, old.enabled \in BOOLEAN,
           NEW axis \in AxisValues
    PROVE  Settled(Form!Fresh(old, axis)) /\ Form!TrackerOf(Form!Fresh(old, axis)) = axis
<1> DEFINE n == [l |-> old.l, r |-> old.r, mult |-> old.mult, enabled |-> old.enabled, left |-> 0, right |-> 0,
                 sens |-> 0, factor |-> 0, enable |-> FALSE, symetrical |-> (old.l = old.r),
                 starting |-> TRUE, initializing |-> FALSE]
           a == Form!InitCurve(n)
           b == Form!With(a, axis)
           c == Form!InitProfile(b)
           d == Form!InitCurve(c)
           e == [d EXCEPT !.starting = FALSE]
<1>0. /\ n = [l |-> old.l, r |-> old.r, mult |-> old.mult, enabled |-> old.enabled, left |-> 0, right |-> 0,
              sens |-> 0, factor |-> 0, enable |-> FALSE, symetrical |-> (old.l = old.r),
              starting |-> TRUE, initializing |-> FALSE]
      /\ a = Form!InitCurve(n)
      /\ b = [a EXCEPT !.l = axis.l, !.r = axis.r, !.mult = axis.mult, !.enabled = axis.enabled]
      /\ c = Form!InitProfile(b) /\ d = Form!InitCurve(c) /\ e = [d EXCEPT !.starting = FALSE]
      /\ Form!Fresh(old, axis) = e
  BY Zenon DEF Form!Fresh, Form!With
<1> HIDE DEF n, a, b, c, d, e
<1>1. n \in Row /\ n.starting = TRUE /\ n.initializing = FALSE  BY <1>0 DEF Row
<1>2. a = [n EXCEPT !.left = n.l, !.right = n.r, !.factor = Form!Slider(n.mult), !.symetrical = (n.l = n.r)]
  BY <1>0, <1>1, CurveIs
<1>3. a \in Row /\ a.starting = TRUE /\ a.initializing = FALSE
  <2>1. Form!Slider(n.mult) \in FormSteps /\ (n.l = n.r) \in BOOLEAN  BY <1>1, SliderStep DEF Row
  <2> QED  BY <1>1, <1>2, <2>1 DEF Row
<1>4. /\ b \in Row /\ b.starting = TRUE /\ b.initializing = FALSE
      /\ b.l = axis.l /\ b.r = axis.r /\ b.mult = axis.mult /\ b.enabled = axis.enabled
  <2>1. axis.l \in Limits /\ axis.r \in Limits /\ axis.mult \in Mults /\ axis.enabled \in BOOLEAN  BY DEF AxisValues
  <2>2. b \in Row
    <3>1. [a EXCEPT !.l = axis.l, !.r = axis.r, !.mult = axis.mult, !.enabled = axis.enabled] \in Row
      BY <1>3, <2>1, RowWith
    <3> QED  BY <1>0, <3>1, Zenon
  <2>3. b.starting = TRUE /\ b.initializing = FALSE  BY <1>0, <1>3 DEF Row
  <2> QED  BY <1>0, <1>3, <2>1, <2>2, <2>3 DEF Row
<1>5. c = [b EXCEPT !.enable = b.enabled, !.sens = Form!Slider(b.mult)]  BY <1>0, <1>4, ProfileIs
<1>6. Form!Slider(axis.mult) \in FormSteps  BY SliderStep DEF AxisValues
<1>7. /\ c \in Row /\ c.starting = TRUE /\ c.initializing = FALSE
      /\ c.l = axis.l /\ c.r = axis.r /\ c.mult = axis.mult /\ c.enabled = axis.enabled
      /\ c.enable = c.enabled /\ c.sens = Form!Slider(c.mult)
  BY <1>4, <1>5, <1>6 DEF Row
<1>8. d = [c EXCEPT !.left = c.l, !.right = c.r, !.factor = Form!Slider(c.mult), !.symetrical = (c.l = c.r)]
  BY <1>0, <1>7, CurveIs
<1>9. /\ d \in Row /\ d.initializing = FALSE
      /\ d.l = axis.l /\ d.r = axis.r /\ d.mult = axis.mult /\ d.enabled = axis.enabled
      /\ d.enable = d.enabled /\ d.sens = Form!Slider(d.mult) /\ d.factor = Form!Slider(d.mult)
      /\ d.left = d.l /\ d.right = d.r /\ (d.symetrical => d.l = d.r)
  <2>1. (c.l = c.r) \in BOOLEAN  OBVIOUS
  <2> QED  BY <1>6, <1>7, <1>8, <2>1 DEF Row
<1>10. Settled(e)
  <2>1. e \in Row  BY <1>0, <1>9, RowWith, Zenon
  <2>2. e.starting = FALSE /\ e.initializing = FALSE  BY <1>0, <1>9 DEF Row
  <2>3. /\ e.l = d.l /\ e.r = d.r /\ e.left = d.left /\ e.right = d.right /\ e.mult = d.mult /\ e.sens = d.sens
        /\ e.factor = d.factor /\ e.enable = d.enable /\ e.enabled = d.enabled /\ e.symetrical = d.symetrical
    BY <1>0, <1>9 DEF Row
  <2> QED  BY <1>9, <2>1, <2>2, <2>3 DEF Settled, LimitsShow
<1>11. Form!TrackerOf(e) = axis  BY <1>0, <1>9 DEF Row, AxisValues, Form!TrackerOf
<1> QED  BY <1>0, <1>10, <1>11

\* axisChange: the sensitivity comes to be that of a step, or is one that its step stands for.
LEMMA MultSettles == ASSUME NEW s, LimitsShow(s), NEW v \in Mults PROVE Settled(Form!SetMult(s, v))
<1> DEFINE w == Form!Slider(v)
           a == [s EXCEPT !.mult = v]
           b == Form!ShowSens(a)
           c == Form!ShowFactor(b)
<1>0. a = [s EXCEPT !.mult = v] /\ b = Form!ShowSens(a) /\ c = Form!ShowFactor(b) /\ Form!SetMult(s, v) = c
  BY Zenon DEF Form!SetMult
<1>1. w \in FormSteps /\ w = Form!Slider(v) /\ 2 * w \in Mults /\ Form!Slider(2 * w) = w  BY SliderStep
<1> HIDE DEF a, b, c, w
<1>2. s \in Row /\ s.starting = FALSE /\ s.initializing = FALSE  BY DEF LimitsShow
<1>3. a \in Row /\ a.mult = v /\ a.sens = s.sens  BY <1>0, <1>2 DEF Row
<1>4. LimitsShow(a)  BY <1>0, <1>3 DEF LimitsShow, Row
<1>5. ASSUME NEW t, LimitsShow(t)
      PROVE  /\ LimitsShow(Form!Moved(t, w)) /\ Form!Moved(t, w).sens = w /\ Form!Moved(t, w).factor = w
             /\ Form!Moved(t, w).mult = 2 * w
  <2>1. t \in Row  BY <1>5 DEF LimitsShow
  <2>2. Form!Moved(t, w) \in Row  BY <1>1, <2>1 DEF Row, Form!Moved
  <2> QED  BY <1>1, <1>5, <2>1, <2>2 DEF LimitsShow, Row, Form!Moved
<1>6. LimitsShow(b) /\ b.sens = w /\ b.mult \in {v, 2 * w}
  <2>1. CASE a.sens = w
    <3>1. b = a  BY <1>0, <1>1, <1>3, <2>1 DEF Form!ShowSens
    <3> QED  BY <1>3, <1>4, <2>1, <3>1
  <2>2. CASE a.sens # w
    <3>1. a.starting = FALSE  BY <1>4 DEF LimitsShow
    <3>2. b = Form!Moved(a, w)  BY <1>0, <1>1, <1>3, <2>2, <3>1 DEF Form!ShowSens
    <3> QED  BY <1>4, <1>5, <3>2
  <2> QED  BY <2>1, <2>2
<1>7. Form!Slider(b.mult) = w  BY <1>1, <1>6
<1>8. CASE b.factor = w
  <2>1. c = b  BY <1>0, <1>7, <1>8 DEF Form!ShowFactor
  <2> QED  BY <1>0, <1>6, <1>7, <1>8, <2>1 DEF Settled
<1>9. CASE b.factor # w
  <2>1. b.initializing = FALSE  BY <1>6 DEF LimitsShow
  <2>2. c = Form!Moved(b, w)  BY <1>0, <1>7, <1>9, <2>1 DEF Form!ShowFactor
  <2> QED  BY <1>0, <1>1, <1>5, <1>6, <2>2 DEF Settled
<1> QED  BY <1>8, <1>9

\* The user's slider moves before the tracker knows.
LEMMA SlidersSettle ==
    ASSUME NEW s, Settled(s), NEW w \in FormSteps
    PROVE  /\ Settled(Form!SetMult([s EXCEPT !.sens = w], 2 * w))
           /\ Settled(Form!SetMult([s EXCEPT !.factor = w], 2 * w))
<1>1. LimitsShow(s) /\ s \in Row  BY DEF Settled, LimitsShow
<1>2. [s EXCEPT !.sens = w] \in Row /\ [s EXCEPT !.factor = w] \in Row  BY <1>1 DEF Row
<1>3. LimitsShow([s EXCEPT !.sens = w]) /\ LimitsShow([s EXCEPT !.factor = w])  BY <1>1, <1>2 DEF LimitsShow, Row
<1>4. 2 * w \in Mults  BY SliderStep
<1> QED  BY <1>3, <1>4, MultSettles

\* axisChange, and the widgets of the limits: a symmetrical curve moves both.
LEMMA LimitsSettle ==
    ASSUME NEW s, Settled(s), NEW v \in Limits
    PROVE  /\ Settled(Form!ShowL(s, v)) /\ Settled(Form!ShowR(s, v))
           /\ Settled(Form!SetL(s, v)) /\ Settled(Form!SetR(s, v))
<1>1. s \in Row /\ s.left = s.l /\ s.right = s.r /\ s.initializing = FALSE /\ (s.symetrical => s.l = s.r)
  BY DEF Settled, LimitsShow
<1> DEFINE L == [s EXCEPT !.left = v, !.l = v]
           R == [s EXCEPT !.right = v, !.r = v]
           B == [s EXCEPT !.left = v, !.l = v, !.right = v, !.r = v]
<1>2. L \in Row /\ R \in Row /\ B \in Row  BY <1>1 DEF Row
<1>3. Settled(L) \/ s.symetrical  BY <1>2 DEF Settled, LimitsShow, Row
<1>4. Settled(R) \/ s.symetrical  BY <1>2 DEF Settled, LimitsShow, Row
<1>5. Settled(B)  BY <1>2 DEF Settled, LimitsShow, Row
<1>6. CASE s.symetrical
  <2>1. Form!ShowL(s, v) = B
    <3>1. Form!MoveL(s, v) = L  BY <1>1 DEF Row, Form!MoveL
    <3>2. Form!MoveR(L, v) = B  BY <1>1, <1>6 DEF Row, Form!MoveR
    <3>3. s.left = v => L = B  BY <1>1, <1>6 DEF Row
    <3> QED  BY <1>6, <3>1, <3>2, <3>3, Zenon DEF Form!ShowL
  <2>2. Form!ShowR(s, v) = B
    <3>1. Form!MoveR(s, v) = R  BY <1>1 DEF Row, Form!MoveR
    <3>2. Form!MoveL(R, v) = B  BY <1>1, <1>6 DEF Row, Form!MoveL
    <3>3. s.right = v => R = B
      <4>1. s = [s EXCEPT !.left = s.left, !.l = s.l]  BY <1>1 DEF Row
      <4>2. [[s EXCEPT !.left = v, !.l = v] EXCEPT !.right = v, !.r = v] = B  BY <1>1 DEF Row
      <4>3. s.right = v => s.left = v /\ s.l = v  BY <1>1, <1>6
      <4> QED  BY <4>1, <4>2, <4>3, Zenon
    <3> QED  BY <1>6, <3>1, <3>2, <3>3, Zenon DEF Form!ShowR
  <2>3. Form!SetL(s, v) = B
    <3>1. Form!MoveL([s EXCEPT !.l = v], v) = L  BY <1>1 DEF Row, Form!MoveL
    <3>2. Form!MoveR(L, v) = B  BY <1>1, <1>6 DEF Row, Form!MoveR
    <3>3. s.left = v => L = B  BY <1>1, <1>6 DEF Row
    <3>4. [s EXCEPT !.l = v].symetrical /\ [s EXCEPT !.l = v].left = s.left  BY <1>1, <1>6 DEF Row
    <3> QED  BY <3>1, <3>2, <3>3, <3>4, Zenon DEF Form!SetL, Form!ShowL
  <2>4. Form!SetR(s, v) = B
    <3>1. Form!MoveR([s EXCEPT !.r = v], v) = R  BY <1>1 DEF Row, Form!MoveR
    <3>2. Form!MoveL(R, v) = B  BY <1>1, <1>6 DEF Row, Form!MoveL
    <3>3. s.right = v => R = B
      <4>1. s = [s EXCEPT !.left = s.left, !.l = s.l]  BY <1>1 DEF Row
      <4>2. [[s EXCEPT !.left = v, !.l = v] EXCEPT !.right = v, !.r = v] = B  BY <1>1 DEF Row
      <4>3. s.right = v => s.left = v /\ s.l = v  BY <1>1, <1>6
      <4> QED  BY <4>1, <4>2, <4>3, Zenon
    <3>4. [s EXCEPT !.r = v].symetrical /\ [s EXCEPT !.r = v].right = s.right  BY <1>1, <1>6 DEF Row
    <3> QED  BY <3>1, <3>2, <3>3, <3>4, Zenon DEF Form!SetR, Form!ShowR
  <2> QED  BY <1>5, <2>1, <2>2, <2>3, <2>4
<1>7. CASE ~s.symetrical
  <2>1. Form!ShowL(s, v) = L  BY <1>1, <1>7 DEF Row, Form!ShowL, Form!MoveL
  <2>2. Form!ShowR(s, v) = R  BY <1>1, <1>7 DEF Row, Form!ShowR, Form!MoveR
  <2>3. Form!SetL(s, v) = L  BY <1>1, <1>7 DEF Row, Form!SetL, Form!ShowL, Form!MoveL
  <2>4. Form!SetR(s, v) = R  BY <1>1, <1>7 DEF Row, Form!SetR, Form!ShowR, Form!MoveR
  <2> QED  BY <1>3, <1>4, <1>7, <2>1, <2>2, <2>3, <2>4
<1> QED  BY <1>6, <1>7

\* What the check box of the symmetry does: it changes sides of the curve and nothing else.
TurnedTo(s, t) ==
    /\ t \in Row /\ t.starting = s.starting /\ t.initializing = FALSE
    /\ t.enabled = s.enabled /\ t.enable = s.enable
    /\ s.left = s.l /\ s.right = s.r =>
          /\ t.left = s.l /\ t.l = s.l /\ t.right = t.r
          /\ (t.symetrical /\ (s.symetrical => s.l = s.r) => s.l = t.r)
          /\ t.sens = s.sens /\ t.factor = s.factor /\ t.mult = s.mult

LEMMA SymmetryKeeps ==
    ASSUME NEW s \in Row, s.initializing = FALSE, s.left \in Limits, NEW b \in BOOLEAN
    PROVE  TurnedTo(s, Form!Symetrical(s, b))
<1> DEFINE t == Form!Symetrical(s, b)
<1>1. CASE s.symetrical = b
  <2>1. t = s  BY <1>1, Zenon DEF Form!Symetrical
  <2>2. TurnedTo(s, s)  BY DEF TurnedTo
  <2> QED  BY <2>1, <2>2
<1>2. CASE s.symetrical # b /\ b = FALSE
  <2>1. t = [s EXCEPT !.symetrical = FALSE]  BY <1>2, Zenon DEF Form!Symetrical
  <2> HIDE DEF t
  <2>2. t \in Row  BY <2>1 DEF Row
  <2>3. t.symetrical = FALSE  BY <2>1 DEF Row
  <2>4. /\ t.starting = s.starting /\ t.initializing = FALSE /\ t.enabled = s.enabled /\ t.enable = s.enable
        /\ t.left = s.left /\ t.l = s.l /\ t.right = s.right /\ t.r = s.r
        /\ t.sens = s.sens /\ t.factor = s.factor /\ t.mult = s.mult
    BY <2>1 DEF Row
  <2>5. TurnedTo(s, t)  BY <2>2, <2>3, <2>4 DEF TurnedTo
  <2> QED  BY <2>5 DEF t
<1>3. CASE s.symetrical # b /\ b = TRUE
  <2> DEFINE a == [s EXCEPT !.symetrical = TRUE]
             rr == IF a.right = s.left THEN s.r ELSE s.left
  <2>1. t = Form!ShowR(a, s.left)  BY <1>3, Zenon DEF Form!Symetrical
  <2>2. Form!MoveR(a, s.left) = [a EXCEPT !.right = s.left, !.r = rr]  BY DEF Row, Form!MoveR
  <2>3. rr \in Limits /\ a \in Row /\ a.left = s.left /\ a.symetrical = TRUE  BY DEF Row
  <2> HIDE DEF a, rr
  <2> DEFINE c == [a EXCEPT !.right = s.left, !.r = rr]
  <2>4. c \in Row /\ c.left = s.left  BY <2>3 DEF Row
  <2>5. Form!MoveL(c, s.left) = c  BY <2>4 DEF Row, Form!MoveL
  <2>6. t = c
    <3>1. Form!ShowR(a, s.left) = Form!MoveL(c, s.left) \/ Form!ShowR(a, s.left) = c  BY <2>2, Zenon DEF Form!ShowR
    <3> QED  BY <2>1, <2>5, <3>1
  <2>7. t = [s EXCEPT !.symetrical = TRUE, !.right = s.left, !.r = rr]  BY <2>6 DEF a
  <2>8. rr = IF s.right = s.left THEN s.r ELSE s.left  BY DEF rr, a, Row
  <2> HIDE DEF t
  <2>9. t \in Row  BY <2>4, <2>6
  <2>10. /\ t.starting = s.starting /\ t.initializing = FALSE /\ t.enabled = s.enabled /\ t.enable = s.enable
         /\ t.left = s.left /\ t.l = s.l /\ t.right = s.left /\ t.r = rr
         /\ t.sens = s.sens /\ t.factor = s.factor /\ t.mult = s.mult
    BY <2>3, <2>7 DEF Row
  <2>11. TurnedTo(s, t)  BY <2>8, <2>9, <2>10 DEF TurnedTo
  <2> QED  BY <2>11 DEF t
<1> QED  BY <1>1, <1>2, <1>3

\* It settles, and so does the check box that enables the axis.
LEMMA BoxesSettle ==
    ASSUME NEW s, Settled(s), NEW b \in BOOLEAN
    PROVE  Settled(Form!Symetrical(s, b)) /\ Settled(Form!SetEnabled(s, b))
<1>1. ASSUME NEW t, Settled(t), NEW d \in BOOLEAN PROVE Settled(Form!Symetrical(t, d))
  <2> DEFINE u == Form!Symetrical(t, d)
  <2>1. /\ t \in Row /\ t.initializing = FALSE /\ t.left \in Limits /\ t.left = t.l /\ t.right = t.r
        /\ t.starting = FALSE /\ t.enable = t.enabled /\ (t.symetrical => t.l = t.r)
        /\ t.sens = Form!Slider(t.mult) /\ t.factor = Form!Slider(t.mult)
    BY <1>1 DEF Settled, LimitsShow, Row
  <2>2. /\ u \in Row /\ u.starting = FALSE /\ u.initializing = FALSE /\ u.enable = u.enabled
        /\ u.left = u.l /\ u.right = u.r /\ (u.symetrical => u.l = u.r)
        /\ u.sens = t.sens /\ u.factor = t.factor /\ u.mult = t.mult
    <3>0. TurnedTo(t, u)  BY <2>1, SymmetryKeeps
    <3> HIDE DEF u
    <3>1. /\ u \in Row /\ u.starting = FALSE /\ u.initializing = FALSE /\ u.enable = u.enabled
          /\ u.left = t.l /\ u.l = t.l /\ u.right = u.r /\ u.sens = t.sens /\ u.factor = t.factor /\ u.mult = t.mult
      BY <2>1, <3>0 DEF TurnedTo
    <3>2. u.symetrical => t.l = u.r  BY <2>1, <3>0 DEF TurnedTo
    <3> QED  BY <3>1, <3>2
  <2> HIDE DEF u
  <2>3. Settled(u)  BY <2>1, <2>2 DEF Settled, LimitsShow
  <2> QED  BY <2>3 DEF u
<1>2. Settled(Form!SetEnabled(s, b))
  <2> DEFINE t == [s EXCEPT !.enabled = b, !.enable = b]
  <2>1. s \in Row  BY DEF Settled, LimitsShow
  <2>2. t \in Row
    <3>1. PICK x \in Limits, m \in Mults : TRUE  BY <2>1 DEF Row
    <3> QED  BY <2>1, <3>1, RowWith
  <2>3. /\ t.enabled = b /\ t.enable = b /\ t.starting = s.starting /\ t.initializing = s.initializing
        /\ t.left = s.left /\ t.l = s.l /\ t.right = s.right /\ t.r = s.r
        /\ t.symetrical = s.symetrical /\ t.sens = s.sens /\ t.factor = s.factor /\ t.mult = s.mult
    BY <2>1 DEF Row
  <2>4. Form!SetEnabled(s, b) = Form!Symetrical(t, s.l = s.r)
    <3>1. [s EXCEPT !.enabled = b].l = s.l /\ [s EXCEPT !.enabled = b].r = s.r  BY <2>1 DEF Row
    <3> QED  BY <3>1, Zenon DEF Form!SetEnabled
  <2> HIDE DEF t
  <2>5. Settled(t)  BY <2>2, <2>3 DEF Settled, LimitsShow
  <2>6. (s.l = s.r) \in BOOLEAN  OBVIOUS
  <2> QED  BY <1>1, <2>4, <2>5, <2>6
<1> QED  BY <1>1, <1>2

\* A profile already open that is set again shows the axis, though it may have changed it.
LEMMA ProfileSettles ==
    ASSUME NEW s \in Row, s.starting = FALSE, s.initializing = FALSE, s.left \in Limits
    PROVE  /\ Form!InitProfile(s) \in Row
           /\ Form!InitProfile(s).starting = FALSE /\ Form!InitProfile(s).initializing = FALSE
           /\ Form!InitProfile(s).enable = Form!InitProfile(s).enabled
           /\ Form!InitProfile(s).sens = Form!Slider(Form!InitProfile(s).mult)
<1>1. \E t : /\ Form!InitProfile(s) = Form!ShowSens(t) /\ t \in Row
             /\ t.starting = FALSE /\ t.initializing = FALSE /\ t.enable = t.enabled
  <2>1. CASE s.enable = s.enabled
    <3>1. Form!InitProfile(s) = Form!ShowSens(s)  BY <2>1, Zenon DEF Form!InitProfile
    <3> QED  BY <2>1, <3>1
  <2>2. CASE s.enable # s.enabled
    <3> DEFINE a == [s EXCEPT !.enabled = s.enabled, !.enable = s.enabled]
               t == Form!Symetrical(a, s.l = s.r)
    <3>1. /\ a \in Row /\ a.initializing = FALSE /\ a.starting = FALSE /\ a.left \in Limits
          /\ a.enable = a.enabled
      <4>1. a \in Row
        <5>1. PICK x \in Limits, m \in Mults : TRUE  BY DEF Row
        <5>2. s.enabled \in BOOLEAN  BY DEF Row
        <5> QED  BY <5>1, <5>2, RowWith
      <4> QED  BY <4>1 DEF Row
    <3>2. Form!InitProfile(s) = Form!ShowSens(t)
      <4>1. [s EXCEPT !.enabled = s.enabled].l = s.l /\ [s EXCEPT !.enabled = s.enabled].r = s.r  BY DEF Row
      <4>2. Form!SetEnabled(s, s.enabled) = t  BY <4>1, Zenon DEF Form!SetEnabled
      <4>3. Form!InitProfile(s) = Form!ShowSens(Form!SetEnabled(s, s.enabled))
        BY <2>2, Zenon DEF Form!InitProfile
      <4> QED  BY <4>2, <4>3, Zenon
    <3>3. (s.l = s.r) \in BOOLEAN  OBVIOUS
    <3> HIDE DEF a
    <3>4. TurnedTo(a, t)  BY <3>1, <3>3, SymmetryKeeps
    <3> HIDE DEF t
    <3> QED  BY <3>1, <3>2, <3>4 DEF TurnedTo
  <2> QED  BY <2>1, <2>2
<1>2. PICK t : /\ Form!InitProfile(s) = Form!ShowSens(t) /\ t \in Row
               /\ t.starting = FALSE /\ t.initializing = FALSE /\ t.enable = t.enabled
  BY <1>1
<1> DEFINE w == Form!Slider(t.mult)
           p == Form!ShowSens(t)
<1>3. w \in FormSteps /\ 2 * w \in Mults /\ Form!Slider(2 * w) = w  BY <1>2, SliderStep DEF Row
<1>4. /\ p \in Row /\ p.starting = FALSE /\ p.initializing = FALSE /\ p.enable = p.enabled
      /\ p.sens = Form!Slider(p.mult)
  <2>1. CASE t.sens = w
    <3>1. p = t  BY <2>1, Zenon DEF Form!ShowSens
    <3> QED  BY <1>2, <2>1, <3>1
  <2>2. CASE t.sens # w
    <3>1. p = Form!Moved(t, w)
      <4>1. ~t.starting  BY <1>2
      <4> QED  BY <2>2, <4>1, Zenon DEF Form!ShowSens
    <3> HIDE DEF w, p
    <3>2. p \in Row /\ p.mult = 2 * w /\ p.sens = w  BY <1>2, <1>3, <3>1 DEF Row, Form!Moved
    <3>3. p.starting = FALSE /\ p.initializing = FALSE /\ p.enable = p.enabled
      BY <1>2, <3>1 DEF Row, Form!Moved
    <3> QED  BY <1>3, <3>2, <3>3
  <2> QED  BY <2>1, <2>2
<1> HIDE DEF p
<1>5. Form!InitProfile(s) = p  BY <1>2 DEF p
<1> QED  BY <1>4, <1>5

\* copyFromDefault: both forms show what the tracker has.
LEMMA DefaultSettles ==
    ASSUME NEW s, Settled(s), NEW axis \in AxisValues
    PROVE  Settled(Form!InitCurve(Form!InitProfile(Form!With(s, axis))))
<1> DEFINE a == Form!With(s, axis)
           b == Form!InitProfile(a)
           c == Form!InitCurve(b)
<1>1. a = [s EXCEPT !.l = axis.l, !.r = axis.r, !.mult = axis.mult, !.enabled = axis.enabled]
  BY Zenon DEF Form!With
<1>2. axis.l \in Limits /\ axis.r \in Limits /\ axis.mult \in Mults /\ axis.enabled \in BOOLEAN  BY DEF AxisValues
<1>3. s \in Row /\ s.starting = FALSE /\ s.initializing = FALSE /\ s.left \in Limits  BY DEF Settled, LimitsShow, Row
<1> HIDE DEF a
<1>4. a \in Row
  <2>1. [s EXCEPT !.l = axis.l, !.r = axis.r, !.mult = axis.mult, !.enabled = axis.enabled] \in Row
    BY <1>2, <1>3, RowWith
  <2> QED  BY <1>1, <2>1, Zenon
<1>5. a.starting = FALSE /\ a.initializing = FALSE /\ a.left \in Limits  BY <1>1, <1>3 DEF Row
<1>6. /\ b \in Row /\ b.starting = FALSE /\ b.initializing = FALSE /\ b.enable = b.enabled
      /\ b.sens = Form!Slider(b.mult)
  BY <1>4, <1>5, ProfileSettles
<1> HIDE DEF b
<1>7. c = [b EXCEPT !.left = b.l, !.right = b.r, !.factor = Form!Slider(b.mult), !.symetrical = (b.l = b.r)]
  BY <1>6, CurveIs
<1> HIDE DEF c
<1>8. Form!Slider(b.mult) \in FormSteps /\ (b.l = b.r) \in BOOLEAN  BY <1>6, SliderStep DEF Row
<1>9. c \in Row  BY <1>6, <1>7, <1>8 DEF Row
<1>10. /\ c.starting = FALSE /\ c.initializing = FALSE /\ c.left = c.l /\ c.right = c.r /\ c.enable = c.enabled
       /\ (c.symetrical => c.l = c.r) /\ c.sens = Form!Slider(c.mult) /\ c.factor = Form!Slider(c.mult)
  BY <1>6, <1>7 DEF Row
<1>11. Settled(c)  BY <1>9, <1>10 DEF Settled, LimitsShow
<1> QED  BY <1>11 DEF a, b, c

LEMMA FormBegins == Form!Init => FormInv
<1> SUFFICES ASSUME Form!Init PROVE FormInv  OBVIOUS
<1>1. /\ afOpened \in AxisValues /\ form = Form!Fresh(afOpened, afOpened) /\ touched = FALSE
      /\ afFile = afOpened /\ edits = 0
  BY AxisAssumption DEF Form!Init
<1>2. Settled(form) /\ Form!TrackerOf(form) = afOpened
  <2>1. afOpened.l \in Limits /\ afOpened.r \in Limits /\ afOpened.mult \in Mults /\ afOpened.enabled \in BOOLEAN
    BY <1>1 DEF AxisValues
  <2> QED  BY <1>1, <2>1, FreshIs
<1>3. touched \in BOOLEAN  BY <1>1, Zenon
<1>4. edits \in 0 .. MaxEdits  BY <1>1, AxisAssumption
<1> QED  BY <1>1, <1>2, <1>3, <1>4 DEF FormInv, Form!LookingIsFree

LEMMA FormKeeps == FormInv /\ [Form!Next]_formVars => FormInv'
<1> SUFFICES ASSUME FormInv, [Form!Next]_formVars PROVE FormInv'  OBVIOUS
<1>1. /\ Settled(form) /\ afOpened \in AxisValues /\ afFile \in AxisValues /\ touched \in BOOLEAN
      /\ edits \in 0 .. MaxEdits /\ Form!LookingIsFree
  BY DEF FormInv
<1>2. form \in Row  BY <1>1 DEF Settled, LimitsShow
<1>3. Form!Edit => edits' \in 0 .. MaxEdits  BY <1>1, AxisAssumption DEF Form!Edit
<1>4. ASSUME Form!Touch, Settled(form') PROVE FormInv'
  <2>1. Form!Edit /\ touched' = TRUE /\ afOpened' = afOpened /\ afFile' = afFile  BY <1>4 DEF Form!Touch
  <2> QED  BY <1>1, <1>3, <1>4, <2>1 DEF FormInv, Form!LookingIsFree, Settled, LimitsShow
<1>5. CASE UNCHANGED formVars
  BY <1>1, <1>5 DEF formVars, FormInv, Form!LookingIsFree, Settled, LimitsShow, Form!TrackerOf
<1>6. ASSUME NEW axis \in Axis, Form!Open(axis) PROVE FormInv'
  <2>1. /\ Form!Edit /\ form' = Form!Fresh(form, axis) /\ afOpened' = axis /\ touched' = FALSE /\ afFile' = afFile
    BY <1>6 DEF Form!Open
  <2>2. axis \in AxisValues  BY AxisAssumption
  <2>3. form.l \in Limits /\ form.r \in Limits /\ form.mult \in Mults /\ form.enabled \in BOOLEAN  BY <1>2 DEF Row
  <2>4. Settled(form') /\ Form!TrackerOf(form') = axis  BY <2>1, <2>2, <2>3, FreshIs
  <2>5. Settled(form)'  BY <2>4 DEF Settled, LimitsShow
  <2>6. Form!LookingIsFree'  BY <2>1, <2>4 DEF Form!LookingIsFree, Form!TrackerOf
  <2> QED  BY <1>1, <1>3, <2>1, <2>2, <2>5, <2>6 DEF FormInv
<1>7. CASE \E axis \in Axis : Form!FromDefault(axis)
  <2>1. PICK axis \in Axis : Form!FromDefault(axis)  BY <1>7
  <2>2. Form!Touch /\ form' = Form!InitCurve(Form!InitProfile(Form!With(form, axis)))  BY <2>1 DEF Form!FromDefault
  <2>3. axis \in AxisValues  BY AxisAssumption
  <2> QED  BY <1>1, <1>4, <2>2, <2>3, DefaultSettles
<1>8. CASE \E v \in Limits : Form!EditLeft(v) \/ Form!EditRight(v)
  <2>1. PICK v \in Limits : Form!EditLeft(v) \/ Form!EditRight(v)  BY <1>8
  <2>2. Form!Touch /\ form' \in {Form!ShowL(form, v), Form!ShowR(form, v)}  BY <2>1 DEF Form!EditLeft, Form!EditRight
  <2> QED  BY <1>1, <1>4, <2>2, LimitsSettle
<1>9. CASE \E m \in Mults : Form!EditSens(Form!Slider(m)) \/ Form!EditFactor(Form!Slider(m))
  <2>1. PICK m \in Mults : Form!EditSens(Form!Slider(m)) \/ Form!EditFactor(Form!Slider(m))  BY <1>9
  <2> DEFINE w == Form!Slider(m)
  <2>2. w \in FormSteps  BY SliderStep
  <2>3. /\ Form!Touch
        /\ form' \in {Form!SetMult([form EXCEPT !.sens = w], 2 * w), Form!SetMult([form EXCEPT !.factor = w], 2 * w)}
    BY <2>1 DEF Form!EditSens, Form!EditFactor
  <2> HIDE DEF w
  <2>4. Settled(form')  BY <1>1, <2>2, <2>3, SlidersSettle
  <2> QED  BY <1>4, <2>3, <2>4
<1>10. CASE \E b \in BOOLEAN : Form!CheckSymetrical(b) \/ Form!CheckEnable(b)
  <2>1. PICK b \in BOOLEAN : Form!CheckSymetrical(b) \/ Form!CheckEnable(b)  BY <1>10
  <2>2. Form!Touch /\ form' \in {Form!Symetrical(form, b), Form!SetEnabled(form, b)}
    BY <2>1 DEF Form!CheckSymetrical, Form!CheckEnable
  <2> QED  BY <1>1, <1>4, <2>2, BoxesSettle
<1>11. CASE Form!Export
  <2>1. /\ Form!Edit /\ afFile' = Form!TrackerOf(form) /\ form' = form /\ afOpened' = afOpened /\ touched' = touched
    BY <1>11 DEF Form!Export
  <2>2. afFile' \in AxisValues  BY <1>2, <2>1 DEF Row, AxisValues, Form!TrackerOf
  <2> QED  BY <1>1, <1>3, <2>1, <2>2 DEF FormInv, Form!LookingIsFree, Settled, LimitsShow, Form!TrackerOf
<1>12. CASE Form!Import
  <2> DEFINE a == Form!SetEnabled(form, afFile.enabled)
             b == Form!SetMult(a, afFile.mult)
             c == Form!SetL(b, afFile.l)
             d == Form!SetR(c, afFile.r)
  <2>1. Form!Touch /\ form' = d  BY <1>12 DEF Form!Import
  <2>2. afFile.l \in Limits /\ afFile.r \in Limits /\ afFile.mult \in Mults /\ afFile.enabled \in BOOLEAN
    BY <1>1 DEF AxisValues
  <2>3. Settled(a)  BY <1>1, <2>2, BoxesSettle
  <2> HIDE DEF a
  <2>4. Settled(b)
    <3>1. LimitsShow(a)  BY <2>3 DEF Settled
    <3> QED  BY <2>2, <3>1, MultSettles
  <2> HIDE DEF b
  <2>5. Settled(c)  BY <2>2, <2>4, LimitsSettle
  <2> HIDE DEF c
  <2>6. Settled(d)  BY <2>2, <2>5, LimitsSettle
  <2> HIDE DEF d
  <2> QED  BY <1>4, <2>1, <2>6
<1> QED
  BY <1>5, <1>6, <1>7, <1>8, <1>9, <1>10, <1>11, <1>12, Zenon DEF Form!Next

FormAgrees == Form!FormsShow /\ Form!LookingIsFree

LEMMA FormSound == FormInv => Form!TypeOK /\ FormAgrees
<1> SUFFICES ASSUME FormInv PROVE Form!TypeOK /\ FormAgrees  OBVIOUS
<1>1. /\ form \in Row /\ form.left = form.l /\ form.right = form.r /\ form.enable = form.enabled
      /\ (form.symetrical => form.l = form.r)
      /\ form.sens = Form!Slider(form.mult) /\ form.factor = Form!Slider(form.mult)
      /\ touched \in BOOLEAN /\ edits \in 0 .. MaxEdits /\ Form!LookingIsFree
  BY DEF FormInv, Settled, LimitsShow
<1>2. /\ form.l \in Limits /\ form.r \in Limits /\ form.mult \in Mults
  BY <1>1 DEF Row
<1>3. form.enabled \in BOOLEAN /\ form.symetrical \in BOOLEAN  BY <1>1 DEF Row
<1>4. {form.enabled, form.enable, form.symetrical, touched} \subseteq BOOLEAN  BY <1>1, <1>3, Zenon
<1>5. {form.sens, form.factor} \subseteq {Form!Slider(m) : m \in Mults}  BY <1>1, <1>2
<1>6. Form!TypeOK  BY <1>1, <1>2, <1>4, <1>5, Zenon DEF Form!TypeOK
<1>7. Form!FormsShow  BY <1>1 DEF Form!FormsShow
<1> QED  BY <1>1, <1>6, <1>7 DEF FormAgrees

-----------------------------------------------------------------------
(* The models: preferences with a section for each name and the model that *)
(* is in use.                                                              *)
ModelTypes == ModelTab!Types \cup {ModelTab!NoType}
ModelKeys == {"Head-Y"} \cup UNION {ModelTab!Dumped(type) : type \in ModelTab!Types}
ModelSection == [exists : BOOLEAN, type : ModelTypes, keys : SUBSET ModelKeys, val : Int]
ModelConf == [sections : [ModelNames -> ModelSection], active : ModelNames \cup {ModelTab!NoName}]

\* A section with a type is complete; one without was made without an editor; that in use has one.
WholeBut(c, b) ==
    /\ c \in ModelConf
    /\ \A n \in ModelNames :
          /\ c.sections[n].exists /\ n \notin b => c.sections[n].type # ModelTab!NoType
          /\ c.sections[n].type # ModelTab!NoType =>
                c.sections[n].exists /\ ModelTab!Needed(c.sections[n].type) \subseteq c.sections[n].keys
    /\ c.active # ModelTab!NoName => c.sections[c.active].type # ModelTab!NoType

\* The files have complete models: those that come with the package, or were written by the tab.
ASSUME FilesAssumption ==
    /\ \A c \in Files : WholeBut(c, {})
    /\ ModelTab!NoName \notin ModelNames /\ ModelTab!NoType \notin DevTypes /\ MdSteps \in Nat

TabTypes ==
    /\ {mdCurrent, selected, tweaker} \subseteq ModelNames \cup {ModelTab!NoName}
    /\ items \subseteq ModelNames /\ blank \subseteq ModelNames
    /\ offered \in ModelTab!Types \cup {"first"} /\ mdl \in ModelTypes /\ dev \in DevTypes
    /\ {warned, changed, stale} \subseteq BOOLEAN /\ mdSteps \in 0 .. MdSteps
    /\ guiPc \in {"idle", "announce"} /\ trPc \in {"idle", "read"}

\* The tab and the guardian know the model in use.
TabKnows ==
    /\ mdCurrent = conf.active /\ selected = conf.active /\ mdl = ModelTab!TypeOf(conf)
    /\ tweaker = (IF ModelTab!TypeOf(conf) \in {"Cap", "Clip"} THEN conf.active ELSE ModelTab!NoName)
    /\ (conf.active # ModelTab!NoName => (warned <=> ~ModelTab!Fits(dev, mdl)))

ModelInv ==
    /\ TabTypes /\ WholeBut(conf, blank) /\ WholeBut(mdDisk, blank)
    /\ (~stale => TabKnows) /\ ModelTab!ModelTaken

\* What the editors write is what the model needs.
LEMMA DumpedWhole ==
    ASSUME NEW type \in ModelTab!Types
    PROVE  /\ ModelTab!Needed(type) \subseteq ModelTab!Dumped(type) /\ type # ModelTab!NoType
<1>1. CASE type = "Cap"
  <2>1. /\ ModelTab!Needed(type) = {"Cap-X", "Cap-Y", "Cap-Z", "Head-Y", "Head-Z"}
        /\ ModelTab!Dumped(type) = {"Cap-Y", "Cap-X", "Cap-Z", "Head-Y", "Head-Z", "Active"}
    BY <1>1, Zenon DEF ModelTab!Needed, ModelTab!Dumped
  <2>2. ModelTab!Needed(type) \subseteq ModelTab!Dumped(type)  BY <2>1
  <2>3. type # ModelTab!NoType  BY <1>1 DEF ModelTab!NoType
  <2> QED  BY <2>2, <2>3
<1>2. CASE type = "Clip"
  <2>1. /\ ModelTab!Needed(type) = {"Clip-Y1", "Clip-Y2", "Clip-Z1", "Clip-Z2", "Head-X", "Head-Y", "Head-Z"}
        /\ ModelTab!Dumped(type) =
              {"Clip-Y1", "Clip-Y2", "Clip-Z1", "Clip-Z2", "Head-X", "Head-Y", "Head-Z", "Active"}
    BY <1>2, Zenon DEF ModelTab!Needed, ModelTab!Dumped
  <2>2. ModelTab!Needed(type) \subseteq ModelTab!Dumped(type)  BY <2>1
  <2>3. type # ModelTab!NoType  BY <1>2 DEF ModelTab!NoType
  <2> QED  BY <2>2, <2>3
<1>3. CASE type = "SinglePoint"
  <2>1. ModelTab!Needed(type) = {} /\ ModelTab!Dumped(type) = {"Active"}
    BY <1>3, Zenon DEF ModelTab!Needed, ModelTab!Dumped
  <2>2. ModelTab!Needed(type) \subseteq ModelTab!Dumped(type)  BY <2>1
  <2>3. type # ModelTab!NoType  BY <1>3 DEF ModelTab!NoType
  <2> QED  BY <2>2, <2>3
<1>4. CASE type \in {"Face", "Absolute"}  BY <1>4 DEF ModelTab!Needed, ModelTab!Dumped, ModelTab!NoType
<1> QED  BY <1>1, <1>2, <1>3, <1>4 DEF ModelTab!Types

\* One section is replaced: the others and the model in use stay.
LEMMA SectionReplaced ==
    ASSUME NEW c \in ModelConf, NEW n \in ModelNames, NEW s \in ModelSection
    PROVE  /\ [c EXCEPT !.sections[n] = s] \in ModelConf
           /\ [c EXCEPT !.sections[n] = s].active = c.active
           /\ \A m \in ModelNames : [c EXCEPT !.sections[n] = s].sections[m] = IF m = n THEN s ELSE c.sections[m]
BY DEF ModelConf

LEMMA TypeOfIs ==
    ASSUME NEW c, NEW b, WholeBut(c, b)
    PROVE  /\ ModelTab!TypeOf(c) \in ModelTypes
           /\ (c.active = ModelTab!NoName <=> ModelTab!TypeOf(c) = ModelTab!NoType)
           /\ (c.active # ModelTab!NoName => c.active \in ModelTab!ModelList(c))
<1>1. c \in ModelConf /\ (c.active # ModelTab!NoName => c.sections[c.active].type # ModelTab!NoType)
  BY Zenon DEF WholeBut
<1>2. CASE c.active = ModelTab!NoName
  <2>1. ModelTab!TypeOf(c) = ModelTab!NoType  BY <1>2, Zenon DEF ModelTab!TypeOf
  <2> QED  BY <1>2, <2>1, Zenon DEF ModelTypes
<1>3. CASE c.active # ModelTab!NoName
  <2>1. ModelTab!TypeOf(c) = c.sections[c.active].type  BY <1>3, Zenon DEF ModelTab!TypeOf
  <2>2. c.active \in ModelNames /\ c.sections[c.active].type \in ModelTypes  BY <1>1, <1>3 DEF ModelConf, ModelSection
  <2>3. c.active \in ModelTab!ModelList(c)  BY <1>1, <1>3, <2>2, Zenon DEF ModelTab!ModelList
  <2> QED  BY <1>1, <1>3, <2>1, <2>2, <2>3, Zenon
<1> QED  BY <1>2, <1>3, Zenon

\* The guardian judges a device and a model that are there.
LEMMA VerdictIs ==
    ASSUME TabTypes, NEW d \in DevTypes, NEW m \in ModelTypes
    PROVE  /\ ModelTab!Verdict(d, m) \in BOOLEAN
           /\ m # ModelTab!NoType => (ModelTab!Verdict(d, m) <=> ~ModelTab!Fits(d, m))
<1>1. d # ModelTab!NoType /\ warned \in BOOLEAN  BY FilesAssumption, Zenon DEF TabTypes
<1>2. CASE m = ModelTab!NoType  BY <1>1, <1>2, Zenon DEF ModelTab!Verdict
<1>3. CASE m # ModelTab!NoType
  <2>1. ModelTab!Verdict(d, m) = ~ModelTab!Fits(d, m)  BY <1>1, <1>3, Zenon DEF ModelTab!Verdict
  <2> QED  BY <2>1, Zenon
<1> QED  BY <1>2, <1>3, Zenon

LEMMA ModelBegins == ModelTab!Init => ModelInv
<1> SUFFICES ASSUME ModelTab!Init PROVE ModelInv  OBVIOUS
<1>1. /\ mdDisk \in Files /\ conf = mdDisk /\ items = ModelTab!ModelList(conf)
      /\ mdCurrent = conf.active /\ selected = conf.active
      /\ tweaker = (IF ModelTab!TypeOf(conf) \in {"Cap", "Clip"} THEN conf.active ELSE ModelTab!NoName)
      /\ mdl = ModelTab!TypeOf(conf) /\ dev \in DevTypes
      /\ warned = (mdl # ModelTab!NoType /\ ~ModelTab!Fits(dev, mdl))
      /\ offered = "first" /\ changed = TRUE /\ guiPc = "idle" /\ trPc = "idle"
      /\ stale = FALSE /\ blank = {} /\ mdSteps = 0
  BY Zenon DEF ModelTab!Init
<1>2. WholeBut(conf, blank) /\ WholeBut(mdDisk, blank)  BY <1>1, FilesAssumption
<1>3. /\ ModelTab!TypeOf(conf) \in ModelTypes
      /\ (conf.active = ModelTab!NoName <=> ModelTab!TypeOf(conf) = ModelTab!NoType)
  BY <1>2, TypeOfIs
<1>4. conf.active \in ModelNames \cup {ModelTab!NoName}  BY <1>2 DEF WholeBut, ModelConf
<1>5. TabTypes
  <2>1. warned \in BOOLEAN /\ changed \in BOOLEAN /\ stale \in BOOLEAN  BY <1>1, Zenon
  <2>2. mdSteps \in 0 .. MdSteps  BY <1>1, FilesAssumption
  <2>3. items \subseteq ModelNames /\ blank \subseteq ModelNames  BY <1>1 DEF ModelTab!ModelList
  <2>4. tweaker \in ModelNames \cup {ModelTab!NoName}  BY <1>1, <1>4, Zenon
  <2> QED  BY <1>1, <1>3, <1>4, <2>1, <2>2, <2>3, <2>4, Zenon DEF TabTypes
<1>6. TabKnows
  <2>1. conf.active # ModelTab!NoName => (warned <=> ~ModelTab!Fits(dev, mdl))  BY <1>1, <1>3, Zenon
  <2> QED  BY <1>1, <2>1, Zenon DEF TabKnows
<1>7. ModelTab!ModelTaken  BY <1>1, Zenon DEF ModelTab!ModelTaken
<1> QED  BY <1>2, <1>5, <1>6, <1>7 DEF ModelInv

\* More names without an editor are allowed for.
LEMMA WholeMore == ASSUME NEW c, NEW b, NEW d, WholeBut(c, b), b \subseteq d PROVE WholeBut(c, d)
<1>1. \A n \in ModelNames : c.sections[n].exists /\ n \notin d => c.sections[n].type # ModelTab!NoType
  BY Zenon DEF WholeBut
<1> QED  BY <1>1, Zenon DEF WholeBut

\* A section is replaced by one that is complete, of the same type if it is that in use.
LEMMA WholeReplaced ==
    ASSUME NEW c, NEW b, NEW d, WholeBut(c, b), b \subseteq d, NEW n \in ModelNames, NEW s \in ModelSection,
           s.exists /\ n \notin d => s.type # ModelTab!NoType,
           s.type # ModelTab!NoType => s.exists /\ ModelTab!Needed(s.type) \subseteq s.keys,
           c.active = n => s.type = c.sections[n].type
    PROVE  /\ WholeBut([c EXCEPT !.sections[n] = s], d)
           /\ [c EXCEPT !.sections[n] = s].active = c.active
           /\ ModelTab!TypeOf([c EXCEPT !.sections[n] = s]) = ModelTab!TypeOf(c)
<1> DEFINE e == [c EXCEPT !.sections[n] = s]
<1>1. c \in ModelConf  BY Zenon DEF WholeBut
<1>2. e \in ModelConf /\ e.active = c.active /\ \A m \in ModelNames : e.sections[m] = IF m = n THEN s ELSE c.sections[m]
  BY <1>1, SectionReplaced
<1> HIDE DEF e
<1>3. WholeBut(c, d)  BY WholeMore, Zenon
<1>4. \A m \in ModelNames :
         /\ e.sections[m].exists /\ m \notin d => e.sections[m].type # ModelTab!NoType
         /\ e.sections[m].type # ModelTab!NoType =>
               e.sections[m].exists /\ ModelTab!Needed(e.sections[m].type) \subseteq e.sections[m].keys
  BY <1>2, <1>3, Zenon DEF WholeBut
<1>5. c.active # ModelTab!NoName =>
         c.active \in ModelNames /\ e.sections[c.active].type = c.sections[c.active].type
  <2>1. c.active # ModelTab!NoName => c.active \in ModelNames  BY <1>1 DEF ModelConf
  <2> QED  BY <1>2, <2>1, Zenon
<1>6. WholeBut(e, d)  BY <1>2, <1>3, <1>4, <1>5, Zenon DEF WholeBut
<1>7. ModelTab!TypeOf(e) = ModelTab!TypeOf(c)  BY <1>2, <1>5, Zenon DEF ModelTab!TypeOf
<1> QED  BY <1>2, <1>6, <1>7 DEF e

\* A model that has a type comes to be in use.
LEMMA WholeActive ==
    ASSUME NEW c, NEW b, WholeBut(c, b), NEW n \in ModelNames, c.sections[n].type # ModelTab!NoType
    PROVE  /\ WholeBut([c EXCEPT !.active = n], b) /\ [c EXCEPT !.active = n].active = n
           /\ ModelTab!TypeOf([c EXCEPT !.active = n]) = c.sections[n].type
<1> DEFINE e == [c EXCEPT !.active = n]
<1>1. c \in ModelConf  BY Zenon DEF WholeBut
<1>2. e \in ModelConf /\ e.active = n /\ e.sections = c.sections  BY <1>1 DEF ModelConf
<1> HIDE DEF e
<1>3. WholeBut(e, b)  BY <1>2, Zenon DEF WholeBut
<1>4. n # ModelTab!NoName  BY FilesAssumption
<1>5. ModelTab!TypeOf(e) = c.sections[n].type  BY <1>2, <1>4, Zenon DEF ModelTab!TypeOf
<1> QED  BY <1>2, <1>3, <1>5 DEF e

\* on_ModelSelector_activated: the tab and the guardian know the model, or it is gone.
LEMMA ActivatedRight ==
    ASSUME TabTypes, NEW c, NEW b, WholeBut(c, b), NEW n \in ModelNames, ModelTab!Activated(c, n), dev' = dev
    PROVE  /\ WholeBut(conf', b) /\ (~stale' => TabKnows') /\ ModelTab!ModelTaken'
           /\ {mdCurrent, selected, tweaker}' \subseteq ModelNames \cup {ModelTab!NoName}
           /\ mdl' \in ModelTypes /\ {warned, stale}' \subseteq BOOLEAN /\ guiPc' \in {"idle", "announce"}
<1>1. mdCurrent' = n /\ selected' = n  BY Zenon DEF ModelTab!Activated
<1>2. CASE c.sections[n].type = ModelTab!NoType
  <2>1. conf' = c /\ stale' = TRUE /\ tweaker' = tweaker /\ guiPc' = guiPc /\ mdl' = mdl /\ warned' = warned
    BY <1>2, Zenon DEF ModelTab!Activated
  <2>2. stale'  BY <2>1
  <2>3. ModelTab!ModelTaken'  BY <2>2, Zenon DEF ModelTab!ModelTaken
  <2>4. /\ {mdCurrent, selected, tweaker}' \subseteq ModelNames \cup {ModelTab!NoName}
        /\ mdl' \in ModelTypes /\ {warned, stale}' \subseteq BOOLEAN /\ guiPc' \in {"idle", "announce"}
    BY <1>1, <2>1, Zenon DEF TabTypes
  <2>5. WholeBut(conf', b)  BY <2>1, Zenon
  <2> QED  BY <2>2, <2>3, <2>4, <2>5, Zenon
<1>3. CASE c.sections[n].type # ModelTab!NoType
  <2> DEFINE type == c.sections[n].type
  <2>1. /\ tweaker' = (IF type \in {"Cap", "Clip"} THEN n ELSE ModelTab!NoName)
        /\ conf' = [c EXCEPT !.active = n] /\ guiPc' = "announce"
        /\ mdl' = type /\ warned' = ModelTab!Verdict(dev, type) /\ stale' = FALSE
    BY <1>3, Zenon DEF ModelTab!Activated
  <2>2. WholeBut(conf', b) /\ conf'.active = n /\ ModelTab!TypeOf(conf') = type  BY <1>3, <2>1, WholeActive
  <2>3. type \in ModelTypes
    <3>1. c \in ModelConf  BY Zenon DEF WholeBut
    <3> QED  BY <3>1 DEF ModelConf, ModelSection
  <2>4. dev \in DevTypes  BY Zenon DEF TabTypes
  <2>5. ModelTab!Verdict(dev, type) \in BOOLEAN /\ (ModelTab!Verdict(dev, type) <=> ~ModelTab!Fits(dev, type))
    BY <1>3, <2>3, <2>4, VerdictIs, Zenon
  <2>6. n # ModelTab!NoName  BY FilesAssumption
  <2> HIDE DEF type
  <2>7. /\ {mdCurrent, selected, tweaker}' \subseteq ModelNames \cup {ModelTab!NoName}
        /\ mdl' \in ModelTypes /\ {warned, stale}' \subseteq BOOLEAN /\ guiPc' \in {"idle", "announce"}
    BY <1>1, <2>1, <2>3, <2>5, Zenon
  <2>8. ModelTab!ModelTaken'
    <3>1. guiPc' # "idle"  BY <2>1
    <3> QED  BY <3>1, Zenon DEF ModelTab!ModelTaken
  <2>9. TabKnows'
    <3>1. mdCurrent' = conf'.active /\ selected' = conf'.active /\ mdl' = ModelTab!TypeOf(conf')
          /\ tweaker' = (IF ModelTab!TypeOf(conf') \in {"Cap", "Clip"} THEN conf'.active ELSE ModelTab!NoName)
      BY <1>1, <2>1, <2>2, Zenon
    <3>2. warned' <=> ~ModelTab!Fits(dev', mdl')
      <4>1. warned' = ~ModelTab!Fits(dev, type)  BY <2>1, <2>5, Zenon
      <4>2. dev' = dev /\ mdl' = type  BY <2>1, Zenon
      <4> QED  BY <4>1, <4>2, Zenon
    <3> QED  BY <3>1, <3>2, Zenon DEF TabKnows, ModelTab!TypeOf
  <2> QED  BY <2>2, <2>7, <2>8, <2>9, Zenon
<1> QED  BY <1>2, <1>3, Zenon

\* A step that leaves the model in use and the tab alone.
LEMMA TabSame ==
    ASSUME TabKnows, UNCHANGED <<mdCurrent, selected, tweaker, mdl, dev, warned>>,
           conf'.active = conf.active, ModelTab!TypeOf(conf') = ModelTab!TypeOf(conf)
    PROVE  TabKnows'
<1>1. /\ mdCurrent' = mdCurrent /\ selected' = selected /\ tweaker' = tweaker /\ mdl' = mdl /\ dev' = dev
      /\ warned' = warned
  BY Zenon
<1>2. warned' <=> warned  BY <1>1
<1>3. ModelTab!TypeOf(conf)' = ModelTab!TypeOf(conf')  BY Zenon DEF ModelTab!TypeOf
<1> QED  BY <1>1, <1>2, <1>3, Zenon DEF TabKnows, ModelTab!Fits

LEMMA TabTypesSame ==
    ASSUME TabTypes, UNCHANGED <<mdCurrent, selected, tweaker, items, blank, offered, mdl, dev, warned, changed, stale, mdSteps>>,
           guiPc' \in {"idle", "announce"}, trPc' \in {"idle", "read"}
    PROVE  TabTypes'
BY Zenon DEF TabTypes

\* What the tracker has is asked for only while nothing else is on its way.
LEMMA TakenLater == ASSUME guiPc' # "idle" \/ trPc' # "idle" \/ changed' = TRUE PROVE ModelTab!ModelTaken'
BY Zenon DEF ModelTab!ModelTaken

LEMMA TakenSame ==
    ASSUME ModelTab!ModelTaken, UNCHANGED <<changed, guiPc, trPc, stale, using, conf>> PROVE ModelTab!ModelTaken'
<1>1. changed' = changed /\ guiPc' = guiPc /\ trPc' = trPc /\ stale' = stale /\ using' = using /\ conf' = conf  BY Zenon
<1> QED  BY <1>1 DEF ModelTab!ModelTaken, ModelTab!Setup

LEMMA UserSteps == ASSUME TabTypes, ModelTab!User PROVE mdSteps' \in 0 .. MdSteps /\ trPc' = trPc /\ using' = using
<1>1. mdSteps < MdSteps /\ mdSteps' = mdSteps + 1 /\ trPc' = trPc /\ using' = using  BY Zenon DEF ModelTab!User
<1>2. mdSteps \in 0 .. MdSteps /\ MdSteps \in Nat  BY FilesAssumption, Zenon DEF TabTypes
<1> QED  BY <1>1, <1>2

LEMMA SelectKeeps == ASSUME ModelInv, NEW n \in ModelNames, ModelTab!Select(n) PROVE ModelInv'
<1>1. /\ ModelTab!User /\ ModelTab!Activated(conf, n)
      /\ mdDisk' = mdDisk /\ items' = items /\ offered' = offered /\ dev' = dev /\ changed' = changed /\ blank' = blank
  BY Zenon DEF ModelTab!Select
<1>2. TabTypes /\ WholeBut(conf, blank) /\ WholeBut(mdDisk, blank)  BY Zenon DEF ModelInv
<1>3. mdSteps' \in 0 .. MdSteps /\ trPc' = trPc  BY <1>1, <1>2, UserSteps
<1>4. /\ WholeBut(conf', blank) /\ (~stale' => TabKnows') /\ ModelTab!ModelTaken'
      /\ {mdCurrent, selected, tweaker}' \subseteq ModelNames \cup {ModelTab!NoName}
      /\ mdl' \in ModelTypes /\ {warned, stale}' \subseteq BOOLEAN /\ guiPc' \in {"idle", "announce"}
  BY <1>1, <1>2, ActivatedRight
<1>5. TabTypes'  BY <1>1, <1>2, <1>3, <1>4, Zenon DEF TabTypes
<1>6. WholeBut(conf', blank') /\ WholeBut(mdDisk', blank')  BY <1>1, <1>2, <1>4, Zenon
<1> QED  BY <1>4, <1>5, <1>6, Zenon DEF ModelInv, WholeBut

\* ModelCreated: a window with an editor makes a complete section.
LEMMA CreateKeeps == ASSUME ModelInv, NEW n \in ModelNames, ModelTab!Create(n) PROVE ModelInv'
<1> DEFINE s == IF offered = "first" THEN [ModelTab!Missing EXCEPT !.exists = TRUE] ELSE ModelTab!SectionOf(offered)
           c == [conf EXCEPT !.sections[n] = s]
<1>1. /\ ModelTab!User /\ ~conf.sections[n].exists /\ ModelTab!ModelCreated(c, n)
      /\ blank' = (IF offered = "first" THEN blank \cup {n} ELSE blank)
      /\ mdDisk' = mdDisk /\ offered' = offered /\ dev' = dev /\ changed' = changed
  BY Zenon DEF ModelTab!Create
<1>2. TabTypes /\ WholeBut(conf, blank) /\ WholeBut(mdDisk, blank) /\ (~stale => TabKnows) /\ ModelTab!ModelTaken
  BY Zenon DEF ModelInv
<1>3. mdSteps' \in 0 .. MdSteps /\ trPc' = trPc /\ using' = using  BY <1>1, <1>2, UserSteps
<1>4. blank \subseteq blank' /\ blank' \subseteq ModelNames  BY <1>1, <1>2 DEF TabTypes
<1>5. /\ s \in ModelSection /\ (s.exists /\ n \notin blank' => s.type # ModelTab!NoType)
      /\ (s.type # ModelTab!NoType => s.exists /\ ModelTab!Needed(s.type) \subseteq s.keys)
  <2>1. CASE offered = "first"
    <3>1. s = [exists |-> TRUE, type |-> ModelTab!NoType, keys |-> {}, val |-> 0]  BY <2>1 DEF ModelTab!Missing
    <3>2. n \in blank'  BY <1>1, <2>1
    <3> HIDE DEF s
    <3>3. s.type = ModelTab!NoType  BY <3>1
    <3>4. s \in ModelSection
      <4>1. ModelTab!NoType \in ModelTypes  BY DEF ModelTypes
      <4>2. {} \in SUBSET ModelKeys  BY Zenon
      <4> QED  BY <3>1, <4>1, <4>2 DEF ModelSection
    <3> QED  BY <3>2, <3>3, <3>4, Zenon
  <2>2. CASE offered # "first"
    <3>1. offered \in ModelTab!Types  BY <1>2, <2>2 DEF TabTypes
    <3>2. s = [exists |-> TRUE, type |-> offered, keys |-> ModelTab!Dumped(offered), val |-> 1]
      BY <2>2, Zenon DEF ModelTab!SectionOf
    <3>3. ModelTab!Dumped(offered) \in SUBSET ModelKeys  BY <3>1, Zenon DEF ModelKeys
    <3>4. offered # ModelTab!NoType /\ ModelTab!Needed(offered) \subseteq ModelTab!Dumped(offered)
      BY <3>1, DumpedWhole
    <3> HIDE DEF s
    <3>5. s.type = offered /\ s.keys = ModelTab!Dumped(offered) /\ s.exists  BY <3>2
    <3>6. s \in ModelSection
      <4>1. offered \in ModelTypes  BY <3>1 DEF ModelTypes
      <4> QED  BY <3>2, <3>3, <4>1 DEF ModelSection
    <3> QED  BY <3>4, <3>5, <3>6, Zenon
  <2> QED  BY <2>1, <2>2
<1>6. conf.sections[n].type = ModelTab!NoType /\ conf.active # n
  <2>1. conf.sections[n].type = ModelTab!NoType  BY <1>1, <1>2, Zenon DEF WholeBut
  <2>2. n # ModelTab!NoName  BY FilesAssumption
  <2> QED  BY <1>2, <2>1, <2>2, Zenon DEF WholeBut
<1> HIDE DEF s
<1>7. /\ WholeBut(c, blank') /\ c.active = conf.active /\ ModelTab!TypeOf(c) = ModelTab!TypeOf(conf)
  BY <1>2, <1>4, <1>5, <1>6, WholeReplaced, SMTT(30)
<1>8. conf.active # ModelTab!NoName => c.sections[conf.active] = conf.sections[conf.active]
  <2>1. conf \in ModelConf  BY <1>2, Zenon DEF WholeBut
  <2>2. conf.active # ModelTab!NoName => conf.active \in ModelNames  BY <2>1 DEF ModelConf
  <2> QED  BY <1>5, <1>6, <2>1, <2>2, SectionReplaced
<1> HIDE DEF c
<1>9. items' = ModelTab!ModelList(c)  BY <1>1, Zenon DEF ModelTab!ModelCreated
<1>10. items' \subseteq ModelNames  BY <1>9 DEF ModelTab!ModelList
<1>11. WholeBut(mdDisk', blank')  BY <1>1, <1>2, <1>4, WholeMore, Zenon
<1>12. CASE mdCurrent \in items' \/ n \notin items'
  <2>1. /\ selected' = (IF mdCurrent \in items' THEN mdCurrent ELSE ModelTab!NoName)
        /\ conf' = c /\ mdCurrent' = mdCurrent /\ tweaker' = tweaker /\ guiPc' = guiPc /\ mdl' = mdl
        /\ warned' = warned /\ stale' = stale
    BY <1>1, <1>12, Zenon DEF ModelTab!ModelCreated
  <2>2. TabTypes'  BY <1>1, <1>2, <1>3, <1>4, <1>10, <2>1, Zenon DEF TabTypes
  <2>3. ASSUME TabKnows PROVE TabKnows'
    <3>1. c.active # ModelTab!NoName => c.active \in items'  BY <1>7, <1>9, TypeOfIs, Zenon
    <3>2. mdCurrent = conf.active /\ selected = conf.active  BY <2>3 DEF TabKnows
    <3>3. selected' = selected  BY <1>7, <2>1, <3>1, <3>2, Zenon
    <3> QED  BY <1>1, <1>7, <2>1, <2>3, <3>3, TabSame, Zenon
  <2>4. ModelTab!ModelTaken'
    <3>1. conf.active # ModelTab!NoName => ModelTab!Setup(c) = ModelTab!Setup(conf)
      BY <1>7, <1>8, Zenon DEF ModelTab!Setup
    <3>2. /\ changed' = changed /\ guiPc' = guiPc /\ trPc' = trPc /\ stale' = stale /\ using' = using
          /\ conf'.active = conf.active /\ conf' = c
      BY <1>1, <1>3, <1>7, <2>1, Zenon
    <3>3. (changed' <=> changed) /\ (stale' <=> stale)  BY <3>2
    <3>4. ~changed' /\ guiPc' = "idle" /\ trPc' = "idle" /\ ~stale' /\ conf'.active # ModelTab!NoName
             => using' = ModelTab!Setup(conf')
      BY <1>2, <3>1, <3>2, <3>3, Zenon DEF ModelTab!ModelTaken
    <3> QED  BY <3>4, Zenon DEF ModelTab!ModelTaken, ModelTab!Setup
  <2>5. ~stale' => TabKnows'
    <3>1. stale' <=> stale  BY <2>1
    <3> QED  BY <1>2, <2>3, <3>1, Zenon
  <2>6. WholeBut(conf', blank')  BY <1>7, <2>1, Zenon
  <2> QED  BY <1>11, <2>2, <2>4, <2>5, <2>6, Zenon DEF ModelInv, WholeBut
<1>13. CASE ~(mdCurrent \in items' \/ n \notin items')
  <2>1. ModelTab!Activated(c, n)  BY <1>1, <1>13, Zenon DEF ModelTab!ModelCreated
  <2>2. /\ WholeBut(conf', blank') /\ (~stale' => TabKnows') /\ ModelTab!ModelTaken'
        /\ {mdCurrent, selected, tweaker}' \subseteq ModelNames \cup {ModelTab!NoName}
        /\ mdl' \in ModelTypes /\ {warned, stale}' \subseteq BOOLEAN /\ guiPc' \in {"idle", "announce"}
    BY <1>1, <1>2, <1>7, <2>1, ActivatedRight
  <2>3. TabTypes'  BY <1>1, <1>2, <1>3, <1>4, <1>10, <2>2, Zenon DEF TabTypes
  <2> QED  BY <1>11, <2>2, <2>3, Zenon DEF ModelInv, WholeBut
<1> QED  BY <1>12, <1>13

\* CapTweaking: the model in use keeps its type, whatever it holds.
LEMMA TweakKeeps == ASSUME ModelInv, NEW v \in {1, 2}, ModelTab!Tweak(v) PROVE ModelInv'
<1>1. /\ ModelTab!User /\ tweaker # ModelTab!NoName
      /\ conf' = [conf EXCEPT !.sections[tweaker] = ModelTab!Tweaked(@, v)]
      /\ blank' = (IF conf.sections[tweaker].exists THEN blank ELSE blank \cup {tweaker})
      /\ guiPc' = "announce"
      /\ UNCHANGED <<mdDisk, mdCurrent, items, selected, tweaker, offered, mdl, dev, warned, changed, stale>>
  BY Zenon DEF ModelTab!Tweak
<1>2. TabTypes /\ WholeBut(conf, blank) /\ WholeBut(mdDisk, blank) /\ (~stale => TabKnows)
  BY Zenon DEF ModelInv
<1>3. mdSteps' \in 0 .. MdSteps /\ trPc' = trPc  BY <1>1, <1>2, UserSteps
<1>4. tweaker \in ModelNames /\ conf \in ModelConf  BY <1>1, <1>2, Zenon DEF TabTypes, WholeBut
<1>5. blank \subseteq blank' /\ blank' \subseteq ModelNames  BY <1>1, <1>2, <1>4 DEF TabTypes
<1> DEFINE o == conf.sections[tweaker]
           s == [o EXCEPT !.exists = TRUE, !.val = v, !.keys = o.keys \cup {"Head-Y"}]
<1>6. o \in ModelSection /\ conf.sections \in [ModelNames -> ModelSection]  BY <1>4 DEF ModelConf
<1>7. conf' = [conf EXCEPT !.sections[tweaker] = s]  BY <1>1, Zenon DEF ModelTab!Tweaked
<1>8. /\ o.type # ModelTab!NoType => o.exists /\ ModelTab!Needed(o.type) \subseteq o.keys
      /\ o.exists /\ tweaker \notin blank => o.type # ModelTab!NoType
  BY <1>2, <1>4, Zenon DEF WholeBut
<1>9. ~o.exists => tweaker \in blank'  BY <1>1
<1> HIDE DEF o
<1>10. s.type = o.type /\ s.keys = o.keys \cup {"Head-Y"} /\ s.exists /\ s \in ModelSection
  <2>1. o.keys \cup {"Head-Y"} \in SUBSET ModelKeys  BY <1>6 DEF ModelSection, ModelKeys
  <2>2. v \in Int  OBVIOUS
  <2>3. s \in ModelSection  BY <1>6, <2>1, <2>2 DEF ModelSection
  <2> QED  BY <1>6, <2>3 DEF ModelSection
<1> HIDE DEF s
<1>11. /\ (s.exists /\ tweaker \notin blank' => s.type # ModelTab!NoType)
       /\ (s.type # ModelTab!NoType => s.exists /\ ModelTab!Needed(s.type) \subseteq s.keys)
  <2>1. tweaker \notin blank' => o.exists /\ tweaker \notin blank  BY <1>5, <1>9, Zenon
  <2> QED  BY <1>8, <1>10, <2>1
<1>12. conf.active = tweaker => s.type = conf.sections[tweaker].type  BY <1>10 DEF o
<1>13. /\ WholeBut(conf', blank') /\ conf'.active = conf.active
       /\ ModelTab!TypeOf(conf') = ModelTab!TypeOf(conf)
  BY <1>2, <1>4, <1>5, <1>7, <1>10, <1>11, <1>12, WholeReplaced
<1>14. WholeBut(mdDisk', blank')  BY <1>1, <1>2, <1>5, WholeMore, Zenon
<1>15. TabTypes'  BY <1>1, <1>2, <1>3, <1>5, Zenon DEF TabTypes
<1>16. ~stale' => TabKnows'
  <2>1. stale' = stale  BY <1>1, Zenon
  <2>2. stale' <=> stale  BY <2>1
  <2> QED  BY <1>1, <1>2, <1>13, <2>2, TabSame, Zenon
<1>17. ModelTab!ModelTaken'
  <2>1. guiPc' # "idle"  BY <1>1
  <2> QED  BY <2>1, TakenLater, Zenon
<1> QED  BY <1>13, <1>14, <1>15, <1>16, <1>17, Zenon DEF ModelInv, WholeBut

\* What leaves the preferences in memory alone.
LEMMA ConfSame ==
    ASSUME ModelInv, UNCHANGED <<conf, mdDisk, blank, stale>>, TabTypes', TabKnows => TabKnows', ModelTab!ModelTaken'
    PROVE  ModelInv'
<1>1. conf' = conf /\ mdDisk' = mdDisk /\ blank' = blank /\ stale' = stale  BY Zenon
<1>2. stale' <=> stale  BY <1>1
<1>3. WholeBut(conf, blank) /\ WholeBut(mdDisk, blank) /\ (~stale => TabKnows)  BY Zenon DEF ModelInv
<1>4. WholeBut(conf', blank') /\ WholeBut(mdDisk', blank')  BY <1>1, <1>3, Zenon
<1>5. ~stale' => TabKnows'  BY <1>2, <1>3, Zenon
<1> QED  BY <1>4, <1>5, Zenon DEF ModelInv, WholeBut

LEMMA OfferKeeps == ASSUME ModelInv, NEW t \in ModelTab!Types, ModelTab!Offer(t) PROVE ModelInv'
<1>1. /\ ModelTab!User /\ offered' = t /\ UNCHANGED <<conf, mdDisk, blank, stale>>
      /\ UNCHANGED <<mdCurrent, items, selected, tweaker, mdl, dev, warned, changed, guiPc>>
  BY Zenon DEF ModelTab!Offer
<1>2. TabTypes /\ ModelTab!ModelTaken  BY Zenon DEF ModelInv
<1>3. mdSteps' \in 0 .. MdSteps /\ trPc' = trPc /\ using' = using  BY <1>1, <1>2, UserSteps
<1>4. TabTypes'  BY <1>1, <1>2, <1>3, Zenon DEF TabTypes
<1>5. TabKnows => TabKnows'
  <2>1. conf'.active = conf.active /\ ModelTab!TypeOf(conf') = ModelTab!TypeOf(conf)  BY <1>1, Zenon
  <2>2. UNCHANGED <<mdCurrent, selected, tweaker, mdl, dev, warned>>  BY <1>1, Zenon
  <2> QED  BY <2>1, <2>2, TabSame
<1>6. ModelTab!ModelTaken'
  <2>1. UNCHANGED <<changed, guiPc, trPc, stale, using, conf>>  BY <1>1, <1>3, Zenon
  <2> QED  BY <1>2, <2>1, TakenSame
<1> QED  BY <1>1, <1>4, <1>5, <1>6, ConfSame

\* deviceTypeChanged: the guardian judges again.
LEMMA ChooseKeeps == ASSUME ModelInv, NEW d \in DevTypes, ModelTab!ChooseDevice(d) PROVE ModelInv'
<1>1. /\ ModelTab!User /\ dev' = d /\ warned' = ModelTab!Verdict(d, mdl) /\ UNCHANGED <<conf, mdDisk, blank, stale>>
      /\ UNCHANGED <<mdCurrent, items, selected, tweaker, offered, mdl, changed, guiPc>>
  BY Zenon DEF ModelTab!ChooseDevice
<1>2. TabTypes /\ ModelTab!ModelTaken /\ WholeBut(conf, blank)  BY Zenon DEF ModelInv
<1>3. mdSteps' \in 0 .. MdSteps /\ trPc' = trPc /\ using' = using  BY <1>1, <1>2, UserSteps
<1>4. mdl \in ModelTypes  BY <1>2, Zenon DEF TabTypes
<1>5. /\ ModelTab!Verdict(d, mdl) \in BOOLEAN
      /\ (mdl # ModelTab!NoType => (ModelTab!Verdict(d, mdl) <=> ~ModelTab!Fits(d, mdl)))
  BY <1>2, <1>4, VerdictIs
<1>6. TabTypes'  BY <1>1, <1>2, <1>3, <1>5, Zenon DEF TabTypes
<1>7. TabKnows => TabKnows'
  <2> SUFFICES ASSUME TabKnows PROVE TabKnows'  OBVIOUS
  <2>1. /\ mdCurrent' = mdCurrent /\ selected' = selected /\ tweaker' = tweaker /\ mdl' = mdl /\ conf' = conf
    BY <1>1, Zenon
  <2>2. mdl = ModelTab!TypeOf(conf)  BY Zenon DEF TabKnows
  <2>3. conf.active # ModelTab!NoName => mdl # ModelTab!NoType  BY <1>2, <2>2, TypeOfIs, Zenon
  <2>4. warned' <=> ModelTab!Verdict(d, mdl)  BY <1>1, <1>5, Zenon
  <2>5. conf'.active # ModelTab!NoName => (warned' <=> ~ModelTab!Fits(dev', mdl'))
    <3>1. dev' = d /\ mdl' = mdl /\ conf' = conf  BY <1>1, Zenon
    <3> QED  BY <1>5, <2>3, <2>4, <3>1, Zenon
  <2> QED  BY <2>1, <2>5, Zenon DEF TabKnows, ModelTab!TypeOf
<1>8. ModelTab!ModelTaken'
  <2>1. UNCHANGED <<changed, guiPc, trPc, stale, using, conf>>  BY <1>1, <1>3, Zenon
  <2> QED  BY <1>2, <2>1, TakenSame
<1> QED  BY <1>1, <1>6, <1>7, <1>8, ConfSame

LEMMA ModelSaved == ASSUME ModelInv, ModelTab!Save PROVE ModelInv'
<1>1. /\ ModelTab!User /\ mdDisk' = conf /\ UNCHANGED <<conf, blank, stale>>
      /\ UNCHANGED <<mdCurrent, items, selected, tweaker, offered, mdl, dev, warned, changed, guiPc>>
  BY Zenon DEF ModelTab!Save
<1>2. TabTypes /\ ModelTab!ModelTaken /\ WholeBut(conf, blank) /\ (~stale => TabKnows)  BY Zenon DEF ModelInv
<1>3. mdSteps' \in 0 .. MdSteps /\ trPc' = trPc /\ using' = using  BY <1>1, <1>2, UserSteps
<1>4. TabTypes'  BY <1>1, <1>2, <1>3, Zenon DEF TabTypes
<1>5. ~stale' => TabKnows'
  <2>1. conf'.active = conf.active /\ ModelTab!TypeOf(conf') = ModelTab!TypeOf(conf)  BY <1>1, Zenon
  <2>2. UNCHANGED <<mdCurrent, selected, tweaker, mdl, dev, warned>> /\ stale' = stale  BY <1>1, Zenon
  <2>3. stale' <=> stale  BY <2>2
  <2> QED  BY <1>2, <2>1, <2>2, <2>3, TabSame, Zenon
<1>6. ModelTab!ModelTaken'
  <2>1. UNCHANGED <<changed, guiPc, trPc, stale, using, conf>>  BY <1>1, <1>3, Zenon
  <2> QED  BY <1>2, <2>1, TakenSame
<1>7. WholeBut(conf', blank') /\ WholeBut(mdDisk', blank')
  <2>1. conf' = conf /\ blank' = blank /\ mdDisk' = conf  BY <1>1, Zenon
  <2> QED  BY <1>2, <2>1, Zenon
<1> QED  BY <1>4, <1>5, <1>6, <1>7, Zenon DEF ModelInv, WholeBut

\* rereadPrefs: unless nothing was changed, the tab is stale.
LEMMA ModelDiscarded == ASSUME ModelInv, ModelTab!Discard PROVE ModelInv'
<1>1. /\ ModelTab!User /\ trPc = "idle" /\ conf' = mdDisk /\ stale' = (stale \/ mdDisk # conf)
      /\ blank' = {n \in blank : mdDisk.sections[n].exists}
      /\ UNCHANGED <<mdDisk, mdCurrent, items, selected, tweaker, offered, mdl, dev, warned, changed, guiPc>>
  BY Zenon DEF ModelTab!Discard
<1>2. TabTypes /\ ModelTab!ModelTaken /\ WholeBut(mdDisk, blank) /\ (~stale => TabKnows)  BY Zenon DEF ModelInv
<1>3. mdSteps' \in 0 .. MdSteps /\ trPc' = trPc /\ using' = using  BY <1>1, <1>2, UserSteps
<1>4. TabTypes'
  <2>1. stale' \in BOOLEAN  BY <1>1, Zenon
  <2>2. blank' \subseteq ModelNames  BY <1>1, <1>2 DEF TabTypes
  <2> QED  BY <1>1, <1>2, <1>3, <2>1, <2>2, Zenon DEF TabTypes
<1>5. WholeBut(mdDisk, blank')
  <2>1. \A n \in ModelNames : mdDisk.sections[n].exists /\ n \notin blank' => n \notin blank  BY <1>1, Zenon
  <2>2. \A n \in ModelNames : mdDisk.sections[n].exists /\ n \notin blank' => mdDisk.sections[n].type # ModelTab!NoType
    BY <1>2, <2>1, Zenon DEF WholeBut
  <2> QED  BY <1>2, <2>2, Zenon DEF WholeBut
<1>6. WholeBut(conf', blank') /\ WholeBut(mdDisk', blank')
  <2>1. mdDisk' = mdDisk /\ conf' = mdDisk  BY <1>1, Zenon
  <2> QED  BY <1>5, <2>1, Zenon
<1>7. CASE stale'
  <2>1. ModelTab!ModelTaken'  BY <1>7, Zenon DEF ModelTab!ModelTaken
  <2> QED  BY <1>4, <1>6, <1>7, <2>1, Zenon DEF ModelInv, WholeBut
<1>8. CASE ~stale'
  <2>1. ~stale /\ mdDisk = conf  BY <1>1, <1>8, Zenon
  <2>2. stale' = FALSE /\ stale = FALSE  BY <1>2, <1>4, <1>8, <2>1, Zenon DEF TabTypes
  <2>3. conf' = conf  BY <1>1, <2>1
  <2>4. UNCHANGED <<changed, guiPc, trPc, stale, using, conf>>  BY <1>1, <1>3, <2>2, <2>3, Zenon
  <2>5. ModelTab!ModelTaken'  BY <1>2, <2>4, TakenSame
  <2>6. TabKnows'
    <3>1. conf'.active = conf.active /\ ModelTab!TypeOf(conf') = ModelTab!TypeOf(conf)  BY <2>3, Zenon
    <3>2. UNCHANGED <<mdCurrent, selected, tweaker, mdl, dev, warned>>  BY <1>1, Zenon
    <3> QED  BY <1>2, <2>1, <3>1, <3>2, TabSame
  <2> QED  BY <1>4, <1>6, <2>5, <2>6, Zenon DEF ModelInv, WholeBut
<1> QED  BY <1>7, <1>8

\* The two threads: the tracker reads what is in memory after it has lowered the flag.
LEMMA ThreadsKeep ==
    ASSUME ModelInv, ModelTab!Announce \/ ModelTab!Notice \/ ModelTab!ReadModel \/ UNCHANGED modelVars PROVE ModelInv'
<1>1. /\ UNCHANGED <<conf, mdDisk, blank, stale>>
      /\ UNCHANGED <<mdCurrent, items, selected, tweaker, offered, mdl, dev, warned, mdSteps>>
      /\ guiPc' \in {"idle", guiPc} /\ trPc' \in {"idle", "read", trPc} /\ changed' \in {TRUE, FALSE, changed}
  <2>1. CASE ModelTab!Announce  BY <2>1, Zenon DEF ModelTab!Announce, ModelTab!others
  <2>2. CASE ModelTab!Notice  BY <2>2, Zenon DEF ModelTab!Notice, ModelTab!others
  <2>3. CASE ModelTab!ReadModel  BY <2>3, Zenon DEF ModelTab!ReadModel, ModelTab!others
  <2>4. CASE UNCHANGED modelVars  BY <2>4, Zenon DEF modelVars
  <2> QED  BY <2>1, <2>2, <2>3, <2>4, Zenon
<1>2. TabTypes /\ ModelTab!ModelTaken  BY Zenon DEF ModelInv
<1>3. TabTypes'  BY <1>1, <1>2, Zenon DEF TabTypes
<1>4. TabKnows => TabKnows'
  <2>1. conf'.active = conf.active /\ ModelTab!TypeOf(conf') = ModelTab!TypeOf(conf)  BY <1>1, Zenon
  <2>2. UNCHANGED <<mdCurrent, selected, tweaker, mdl, dev, warned>>  BY <1>1, Zenon
  <2> QED  BY <2>1, <2>2, TabSame
<1>5. ModelTab!ModelTaken'
  <2>1. CASE ModelTab!Announce
    <3>1. changed' = TRUE  BY <2>1, Zenon DEF ModelTab!Announce
    <3> QED  BY <3>1, TakenLater, Zenon
  <2>2. CASE ModelTab!Notice
    <3>1. trPc' # "idle"  BY <2>2 DEF ModelTab!Notice
    <3> QED  BY <3>1, TakenLater, Zenon
  <2>3. CASE ModelTab!ReadModel
    <3>1. using' = ModelTab!Setup(conf) /\ conf' = conf  BY <1>1, <2>3, Zenon DEF ModelTab!ReadModel
    <3> QED  BY <3>1, Zenon DEF ModelTab!ModelTaken, ModelTab!Setup
  <2>4. CASE UNCHANGED modelVars
    <3>1. UNCHANGED <<changed, guiPc, trPc, stale, using, conf>>  BY <2>4, Zenon DEF modelVars
    <3> QED  BY <1>2, <3>1, TakenSame
  <2> QED  BY <2>1, <2>2, <2>3, <2>4, Zenon
<1> QED  BY <1>1, <1>3, <1>4, <1>5, ConfSame

LEMMA ModelKeeps == ModelInv /\ [ModelTab!Next]_modelVars => ModelInv'
<1> SUFFICES ASSUME ModelInv, [ModelTab!Next]_modelVars PROVE ModelInv'  OBVIOUS
<1>1. CASE UNCHANGED modelVars  BY <1>1, ThreadsKeep
<1>2. CASE ModelTab!Next
  <2>1. CASE \E n \in ModelNames : ModelTab!Select(n) \/ ModelTab!Create(n)  BY <2>1, SelectKeeps, CreateKeeps, Zenon
  <2>2. CASE \E t \in ModelTab!Types : ModelTab!Offer(t)  BY <2>2, OfferKeeps, Zenon
  <2>3. CASE \E v \in {1, 2} : ModelTab!Tweak(v)  BY <2>3, TweakKeeps, Zenon
  <2>4. CASE \E d \in DevTypes : ModelTab!ChooseDevice(d)  BY <2>4, ChooseKeeps, Zenon
  <2>5. CASE ModelTab!Save \/ ModelTab!Discard  BY <2>5, ModelSaved, ModelDiscarded, Zenon
  <2>6. CASE ModelTab!Announce \/ ModelTab!Notice \/ ModelTab!ReadModel  BY <2>6, ThreadsKeep, Zenon
  <2> QED  BY <1>2, <2>1, <2>2, <2>3, <2>4, <2>5, <2>6, Zenon DEF ModelTab!Next
<1> QED  BY <1>1, <1>2

ModelsAgree ==
    ModelTab!ModelTaken /\ ModelTab!ModelsWhole /\ ModelTab!TabShowsModel /\ ModelTab!GuardianRight

LEMMA ModelSound == ModelInv => ModelTab!TypeOK /\ ModelsAgree
<1> SUFFICES ASSUME ModelInv PROVE ModelTab!TypeOK /\ ModelsAgree  OBVIOUS
<1>1. TabTypes /\ WholeBut(conf, blank) /\ WholeBut(mdDisk, blank) /\ (~stale => TabKnows) /\ ModelTab!ModelTaken
  BY Zenon DEF ModelInv
<1>2. ModelTab!TypeOK
  <2>1. \A c \in ModelConf : /\ c.active \in ModelNames \cup {ModelTab!NoName}
                             /\ \A n \in ModelNames : c.sections[n].type \in ModelTypes
    BY DEF ModelConf, ModelSection
  <2>2. conf \in ModelConf /\ mdDisk \in ModelConf  BY <1>1, Zenon DEF WholeBut
  <2>3. \A c \in {conf, mdDisk} : /\ c.active \in ModelNames \cup {ModelTab!NoName}
                                  /\ \A n \in ModelNames : c.sections[n].type \in ModelTab!Types \cup {ModelTab!NoType}
    BY <2>1, <2>2, Zenon DEF ModelTypes
  <2> QED  BY <1>1, <2>3, Zenon DEF ModelTab!TypeOK, TabTypes, ModelTypes
<1>3. ModelTab!ModelsWhole  BY <1>1, Zenon DEF ModelTab!ModelsWhole, WholeBut
<1>4. ModelTab!TabShowsModel  BY <1>1, Zenon DEF ModelTab!TabShowsModel, TabKnows
<1>5. ModelTab!GuardianRight
  <2>1. warned \in BOOLEAN  BY <1>1, Zenon DEF TabTypes
  <2>2. ~stale /\ conf.active # ModelTab!NoName =>
           (warned <=> ~ModelTab!Fits(dev, ModelTab!TypeOf(conf)))
    BY <1>1, Zenon DEF TabKnows
  <2>3. \A m : ModelTab!Fits(dev, m) \in BOOLEAN  BY DEF ModelTab!Fits
  <2> HIDE DEF ModelTab!Fits
  <2> QED  BY <2>1, <2>2, <2>3, Zenon DEF ModelTab!GuardianRight
<1> QED  BY <1>1, <1>2, <1>3, <1>4, <1>5 DEF ModelsAgree

-----------------------------------------------------------------------
(* The devices: a section for each, with the key its form needs, and the   *)
(* form that shows the one in use.                                         *)
DvLinks == Links \cup {DeviceTab!Wiimote}
DvValues == DeviceTab!Values \cup {DeviceTab!Absent}
DvSection == [link : DvLinks \cup {DeviceTab!Nothing}, vals : [DeviceTab!Keys -> DvValues]]
DvPrefs == [sections : Seq(DvSection), input : Nat]

\* There is one TrackIR, one Wiimote and one PS3 Eye.
Single == {"Tir", "Wiimote", "Ps3Eye", "Ps3Eye-face"}
DvTypes == {"Joystick", "Webcam", "Webcam-face"} \cup Single

\* A section of a device other than a joystick has the key its driver reads.
HasKey(s) ==
    s.link # DeviceTab!Nothing /\ s.link[1] # "Joystick" =>
        s.vals[DeviceTab!KeyOf(s.link[1])] # DeviceTab!Absent

DvConf(c) ==
    /\ c \in DvPrefs /\ c.input <= Len(c.sections)
    /\ \A i \in DOMAIN c.sections : HasKey(c.sections[i])
    /\ \A i, j \in DOMAIN c.sections :
          c.sections[i].link = c.sections[j].link /\ c.sections[i].link # DeviceTab!Nothing => i = j

\* A device is of a type the tab knows, and of some types there is one device; no file has two sections
\* of one device, or one without the key its form asks for.
ASSUME DeviceAssumption ==
    /\ \A l \in Links : l = <<l[1], l[2]>> /\ l[1] \in DvTypes /\ (l[1] \in Single => l[2] = l[1])
    /\ \A l \in Links : l[1] = "Joystick" => AxesOf[l] \in Seq(DeviceTab!Values)
    /\ \A c \in Confs \cup {DefaultConf} : DvConf(c)
    /\ DvChanges \in Nat

GuiRow == [conf : DvPrefs, static : [DeviceTab!Drivers -> DvValues], comboMap : [DeviceTab!Values -> Nat],
           form : DvLinks \cup {DeviceTab!Nothing}, ready : BOOLEAN, fresh : BOOLEAN, stale : BOOLEAN,
           widget : DvValues]

\* What a form that came up shows.
FormRight(g) ==
    LET s == g.conf.sections[g.conf.input].vals[DeviceTab!KeyOf(g.form[1])]
        v == g.static[DeviceTab!DriverOf(g.form[1])]
    IN  g.ready /\ ~g.stale =>
            /\ DeviceTab!InUse(g.conf) = g.form
            /\ g.form[1] # "Joystick" => g.widget = v /\ v = s
            /\ g.form[1] = "Joystick" /\ ~g.fresh => v = IF s = DeviceTab!Absent THEN DeviceTab!Made ELSE s

GuiRight(g) == g \in GuiRow /\ g.form \in DvLinks /\ DvConf(g.conf) /\ FormRight(g)

DeviceInv ==
    /\ GuiRight(gui) /\ DvConf(dvDisk) /\ plugged \subseteq Links /\ combo \subseteq DvLinks
    /\ crashed \in BOOLEAN /\ dvStrayed = FALSE /\ dvChanges \in 0 .. DvChanges

LEMMA LinkIs ==
    ASSUME NEW l \in DvLinks
    PROVE  l = <<l[1], l[2]>> /\ l[1] \in DvTypes /\ (l[1] \in Single => l[2] = l[1]) /\ l # DeviceTab!Nothing
<1>1. CASE l = DeviceTab!Wiimote  BY <1>1 DEF DeviceTab!Wiimote, DeviceTab!Nothing, DvTypes, Single
<1>2. CASE l \in Links
  <2>1. l = <<l[1], l[2]>> /\ l[1] \in DvTypes /\ (l[1] \in Single => l[2] = l[1])  BY <1>2, DeviceAssumption
  <2>2. l # DeviceTab!Nothing  BY <2>1 DEF DeviceTab!Nothing, DvTypes, Single
  <2> QED  BY <2>1, <2>2
<1> QED  BY <1>1, <1>2 DEF DvLinks

LEMMA KeysOfDevices ==
    ASSUME NEW l \in DvLinks
    PROVE  DeviceTab!KeyOf(l[1]) \in DeviceTab!Keys /\ DeviceTab!DriverOf(l[1]) \in DeviceTab!Drivers
BY LinkIs DEF DvTypes, Single, DeviceTab!KeyOf, DeviceTab!Keys, DeviceTab!DriverOf, DeviceTab!Drivers, DeviceTab!Cameras

\* A device has one section or none.
LEMMA FoundIs ==
    ASSUME NEW c, DvConf(c), NEW l \in DvLinks, DeviceTab!Found(c, l) # {}
    PROVE  /\ DeviceTab!First(DeviceTab!Found(c, l)) \in DOMAIN c.sections
           /\ c.sections[DeviceTab!First(DeviceTab!Found(c, l))].link = l
           /\ \A i \in DeviceTab!Found(c, l) : i = DeviceTab!First(DeviceTab!Found(c, l))
<1>1. PICK i \in DOMAIN c.sections : c.sections[i].link = l  BY DEF DeviceTab!Found
<1>2. l # DeviceTab!Nothing  BY LinkIs
<1>3. \A j \in DOMAIN c.sections : c.sections[j].link = l => j = i  BY <1>1, <1>2, Zenon DEF DvConf
<1>4. DeviceTab!Found(c, l) = {i}  BY <1>1, <1>3 DEF DeviceTab!Found
<1>5. i \in Int
  <2>1. c \in DvPrefs  BY DEF DvConf
  <2> QED  BY <1>1, <2>1 DEF DvPrefs
<1>6. DeviceTab!First({i}) = i  BY <1>5 DEF DeviceTab!First
<1> QED  BY <1>1, <1>4, <1>6

LEMMA FoundSingle ==
    ASSUME NEW c, DvConf(c), NEW t \in {"Tir", "Wiimote"}, <<t, t>> \in DvLinks
    PROVE  DeviceTab!FoundType(c, t) = DeviceTab!Found(c, <<t, t>>)
<1>1. \A i \in DOMAIN c.sections : c.sections[i].link \in DvLinks \cup {DeviceTab!Nothing}
  <2>1. c \in DvPrefs  BY DEF DvConf
  <2>2. \A i \in DOMAIN c.sections : c.sections[i] \in DvSection  BY <2>1 DEF DvPrefs
  <2> QED  BY <2>2 DEF DvSection
<1>2. \A l \in DvLinks \cup {DeviceTab!Nothing} : l[1] = t <=> l = <<t, t>>
  <2>1. ASSUME NEW l \in DvLinks PROVE l[1] = t <=> l = <<t, t>>  BY LinkIs DEF Single
  <2>2. DeviceTab!Nothing[1] # t /\ DeviceTab!Nothing # <<t, t>>  BY DEF DeviceTab!Nothing
  <2> QED  BY <2>1, <2>2
<1> QED  BY <1>1, <1>2, Zenon DEF DeviceTab!Found, DeviceTab!FoundType

\* A device that has a section comes to be in use.
LEMMA ChosenConf ==
    ASSUME NEW c, DvConf(c), NEW i \in DOMAIN c.sections
    PROVE  /\ DvConf([c EXCEPT !.input = i]) /\ [c EXCEPT !.input = i].input = i
           /\ [c EXCEPT !.input = i].sections = c.sections
           /\ DeviceTab!InUse([c EXCEPT !.input = i]) = c.sections[i].link
           /\ (i = c.input => [c EXCEPT !.input = i] = c)
<1> DEFINE e == [c EXCEPT !.input = i]
<1>1. c \in DvPrefs /\ i \in 1 .. Len(c.sections)  BY DEF DvConf, DvPrefs
<1>2. e \in DvPrefs /\ e.input = i /\ e.sections = c.sections /\ (i = c.input => e = c)  BY <1>1 DEF DvPrefs
<1> HIDE DEF e
<1>3. DvConf(e)
  <2>1. e.input <= Len(e.sections)  BY <1>1, <1>2
  <2> QED  BY <1>2, <2>1, Zenon DEF DvConf
<1>4. DeviceTab!InUse(e) = c.sections[i].link  BY <1>1, <1>2 DEF DeviceTab!InUse
<1> QED  BY <1>2, <1>3, <1>4 DEF e

\* A section is made, for a device that has none.
LEMMA MadeConf ==
    ASSUME NEW c, DvConf(c), NEW s \in DvSection, HasKey(s),
           s.link # DeviceTab!Nothing => \A i \in DOMAIN c.sections : c.sections[i].link # s.link
    PROVE  /\ DvConf([sections |-> Append(c.sections, s), input |-> Len(c.sections) + 1])
           /\ DvConf([c EXCEPT !.sections = Append(@, s)])
           /\ Append(c.sections, s)[Len(c.sections) + 1] = s
<1> DEFINE q == Append(c.sections, s)
           e == [sections |-> q, input |-> Len(c.sections) + 1]
           d == [c EXCEPT !.sections = Append(@, s)]
<1>1. c \in DvPrefs  BY DEF DvConf
<1>2. c.sections \in Seq(DvSection) /\ c.input \in Nat  BY <1>1 DEF DvPrefs
<1>3. /\ q \in Seq(DvSection) /\ Len(q) = Len(c.sections) + 1 /\ q[Len(c.sections) + 1] = s
      /\ DOMAIN q = 1 .. Len(c.sections) + 1 /\ DOMAIN c.sections = 1 .. Len(c.sections)
      /\ Len(c.sections) \in Nat
  BY <1>2
<1>4. \A i \in DOMAIN c.sections : q[i] = c.sections[i]  BY <1>2
<1>5. d = [sections |-> q, input |-> c.input]  BY <1>1, SMTT(30) DEF DvPrefs
<1> HIDE DEF q, d
<1>6. \A i \in DOMAIN q : HasKey(q[i])
  <2>1. \A i \in DOMAIN q : i \in DOMAIN c.sections \/ i = Len(c.sections) + 1  BY <1>3
  <2>2. \A i \in DOMAIN c.sections : HasKey(c.sections[i])  BY Zenon DEF DvConf
  <2> QED  BY <1>3, <1>4, <2>1, <2>2, Zenon
<1>7. \A i, j \in DOMAIN q : q[i].link = q[j].link /\ q[i].link # DeviceTab!Nothing => i = j
  <2>1. \A i \in DOMAIN q : i \in DOMAIN c.sections \/ i = Len(c.sections) + 1  BY <1>3
  <2>2. \A i, j \in DOMAIN c.sections :
          c.sections[i].link = c.sections[j].link /\ c.sections[i].link # DeviceTab!Nothing => i = j
    BY Zenon DEF DvConf
  <2> QED  BY <1>3, <1>4, <2>1, <2>2, Zenon
<1>8. DvConf(e)
  <2>1. e \in DvPrefs /\ e.input = Len(c.sections) + 1 /\ e.sections = q  BY <1>3 DEF DvPrefs
  <2>2. e.input <= Len(e.sections)  BY <1>3, <2>1
  <2> QED  BY <1>6, <1>7, <2>1, <2>2, Zenon DEF DvConf
<1>9. DvConf(d)
  <2>1. d \in DvPrefs /\ d.input = c.input /\ d.sections = q  BY <1>2, <1>3, <1>5 DEF DvPrefs
  <2>2. c.input <= Len(c.sections)  BY DEF DvConf
  <2>3. d.input <= Len(d.sections)  BY <1>2, <1>3, <2>1, <2>2
  <2> QED  BY <1>6, <1>7, <2>1, <2>3, Zenon DEF DvConf
<1> QED  BY <1>3, <1>8, <1>9 DEF q, d

\* A key of the section in use is set.
LEMMA SetConf ==
    ASSUME NEW c, DvConf(c), c.input # 0, NEW k \in DeviceTab!Keys, NEW v \in DeviceTab!Values
    PROVE  /\ DvConf([c EXCEPT !.sections[c.input].vals[k] = v])
           /\ [c EXCEPT !.sections[c.input].vals[k] = v].input = c.input
           /\ DeviceTab!InUse([c EXCEPT !.sections[c.input].vals[k] = v]) = DeviceTab!InUse(c)
           /\ [c EXCEPT !.sections[c.input].vals[k] = v].sections[c.input].vals[k] = v
<1> DEFINE s == c.sections[c.input]
           t == [s EXCEPT !.vals[k] = v]
           q == [c.sections EXCEPT ![c.input] = t]
           e == [c EXCEPT !.sections[c.input].vals[k] = v]
<1>1. c \in DvPrefs /\ c.input <= Len(c.sections)  BY Zenon DEF DvConf
<1>2. c.sections \in Seq(DvSection) /\ c.input \in 1 .. Len(c.sections) /\ c.input \in DOMAIN c.sections
  BY <1>1 DEF DvPrefs
<1>3. s \in DvSection  BY <1>2
<1>4. e = [sections |-> q, input |-> c.input]
  <2>1. \A z : [c EXCEPT !.sections = z] = [sections |-> z, input |-> c.input]  BY <1>1 DEF DvPrefs
  <2> QED  BY <2>1, Zenon
<1>5. v \in DvValues /\ v # DeviceTab!Absent
  BY DEF DvValues, DeviceTab!Values, DeviceTab!Absent, DeviceTab!Made
<1> HIDE DEF s, e
<1>6. t \in DvSection /\ t.link = s.link /\ t.vals[k] = v /\ \A m \in DeviceTab!Keys : t.vals[m] = IF m = k THEN v ELSE s.vals[m]
  BY <1>3, <1>5 DEF DvSection
<1> HIDE DEF t
<1>7. HasKey(t)
  <2>1. HasKey(s)  BY <1>2, Zenon DEF DvConf, s
  <2>2. ASSUME s.link # DeviceTab!Nothing, s.link[1] # "Joystick"
        PROVE  t.vals[DeviceTab!KeyOf(s.link[1])] # DeviceTab!Absent
    <3>1. s.link \in DvLinks  BY <1>3, <2>2 DEF DvSection
    <3>2. DeviceTab!KeyOf(s.link[1]) \in DeviceTab!Keys  BY <3>1, KeysOfDevices
    <3>3. s.vals[DeviceTab!KeyOf(s.link[1])] # DeviceTab!Absent  BY <2>1, <2>2 DEF HasKey
    <3> QED  BY <1>5, <1>6, <3>2, <3>3
  <2> QED  BY <1>6, <2>2, Zenon DEF HasKey
<1>8. /\ q \in Seq(DvSection) /\ Len(q) = Len(c.sections) /\ DOMAIN q = DOMAIN c.sections
      /\ \A i \in DOMAIN c.sections : q[i] = IF i = c.input THEN t ELSE c.sections[i]
  BY <1>2, <1>6
<1> HIDE DEF q
<1>9. e \in DvPrefs /\ e.sections = q /\ e.input = c.input  BY <1>1, <1>4, <1>8 DEF DvPrefs
<1>10. DvConf(e)
  <2>1. \A i \in DOMAIN q : HasKey(q[i])  BY <1>7, <1>8, Zenon DEF DvConf
  <2>2. \A i \in DOMAIN q : q[i].link = c.sections[i].link  BY <1>6, <1>8 DEF s
  <2>3. \A i, j \in DOMAIN q : q[i].link = q[j].link /\ q[i].link # DeviceTab!Nothing => i = j
    BY <1>8, <2>2, Zenon DEF DvConf
  <2>4. e.input <= Len(e.sections)  BY <1>1, <1>8, <1>9
  <2> QED  BY <1>9, <2>1, <2>3, <2>4, Zenon DEF DvConf
<1>11. DeviceTab!InUse(e) = DeviceTab!InUse(c)
  <2>1. q[c.input].link = c.sections[c.input].link  BY <1>2, <1>6, <1>8 DEF s
  <2> QED  BY <1>9, <2>1, Zenon DEF DeviceTab!InUse
<1>12. e.sections[c.input].vals[k] = v  BY <1>2, <1>6, <1>8, <1>9
<1> QED  BY <1>9, <1>10, <1>11, <1>12 DEF e

\* The section that is made for a device is complete.
LEMMA NewIs ==
    ASSUME NEW l \in DvLinks
    PROVE  /\ DeviceTab!NewSection(l) \in DvSection /\ DeviceTab!NewSection(l).link = l
           /\ HasKey(DeviceTab!NewSection(l))
           /\ DeviceTab!Section(DeviceTab!Nothing, <<>>) \in DvSection
           /\ DeviceTab!Section(DeviceTab!Nothing, <<>>).link = DeviceTab!Nothing
<1>1. DeviceTab!Made \in DvValues /\ DeviceTab!Absent \in DvValues /\ DeviceTab!Made # DeviceTab!Absent
  BY DEF DvValues, DeviceTab!Values, DeviceTab!Absent, DeviceTab!Made
<1>2. ASSUME NEW f, NEW m \in DvLinks \cup {DeviceTab!Nothing}, \A k \in DOMAIN f : f[k] \in DvValues
      PROVE  DeviceTab!Section(m, f) \in DvSection /\ DeviceTab!Section(m, f).link = m
  BY <1>1, <1>2 DEF DeviceTab!Section, DvSection
<1>3. DeviceTab!Section(DeviceTab!Nothing, <<>>) \in DvSection
      /\ DeviceTab!Section(DeviceTab!Nothing, <<>>).link = DeviceTab!Nothing
  BY <1>2
<1>4. CASE l[1] = "Joystick"
  <2>1. DeviceTab!NewSection(l) = DeviceTab!Section(l, <<>>)  BY <1>4, Zenon DEF DeviceTab!NewSection
  <2>2. DeviceTab!NewSection(l) \in DvSection /\ DeviceTab!NewSection(l).link = l  BY <1>2, <2>1
  <2> QED  BY <1>3, <1>4, <2>2 DEF HasKey
<1>5. CASE l[1] # "Joystick"
  <2> DEFINE f == [k \in {DeviceTab!KeyOf(l[1])} |-> DeviceTab!Made]
  <2>1. DeviceTab!NewSection(l) = DeviceTab!Section(l, f)  BY <1>5, Zenon DEF DeviceTab!NewSection
  <2>2. \A k \in DOMAIN f : f[k] \in DvValues  BY <1>1
  <2>3. DeviceTab!KeyOf(l[1]) \in DeviceTab!Keys  BY KeysOfDevices
  <2>4. DeviceTab!Section(l, f).vals[DeviceTab!KeyOf(l[1])] = DeviceTab!Made  BY <2>3 DEF DeviceTab!Section
  <2> HIDE DEF f
  <2>5. DeviceTab!NewSection(l) \in DvSection /\ DeviceTab!NewSection(l).link = l  BY <1>2, <2>1, <2>2
  <2>6. HasKey(DeviceTab!NewSection(l))  BY <1>1, <2>1, <2>4, <2>5 DEF HasKey
  <2> QED  BY <1>3, <2>5, <2>6
<1> QED  BY <1>4, <1>5

\* The values a driver reads are values, and those of its section if it has the key.
LEMMA InitIs ==
    ASSUME NEW c \in DvPrefs, c.input # 0, c.input <= Len(c.sections), NEW l \in DvLinks, NEW old \in DvValues
    PROVE  /\ c.sections[c.input].vals[DeviceTab!KeyOf(l[1])] \in DvValues
           /\ DeviceTab!InitPrefs(c, l[1], old) \in DvValues
           /\ c.sections[c.input].vals[DeviceTab!KeyOf(l[1])] # DeviceTab!Absent =>
                 DeviceTab!InitPrefs(c, l[1], old) = c.sections[c.input].vals[DeviceTab!KeyOf(l[1])]
           /\ l[1] = "Joystick" =>
                 DeviceTab!InitPrefs(c, l[1], old) =
                    IF c.sections[c.input].vals[DeviceTab!KeyOf(l[1])] = DeviceTab!Absent THEN DeviceTab!Made
                    ELSE c.sections[c.input].vals[DeviceTab!KeyOf(l[1])]
<1> DEFINE v == c.sections[c.input].vals[DeviceTab!KeyOf(l[1])]
<1>1. c.sections \in Seq(DvSection) /\ c.input \in DOMAIN c.sections  BY DEF DvPrefs
<1>2. c.sections[c.input] \in DvSection  BY <1>1
<1>3. v \in DvValues  BY <1>2, KeysOfDevices DEF DvSection
<1>4. DeviceTab!Made \in DvValues  BY DEF DvValues, DeviceTab!Values
<1>5. l[1] \in DvTypes  BY LinkIs
<1>6. DeviceTab!InitPrefs(c, l[1], old) =
        (CASE l[1] = "Wiimote" -> DeviceTab!WiiInitPrefs(v, old) [] l[1] = "Tir" -> DeviceTab!TirInitPrefs(v)
           [] l[1] = "Joystick" -> DeviceTab!JoyInitPrefs(v)
           [] l[1] \in {"Ps3Eye", "Ps3Eye-face"} -> DeviceTab!Ps3InitPrefs(v)
           [] OTHER -> DeviceTab!WcInitPrefs(v))
  BY Zenon DEF DeviceTab!InitPrefs
<1> HIDE DEF v
<1>7. DeviceTab!InitPrefs(c, l[1], old) =
        IF v # DeviceTab!Absent THEN v ELSE IF l[1] = "Wiimote" THEN old ELSE DeviceTab!Made
  BY <1>5, <1>6 DEF DvTypes, Single, DeviceTab!WiiInitPrefs, DeviceTab!TirInitPrefs, DeviceTab!JoyInitPrefs,
     DeviceTab!Ps3InitPrefs, DeviceTab!WcInitPrefs
<1> QED  BY <1>3, <1>4, <1>7 DEF v

\* A form other than a joystick's shows the section it took.
LEMMA TakenRight ==
    ASSUME NEW g \in GuiRow, DvConf(g.conf), g.form \in DvLinks, g.form[1] # "Joystick"
    PROVE  LET h == DeviceTab!Taken(g, DeviceTab!Found(g.conf, g.form), g.form)
           IN  GuiRight(h) /\ h.form = g.form /\ (DeviceTab!InUse(g.conf) = g.form => h.conf = g.conf)
<1> DEFINE l == g.form
           found == DeviceTab!Found(g.conf, l)
           c == IF found # {} THEN [g.conf EXCEPT !.input = DeviceTab!First(found)]
                ELSE [sections |-> Append(g.conf.sections, DeviceTab!NewSection(l)),
                      input |-> Len(g.conf.sections) + 1]
           d == DeviceTab!DriverOf(l[1])
           v == DeviceTab!InitPrefs(c, l[1], g.static[d])
           h == [g EXCEPT !.conf = c, !.static[d] = v, !.widget = v, !.ready = TRUE, !.fresh = FALSE]
<1>0. DeviceTab!Taken(g, found, l) = h  BY Zenon DEF DeviceTab!Taken
<1>1. g.conf \in DvPrefs /\ g.conf.sections \in Seq(DvSection)  BY DEF GuiRow, DvPrefs
<1>2. d \in DeviceTab!Drivers /\ g.static[d] \in DvValues /\ DeviceTab!KeyOf(l[1]) \in DeviceTab!Keys
  BY KeysOfDevices DEF GuiRow
<1>3. DvConf(c) /\ DeviceTab!InUse(c) = l /\ c.input # 0 /\ (DeviceTab!InUse(g.conf) = l => c = g.conf)
  <2>1. l # DeviceTab!Nothing  BY LinkIs
  <2>2. DeviceTab!InUse(g.conf) = l => g.conf.input \in found
    <3>1. ASSUME DeviceTab!InUse(g.conf) = l PROVE g.conf.input # 0 /\ g.conf.sections[g.conf.input].link = l
      BY <2>1, <3>1, Zenon DEF DeviceTab!InUse
    <3>2. g.conf.input # 0 => g.conf.input \in DOMAIN g.conf.sections  BY <1>1 DEF DvConf, DvPrefs
    <3> QED  BY <3>1, <3>2, Zenon DEF DeviceTab!Found
  <2>3. CASE found # {}
    <3> DEFINE i == DeviceTab!First(found)
    <3>1. i \in DOMAIN g.conf.sections /\ g.conf.sections[i].link = l /\ \A j \in found : j = i
      BY <2>3, FoundIs
    <3>2. c = [g.conf EXCEPT !.input = i]  BY <2>3, Zenon
    <3> HIDE DEF c, i
    <3>3. DvConf(c) /\ c.input = i /\ DeviceTab!InUse(c) = l /\ (i = g.conf.input => c = g.conf)
      BY <3>1, <3>2, ChosenConf
    <3>4. i # 0  BY <1>1, <3>1
    <3> QED  BY <2>2, <3>1, <3>3, <3>4, Zenon
  <2>4. CASE found = {}
    <3> DEFINE s == DeviceTab!NewSection(l)
    <3>1. s \in DvSection /\ s.link = l /\ HasKey(s)  BY NewIs
    <3>2. \A i \in DOMAIN g.conf.sections : g.conf.sections[i].link # s.link
      <4>1. \A i \in DOMAIN g.conf.sections : g.conf.sections[i].link # l  BY <2>4 DEF DeviceTab!Found
      <4> QED  BY <3>1, <4>1, Zenon
    <3>3. c = [sections |-> Append(g.conf.sections, s), input |-> Len(g.conf.sections) + 1]  BY <2>4, Zenon
    <3> HIDE DEF s, c
    <3>4. DvConf(c) /\ Append(g.conf.sections, s)[Len(g.conf.sections) + 1] = s  BY <3>1, <3>2, <3>3, MadeConf
    <3>5. c.input = Len(g.conf.sections) + 1 /\ c.sections = Append(g.conf.sections, s) /\ c.input # 0
      BY <1>1, <3>3
    <3>6. DeviceTab!InUse(c) = l  BY <3>1, <3>4, <3>5, Zenon DEF DeviceTab!InUse
    <3> QED  BY <2>2, <2>4, <3>4, <3>5, <3>6, Zenon
  <2> QED  BY <2>3, <2>4
<1> DEFINE s == c.sections[c.input].vals[DeviceTab!KeyOf(l[1])]
<1> HIDE DEF c
<1>4. c \in DvPrefs /\ c.input <= Len(c.sections) /\ c.sections[c.input].link = l
  <2>1. c.sections[c.input].link = l  BY <1>3, Zenon DEF DeviceTab!InUse
  <2> QED  BY <1>3, <2>1, Zenon DEF DvConf
<1>5. s # DeviceTab!Absent
  <2>1. c.input \in DOMAIN c.sections  BY <1>3, <1>4 DEF DvPrefs
  <2>2. HasKey(c.sections[c.input])  BY <1>3, <2>1, Zenon DEF DvConf
  <2>3. l # DeviceTab!Nothing  BY LinkIs
  <2> QED  BY <1>4, <2>2, <2>3, Zenon DEF HasKey
<1>6. v = s /\ v \in DvValues  BY <1>2, <1>3, <1>4, <1>5, InitIs
<1> HIDE DEF v, d, s
<1>7. h \in GuiRow /\ h.conf = c /\ h.form = g.form /\ h.widget = v /\ h.static[d] = v
  <2>1. h \in GuiRow  BY <1>2, <1>4, <1>6 DEF GuiRow
  <2>2. h.static[d] = v  BY <1>2, <1>4, <1>6 DEF GuiRow
  <2>3. h.conf = c /\ h.form = g.form /\ h.widget = v  BY <1>2, <1>4, <1>6 DEF GuiRow
  <2> QED  BY <2>1, <2>2, <2>3, Zenon
<1> HIDE DEF h
<1>10. FormRight(h)
  <2>1. h.form[1] # "Joystick"  BY <1>7
  <2> QED  BY <1>3, <1>6, <1>7, <2>1, Zenon DEF FormRight, s, d
<1> QED  BY <1>0, <1>3, <1>7, <1>10, Zenon DEF GuiRight

\* What enumerateAxes leaves of a form: its widget, its map and whether it came up.
LEMMA AxesShown ==
    ASSUME NEW g \in GuiRow, NEW l \in DvLinks, l[1] = "Joystick"
    PROVE  LET h == DeviceTab!ShowAxes(g, l)
           IN  h \in GuiRow /\ h.conf = g.conf /\ h.form = g.form /\ h.static = g.static /\ h.fresh = g.fresh
<1> DEFINE listed == DeviceTab!Items(l)
           start == DeviceTab!WithItems(g.comboMap, listed)
           map == DeviceTab!Indexed(start, g.static["Joystick"])
           w == DeviceTab!Shown(map, listed, g.static["Joystick"])
           p == [g EXCEPT !.comboMap = map, !.widget = w, !.ready = TRUE]
           q == [g EXCEPT !.widget = DeviceTab!Absent, !.ready = FALSE]
           h == DeviceTab!ShowAxes(g, l)
<1>1. listed \in Seq(DeviceTab!Values)
  <2>1. l \in Links  BY DEF DvLinks, DeviceTab!Wiimote
  <2>2. AxesOf[l] \in Seq(DeviceTab!Values)  BY <2>1, DeviceAssumption
  <2>3. listed = <<DeviceTab!Made>> \o AxesOf[l]  BY Zenon DEF DeviceTab!Items
  <2>4. <<DeviceTab!Made>> \in Seq(DeviceTab!Values)  BY DEF DeviceTab!Values
  <2> HIDE DEF listed
  <2> QED  BY <2>2, <2>3, <2>4
<1>2. h = IF l \in plugged THEN p ELSE q  BY Zenon DEF DeviceTab!ShowAxes
<1> HIDE DEF listed, h
<1>3. start \in [DeviceTab!Values -> Nat]
  <2>1. g.comboMap \in [DeviceTab!Values -> Nat]  BY DEF GuiRow
  <2>2. ASSUME NEW v \in DeviceTab!Values, \E i \in DOMAIN listed : listed[i] = v
        PROVE  (CHOOSE i \in DOMAIN listed : listed[i] = v) \in Nat
    <3>1. (CHOOSE i \in DOMAIN listed : listed[i] = v) \in DOMAIN listed  BY <2>2
    <3> QED  BY <1>1, <3>1
  <2> QED  BY <2>1, <2>2 DEF DeviceTab!WithItems
<1> HIDE DEF start
<1>4. map \in [DeviceTab!Values -> Nat]  BY <1>3 DEF DeviceTab!Indexed
<1> HIDE DEF map
<1>5. w \in DvValues
  <2>1. map[g.static["Joystick"]] \in DOMAIN listed => listed[map[g.static["Joystick"]]] \in DeviceTab!Values
    BY <1>1
  <2> QED  BY <2>1 DEF DvValues, DeviceTab!Shown
<1> HIDE DEF w
<1>6. p \in GuiRow  BY <1>4, <1>5 DEF GuiRow
<1>7. p.conf = g.conf /\ p.form = g.form /\ p.static = g.static  BY <1>4, <1>5 DEF GuiRow
<1>8. p.fresh = g.fresh  BY <1>4, <1>5 DEF GuiRow
<1>9. q \in GuiRow  BY DEF GuiRow, DvValues
<1>10. q.conf = g.conf /\ q.form = g.form /\ q.static = g.static  BY DEF GuiRow
<1>11. q.fresh = g.fresh  BY DEF GuiRow
<1> HIDE DEF p, q
<1> QED  BY <1>2, <1>6, <1>7, <1>8, <1>9, <1>10, <1>11, Zenon DEF h

\* A form of a joystick shows the section it took, if it could take one.
LEMMA JoyRight ==
    ASSUME NEW g \in GuiRow, DvConf(g.conf), g.form \in DvLinks, g.form[1] = "Joystick"
    PROVE  LET h == DeviceTab!ActivateJoy(g, g.form)
           IN  GuiRight(h) /\ h.form = g.form /\ (DeviceTab!InUse(g.conf) = g.form => h.conf = g.conf)
<1> DEFINE l == g.form
           found == DeviceTab!Found(g.conf, l)
           chosen == [g.conf EXCEPT !.input = DeviceTab!First(found)]
           empty == [g.conf EXCEPT !.sections = Append(@, DeviceTab!Section(DeviceTab!Nothing, <<>>))]
           made == [sections |-> Append(g.conf.sections, DeviceTab!NewSection(l)),
                    input |-> Len(g.conf.sections) + 1]
           v == DeviceTab!InitPrefs(chosen, "Joystick", g.static["Joystick"])
           u == DeviceTab!InitPrefs(g.conf, "Joystick", g.static["Joystick"])
           a == [g EXCEPT !.conf = chosen, !.fresh = FALSE, !.static["Joystick"] = v]
           b == [g EXCEPT !.conf = empty, !.widget = DeviceTab!Absent, !.ready = FALSE]
           c == [g EXCEPT !.conf = made, !.fresh = TRUE, !.static["Joystick"] = u]
           h == DeviceTab!ActivateJoy(g, l)
<1>1. /\ found # {} => h = DeviceTab!ShowAxes(a, l)
      /\ found = {} /\ g.conf.input = 0 => h = b
      /\ found = {} /\ g.conf.input # 0 => h = DeviceTab!ShowAxes(c, l)
  BY DEF DeviceTab!ActivateJoy
<1>2. g.conf \in DvPrefs /\ g.conf.sections \in Seq(DvSection) /\ g.conf.input <= Len(g.conf.sections)
  BY DEF GuiRow, DvPrefs, DvConf
<1>3. "Joystick" \in DeviceTab!Drivers /\ g.static \in [DeviceTab!Drivers -> DvValues] /\ l # DeviceTab!Nothing
  BY LinkIs DEF DeviceTab!Drivers, GuiRow
<1>4. DeviceTab!InUse(g.conf) = l => g.conf.input \in found
  <2>1. ASSUME DeviceTab!InUse(g.conf) = l PROVE g.conf.input # 0 /\ g.conf.sections[g.conf.input].link = l
    BY <1>3, <2>1, Zenon DEF DeviceTab!InUse
  <2>2. g.conf.input # 0 => g.conf.input \in DOMAIN g.conf.sections  BY <1>2 DEF DvPrefs
  <2> QED  BY <2>1, <2>2, Zenon DEF DeviceTab!Found
<1> HIDE DEF h
<1>5. CASE found # {}
  <2> DEFINE i == DeviceTab!First(found)
  <2>1. i \in DOMAIN g.conf.sections /\ g.conf.sections[i].link = l /\ \A j \in found : j = i
    BY <1>5, FoundIs
  <2> HIDE DEF i
  <2>2. DvConf(chosen) /\ chosen.input = i /\ DeviceTab!InUse(chosen) = l /\ (i = g.conf.input => chosen = g.conf)
    BY <2>1, ChosenConf DEF i
  <2>3. i # 0  BY <1>2, <2>1
  <2> HIDE DEF chosen
  <2>4. chosen \in DvPrefs /\ chosen.input # 0 /\ chosen.input <= Len(chosen.sections)
    BY <2>2, <2>3, Zenon DEF DvConf
  <2> DEFINE s == chosen.sections[chosen.input].vals[DeviceTab!KeyOf("Joystick")]
  <2>5. v \in DvValues /\ v = IF s = DeviceTab!Absent THEN DeviceTab!Made ELSE s
    <3>1. g.static["Joystick"] \in DvValues  BY <1>3
    <3> QED  BY <2>4, <3>1, InitIs
  <2> HIDE DEF s, v
  <2>6. a \in GuiRow  BY <1>3, <2>4, <2>5 DEF GuiRow
  <2>7. a.static["Joystick"] = v  BY <1>3, <2>4, <2>5 DEF GuiRow
  <2>8. a.conf = chosen /\ a.form = l  BY <2>4, <2>5 DEF GuiRow
  <2> HIDE DEF a
  <2>9. h = DeviceTab!ShowAxes(a, l)  BY <1>1, <1>5
  <2>10. h \in GuiRow /\ h.conf = chosen /\ h.form = l /\ h.static["Joystick"] = v  BY <2>6, <2>7, <2>8, <2>9, AxesShown
  <2>11. FormRight(h)
    <3>1. DeviceTab!DriverOf("Joystick") = "Joystick"  BY DEF DeviceTab!DriverOf, DeviceTab!Cameras
    <3> QED  BY <2>2, <2>5, <2>10, <3>1, Zenon DEF FormRight, s
  <2> QED  BY <1>4, <2>1, <2>2, <2>10, <2>11, Zenon DEF GuiRight, h
<1>6. CASE found = {} /\ g.conf.input = 0
  <2> DEFINE n == DeviceTab!Section(DeviceTab!Nothing, <<>>)
  <2>1. n \in DvSection /\ n.link = DeviceTab!Nothing /\ HasKey(n)
    <3>1. n \in DvSection /\ n.link = DeviceTab!Nothing  BY NewIs
    <3> HIDE DEF n
    <3> QED  BY <3>1 DEF HasKey
  <2> HIDE DEF n
  <2>2. DvConf([g.conf EXCEPT !.sections = Append(@, n)])  BY <2>1, MadeConf
  <2>3. DvConf(empty) /\ empty \in DvPrefs  BY <2>2 DEF n, DvConf
  <2> HIDE DEF empty
  <2>4. b \in GuiRow  BY <2>3 DEF GuiRow, DvValues
  <2>5. b.conf = empty /\ b.form = l /\ ~b.ready  BY <2>3 DEF GuiRow
  <2> HIDE DEF b
  <2>6. FormRight(b)  BY <2>5, Zenon DEF FormRight
  <2>7. h = b /\ DeviceTab!InUse(g.conf) # l  BY <1>1, <1>4, <1>6
  <2> QED  BY <2>3, <2>4, <2>5, <2>6, <2>7, Zenon DEF GuiRight, h
<1>7. CASE found = {} /\ g.conf.input # 0
  <2> DEFINE n == DeviceTab!NewSection(l)
  <2>1. n \in DvSection /\ n.link = l /\ HasKey(n)  BY NewIs
  <2>2. \A i \in DOMAIN g.conf.sections : g.conf.sections[i].link # n.link
    <3>1. \A i \in DOMAIN g.conf.sections : g.conf.sections[i].link # l  BY <1>7 DEF DeviceTab!Found
    <3> QED  BY <2>1, <3>1, Zenon
  <2> HIDE DEF n
  <2>3. made = [sections |-> Append(g.conf.sections, n), input |-> Len(g.conf.sections) + 1]  BY Zenon DEF n
  <2>4. DvConf(made) /\ Append(g.conf.sections, n)[Len(g.conf.sections) + 1] = n  BY <2>1, <2>2, <2>3, MadeConf
  <2> HIDE DEF made
  <2>5. made.input = Len(g.conf.sections) + 1 /\ made.sections = Append(g.conf.sections, n) /\ made.input # 0
    BY <1>2, <2>3
  <2>6. DeviceTab!InUse(made) = l  BY <2>1, <2>4, <2>5, Zenon DEF DeviceTab!InUse
  <2>7. u \in DvValues
    <3>1. g.static["Joystick"] \in DvValues  BY <1>3
    <3> QED  BY <1>2, <1>7, <3>1, InitIs
  <2> HIDE DEF u
  <2>8. made \in DvPrefs  BY <2>4, Zenon DEF DvConf
  <2>9. c \in GuiRow  BY <1>3, <2>7, <2>8 DEF GuiRow
  <2>10. c.conf = made /\ c.form = l  BY <2>7, <2>8 DEF GuiRow
  <2>11. c.fresh  BY <2>7, <2>8 DEF GuiRow
  <2> HIDE DEF c
  <2>12. h = DeviceTab!ShowAxes(c, l)  BY <1>1, <1>7
  <2>13. h \in GuiRow /\ h.conf = made /\ h.form = l /\ h.fresh = c.fresh  BY <2>9, <2>10, <2>12, AxesShown
  <2>14. FormRight(h)  BY <2>6, <2>11, <2>13, Zenon DEF FormRight
  <2> QED  BY <1>4, <1>7, <2>4, <2>13, <2>14, Zenon DEF GuiRight, h
<1> QED  BY <1>5, <1>6, <1>7, Zenon

\* A device that is chosen has its form, its section and its driver's values.
LEMMA ChosenRight ==
    ASSUME NEW g \in GuiRow, DvConf(g.conf), NEW l \in DvLinks
    PROVE  /\ GuiRight(DeviceTab!Activated(g, l)) /\ DeviceTab!Activated(g, l).form = l
           /\ DeviceTab!InUse(g.conf) = l => DeviceTab!Activated(g, l).conf = g.conf
<1> DEFINE h == [g EXCEPT !.form = l, !.stale = FALSE]
<1>1. h \in GuiRow /\ h.form = l /\ h.conf = g.conf
  <2>1. h \in GuiRow  BY DEF GuiRow
  <2>2. h.form = l /\ h.conf = g.conf  BY DEF GuiRow
  <2> QED  BY <2>1, <2>2
<1>2. l = <<l[1], l[2]>> /\ l[1] \in DvTypes /\ (l[1] \in Single => l[2] = l[1])  BY LinkIs
<1>3. DeviceTab!Activated(g, l) =
        (CASE l[1] = "Joystick" -> DeviceTab!ActivateJoy(h, l)
           [] l[1] = "Tir" -> DeviceTab!ActivateTir(h)
           [] l[1] = "Wiimote" -> DeviceTab!ActivateWiimote(h)
           [] l[1] = "Webcam" -> DeviceTab!ActivateWebcam(h, l[2])
           [] l[1] = "Webcam-face" -> DeviceTab!ActivateFace(h, l[2])
           [] l[1] = "Ps3Eye" -> DeviceTab!ActivateEye(h, l[2])
           [] l[1] = "Ps3Eye-face" -> DeviceTab!ActivateEyeFace(h, l[2]))
  BY Zenon DEF DeviceTab!Activated
<1> HIDE DEF h
<1>4. CASE l[1] = "Joystick"
  <2>1. DeviceTab!Activated(g, l) = DeviceTab!ActivateJoy(h, l)  BY <1>3, <1>4
  <2> QED  BY <1>1, <1>4, <2>1, JoyRight
<1>5. CASE l[1] # "Joystick"
  <2>1. DeviceTab!Activated(g, l) = DeviceTab!Taken(h, DeviceTab!Found(h.conf, l), l)
    <3>1. CASE l[1] \in {"Tir", "Wiimote"}
      <4>1. l = <<l[1], l[1]>>  BY <1>2, <3>1 DEF Single
      <4>2. DeviceTab!FoundType(h.conf, l[1]) = DeviceTab!Found(h.conf, l)  BY <1>1, <3>1, <4>1, FoundSingle
      <4>3. /\ l[1] = "Tir" => DeviceTab!Activated(g, l) = DeviceTab!ActivateTir(h)
            /\ l[1] = "Wiimote" => DeviceTab!Activated(g, l) = DeviceTab!ActivateWiimote(h)
        BY <1>3
      <4>4. l[1] = "Tir" => DeviceTab!ActivateTir(h) = DeviceTab!Taken(h, DeviceTab!FoundType(h.conf, l[1]), l)
        BY <4>1 DEF DeviceTab!ActivateTir
      <4>5. l[1] = "Wiimote" => DeviceTab!ActivateWiimote(h) = DeviceTab!Taken(h, DeviceTab!FoundType(h.conf, l[1]), l)
        BY <4>1 DEF DeviceTab!ActivateWiimote, DeviceTab!Wiimote
      <4> QED  BY <3>1, <4>2, <4>3, <4>4, <4>5
    <3>2. CASE l[1] = "Webcam"
      <4>1. l = <<"Webcam", l[2]>> /\ DeviceTab!Activated(g, l) = DeviceTab!ActivateWebcam(h, l[2])  BY <1>2, <1>3, <3>2
      <4> QED  BY <4>1, Zenon DEF DeviceTab!ActivateWebcam
    <3>3. CASE l[1] = "Webcam-face"
      <4>1. l = <<"Webcam-face", l[2]>> /\ DeviceTab!Activated(g, l) = DeviceTab!ActivateFace(h, l[2])  BY <1>2, <1>3, <3>3
      <4> QED  BY <4>1, Zenon DEF DeviceTab!ActivateFace
    <3>4. CASE l[1] = "Ps3Eye"
      <4>1. l = <<"Ps3Eye", l[2]>> /\ DeviceTab!Activated(g, l) = DeviceTab!ActivateEye(h, l[2])  BY <1>2, <1>3, <3>4
      <4> QED  BY <4>1, Zenon DEF DeviceTab!ActivateEye
    <3>5. CASE l[1] = "Ps3Eye-face"
      <4>1. l = <<"Ps3Eye-face", l[2]>> /\ DeviceTab!Activated(g, l) = DeviceTab!ActivateEyeFace(h, l[2])
        BY <1>2, <1>3, <3>5
      <4> QED  BY <4>1, Zenon DEF DeviceTab!ActivateEyeFace
    <3> QED  BY <1>2, <1>5, <3>1, <3>2, <3>3, <3>4, <3>5 DEF DvTypes, Single
  <2> QED  BY <1>1, <1>5, <2>1, TakenRight
<1> QED  BY <1>4, <1>5

\* The device in use is the current one if it is there.
LEMMA CurrentIs ==
    ASSUME plugged \subseteq Links, NEW c
    PROVE  /\ DeviceTab!Current(c) \in DvLinks
           /\ DeviceTab!InUse(c) \in plugged \cup {DeviceTab!Wiimote} => DeviceTab!Current(c) = DeviceTab!InUse(c)
<1> DEFINE l == DeviceTab!InUse(c)
           mine == {p \in plugged \cup {DeviceTab!Wiimote} : DeviceTab!Listed(p, l)}
<1>1. /\ mine = {} => DeviceTab!Current(c) = DeviceTab!Wiimote
      /\ mine # {} => DeviceTab!Current(c) = CHOOSE p \in mine : TRUE
  BY Zenon DEF DeviceTab!Current
<1>2. plugged \cup {DeviceTab!Wiimote} \subseteq DvLinks  BY DEF DvLinks
<1>3. mine # {} => (CHOOSE p \in mine : TRUE) \in mine  BY Zenon
<1>4. DeviceTab!Current(c) \in DvLinks  BY <1>1, <1>2, <1>3 DEF DvLinks
<1>5. ASSUME l \in plugged \cup {DeviceTab!Wiimote} PROVE l \in mine /\ \A p \in mine : p = l
  <2>1. l \in DvLinks  BY <1>2, <1>5
  <2> HIDE DEF l
  <2>2. l = <<l[1], l[2]>> /\ l[1] \in DvTypes /\ (l[1] \in Single => l[2] = l[1])  BY <2>1, LinkIs
  <2>3. DeviceTab!Listed(l, l)
    BY <2>2 DEF DvTypes, Single, DeviceTab!Listed, DeviceTab!TirListed, DeviceTab!WiimoteListed, DeviceTab!JoyListed,
       DeviceTab!WebcamListed, DeviceTab!FaceListed, DeviceTab!EyeListed, DeviceTab!EyeFaceListed
  <2>4. ASSUME NEW p \in DvLinks, DeviceTab!Listed(p, l) PROVE p = l
    <3>1. p = <<p[1], p[2]>> /\ (p[1] \in Single => p[2] = p[1])  BY LinkIs
    <3>2. p = l \/ (p[1] = l[1] /\ p[1] \in Single)
      BY <2>4 DEF Single, DeviceTab!Listed, DeviceTab!TirListed, DeviceTab!WiimoteListed, DeviceTab!JoyListed,
         DeviceTab!WebcamListed, DeviceTab!FaceListed, DeviceTab!EyeListed, DeviceTab!EyeFaceListed
    <3> QED  BY <2>2, <3>1, <3>2
  <2> QED  BY <1>2, <1>5, <2>3, <2>4 DEF l
<1>6. ASSUME l \in plugged \cup {DeviceTab!Wiimote} PROVE DeviceTab!Current(c) = l
  <2>1. l \in mine /\ \A p \in mine : p = l  BY <1>5, <1>6
  <2> QED  BY <1>1, <1>3, <2>1, Zenon
<1> QED  BY <1>4, <1>6

LEMMA DeviceBegins == DeviceTab!Init => DeviceInv
<1> SUFFICES ASSUME DeviceTab!Init PROVE DeviceInv  OBVIOUS
<1> DEFINE g == [conf |-> dvDisk, static |-> [d \in DeviceTab!Drivers |-> DeviceTab!Absent],
                 comboMap |-> [v \in DeviceTab!Values |-> 0], form |-> DeviceTab!Nothing, ready |-> FALSE,
                 fresh |-> FALSE, stale |-> FALSE, widget |-> DeviceTab!Absent]
<1>1. /\ plugged \in {{}, Links} /\ dvDisk \in Confs /\ combo = plugged \cup {DeviceTab!Wiimote}
      /\ gui = DeviceTab!Activated(g, DeviceTab!Current(dvDisk))
      /\ crashed = FALSE /\ dvStrayed = FALSE /\ dvChanges = 0
  BY Zenon DEF DeviceTab!Init
<1>2. DvConf(dvDisk) /\ dvDisk \in DvPrefs  BY <1>1, DeviceAssumption DEF DvConf
<1>3. plugged \subseteq Links  BY <1>1
<1>4. g \in GuiRow /\ g.conf = dvDisk  BY <1>2 DEF GuiRow, DvValues
<1> HIDE DEF g
<1>5. DeviceTab!Current(dvDisk) \in DvLinks  BY <1>3, CurrentIs
<1>6. GuiRight(gui)  BY <1>1, <1>2, <1>4, <1>5, ChosenRight
<1>7. combo \subseteq DvLinks /\ dvChanges \in 0 .. DvChanges  BY <1>1, <1>3, DeviceAssumption DEF DvLinks
<1> QED  BY <1>1, <1>2, <1>3, <1>6, <1>7, Zenon DEF DeviceInv

LEMMA DeviceSteps == ASSUME DeviceInv, DeviceTab!Change PROVE dvChanges' \in 0 .. DvChanges
<1>1. dvChanges < DvChanges /\ dvChanges' = dvChanges + 1  BY Zenon DEF DeviceTab!Change
<1>2. dvChanges \in 0 .. DvChanges /\ DvChanges \in Nat  BY DeviceAssumption, Zenon DEF DeviceInv
<1> QED  BY <1>1, <1>2

\* refresh on preferences of the right form.
LEMMA LookAgain ==
    ASSUME DeviceInv, NEW c, DvConf(c), DeviceTab!Refreshed(c)
    PROVE  /\ GuiRight(gui') /\ combo' \subseteq DvLinks
           /\ DeviceTab!InUse(c) \in plugged \cup {DeviceTab!Wiimote} => gui'.conf = c
<1> DEFINE g == [gui EXCEPT !.conf = c]
<1>1. combo' = plugged \cup {DeviceTab!Wiimote} /\ gui' = DeviceTab!Activated(g, DeviceTab!Current(c))
  BY Zenon DEF DeviceTab!Refreshed
<1>2. gui \in GuiRow /\ plugged \subseteq Links  BY Zenon DEF DeviceInv, GuiRight
<1>3. g \in GuiRow /\ g.conf = c
  <2>1. c \in DvPrefs  BY Zenon DEF DvConf
  <2> QED  BY <1>2, <2>1 DEF GuiRow
<1> HIDE DEF g
<1>4. /\ DeviceTab!Current(c) \in DvLinks
      /\ DeviceTab!InUse(c) \in plugged \cup {DeviceTab!Wiimote} => DeviceTab!Current(c) = DeviceTab!InUse(c)
  BY <1>2, CurrentIs
<1> DEFINE l == DeviceTab!Current(c)
<1> HIDE DEF l
<1>5. l \in DvLinks /\ gui' = DeviceTab!Activated(g, l)  BY <1>1, <1>4 DEF l
<1>6. GuiRight(gui') /\ (DeviceTab!InUse(c) = l => gui'.conf = c)  BY <1>3, <1>5, ChosenRight
<1>7. combo' \subseteq DvLinks  BY <1>1, <1>2 DEF DvLinks
<1> QED  BY <1>4, <1>6, <1>7 DEF l

LEMMA DeviceRefreshed == ASSUME DeviceInv, DeviceTab!Refresh PROVE DeviceInv'
<1>1. /\ DeviceTab!Refreshed(gui.conf) /\ DeviceTab!Change /\ plugged' = plugged /\ dvDisk' = dvDisk /\ crashed' = crashed
      /\ dvStrayed' = (dvStrayed \/ (DeviceTab!InUse(gui.conf) \in plugged \cup {DeviceTab!Wiimote}
                                     /\ gui'.conf # gui.conf))
  BY Zenon DEF DeviceTab!Refresh
<1>2. DvConf(gui.conf) /\ plugged \subseteq Links /\ dvStrayed = FALSE /\ crashed \in BOOLEAN /\ DvConf(dvDisk)
  BY Zenon DEF DeviceInv, GuiRight
<1>3. /\ GuiRight(gui') /\ combo' \subseteq DvLinks
      /\ DeviceTab!InUse(gui.conf) \in plugged \cup {DeviceTab!Wiimote} => gui'.conf = gui.conf
  BY <1>1, <1>2, LookAgain
<1>4. dvStrayed' = FALSE  BY <1>1, <1>2, <1>3, Zenon
<1>5. dvChanges' \in 0 .. DvChanges  BY <1>1, DeviceSteps
<1>6. GuiRight(gui)' /\ DvConf(dvDisk)' /\ plugged' \subseteq Links
  BY <1>1, <1>2, <1>3, Zenon DEF GuiRight, FormRight, DvConf, DeviceTab!InUse
<1>7. crashed' \in BOOLEAN  BY <1>1, <1>2
<1> QED  BY <1>3, <1>4, <1>5, <1>6, <1>7, Zenon DEF DeviceInv

LEMMA DeviceReset == ASSUME DeviceInv, DeviceTab!Defaults PROVE DeviceInv'
<1>1. /\ DeviceTab!Refreshed(DefaultConf) /\ DeviceTab!Change /\ plugged' = plugged /\ dvDisk' = DefaultConf
      /\ crashed' = crashed /\ dvStrayed' = dvStrayed
  BY Zenon DEF DeviceTab!Defaults
<1>2. DvConf(DefaultConf)  BY DeviceAssumption
<1>3. plugged \subseteq Links /\ dvStrayed = FALSE /\ crashed \in BOOLEAN  BY Zenon DEF DeviceInv
<1>4. GuiRight(gui') /\ combo' \subseteq DvLinks  BY <1>1, <1>2, LookAgain
<1>5. dvChanges' \in 0 .. DvChanges  BY <1>1, DeviceSteps
<1>6. GuiRight(gui)' /\ DvConf(dvDisk)' /\ plugged' \subseteq Links /\ dvStrayed' = FALSE
  BY <1>1, <1>2, <1>3, <1>4, Zenon DEF GuiRight, FormRight, DvConf, DeviceTab!InUse
<1>7. crashed' \in BOOLEAN  BY <1>1, <1>3
<1> QED  BY <1>4, <1>5, <1>6, <1>7, Zenon DEF DeviceInv

LEMMA DeviceChosen == ASSUME DeviceInv, NEW l, DeviceTab!Choose(l) PROVE DeviceInv'
<1>1. /\ DeviceTab!Change /\ l \in combo /\ gui' = DeviceTab!Activated(gui, l)
      /\ plugged' = plugged /\ combo' = combo /\ dvDisk' = dvDisk /\ crashed' = crashed /\ dvStrayed' = dvStrayed
  BY Zenon DEF DeviceTab!Choose
<1>2. /\ gui \in GuiRow /\ DvConf(gui.conf) /\ combo \subseteq DvLinks /\ plugged \subseteq Links /\ dvStrayed = FALSE
      /\ crashed \in BOOLEAN /\ DvConf(dvDisk)
  BY Zenon DEF DeviceInv, GuiRight
<1>3. l \in DvLinks  BY <1>1, <1>2
<1>4. GuiRight(gui')  BY <1>1, <1>2, <1>3, ChosenRight
<1>5. dvChanges' \in 0 .. DvChanges  BY <1>1, DeviceSteps
<1>6. GuiRight(gui)' /\ DvConf(dvDisk)' /\ plugged' \subseteq Links /\ combo' \subseteq DvLinks /\ dvStrayed' = FALSE
  BY <1>1, <1>2, <1>4, Zenon DEF GuiRight, FormRight, DvConf, DeviceTab!InUse
<1>7. crashed' \in BOOLEAN  BY <1>1, <1>2
<1> QED  BY <1>5, <1>6, <1>7, Zenon DEF DeviceInv

\* A slot writes what its form shows, to the driver and to the section in use.
LEMMA SlotIs ==
    ASSUME NEW g, g.form \in DvLinks, NEW v
    PROVE  LET l == g.form
               h == [g EXCEPT !.static[DeviceTab!DriverOf(l[1])] = v]
           IN  DeviceTab!Slot(g, v) =
                  IF g.conf.input = 0 THEN h
                  ELSE [h EXCEPT !.conf.sections[g.conf.input].vals[DeviceTab!KeyOf(l[1])] = v]
<1> DEFINE l == g.form
<1>1. l[1] \in DvTypes  BY LinkIs
<1>2. DeviceTab!Slot(g, v) =
        (CASE l[1] = "Tir" -> DeviceTab!TirSlot(g, v) [] l[1] = "Wiimote" -> DeviceTab!WiimoteSlot(g, v)
           [] l[1] = "Joystick" -> DeviceTab!JoySlot(g, v) [] l[1] = "Webcam" -> DeviceTab!WebcamSlot(g, v)
           [] l[1] = "Webcam-face" -> DeviceTab!FaceSlot(g, v) [] l[1] = "Ps3Eye" -> DeviceTab!EyeSlot(g, v)
           [] l[1] = "Ps3Eye-face" -> DeviceTab!EyeFaceSlot(g, v))
  BY Zenon DEF DeviceTab!Slot
<1>3. /\ DeviceTab!TirSlot(g, v) = DeviceTab!SetValue(g, "Tir", v)
      /\ DeviceTab!WiimoteSlot(g, v) = DeviceTab!SetValue(g, "Wiimote", v)
      /\ DeviceTab!JoySlot(g, v) = DeviceTab!SetValue(g, "Joystick", v)
      /\ DeviceTab!WebcamSlot(g, v) = DeviceTab!SetValue(g, "Webcam", v)
      /\ DeviceTab!FaceSlot(g, v) = DeviceTab!SetValue(g, "Webcam", v)
      /\ DeviceTab!EyeSlot(g, v) = DeviceTab!SetValue(g, "Ps3Eye", v)
      /\ DeviceTab!EyeFaceSlot(g, v) = DeviceTab!SetValue(g, "Ps3Eye", v)
  BY Zenon DEF DeviceTab!TirSlot, DeviceTab!WiimoteSlot, DeviceTab!JoySlot, DeviceTab!WebcamSlot, DeviceTab!FaceSlot,
     DeviceTab!EyeSlot, DeviceTab!EyeFaceSlot, DeviceTab!TirSet, DeviceTab!WiiSet, DeviceTab!JoySet, DeviceTab!WcSet,
     DeviceTab!Ps3Set
<1>4. DeviceTab!Slot(g, v) = DeviceTab!SetValue(g, l[1], v)
  <2>1. /\ DeviceTab!DriverOf("Webcam") = DeviceTab!DriverOf("Webcam-face")
        /\ DeviceTab!DriverOf("Ps3Eye") = DeviceTab!DriverOf("Ps3Eye-face")
        /\ DeviceTab!KeyOf("Webcam") = DeviceTab!KeyOf("Webcam-face")
        /\ DeviceTab!KeyOf("Ps3Eye") = DeviceTab!KeyOf("Ps3Eye-face")
    BY DEF DeviceTab!DriverOf, DeviceTab!Cameras, DeviceTab!KeyOf
  <2>2. /\ DeviceTab!SetValue(g, "Webcam", v) = DeviceTab!SetValue(g, "Webcam-face", v)
        /\ DeviceTab!SetValue(g, "Ps3Eye", v) = DeviceTab!SetValue(g, "Ps3Eye-face", v)
    BY <2>1, Zenon DEF DeviceTab!SetValue
  <2> QED  BY <1>1, <1>2, <1>3, <2>2 DEF DvTypes, Single
<1> QED  BY <1>4, Zenon DEF DeviceTab!SetValue

LEMMA DeviceEdited == ASSUME DeviceInv, NEW v \in DeviceTab!Values, DeviceTab!Edit(v) PROVE DeviceInv'
<1> DEFINE l == gui.form
           d == DeviceTab!DriverOf(l[1])
           k == DeviceTab!KeyOf(l[1])
           c == IF gui.conf.input = 0 THEN gui.conf
                ELSE [gui.conf EXCEPT !.sections[gui.conf.input].vals[k] = v]
           h == [gui EXCEPT !.static[d] = v]
           s == DeviceTab!Slot(gui, v)
<1>1. /\ DeviceTab!Change /\ gui' = [s EXCEPT !.widget = v, !.fresh = FALSE] /\ crashed' = (gui.conf.input = 0)
      /\ plugged' = plugged /\ combo' = combo /\ dvDisk' = dvDisk /\ dvStrayed' = dvStrayed
  BY Zenon DEF DeviceTab!Edit
<1>2. /\ gui \in GuiRow /\ DvConf(gui.conf) /\ combo \subseteq DvLinks /\ plugged \subseteq Links /\ dvStrayed = FALSE
      /\ DvConf(dvDisk) /\ l \in DvLinks /\ FormRight(gui)
  BY Zenon DEF DeviceInv, GuiRight
<1>3. d \in DeviceTab!Drivers /\ k \in DeviceTab!Keys /\ v \in DvValues /\ l # DeviceTab!Nothing
  BY <1>2, KeysOfDevices, LinkIs DEF DvValues
<1>4. s = IF gui.conf.input = 0 THEN h ELSE [h EXCEPT !.conf.sections[gui.conf.input].vals[k] = v]
  BY <1>2, SlotIs
<1> HIDE DEF s, l, d, k
<1>5. h \in GuiRow /\ h.conf = gui.conf /\ h.form = l /\ h.static[d] = v /\ h.ready = gui.ready /\ h.stale = gui.stale
  <2>1. h \in GuiRow  BY <1>2, <1>3 DEF GuiRow
  <2>2. h.static[d] = v  BY <1>2, <1>3 DEF GuiRow
  <2>3. h.conf = gui.conf /\ h.form = l  BY <1>2, <1>3 DEF GuiRow, l
  <2>4. h.ready = gui.ready  BY <1>2, <1>3 DEF GuiRow
  <2>5. h.stale = gui.stale  BY <1>2, <1>3 DEF GuiRow
  <2> QED  BY <2>1, <2>2, <2>3, <2>4, <2>5, Zenon
<1> HIDE DEF h
<1>6. DvConf(c) /\ DeviceTab!InUse(c) = DeviceTab!InUse(gui.conf)
      /\ (gui.conf.input # 0 => c.input = gui.conf.input /\ c.sections[c.input].vals[k] = v)
  <2>1. CASE gui.conf.input = 0  BY <1>2, <2>1
  <2>2. CASE gui.conf.input # 0
    <3>1. c = [gui.conf EXCEPT !.sections[gui.conf.input].vals[k] = v]  BY <2>2, Zenon
    <3> HIDE DEF c
    <3>2. DvConf(gui.conf)  BY <1>2
    <3> QED  BY <1>3, <2>2, <3>1, <3>2, SetConf
  <2> QED  BY <2>1, <2>2, Zenon
<1>7. s = [h EXCEPT !.conf = c]
  <2>1. CASE gui.conf.input = 0
    <3>1. c = h.conf  BY <1>5, <2>1, Zenon
    <3> HIDE DEF c
    <3>2. [h EXCEPT !.conf = c] = h  BY <1>5, <3>1 DEF GuiRow
    <3> QED  BY <1>4, <2>1, <3>2, Zenon
  <2>2. CASE gui.conf.input # 0
    <3>1. s = [h EXCEPT !.conf = [h.conf EXCEPT !.sections[gui.conf.input].vals[k] = v]]  BY <1>4, <2>2, Zenon
    <3>2. c = [h.conf EXCEPT !.sections[gui.conf.input].vals[k] = v]  BY <1>5, <2>2, Zenon
    <3> QED  BY <3>1, <3>2, Zenon
  <2> QED  BY <2>1, <2>2, Zenon
<1> HIDE DEF c
<1>8. c \in DvPrefs  BY <1>6, Zenon DEF DvConf
<1>9. s \in GuiRow /\ s.conf = c /\ s.form = l /\ s.static[d] = v /\ s.ready = gui.ready /\ s.stale = gui.stale
  <2>1. s \in GuiRow /\ s.conf = c  BY <1>5, <1>7, <1>8 DEF GuiRow
  <2>2. s.form = h.form /\ s.static = h.static  BY <1>5, <1>7, <1>8 DEF GuiRow
  <2>3. s.ready = h.ready  BY <1>5, <1>7, <1>8 DEF GuiRow
  <2>4. s.stale = h.stale  BY <1>5, <1>7, <1>8 DEF GuiRow
  <2> QED  BY <1>5, <2>1, <2>2, <2>3, <2>4, Zenon
<1> DEFINE r == [s EXCEPT !.widget = v, !.fresh = FALSE]
<1>10. r \in GuiRow /\ r.conf = c /\ r.form = l /\ r.static[d] = v /\ r.ready = gui.ready /\ r.stale = gui.stale
       /\ r.widget = v
  <2>1. r \in GuiRow /\ r.conf = c /\ r.widget = v  BY <1>3, <1>9 DEF GuiRow
  <2>2. r.form = s.form /\ r.static = s.static  BY <1>3, <1>9 DEF GuiRow
  <2>3. r.ready = s.ready  BY <1>3, <1>9 DEF GuiRow
  <2>4. r.stale = s.stale  BY <1>3, <1>9 DEF GuiRow
  <2> QED  BY <1>9, <2>1, <2>2, <2>3, <2>4, Zenon
<1>11. gui' = r  BY <1>1
<1> HIDE DEF r
<1>12. FormRight(r)
  <2> SUFFICES ASSUME r.ready /\ ~r.stale
               PROVE  /\ DeviceTab!InUse(c) = l /\ c.sections[c.input].vals[k] = v
    <3>1. v # DeviceTab!Absent  BY DEF DeviceTab!Values, DeviceTab!Absent, DeviceTab!Made
    <3> QED  BY <1>10, <3>1, Zenon DEF FormRight, d, k
  <2>1. gui.ready /\ ~gui.stale  BY <1>10, Zenon
  <2>2. DeviceTab!InUse(gui.conf) = l  BY <1>2, <2>1, Zenon DEF FormRight, l
  <2>3. gui.conf.input # 0  BY <1>3, <2>2, Zenon DEF DeviceTab!InUse
  <2> QED  BY <1>6, <2>2, <2>3, Zenon
<1>13. GuiRight(gui')  BY <1>2, <1>6, <1>10, <1>11, <1>12, Zenon DEF GuiRight, l
<1>14. dvChanges' \in 0 .. DvChanges  BY <1>1, DeviceSteps
<1>15. crashed' \in BOOLEAN  BY <1>1
<1>16. GuiRight(gui)' /\ DvConf(dvDisk)' /\ plugged' \subseteq Links /\ combo' \subseteq DvLinks /\ dvStrayed' = FALSE
  BY <1>1, <1>2, <1>13, Zenon DEF GuiRight, FormRight, DvConf, DeviceTab!InUse
<1> QED  BY <1>14, <1>15, <1>16, Zenon DEF DeviceInv

LEMMA DeviceSaved == ASSUME DeviceInv, DeviceTab!Save PROVE DeviceInv'
<1>1. /\ DeviceTab!Change /\ dvDisk' = gui.conf /\ gui' = gui /\ plugged' = plugged /\ combo' = combo
      /\ crashed' = crashed /\ dvStrayed' = dvStrayed
  BY Zenon DEF DeviceTab!Save
<1>2. /\ GuiRight(gui) /\ DvConf(gui.conf) /\ combo \subseteq DvLinks /\ plugged \subseteq Links /\ dvStrayed = FALSE
      /\ crashed \in BOOLEAN
  BY Zenon DEF DeviceInv, GuiRight
<1>3. dvChanges' \in 0 .. DvChanges  BY <1>1, DeviceSteps
<1>4. crashed' \in BOOLEAN  BY <1>1, <1>2
<1>5. GuiRight(gui)' /\ DvConf(dvDisk)' /\ plugged' \subseteq Links /\ combo' \subseteq DvLinks /\ dvStrayed' = FALSE
  BY <1>1, <1>2, Zenon DEF GuiRight, FormRight, DvConf, DeviceTab!InUse
<1> QED  BY <1>3, <1>4, <1>5, Zenon DEF DeviceInv

LEMMA DeviceDiscarded == ASSUME DeviceInv, DeviceTab!Discard PROVE DeviceInv'
<1> DEFINE b == gui.stale \/ dvDisk # gui.conf
           r == [gui EXCEPT !.conf = dvDisk, !.stale = b]
<1>1. /\ DeviceTab!Change /\ gui' = r
      /\ plugged' = plugged /\ combo' = combo /\ dvDisk' = dvDisk /\ crashed' = crashed /\ dvStrayed' = dvStrayed
  BY Zenon DEF DeviceTab!Discard
<1>2. /\ gui \in GuiRow /\ FormRight(gui) /\ gui.form \in DvLinks /\ DvConf(dvDisk) /\ combo \subseteq DvLinks
      /\ plugged \subseteq Links /\ dvStrayed = FALSE /\ crashed \in BOOLEAN
  BY Zenon DEF DeviceInv, GuiRight
<1>3. dvDisk \in DvPrefs  BY <1>2, Zenon DEF DvConf
<1>4. b \in BOOLEAN /\ (~b => ~gui.stale /\ dvDisk = gui.conf)  BY Zenon
<1> HIDE DEF b
<1>5. /\ r \in GuiRow /\ r.conf = dvDisk /\ r.form = gui.form /\ r.static = gui.static /\ r.widget = gui.widget
      /\ r.ready = gui.ready /\ r.fresh = gui.fresh /\ (r.stale <=> b)
  <2>1. r \in GuiRow  BY <1>2, <1>3, <1>4 DEF GuiRow
  <2>2. r.conf = dvDisk /\ r.form = gui.form /\ r.static = gui.static  BY <1>2, <1>3, <1>4 DEF GuiRow
  <2>3. r.widget = gui.widget  BY <1>2, <1>3, <1>4 DEF GuiRow
  <2>4. r.ready = gui.ready  BY <1>2, <1>3, <1>4 DEF GuiRow
  <2>5. r.fresh = gui.fresh  BY <1>2, <1>3, <1>4 DEF GuiRow
  <2>6. r.stale <=> b  BY <1>2, <1>3, <1>4 DEF GuiRow
  <2> QED  BY <2>1, <2>2, <2>3, <2>4, <2>5, <2>6, Zenon
<1> HIDE DEF r
<1>6. FormRight(r)  BY <1>2, <1>4, <1>5, Zenon DEF FormRight
<1>7. GuiRight(gui')  BY <1>1, <1>2, <1>5, <1>6, Zenon DEF GuiRight
<1>8. dvChanges' \in 0 .. DvChanges  BY <1>1, DeviceSteps
<1>9. crashed' \in BOOLEAN  BY <1>1, <1>2
<1>10. GuiRight(gui)' /\ DvConf(dvDisk)' /\ plugged' \subseteq Links /\ combo' \subseteq DvLinks /\ dvStrayed' = FALSE
  BY <1>1, <1>2, <1>7, Zenon DEF GuiRight, FormRight, DvConf, DeviceTab!InUse
<1> QED  BY <1>8, <1>9, <1>10, Zenon DEF DeviceInv

LEMMA DevicePlugged ==
    ASSUME DeviceInv, NEW l \in Links,
           DeviceTab!PlugIn(l) \/ DeviceTab!PullOut(l)
    PROVE  DeviceInv'
<1>1. /\ DeviceTab!Change /\ gui' = gui /\ plugged' \in {plugged \cup {l}, plugged \ {l}} /\ combo' = combo
      /\ dvDisk' = dvDisk /\ crashed' = crashed /\ dvStrayed' = dvStrayed
  BY Zenon DEF DeviceTab!PlugIn, DeviceTab!PullOut
<1>2. /\ GuiRight(gui) /\ DvConf(dvDisk) /\ combo \subseteq DvLinks /\ plugged \subseteq Links /\ dvStrayed = FALSE
      /\ crashed \in BOOLEAN
  BY Zenon DEF DeviceInv
<1>3. dvChanges' \in 0 .. DvChanges  BY <1>1, DeviceSteps
<1>4. crashed' \in BOOLEAN /\ plugged' \subseteq Links  BY <1>1, <1>2
<1>5. GuiRight(gui)' /\ DvConf(dvDisk)' /\ combo' \subseteq DvLinks /\ dvStrayed' = FALSE
  BY <1>1, <1>2, Zenon DEF GuiRight, FormRight, DvConf, DeviceTab!InUse
<1> QED  BY <1>3, <1>4, <1>5, Zenon DEF DeviceInv

LEMMA DeviceKeeps == DeviceInv /\ [DeviceTab!Next]_deviceVars => DeviceInv'
<1> SUFFICES ASSUME DeviceInv, [DeviceTab!Next]_deviceVars PROVE DeviceInv'  OBVIOUS
<1>1. CASE UNCHANGED deviceVars
  <2>1. /\ gui' = gui /\ plugged' = plugged /\ combo' = combo /\ dvDisk' = dvDisk /\ crashed' = crashed
        /\ dvStrayed' = dvStrayed /\ dvChanges' = dvChanges
    BY <1>1, Zenon DEF deviceVars
  <2>2. crashed' \in BOOLEAN  BY <2>1 DEF DeviceInv
  <2>3. dvStrayed' = FALSE  BY <2>1 DEF DeviceInv
  <2>4. GuiRight(gui)' /\ DvConf(dvDisk)' /\ combo' \subseteq DvLinks /\ plugged' \subseteq Links
        /\ dvChanges' \in 0 .. DvChanges
    BY <2>1, Zenon DEF DeviceInv, GuiRight, FormRight, DvConf, DeviceTab!InUse
  <2> QED  BY <2>2, <2>3, <2>4, Zenon DEF DeviceInv
<1>2. CASE DeviceTab!Next
  <2>1. CASE DeviceTab!Refresh \/ DeviceTab!Save \/ DeviceTab!Discard \/ DeviceTab!Defaults
    BY <2>1, DeviceRefreshed, DeviceSaved, DeviceDiscarded, DeviceReset, Zenon
  <2>2. CASE \E l \in Links \cup {DeviceTab!Wiimote} : DeviceTab!Choose(l)  BY <2>2, DeviceChosen, Zenon
  <2>3. CASE \E l \in Links : DeviceTab!PlugIn(l) \/ DeviceTab!PullOut(l)  BY <2>3, DevicePlugged, Zenon
  <2>4. CASE \E v \in DeviceTab!Values : DeviceTab!Edit(v)  BY <2>4, DeviceEdited, Zenon
  <2> QED  BY <1>2, <2>1, <2>2, <2>3, <2>4, Zenon DEF DeviceTab!Next
<1> QED  BY <1>1, <1>2

DevicesAgree == DeviceTab!FormIsOfDevice /\ DeviceTab!OneSection /\ DeviceTab!RefreshKeeps

LEMMA DeviceSound == DeviceInv => DeviceTab!TypeOK /\ DevicesAgree
<1> SUFFICES ASSUME DeviceInv PROVE DeviceTab!TypeOK /\ DevicesAgree  OBVIOUS
<1>1. /\ gui \in GuiRow /\ FormRight(gui) /\ gui.form \in DvLinks /\ DvConf(gui.conf) /\ DvConf(dvDisk)
      /\ combo \subseteq DvLinks /\ plugged \subseteq Links /\ dvStrayed = FALSE /\ crashed \in BOOLEAN
      /\ dvChanges \in 0 .. DvChanges
  BY Zenon DEF DeviceInv, GuiRight
<1>2. DeviceTab!TypeOK
  <2>1. ASSUME NEW c, DvConf(c)
        PROVE  /\ c.input \in 0 .. Len(c.sections)
               /\ \A i \in DOMAIN c.sections : \A k \in DeviceTab!Keys : c.sections[i].vals[k] \in DvValues
    <3>1. c.sections \in Seq(DvSection) /\ c.input \in 0 .. Len(c.sections)  BY <2>1 DEF DvConf, DvPrefs
    <3>2. \A i \in DOMAIN c.sections : c.sections[i] \in DvSection  BY <3>1
    <3> QED  BY <3>1, <3>2 DEF DvSection
  <2>2. \A c \in {gui.conf, dvDisk} :
           /\ c.input \in 0 .. Len(c.sections)
           /\ \A i \in DOMAIN c.sections : \A k \in DeviceTab!Keys : c.sections[i].vals[k] \in DvValues
    BY <1>1, <2>1
  <2>3. gui.ready \in BOOLEAN /\ gui.fresh \in BOOLEAN /\ gui.stale \in BOOLEAN /\ gui.widget \in DvValues
    BY <1>1 DEF GuiRow
  <2>4. {crashed, dvStrayed, gui.ready, gui.fresh, gui.stale} \subseteq BOOLEAN  BY <1>1, <2>3, Zenon
  <2> QED  BY <1>1, <2>2, <2>3, <2>4, Zenon DEF DeviceTab!TypeOK, DvValues, DvLinks
<1>3. DeviceTab!FormIsOfDevice  BY <1>1, Zenon DEF DeviceTab!FormIsOfDevice, FormRight
<1>4. DeviceTab!OneSection  BY <1>1, Zenon DEF DeviceTab!OneSection, DvConf
<1>5. DeviceTab!RefreshKeeps  BY <1>1, Zenon DEF DeviceTab!RefreshKeeps
<1> QED  BY <1>2, <1>3, <1>4, <1>5 DEF DevicesAgree

-----------------------------------------------------------------------
(* The axes: a section that is there is complete, so that to look for one  *)
(* changes none; and of every axis the last message on its way to the slave*)
(* says what the file does.                                                *)
AxFilters == 0 .. LargestFilter
FullSection == [filter : [Axes -> AxFilters], inverted : {"Yes", "No"}]
AxSections == AxisSettings!Sections
AxFiles == [AxSections -> FullSection \cup {AxisSettings!NoSection}]
AxMessages == ({"filter"} \X Axes \X AxFilters) \cup ({"inverted"} \X {"all"} \X {"Yes", "No"})
AxSlaves == [profile : DOMAIN ProfileSections, values : FullSection, announced : BOOLEAN]

\* Axes and filters as def_section has them, which is complete; the title "Default" has its own section.
ASSUME AxesAssumption ==
    /\ IsFiniteSet(Axes) /\ LargestFilter \in Nat /\ LoadCap \in Nat /\ MaxCommon \in AxFilters
    /\ "Default" \in DOMAIN ProfileSections /\ ProfileSections["Default"] = "Default"
    /\ AxisDefaults \in FullSection /\ AxChanges \in Nat

\* As far as a section may say it.
Capped(v) == AxisSettings!Least(v, LoadCap)

\* What a slave of the default profile should come to.
Goal(a) == Capped(axFile["Default"].filter[a])

TrackerTypes ==
    /\ axFile \in AxFiles /\ axDisk \in AxFiles /\ axFile["Default"] \in FullSection
    /\ handle \in [section : AxSections, values : FullSection] /\ axFile[handle.section] \in FullSection
    /\ profile \in DOMAIN ProfileSections /\ profileSection = handle.section
    /\ ffs \in [Axes -> AxFilters] /\ common \in AxFilters /\ axChanges \in 0 .. AxChanges

\* The tracker has what its section says.
MemoryInv ==
    ~defaulted =>
        /\ handle.values.inverted = axFile[handle.section].inverted
        /\ \A a \in Axes : Capped(handle.values.filter[a]) = Capped(axFile[handle.section].filter[a])

FarTypes ==
    /\ axSlave \in AxSlaves \cup {AxisSettings!None}
    /\ joining \in [values : FullSection] \cup {AxisSettings!None} /\ channel \in Seq(AxMessages)
    /\ channel # <<>> \/ joining # AxisSettings!None => axSlave \in AxSlaves

For(m, a) == m[1] = "filter" /\ m[2] = a

\* The last of the messages q about axis a, or v when there is none, is worth g.
Settles(q, v, a, g) ==
    /\ \A i \in DOMAIN q : For(q[i], a) /\ (\A j \in DOMAIN q : j > i => ~For(q[j], a)) => Capped(q[i][3]) = g
    /\ (\A i \in DOMAIN q : ~For(q[i], a)) => Capped(v) = g

FarInv ==
    ~raced =>
        /\ joining # AxisSettings!None /\ axSlave.profile = "Default" =>
              \A a \in Axes : Capped(joining.values.filter[a]) = Goal(a)
        /\ axSlave \in AxSlaves /\ axSlave.profile = "Default" /\ axSlave.announced =>
              \A a \in Axes : Settles(channel, axSlave.values.filter[a], a, Goal(a))

AxesInv == TrackerTypes /\ MemoryInv /\ AxisSettings!FilterIsSum /\ FarTypes /\ FarInv

LEMMA CappedIs ==
    ASSUME NEW v \in AxFilters
    PROVE  Capped(v) \in AxFilters /\ Capped(v) <= v /\ Capped(Capped(v)) = Capped(v)
BY AxesAssumption DEF AxFilters, Capped, AxisSettings!Least

LEMMA LimitIs ==
    ASSUME NEW v \in Int
    PROVE  AxisSettings!Limit(v) \in AxFilters /\ (v \in AxFilters => AxisSettings!Limit(v) = v)
<1>1. AxisSettings!MaxFilter = LargestFilter  BY AxesAssumption DEF AxisSettings!MaxFilter
<1> QED  BY <1>1, AxesAssumption DEF AxFilters, AxisSettings!Limit, AxisSettings!Least

\* A complete section is not the one that is missing.
LEMMA FullIsThere ==
    ASSUME NEW s \in FullSection
    PROVE  /\ s # AxisSettings!NoSection /\ s # AxisSettings!Empty /\ s.inverted # "unset"
           /\ \A a \in Axes : s.filter[a] # AxisSettings!Unset
           /\ s = [filter |-> [a \in Axes |-> s.filter[a]], inverted |-> s.inverted]
<1>1. s.inverted \in {"Yes", "No"} /\ s.filter \in [Axes -> AxFilters]  BY DEF FullSection
<1>2. AxisSettings!NoSection.inverted = "missing" /\ AxisSettings!Empty.inverted = "unset"
  BY DEF AxisSettings!NoSection, AxisSettings!Empty
<1>3. s # AxisSettings!NoSection /\ s # AxisSettings!Empty /\ s.inverted # "unset"
  <2>1. s.inverted # "missing" /\ s.inverted # "unset"  BY <1>1
  <2> QED  BY <1>2, <2>1, Zenon
<1>4. \A a \in Axes : s.filter[a] # AxisSettings!Unset  BY <1>1, AxesAssumption DEF AxFilters, AxisSettings!Unset
<1>5. s = [filter |-> [a \in Axes |-> s.filter[a]], inverted |-> s.inverted]
  <2>1. [a \in Axes |-> s.filter[a]] = s.filter  BY <1>1
  <2>2. s = [filter |-> s.filter, inverted |-> s.inverted]  BY DEF FullSection
  <2> QED  BY <2>1, <2>2
<1> QED  BY <1>3, <1>4, <1>5

\* To open a section makes it and the default one, and changes none that is there.
LEMMA FilledIs ==
    ASSUME NEW f \in AxFiles, NEW sec \in AxSections
    PROVE  LET d == IF f["Default"] = AxisSettings!NoSection THEN AxisDefaults ELSE f["Default"]
               g == AxisSettings!Filled(f, sec)
           IN  /\ g \in AxFiles /\ d \in FullSection /\ g["Default"] = d /\ g[sec] \in FullSection
               /\ \A s \in AxSections : f[s] \in FullSection => g[s] = f[s]
<1> DEFINE d == IF f["Default"] = AxisSettings!NoSection THEN AxisDefaults ELSE f["Default"]
           e == IF f["Default"] = AxisSettings!NoSection THEN [f EXCEPT !["Default"] = AxisDefaults] ELSE f
           p == AxisSettings!Prepared(f, sec)
           flt(a) == IF p[sec].filter[a] = AxisSettings!Unset THEN p["Default"].filter[a] ELSE p[sec].filter[a]
           inv == IF p[sec].inverted = "unset" THEN p["Default"].inverted ELSE p[sec].inverted
           r == [filter |-> [a \in Axes |-> flt(a)], inverted |-> inv]
           g == AxisSettings!Filled(f, sec)
<1>1. "Default" \in AxSections /\ AxisDefaults \in FullSection
  BY AxesAssumption DEF AxSections, AxisSettings!Sections, AxisSettings!Profiles
<1>2. d \in FullSection  BY <1>1 DEF AxFiles
<1>3. e \in AxFiles /\ e["Default"] = d /\ \A s \in AxSections : s # "Default" => e[s] = f[s]
  BY <1>1 DEF AxFiles
<1>4. p = IF e[sec] = AxisSettings!NoSection THEN [e EXCEPT ![sec] = AxisSettings!Empty] ELSE e
  BY Zenon DEF AxisSettings!Prepared
<1>5. g = [p EXCEPT ![sec] = r]  BY Zenon DEF AxisSettings!Filled
<1> HIDE DEF d, e, p, g
<1>6. DOMAIN p = AxSections /\ \A s \in AxSections : s # sec => p[s] = e[s]  BY <1>3, <1>4 DEF AxFiles
<1>7. DOMAIN g = AxSections /\ g[sec] = r /\ \A s \in AxSections : s # sec => g[s] = e[s]  BY <1>5, <1>6
<1>8. CASE e[sec] = AxisSettings!NoSection
  <2>1. sec # "Default"  BY <1>2, <1>3, <1>8, FullIsThere, Zenon
  <2>2. p[sec] = AxisSettings!Empty /\ p["Default"] = d  BY <1>1, <1>3, <1>4, <1>6, <1>8, <2>1 DEF AxFiles
  <2>3. \A a \in Axes : AxisSettings!Empty.filter[a] = AxisSettings!Unset  BY DEF AxisSettings!Empty
  <2>4. AxisSettings!Empty.inverted = "unset"  BY DEF AxisSettings!Empty
  <2>5. \A a \in Axes : flt(a) = d.filter[a]  BY <2>2, <2>3
  <2>6. inv = d.inverted  BY <2>2, <2>4
  <2>7. r = d
    <3>1. [a \in Axes |-> flt(a)] = [a \in Axes |-> d.filter[a]]  BY <2>5, Zenon
    <3>2. d = [filter |-> [a \in Axes |-> d.filter[a]], inverted |-> d.inverted]  BY <1>2, FullIsThere
    <3> QED  BY <2>6, <3>1, <3>2, Zenon
  <2> HIDE DEF r
  <2>8. g[sec] = d /\ g["Default"] = d  BY <1>1, <1>3, <1>7, <2>1, <2>7
  <2>9. \A s \in AxSections : f[s] \in FullSection => g[s] = f[s]
    <3>1. f[sec] = AxisSettings!NoSection  BY <1>3, <1>8, <2>1
    <3>2. \A s \in AxSections : f[s] \in FullSection => s # sec  BY <3>1, FullIsThere, Zenon
    <3>3. f["Default"] \in FullSection => d = f["Default"]  BY FullIsThere, Zenon DEF d
    <3> QED  BY <1>3, <1>7, <2>8, <3>2, <3>3, Zenon
  <2>10. g \in AxFiles
    <3>1. \A s \in AxSections : g[s] \in FullSection \cup {AxisSettings!NoSection}
      BY <1>2, <1>3, <1>7, <2>8 DEF AxFiles
    <3> QED  BY <1>5, <1>7, <3>1 DEF AxFiles
  <2> QED  BY <1>2, <2>8, <2>9, <2>10, Zenon DEF d, g
<1>9. CASE e[sec] # AxisSettings!NoSection
  <2>1. e[sec] \in FullSection /\ p = e  BY <1>3, <1>4, <1>9 DEF AxFiles
  <2>2. \A a \in Axes : flt(a) = e[sec].filter[a]  BY <2>1, FullIsThere
  <2>3. inv = e[sec].inverted  BY <2>1, FullIsThere
  <2>4. r = e[sec]
    <3>1. [a \in Axes |-> flt(a)] = [a \in Axes |-> e[sec].filter[a]]  BY <2>2, Zenon
    <3>2. e[sec] = [filter |-> [a \in Axes |-> e[sec].filter[a]], inverted |-> e[sec].inverted]
      BY <2>1, FullIsThere
    <3> QED  BY <2>3, <3>1, <3>2, Zenon
  <2> HIDE DEF r
  <2>5. g = e  BY <1>3, <1>5, <2>1, <2>4 DEF AxFiles
  <2>6. f["Default"] \in FullSection => d = f["Default"]  BY FullIsThere, Zenon DEF d
  <2>7. \A s \in AxSections : f[s] \in FullSection => g[s] = f[s]  BY <1>3, <2>5, <2>6, Zenon
  <2> QED  BY <1>2, <1>3, <2>1, <2>5, <2>7, Zenon DEF d, g
<1> QED  BY <1>8, <1>9, Zenon

LEMMA LoadedIs ==
    ASSUME NEW f \in AxFiles, NEW sec \in AxSections
    PROVE  LET v == AxisSettings!Loaded(f, sec)
               s == AxisSettings!Filled(f, sec)[sec]
           IN  /\ v \in FullSection /\ v.inverted = s.inverted
               /\ \A a \in Axes : v.filter[a] = Capped(s.filter[a])
<1> DEFINE v == AxisSettings!Loaded(f, sec)
           s == AxisSettings!Filled(f, sec)[sec]
<1>1. s \in FullSection  BY FilledIs
<1>2. v = [filter |-> [a \in Axes |-> Capped(s.filter[a])], inverted |-> s.inverted]
  BY Zenon DEF AxisSettings!Loaded, Capped
<1> HIDE DEF s, v
<1>3. \A a \in Axes : s.filter[a] \in AxFilters  BY <1>1 DEF FullSection
<1>4. \A a \in Axes : Capped(s.filter[a]) \in AxFilters  BY <1>3, CappedIs
<1>5. v \in FullSection /\ v.inverted = s.inverted /\ \A a \in Axes : v.filter[a] = Capped(s.filter[a])
  BY <1>1, <1>2, <1>4 DEF FullSection
<1> QED  BY <1>5 DEF s, v

\* Messages about other axes do not matter; one about the axis settles it.
LEMMA SettlesMore ==
    ASSUME NEW q \in Seq(AxMessages), NEW n \in Seq(AxMessages), NEW v, NEW a, NEW g
    PROVE  /\ (\A i \in DOMAIN n : ~For(n[i], a)) /\ Settles(q, v, a, g) => Settles(q \o n, v, a, g)
           /\ (\E i \in DOMAIN n : For(n[i], a)) /\ (\A i \in DOMAIN n : For(n[i], a) => Capped(n[i][3]) = g)
                 => Settles(q \o n, v, a, g)
<1> DEFINE r == q \o n
<1>1. /\ DOMAIN q = 1 .. Len(q) /\ DOMAIN n = 1 .. Len(n) /\ DOMAIN r = 1 .. Len(q) + Len(n)
      /\ Len(q) \in Nat /\ Len(n) \in Nat
  OBVIOUS
<1>2. \A i \in DOMAIN q : i \in DOMAIN r /\ r[i] = q[i]  OBVIOUS
<1>3. \A i \in DOMAIN n : Len(q) + i \in DOMAIN r /\ r[Len(q) + i] = n[i]  OBVIOUS
<1> HIDE DEF r
<1>4. \A i \in DOMAIN r : i \in DOMAIN q \/ (i - Len(q) \in DOMAIN n /\ r[i] = n[i - Len(q)] /\ i > Len(q))
  BY <1>1, <1>3
<1>5. ASSUME \A i \in DOMAIN n : ~For(n[i], a), Settles(q, v, a, g) PROVE Settles(r, v, a, g)
  <2>1. \A i \in DOMAIN r : For(r[i], a) => i \in DOMAIN q /\ For(q[i], a)  BY <1>2, <1>4, <1>5, Zenon
  <2>2. ASSUME NEW i \in DOMAIN r, For(r[i], a), \A j \in DOMAIN r : j > i => ~For(r[j], a)
        PROVE  Capped(r[i][3]) = g
    <3>1. i \in DOMAIN q /\ For(q[i], a) /\ r[i] = q[i]  BY <1>2, <2>1, <2>2
    <3>2. \A j \in DOMAIN q : j > i => ~For(q[j], a)  BY <1>2, <2>2, Zenon
    <3> QED  BY <1>5, <3>1, <3>2, Zenon DEF Settles
  <2>3. (\A i \in DOMAIN r : ~For(r[i], a)) => Capped(v) = g
    <3>1. (\A i \in DOMAIN r : ~For(r[i], a)) => \A i \in DOMAIN q : ~For(q[i], a)  BY <1>2, Zenon
    <3> QED  BY <1>5, <3>1, Zenon DEF Settles
  <2> QED  BY <2>2, <2>3, Zenon DEF Settles
<1>6. ASSUME \E i \in DOMAIN n : For(n[i], a), \A i \in DOMAIN n : For(n[i], a) => Capped(n[i][3]) = g
      PROVE  Settles(r, v, a, g)
  <2>1. PICK k \in DOMAIN n : For(n[k], a)  BY <1>6
  <2>2. Len(q) + k \in DOMAIN r /\ For(r[Len(q) + k], a)  BY <1>3, <2>1
  <2>3. ASSUME NEW i \in DOMAIN r, For(r[i], a), \A j \in DOMAIN r : j > i => ~For(r[j], a)
        PROVE  Capped(r[i][3]) = g
    <3>1. ~(Len(q) + k > i)  BY <2>2, <2>3, Zenon
    <3>2. i \notin DOMAIN q  BY <1>1, <2>1, <3>1
    <3>3. i - Len(q) \in DOMAIN n /\ r[i] = n[i - Len(q)]  BY <1>4, <3>2
    <3> QED  BY <1>6, <2>3, <3>3, Zenon
  <2> QED  BY <2>2, <2>3, Zenon DEF Settles
<1> QED  BY <1>5, <1>6, Zenon DEF r

\* The first message comes to be the value, if it is about the axis.
LEMMA SettlesLess ==
    ASSUME NEW q \in Seq(AxMessages), q # <<>>, NEW v, NEW a, NEW g, Settles(q, v, a, g)
    PROVE  Settles(Tail(q), IF For(Head(q), a) THEN Head(q)[3] ELSE v, a, g)
<1> DEFINE r == Tail(q)
           w == IF For(Head(q), a) THEN Head(q)[3] ELSE v
<1>1. DOMAIN q = 1 .. Len(q) /\ Len(q) \in Nat /\ Len(q) > 0 /\ DOMAIN r = 1 .. Len(q) - 1 /\ Head(q) = q[1]
  OBVIOUS
<1>2. \A i \in DOMAIN r : i + 1 \in DOMAIN q /\ r[i] = q[i + 1]  OBVIOUS
<1> HIDE DEF r
<1>3. \A j \in DOMAIN q : j = 1 \/ (j - 1 \in DOMAIN r /\ r[j - 1] = q[j])
  <2>1. \A j \in DOMAIN q : j # 1 => j - 1 \in DOMAIN r /\ (j - 1) + 1 = j  BY <1>1
  <2> QED  BY <1>2, <2>1
<1>4. ASSUME NEW i \in DOMAIN r, For(r[i], a), \A j \in DOMAIN r : j > i => ~For(r[j], a)
      PROVE  Capped(r[i][3]) = g
  <2>1. i + 1 \in DOMAIN q /\ For(q[i + 1], a) /\ r[i] = q[i + 1]  BY <1>2, <1>4
  <2>2. ASSUME NEW j \in DOMAIN q, j > i + 1 PROVE ~For(q[j], a)
    <3>1. j - 1 \in DOMAIN r /\ r[j - 1] = q[j] /\ j - 1 > i  BY <1>1, <1>3, <1>4, <2>2
    <3> QED  BY <1>4, <3>1
  <2> QED  BY <2>1, <2>2, Zenon DEF Settles
<1>5. ASSUME \A i \in DOMAIN r : ~For(r[i], a) PROVE Capped(w) = g
  <2>1. 1 \in DOMAIN q  BY <1>1
  <2>2. \A j \in DOMAIN q : j > 1 => ~For(q[j], a)
    <3>1. \A j \in DOMAIN q : j > 1 => j # 1  BY <1>1
    <3> QED  BY <1>3, <1>5, <3>1, Zenon
  <2>3. CASE For(q[1], a)  BY <1>1, <2>1, <2>2, <2>3, Zenon DEF Settles
  <2>4. CASE ~For(q[1], a)
    <3>1. \A j \in DOMAIN q : ~For(q[j], a)  BY <1>3, <1>5, <2>4, Zenon
    <3> QED  BY <1>1, <2>4, <3>1, Zenon DEF Settles
  <2> QED  BY <2>3, <2>4
<1> QED  BY <1>4, <1>5, Zenon DEF Settles, r

\* Every axis has its message among those made of all.
LEMMA SeqOfAll ==
    ASSUME NEW f \in [Axes -> AxFilters]
    PROVE  LET n == AxisSettings!SetToSeq({<<"filter", a, f[a]>> : a \in Axes})
           IN  /\ n \in Seq(AxMessages)
               /\ \A a \in Axes : \E i \in DOMAIN n : For(n[i], a)
               /\ \A a \in Axes : \A i \in DOMAIN n : For(n[i], a) => n[i][3] = f[a]
<1> DEFINE m == [a \in Axes |-> <<"filter", a, f[a]>>]
           S == {<<"filter", a, f[a]>> : a \in Axes}
           n == AxisSettings!SetToSeq(S)
<1>1. m \in Surjection(Axes, S)
  <2>1. m \in [Axes -> S] /\ \A s \in S : \E a \in Axes : m[a] = s  OBVIOUS
  <2> QED  BY <2>1, Zenon DEF Surjection
<1>2. IsFiniteSet(S)  BY <1>1, AxesAssumption, FS_Surjection
<1>3. \A s \in S : \E a \in Axes : s = <<"filter", a, f[a]>>  OBVIOUS
<1>4. \A a \in Axes : <<"filter", a, f[a]>> \in S  OBVIOUS
<1> HIDE DEF S, m
<1>5. Cardinality(S) \in Nat /\ ExistsBijection(1 .. Cardinality(S), S)  BY <1>2, FS_CardinalityType
<1>6. n \in [1 .. Cardinality(S) -> S] /\ AxisSettings!IsInjective(n)
  <2>1. \E h \in [1 .. Cardinality(S) -> S] : AxisSettings!IsInjective(h)
    <3>1. PICK h \in Bijection(1 .. Cardinality(S), S) : TRUE  BY <1>5, Zenon DEF ExistsBijection, Bijection
    <3>2. h \in [1 .. Cardinality(S) -> S] /\ IsInjective(h)  BY <3>1, Zenon DEF Bijection, Injection
    <3> QED  BY <3>2, Zenon DEF IsInjective, AxisSettings!IsInjective
  <2>2. AxisSettings!Cardinality(S) = Cardinality(S)  BY Zenon DEF Cardinality, AxisSettings!Cardinality
  <2> QED  BY <2>1, <2>2, Zenon DEF AxisSettings!SetToSeq
<1> HIDE DEF n
<1>7. n \in Surjection(1 .. Cardinality(S), S)
  <2>1. n \in Injection(1 .. Cardinality(S), S)
    BY <1>6, Zenon DEF Injection, IsInjective, AxisSettings!IsInjective
  <2>2. Cardinality(1 .. Cardinality(S)) = Cardinality(S)
    <3>1. Cardinality(1 .. Cardinality(S)) =
             IF 1 > Cardinality(S) THEN 0 ELSE Cardinality(S) - 1 + 1
      BY <1>5, FS_Interval
    <3> QED  BY <1>5, <3>1
  <2> QED  BY <1>2, <2>1, <2>2, FS_Injection
<1>8. \A s \in S : \E i \in DOMAIN n : n[i] = s  BY <1>6, <1>7, Zenon DEF Surjection
<1>9. n \in Seq(AxMessages)
  <2>1. S \subseteq AxMessages
    <3>1. \A a \in Axes : <<"filter", a, f[a]>> \in AxMessages  BY DEF AxMessages
    <3> QED  BY <1>3, <3>1, Zenon
  <2> QED  BY <1>5, <1>6, <2>1
<1>10. ASSUME NEW a \in Axes PROVE \E i \in DOMAIN n : For(n[i], a)
  <2>1. PICK i \in DOMAIN n : n[i] = <<"filter", a, f[a]>>  BY <1>4, <1>8, Zenon
  <2> QED  BY <2>1 DEF For
<1>11. ASSUME NEW a \in Axes, NEW i \in DOMAIN n, For(n[i], a) PROVE n[i][3] = f[a]
  <2>1. n[i] \in S  BY <1>6
  <2>2. PICK b \in Axes : n[i] = <<"filter", b, f[b]>>  BY <1>3, <2>1
  <2> QED  BY <1>11, <2>2 DEF For
<1> QED  BY <1>9, <1>10, <1>11, Zenon DEF n, S

\* A set of numbers has a least one.
LEMMA LeastOf ==
    ASSUME NEW T, T \subseteq Nat, T # {}
    PROVE  (CHOOSE m \in T : \A n \in T : m <= n) \in T /\ \A n \in T : (CHOOSE m \in T : \A k \in T : m <= k) <= n
<1>1. PICK m \in T : \A n \in T : ~ (<<n, m>> \in OpToRel(<, Nat))
  BY NatLessThanWellFounded, WFMin, Zenon
<1>2. \A n \in T : ~(n < m)
  BY <1>1 DEF OpToRel
<1>3. \E l \in T : \A n \in T : l <= n  BY <1>2
<1> QED  BY <1>3

LEMMA SlaveIsThere == \A s \in AxSlaves : s # AxisSettings!None
BY DEF AxSlaves, AxisSettings!None

\* A step that leaves the slave and what the file says of the filters.
LEMMA FarSame ==
    ASSUME FarTypes, FarInv, UNCHANGED <<axSlave, joining, channel, raced>>,
           axFile'["Default"].filter = axFile["Default"].filter
    PROVE  FarTypes' /\ FarInv'
<1>1. axSlave' = axSlave /\ joining' = joining /\ channel' = channel /\ raced' = raced  BY Zenon
<1>2. FarTypes'  BY <1>1, Zenon DEF FarTypes
<1>3. raced' <=> raced  BY <1>1
<1>4. FarInv'
  <2>1. \A a \in Axes : Goal(a)' = Goal(a)  BY Zenon DEF Goal
  <2> SUFFICES ASSUME ~raced'
               PROVE  /\ joining' # AxisSettings!None /\ axSlave'.profile = "Default" =>
                            \A a \in Axes : Capped(joining'.values.filter[a]) = Goal(a)'
                      /\ axSlave' \in AxSlaves /\ axSlave'.profile = "Default" /\ axSlave'.announced =>
                            \A a \in Axes : Settles(channel', axSlave'.values.filter[a], a, Goal(a)')
    BY Zenon DEF FarInv, Settles
  <2> QED  BY <1>1, <1>3, <2>1, Zenon DEF FarInv
<1> QED  BY <1>2, <1>4

\* A step that tells a slave what it writes into the section.
LEMMA FarTold ==
    ASSUME TrackerTypes, FarTypes, FarInv, UNCHANGED <<axSlave, joining>>, raced' = (raced \/ joining # AxisSettings!None),
           NEW q \in Seq(AxMessages), AxisSettings!Told(profileSection, q),
           handle.section # "Default" => axFile'["Default"] = axFile["Default"],
           handle.section = "Default" =>
               \A a \in Axes : \/ /\ \A i \in DOMAIN q : ~For(q[i], a)
                                  /\ axFile'["Default"].filter[a] = axFile["Default"].filter[a]
                               \/ /\ \E i \in DOMAIN q : For(q[i], a)
                                  /\ \A i \in DOMAIN q : For(q[i], a) =>
                                        Capped(q[i][3]) = Capped(axFile'["Default"].filter[a])
    PROVE  FarTypes' /\ FarInv'
<1>1. /\ axSlave' = axSlave /\ joining' = joining /\ profileSection = handle.section
      /\ channel' = IF axSlave # AxisSettings!None /\ axSlave.profile = handle.section THEN channel \o q ELSE channel
  BY Zenon DEF AxisSettings!Told, TrackerTypes
<1>2. channel \in Seq(AxMessages) /\ (axSlave \in AxSlaves \/ axSlave = AxisSettings!None)  BY DEF FarTypes
<1>3. FarTypes'
  <2>1. channel \o q \in Seq(AxMessages)  BY <1>2
  <2>2. channel' \in Seq(AxMessages) /\ (axSlave \notin AxSlaves => channel' = channel)
    BY <1>1, <1>2, <2>1, Zenon
  <2> QED  BY <1>1, <2>2, Zenon DEF FarTypes
<1>4. FarInv'
  <2> SUFFICES ASSUME ~raced'
               PROVE  /\ joining' # AxisSettings!None /\ axSlave'.profile = "Default" =>
                            \A a \in Axes : Capped(joining'.values.filter[a]) = Goal(a)'
                      /\ axSlave' \in AxSlaves /\ axSlave'.profile = "Default" /\ axSlave'.announced =>
                            \A a \in Axes : Settles(channel', axSlave'.values.filter[a], a, Goal(a)')
    BY Zenon DEF FarInv, Settles
  <2>1. ~raced /\ joining = AxisSettings!None  BY Zenon
  <2>2. ASSUME axSlave \in AxSlaves, axSlave.profile = "Default", axSlave.announced, NEW a \in Axes
        PROVE  Settles(channel', axSlave.values.filter[a], a, Goal(a)')
    <3>1. Settles(channel, axSlave.values.filter[a], a, Goal(a))  BY <2>1, <2>2, Zenon DEF FarInv
    <3>2. CASE handle.section # "Default"
      <4>1. channel' = channel  BY <1>1, <2>2, <3>2
      <4>2. Goal(a)' = Goal(a)  BY <3>2, Zenon DEF Goal
      <4> QED  BY <3>1, <4>1, <4>2, Zenon
    <3>3. CASE handle.section = "Default"
      <4>1. channel' = channel \o q
        <5>1. axSlave # AxisSettings!None  BY <2>2, SlaveIsThere
        <5> QED  BY <1>1, <2>2, <3>3, <5>1
      <4>2. CASE \A i \in DOMAIN q : ~For(q[i], a)
        <5>1. axFile'["Default"].filter[a] = axFile["Default"].filter[a]  BY <3>3, <4>2, Zenon
        <5>2. Goal(a)' = Goal(a)  BY <5>1, Zenon DEF Goal
        <5>3. Settles(channel \o q, axSlave.values.filter[a], a, Goal(a))  BY <1>2, <3>1, <4>2, SettlesMore
        <5> QED  BY <4>1, <5>2, <5>3, Zenon
      <4>3. CASE \E i \in DOMAIN q : For(q[i], a)
        <5>1. \A i \in DOMAIN q : For(q[i], a) => Capped(q[i][3]) = Capped(axFile'["Default"].filter[a])
          BY <3>3, <4>3, Zenon
        <5>2. Goal(a)' = Capped(axFile'["Default"].filter[a])  BY Zenon DEF Goal, Capped, AxisSettings!Least
        <5> DEFINE g == Capped(axFile'["Default"].filter[a])
        <5>3. \A i \in DOMAIN q : For(q[i], a) => Capped(q[i][3]) = g  BY <5>1
        <5> HIDE DEF g
        <5>4. Settles(channel \o q, axSlave.values.filter[a], a, g)
          BY <1>2, <4>3, <5>3, SettlesMore
        <5> QED  BY <4>1, <5>2, <5>4, Zenon DEF g
      <4> QED  BY <4>2, <4>3, Zenon
    <3> QED  BY <3>2, <3>3, Zenon
  <2> QED  BY <1>1, <2>1, <2>2, Zenon
<1> QED  BY <1>3, <1>4

LEMMA AxesSteps == ASSUME TrackerTypes, AxisSettings!Change PROVE axChanges' \in 0 .. AxChanges
<1>1. axChanges < AxChanges /\ axChanges' = axChanges + 1  BY Zenon DEF AxisSettings!Change
<1>2. axChanges \in 0 .. AxChanges /\ AxChanges \in Nat  BY AxesAssumption, Zenon DEF TrackerTypes
<1> QED  BY <1>1, <1>2

\* The values of a handle are replaced.
LEMMA HandleWith ==
    ASSUME handle \in [section : AxSections, values : FullSection], NEW w \in FullSection
    PROVE  /\ [handle EXCEPT !.values = w] \in [section : AxSections, values : FullSection]
           /\ [handle EXCEPT !.values = w].section = handle.section /\ [handle EXCEPT !.values = w].values = w
OBVIOUS

LEMMA FullFilter ==
    ASSUME NEW s \in FullSection, NEW h \in [Axes -> AxFilters]
    PROVE  /\ [s EXCEPT !.filter = h] \in FullSection /\ [s EXCEPT !.filter = h].filter = h
           /\ [s EXCEPT !.filter = h].inverted = s.inverted
BY DEF FullSection

LEMMA FullSwitch ==
    ASSUME NEW s \in FullSection, NEW i \in {"Yes", "No"}
    PROVE  /\ [s EXCEPT !.inverted = i] \in FullSection /\ [s EXCEPT !.inverted = i].filter = s.filter
           /\ [s EXCEPT !.inverted = i].inverted = i
BY DEF FullSection

\* A parameter is set in memory, to w, in the section, to s, and, by messages q, in the slaves.
SettingDone(w, s, q) ==
    /\ handle' = [handle EXCEPT !.values = w] /\ axFile' = [axFile EXCEPT ![handle.section] = s]
    /\ ffs' \in [Axes -> AxFilters] /\ common' \in AxFilters
    /\ UNCHANGED <<profile, profileSection, axDisk, defaulted, axSlave, joining>>
    /\ AxisSettings!Change /\ AxisSettings!Told(profileSection, q)
    /\ raced' = (raced \/ joining # AxisSettings!None)
    /\ ~defaulted =>
         /\ w.inverted = s.inverted
         /\ \A a \in Axes : Capped(w.filter[a]) = Capped(s.filter[a])
         /\ \A a \in Axes : w.filter[a] = AxisSettings!Limit(ffs'[a] + common')
    /\ \A a \in Axes : \/ /\ \A i \in DOMAIN q : ~For(q[i], a)
                          /\ s.filter[a] = axFile[handle.section].filter[a]
                       \/ /\ \E i \in DOMAIN q : For(q[i], a)
                          /\ \A i \in DOMAIN q : For(q[i], a) => Capped(q[i][3]) = Capped(s.filter[a])

LEMMA SettingKeeps ==
    ASSUME AxesInv, NEW w \in FullSection, NEW s \in FullSection, NEW q \in Seq(AxMessages), SettingDone(w, s, q)
    PROVE  AxesInv'
<1>0. /\ handle' = [handle EXCEPT !.values = w] /\ axFile' = [axFile EXCEPT ![handle.section] = s]
      /\ ffs' \in [Axes -> AxFilters] /\ common' \in AxFilters
      /\ UNCHANGED <<profile, profileSection, axDisk, defaulted, axSlave, joining>>
      /\ AxisSettings!Change /\ AxisSettings!Told(profileSection, q)
      /\ raced' = (raced \/ joining # AxisSettings!None)
      /\ ~defaulted =>
           /\ w.inverted = s.inverted
           /\ \A a \in Axes : Capped(w.filter[a]) = Capped(s.filter[a])
           /\ \A a \in Axes : w.filter[a] = AxisSettings!Limit(ffs'[a] + common')
      /\ \A a \in Axes : \/ /\ \A i \in DOMAIN q : ~For(q[i], a)
                            /\ s.filter[a] = axFile[handle.section].filter[a]
                         \/ /\ \E i \in DOMAIN q : For(q[i], a)
                            /\ \A i \in DOMAIN q : For(q[i], a) => Capped(q[i][3]) = Capped(s.filter[a])
  BY Zenon DEF SettingDone
<1>1. /\ TrackerTypes /\ FarTypes /\ FarInv /\ profile' = profile /\ profileSection' = profileSection
      /\ axDisk' = axDisk /\ defaulted' = defaulted
  BY <1>0, Zenon DEF AxesInv
<1>2. /\ handle \in [section : AxSections, values : FullSection] /\ axFile \in AxFiles /\ handle.section \in AxSections
      /\ axFile["Default"] \in FullSection
  BY <1>1 DEF TrackerTypes
<1>3. /\ handle' \in [section : AxSections, values : FullSection] /\ handle'.section = handle.section
      /\ handle'.values = w
  BY <1>0, <1>2, HandleWith
<1>4. /\ axFile' \in AxFiles /\ axFile'[handle.section] = s
      /\ \A t \in AxSections : t # handle.section => axFile'[t] = axFile[t]
  BY <1>0, <1>2 DEF AxFiles
<1>5. "Default" \in AxSections  BY AxesAssumption DEF AxSections, AxisSettings!Sections, AxisSettings!Profiles
<1>6. axChanges' \in 0 .. AxChanges  BY <1>0, <1>1, AxesSteps
<1>7. axFile'["Default"] \in FullSection /\ axFile'[handle'.section] \in FullSection
  BY <1>2, <1>3, <1>4, <1>5
<1>8. TrackerTypes'  BY <1>0, <1>1, <1>3, <1>4, <1>6, <1>7, Zenon DEF TrackerTypes
<1>9. defaulted' <=> defaulted  BY <1>1
<1>10. MemoryInv'  BY <1>0, <1>3, <1>4, <1>9, Zenon DEF MemoryInv, Capped, AxisSettings!Least
<1>11. AxisSettings!FilterIsSum'
  <2>1. ~defaulted => \A a \in Axes : handle'.values.filter[a] = AxisSettings!Limit(ffs'[a] + common')
    BY <1>0, <1>3, Zenon
  <2> QED  BY <1>9, <2>1, Zenon DEF AxisSettings!FilterIsSum, AxisSettings!Limit, AxisSettings!Least
<1>12. FarTypes' /\ FarInv'
  <2>1. handle.section # "Default" => axFile'["Default"] = axFile["Default"]  BY <1>4, <1>5
  <2>2. handle.section = "Default" => axFile'["Default"] = s  BY <1>4
  <2>3. handle.section = "Default" =>
          \A a \in Axes : \/ /\ \A i \in DOMAIN q : ~For(q[i], a)
                             /\ axFile'["Default"].filter[a] = axFile["Default"].filter[a]
                          \/ /\ \E i \in DOMAIN q : For(q[i], a)
                             /\ \A i \in DOMAIN q : For(q[i], a) =>
                                   Capped(q[i][3]) = Capped(axFile'["Default"].filter[a])
    BY <1>0, <2>2, Zenon
  <2> QED  BY <1>0, <1>1, <2>1, <2>3, FarTold
<1> QED  BY <1>8, <1>10, <1>11, <1>12, Zenon DEF AxesInv

LEMMA FilterKeeps ==
    ASSUME AxesInv, NEW b \in Axes, NEW v \in AxFilters, AxisSettings!SetFilter(b, v) PROVE AxesInv'
<1> DEFINE val == AxisSettings!Limit(v + common)
           old == handle.values
           was == axFile[handle.section]
           w == [old EXCEPT !.filter = [old.filter EXCEPT ![b] = val]]
           s == [was EXCEPT !.filter = [was.filter EXCEPT ![b] = val]]
           q == <<<<"filter", b, val>>>>
<1>1. /\ AxisSettings!Change /\ ffs' = [ffs EXCEPT ![b] = v] /\ handle' = [handle EXCEPT !.values.filter[b] = val]
      /\ axFile' = [axFile EXCEPT ![handle.section].filter[b] = val] /\ AxisSettings!Told(profileSection, q)
      /\ raced' = (raced \/ joining # AxisSettings!None)
      /\ UNCHANGED <<axDisk, profile, profileSection, common, axSlave, joining, posing, defaulted>>
  BY Zenon DEF AxisSettings!SetFilter
<1>2. /\ handle \in [section : AxSections, values : FullSection] /\ was \in FullSection
      /\ ffs \in [Axes -> AxFilters] /\ common \in AxFilters /\ MemoryInv /\ AxisSettings!FilterIsSum
  BY Zenon DEF AxesInv, TrackerTypes
<1>3. handle' = [handle EXCEPT !.values = w] /\ axFile' = [axFile EXCEPT ![handle.section] = s]  BY <1>1, Zenon
<1>4. old \in FullSection  BY <1>2
<1>5. val \in AxFilters
  <2>1. v + common \in Int  BY <1>2 DEF AxFilters
  <2> QED  BY <2>1, LimitIs
<1>6. common' = common /\ defaulted' = defaulted /\ profileSection' = profileSection  BY <1>1, Zenon
<1>7. ffs' \in [Axes -> AxFilters] /\ common' \in AxFilters /\ \A a \in Axes : ffs'[a] = IF a = b THEN v ELSE ffs[a]
  BY <1>1, <1>2, <1>6
<1> HIDE DEF val, old, was
<1>8. /\ [old.filter EXCEPT ![b] = val] \in [Axes -> AxFilters] /\ [was.filter EXCEPT ![b] = val] \in [Axes -> AxFilters]
      /\ \A a \in Axes : [old.filter EXCEPT ![b] = val][a] = IF a = b THEN val ELSE old.filter[a]
      /\ \A a \in Axes : [was.filter EXCEPT ![b] = val][a] = IF a = b THEN val ELSE was.filter[a]
  BY <1>2, <1>4, <1>5 DEF FullSection
<1>9. /\ w \in FullSection /\ w.inverted = old.inverted /\ s \in FullSection /\ s.inverted = was.inverted
      /\ \A a \in Axes : w.filter[a] = IF a = b THEN val ELSE old.filter[a]
      /\ \A a \in Axes : s.filter[a] = IF a = b THEN val ELSE was.filter[a]
  <2>1. w \in FullSection /\ w.filter = [old.filter EXCEPT ![b] = val] /\ w.inverted = old.inverted
    BY <1>4, <1>8, FullFilter
  <2>2. s \in FullSection /\ s.filter = [was.filter EXCEPT ![b] = val] /\ s.inverted = was.inverted
    BY <1>2, <1>8, FullFilter
  <2> QED  BY <1>8, <2>1, <2>2, Zenon
<1> HIDE DEF w, s
<1>10. ~defaulted =>
         /\ w.inverted = s.inverted
         /\ \A a \in Axes : Capped(w.filter[a]) = Capped(s.filter[a])
         /\ \A a \in Axes : w.filter[a] = AxisSettings!Limit(ffs'[a] + common')
  <2> SUFFICES ASSUME ~defaulted
               PROVE  /\ w.inverted = s.inverted
                      /\ \A a \in Axes : Capped(w.filter[a]) = Capped(s.filter[a])
                      /\ \A a \in Axes : w.filter[a] = AxisSettings!Limit(ffs'[a] + common')
    OBVIOUS
  <2>1. old.inverted = was.inverted /\ \A a \in Axes : Capped(old.filter[a]) = Capped(was.filter[a])
    BY <1>2, Zenon DEF MemoryInv, old, was
  <2>2. \A a \in Axes : old.filter[a] = AxisSettings!Limit(ffs[a] + common)
    BY <1>2, Zenon DEF AxisSettings!FilterIsSum, old
  <2>3. \A a \in Axes : w.filter[a] = AxisSettings!Limit(ffs'[a] + common)
    <3>1. ASSUME NEW a \in Axes PROVE w.filter[a] = AxisSettings!Limit(ffs'[a] + common)
      <4>1. CASE a = b
        <5>1. w.filter[a] = val /\ ffs'[a] = v  BY <1>7, <1>9, <4>1
        <5> QED  BY <5>1, Zenon DEF val
      <4>2. CASE a # b
        <5>1. w.filter[a] = old.filter[a] /\ ffs'[a] = ffs[a]  BY <1>7, <1>9, <4>2
        <5> QED  BY <2>2, <5>1, Zenon
      <4> QED  BY <4>1, <4>2
    <3> QED  BY <3>1
  <2>4. \A a \in Axes : Capped(w.filter[a]) = Capped(s.filter[a])  BY <1>9, <2>1, Zenon
  <2> QED  BY <1>6, <1>9, <2>1, <2>3, <2>4, Zenon
<1>11. q \in Seq(AxMessages) /\ DOMAIN q = {1} /\ q[1] = <<"filter", b, val>>
  <2>1. <<"filter", b, val>> \in AxMessages  BY <1>5 DEF AxMessages
  <2> QED  BY <2>1
<1>12. \A a \in Axes : \/ /\ \A i \in DOMAIN q : ~For(q[i], a)
                          /\ s.filter[a] = axFile[handle.section].filter[a]
                       \/ /\ \E i \in DOMAIN q : For(q[i], a)
                          /\ \A i \in DOMAIN q : For(q[i], a) => Capped(q[i][3]) = Capped(s.filter[a])
  <2>1. \A a \in Axes : For(q[1], a) <=> a = b  BY <1>11 DEF For
  <2>2. q[1][3] = val  BY <1>11
  <2> HIDE DEF q
  <2>3. ASSUME NEW a \in Axes, a # b
        PROVE  (\A i \in DOMAIN q : ~For(q[i], a)) /\ s.filter[a] = axFile[handle.section].filter[a]
    <3>1. \A i \in DOMAIN q : ~For(q[i], a)  BY <1>11, <2>1, <2>3
    <3> QED  BY <1>9, <2>3, <3>1 DEF was
  <2>4. (\E i \in DOMAIN q : For(q[i], b)) /\ \A i \in DOMAIN q : For(q[i], b) => Capped(q[i][3]) = Capped(s.filter[b])
    <3>1. s.filter[b] = val  BY <1>9
    <3>2. 1 \in DOMAIN q /\ \A i \in DOMAIN q : i = 1  BY <1>11
    <3>3. For(q[1], b)  BY <2>1
    <3> QED  BY <2>2, <3>1, <3>2, <3>3, Zenon
  <2> QED  BY <2>3, <2>4, Zenon
<1> HIDE DEF q
<1>13. UNCHANGED <<profile, profileSection, axDisk, defaulted, axSlave, joining>>  BY <1>1
<1>14. SettingDone(w, s, q)  BY <1>1, <1>3, <1>7, <1>10, <1>12, <1>13, Zenon DEF SettingDone
<1> QED  BY <1>9, <1>11, <1>14, SettingKeeps

LEMMA CommonKeeps ==
    ASSUME AxesInv, NEW c \in AxFilters, AxisSettings!SetCommon(c) PROVE AxesInv'
<1> DEFINE val == [a \in Axes |-> AxisSettings!Limit(ffs[a] + c)]
           old == handle.values
           was == axFile[handle.section]
           w == [old EXCEPT !.filter = val]
           s == [was EXCEPT !.filter = val]
           q == AxisSettings!SetToSeq({<<"filter", a, val[a]>> : a \in Axes})
<1>1. /\ AxisSettings!Change /\ common' = c /\ handle' = [handle EXCEPT !.values.filter = val]
      /\ axFile' = [axFile EXCEPT ![handle.section].filter = val] /\ AxisSettings!Told(profileSection, q)
      /\ raced' = (raced \/ joining # AxisSettings!None)
      /\ UNCHANGED <<axDisk, profile, profileSection, ffs, axSlave, joining, posing, defaulted>>
  BY Zenon DEF AxisSettings!SetCommon
<1>2. /\ handle \in [section : AxSections, values : FullSection] /\ was \in FullSection
      /\ ffs \in [Axes -> AxFilters] /\ MemoryInv
  BY Zenon DEF AxesInv, TrackerTypes
<1>3. handle' = [handle EXCEPT !.values = w] /\ axFile' = [axFile EXCEPT ![handle.section] = s]  BY <1>1, Zenon
<1>4. old \in FullSection  BY <1>2
<1>5. val \in [Axes -> AxFilters]
  <2>1. \A a \in Axes : ffs[a] + c \in Int  BY <1>2 DEF AxFilters
  <2>2. \A a \in Axes : AxisSettings!Limit(ffs[a] + c) \in AxFilters  BY <2>1, LimitIs
  <2> QED  BY <2>2
<1>6. ffs' = ffs /\ common' = c /\ ffs' \in [Axes -> AxFilters] /\ common' \in AxFilters  BY <1>1, <1>2
<1>7. \A a \in Axes : val[a] = AxisSettings!Limit(ffs[a] + c)  BY Zenon
<1> HIDE DEF val, old, was
<1>8. w \in FullSection /\ w.inverted = old.inverted /\ w.filter = val  BY <1>4, <1>5, FullFilter
<1>9. s \in FullSection /\ s.inverted = was.inverted /\ s.filter = val  BY <1>2, <1>5, FullFilter
<1> HIDE DEF w, s
<1>10. ~defaulted =>
         /\ w.inverted = s.inverted
         /\ \A a \in Axes : Capped(w.filter[a]) = Capped(s.filter[a])
         /\ \A a \in Axes : w.filter[a] = AxisSettings!Limit(ffs'[a] + common')
  <2>1. ~defaulted => old.inverted = was.inverted  BY <1>2, Zenon DEF MemoryInv, old, was
  <2>2. \A a \in Axes : w.filter[a] = AxisSettings!Limit(ffs'[a] + common')  BY <1>6, <1>7, <1>8, Zenon
  <2> QED  BY <1>8, <1>9, <2>1, <2>2, Zenon
<1>11. /\ q \in Seq(AxMessages) /\ \A a \in Axes : \E i \in DOMAIN q : For(q[i], a)
       /\ \A a \in Axes : \A i \in DOMAIN q : For(q[i], a) => q[i][3] = val[a]
  BY <1>5, SeqOfAll
<1> HIDE DEF q
<1>12. \A a \in Axes : \/ /\ \A i \in DOMAIN q : ~For(q[i], a)
                          /\ s.filter[a] = axFile[handle.section].filter[a]
                       \/ /\ \E i \in DOMAIN q : For(q[i], a)
                          /\ \A i \in DOMAIN q : For(q[i], a) => Capped(q[i][3]) = Capped(s.filter[a])
  BY <1>9, <1>11, Zenon
<1>13. UNCHANGED <<profile, profileSection, axDisk, defaulted, axSlave, joining>>  BY <1>1
<1>14. SettingDone(w, s, q)  BY <1>1, <1>3, <1>6, <1>10, <1>12, <1>13, Zenon DEF SettingDone
<1> QED  BY <1>8, <1>9, <1>11, <1>14, SettingKeeps

LEMMA InvertKeeps ==
    ASSUME AxesInv, NEW v \in {"Yes", "No"}, AxisSettings!Invert(v) PROVE AxesInv'
<1> DEFINE old == handle.values
           was == axFile[handle.section]
           w == [old EXCEPT !.inverted = v]
           s == [was EXCEPT !.inverted = v]
           q == <<<<"inverted", "all", v>>>>
<1>1. /\ AxisSettings!Change /\ handle' = [handle EXCEPT !.values.inverted = v]
      /\ axFile' = [axFile EXCEPT ![handle.section].inverted = v] /\ AxisSettings!Told(profileSection, q)
      /\ raced' = (raced \/ joining # AxisSettings!None)
      /\ UNCHANGED <<axDisk, profile, profileSection, ffs, common, axSlave, joining, defaulted>>
  BY Zenon DEF AxisSettings!Invert, AxisSettings!tracker
<1>2. /\ handle \in [section : AxSections, values : FullSection] /\ was \in FullSection
      /\ ffs \in [Axes -> AxFilters] /\ common \in AxFilters /\ MemoryInv /\ AxisSettings!FilterIsSum
  BY Zenon DEF AxesInv, TrackerTypes
<1>3. handle' = [handle EXCEPT !.values = w] /\ axFile' = [axFile EXCEPT ![handle.section] = s]  BY <1>1, Zenon
<1>4. old \in FullSection  BY <1>2
<1>5. ffs' = ffs /\ common' = common /\ ffs' \in [Axes -> AxFilters] /\ common' \in AxFilters  BY <1>1, <1>2
<1> HIDE DEF old, was
<1>6. w \in FullSection /\ w.inverted = v /\ w.filter = old.filter  BY <1>4, FullSwitch
<1>7. s \in FullSection /\ s.inverted = v /\ s.filter = was.filter  BY <1>2, FullSwitch
<1> HIDE DEF w, s
<1>8. ~defaulted =>
         /\ w.inverted = s.inverted
         /\ \A a \in Axes : Capped(w.filter[a]) = Capped(s.filter[a])
         /\ \A a \in Axes : w.filter[a] = AxisSettings!Limit(ffs'[a] + common')
  <2>1. ~defaulted => \A a \in Axes : Capped(old.filter[a]) = Capped(was.filter[a])
    BY <1>2, Zenon DEF MemoryInv, old, was
  <2>2. ~defaulted => \A a \in Axes : old.filter[a] = AxisSettings!Limit(ffs[a] + common)
    BY <1>2, Zenon DEF AxisSettings!FilterIsSum, old
  <2> QED  BY <1>5, <1>6, <1>7, <2>1, <2>2, Zenon
<1>9. q \in Seq(AxMessages) /\ DOMAIN q = {1} /\ q[1][1] = "inverted"
  <2>1. <<"inverted", "all", v>> \in AxMessages  BY DEF AxMessages
  <2> QED  BY <2>1
<1> HIDE DEF q
<1>10. \A a \in Axes : \/ /\ \A i \in DOMAIN q : ~For(q[i], a)
                          /\ s.filter[a] = axFile[handle.section].filter[a]
                       \/ /\ \E i \in DOMAIN q : For(q[i], a)
                          /\ \A i \in DOMAIN q : For(q[i], a) => Capped(q[i][3]) = Capped(s.filter[a])
  <2>1. \A a : \A i \in DOMAIN q : ~For(q[i], a)  BY <1>9 DEF For
  <2> QED  BY <1>7, <2>1, Zenon DEF was
<1>11. UNCHANGED <<profile, profileSection, axDisk, defaulted, axSlave, joining>>  BY <1>1
<1>12. SettingDone(w, s, q)  BY <1>1, <1>3, <1>5, <1>8, <1>10, <1>11, Zenon DEF SettingDone
<1> QED  BY <1>6, <1>7, <1>9, <1>12, SettingKeeps

\* Sections are opened, and nothing else happens.
LEMMA OpenedKeeps ==
    ASSUME TrackerTypes, NEW sec \in AxSections, axFile' = AxisSettings!Filled(axFile, sec)
    PROVE  /\ axFile' \in AxFiles /\ axFile'["Default"] = axFile["Default"]
           /\ axFile'[sec] \in FullSection /\ axFile'[handle.section] = axFile[handle.section]
<1>1. axFile \in AxFiles /\ axFile["Default"] \in FullSection /\ handle.section \in AxSections /\ axFile[handle.section] \in FullSection
  BY DEF TrackerTypes
<1>2. "Default" \in AxSections  BY AxesAssumption DEF AxSections, AxisSettings!Sections, AxisSettings!Profiles
<1> QED  BY <1>1, <1>2, FilledIs

LEMMA AddKeeps ==
    ASSUME AxesInv, NEW p \in DOMAIN ProfileSections, AxisSettings!AddProfile(p) PROVE AxesInv'
<1>1. /\ AxisSettings!Change /\ axFile' = AxisSettings!Filled(axFile, ProfileSections[p])
      /\ axDisk' = axDisk /\ handle' = handle /\ profile' = profile /\ profileSection' = profileSection /\ ffs' = ffs
      /\ common' = common /\ axSlave' = axSlave /\ joining' = joining /\ channel' = channel /\ defaulted' = defaulted
      /\ raced' = raced
  BY Zenon DEF AxisSettings!AddProfile, AxisSettings!tracker, AxisSettings!far
<1>2. TrackerTypes /\ FarTypes /\ FarInv /\ MemoryInv /\ AxisSettings!FilterIsSum  BY Zenon DEF AxesInv
<1>3. ProfileSections[p] \in AxSections  BY DEF AxSections, AxisSettings!Sections, AxisSettings!Profiles
<1>4. /\ axFile' \in AxFiles /\ axFile'["Default"] = axFile["Default"]
      /\ axFile'[handle.section] = axFile[handle.section]
  BY <1>1, <1>2, <1>3, OpenedKeeps
<1>5. axChanges' \in 0 .. AxChanges  BY <1>1, <1>2, AxesSteps
<1>6. TrackerTypes'  BY <1>1, <1>2, <1>4, <1>5, Zenon DEF TrackerTypes
<1>7. defaulted' <=> defaulted  BY <1>1
<1>8. MemoryInv'  BY <1>1, <1>2, <1>4, <1>7, Zenon DEF MemoryInv, Capped, AxisSettings!Least
<1>9. AxisSettings!FilterIsSum'  BY <1>1, <1>2, <1>7, Zenon DEF AxisSettings!FilterIsSum, AxisSettings!Limit
<1>10. FarTypes' /\ FarInv'
  <2>1. UNCHANGED <<axSlave, joining, channel, raced>>  BY <1>1
  <2>2. axFile'["Default"].filter = axFile["Default"].filter  BY <1>4
  <2> QED  BY <1>2, <2>1, <2>2, FarSame
<1> QED  BY <1>6, <1>8, <1>9, <1>10, Zenon DEF AxesInv

LEMMA ProfileKeeps ==
    ASSUME AxesInv, NEW p \in DOMAIN ProfileSections, AxisSettings!SetProfile(p) PROVE AxesInv'
<1> DEFINE sec == ProfileSections[p]
           v == AxisSettings!Loaded(axFile, sec)
           values == {v.filter[a] : a \in Axes} \cup {MaxCommon}
<1>1. /\ AxisSettings!Change /\ profile' = p /\ profileSection' = sec /\ handle' = [section |-> sec, values |-> v]
      /\ axFile' = AxisSettings!Filled(axFile, sec) /\ common' = (CHOOSE m \in values : \A n \in values : m <= n)
      /\ ffs' = [a \in Axes |-> v.filter[a] - common'] /\ defaulted' = FALSE
      /\ axDisk' = axDisk /\ axSlave' = axSlave /\ joining' = joining /\ channel' = channel /\ raced' = raced
  BY Zenon DEF AxisSettings!SetProfile, AxisSettings!far
<1>2. TrackerTypes /\ FarTypes /\ FarInv  BY Zenon DEF AxesInv
<1>3. sec \in AxSections  BY DEF AxSections, AxisSettings!Sections, AxisSettings!Profiles
<1> HIDE DEF sec
<1>4. /\ axFile' \in AxFiles /\ axFile'["Default"] = axFile["Default"] /\ axFile'[sec] \in FullSection
  BY <1>1, <1>2, <1>3, OpenedKeeps
<1>5. axFile \in AxFiles  BY <1>2 DEF TrackerTypes
<1>6. /\ v \in FullSection /\ v.inverted = axFile'[sec].inverted
      /\ \A a \in Axes : v.filter[a] = Capped(axFile'[sec].filter[a])
  BY <1>1, <1>3, <1>5, LoadedIs
<1> HIDE DEF v
<1>7. \A a \in Axes : v.filter[a] \in AxFilters  BY <1>6 DEF FullSection
<1>8. common' \in AxFilters /\ \A a \in Axes : common' <= v.filter[a]
  <2>1. values \subseteq Nat /\ values # {} /\ values \subseteq AxFilters /\ \A a \in Axes : v.filter[a] \in values
    BY <1>7, AxesAssumption DEF AxFilters
  <2> HIDE DEF values
  <2>2. common' \in values /\ \A n \in values : common' <= n
    <3>1. (CHOOSE m \in values : \A n \in values : m <= n) \in values
          /\ \A n \in values : (CHOOSE m \in values : \A k \in values : m <= k) <= n
      BY <2>1, LeastOf
    <3> QED  BY <1>1, <3>1, Zenon
  <2> QED  BY <2>1, <2>2
<1> HIDE DEF values
<1>9. /\ ffs' \in [Axes -> AxFilters]
      /\ \A a \in Axes : ffs'[a] + common' = v.filter[a]
  <2>1. \A a \in Axes : v.filter[a] - common' \in AxFilters /\ (v.filter[a] - common') + common' = v.filter[a]
    BY <1>7, <1>8, AxesAssumption DEF AxFilters
  <2> QED  BY <1>1, <2>1
<1>10. handle' \in [section : AxSections, values : FullSection] /\ handle'.section = sec /\ handle'.values = v
  BY <1>1, <1>3, <1>6
<1>11. axChanges' \in 0 .. AxChanges  BY <1>1, <1>2, AxesSteps
<1>12. axDisk' \in AxFiles /\ axFile'["Default"] \in FullSection  BY <1>1, <1>2, <1>4 DEF TrackerTypes
<1>13. TrackerTypes'  BY <1>1, <1>4, <1>8, <1>9, <1>10, <1>11, <1>12, Zenon DEF TrackerTypes
<1>14. MemoryInv'
  <2>1. \A a \in Axes : axFile'[sec].filter[a] \in AxFilters  BY <1>4 DEF FullSection
  <2>2. \A a \in Axes : Capped(v.filter[a]) = Capped(axFile'[sec].filter[a])  BY <1>6, <2>1, CappedIs
  <2> QED  BY <1>6, <1>10, <2>2, Zenon DEF MemoryInv, Capped, AxisSettings!Least
<1>15. AxisSettings!FilterIsSum'
  <2>1. \A a \in Axes : v.filter[a] = AxisSettings!Limit(v.filter[a])
    <3>1. \A a \in Axes : v.filter[a] \in Int  BY <1>7 DEF AxFilters
    <3> QED  BY <1>7, <3>1, LimitIs
  <2>2. \A a \in Axes : handle'.values.filter[a] = AxisSettings!Limit(ffs'[a] + common')  BY <1>9, <1>10, <2>1, Zenon
  <2> QED  BY <2>2, Zenon DEF AxisSettings!FilterIsSum, AxisSettings!Limit, AxisSettings!Least
<1>16. FarTypes' /\ FarInv'
  <2>1. UNCHANGED <<axSlave, joining, channel, raced>>  BY <1>1
  <2>2. axFile'["Default"].filter = axFile["Default"].filter  BY <1>4
  <2> QED  BY <1>2, <2>1, <2>2, FarSame
<1> QED  BY <1>13, <1>14, <1>15, <1>16, Zenon DEF AxesInv

LEMMA DefaultKeeps == ASSUME AxesInv, AxisSettings!FromDefault PROVE AxesInv'
<1> DEFINE v == AxisSettings!Loaded(axFile, "Default")
           f == AxisSettings!Filled(axFile, "Default")
           was == f[handle.section]
           s == [was EXCEPT !.inverted = v.inverted]
<1>1. /\ AxisSettings!Change /\ handle' = [handle EXCEPT !.values = v]
      /\ axFile' = [f EXCEPT ![handle.section].inverted = v.inverted] /\ defaulted' = TRUE
      /\ axDisk' = axDisk /\ profile' = profile /\ profileSection' = profileSection /\ ffs' = ffs /\ common' = common
      /\ axSlave' = axSlave /\ joining' = joining /\ channel' = channel /\ raced' = raced
  BY Zenon DEF AxisSettings!FromDefault, AxisSettings!tracker, AxisSettings!far
<1>2. TrackerTypes /\ FarTypes /\ FarInv  BY Zenon DEF AxesInv
<1>3. /\ axFile \in AxFiles /\ axFile["Default"] \in FullSection /\ handle.section \in AxSections
      /\ axFile[handle.section] \in FullSection /\ handle \in [section : AxSections, values : FullSection]
  BY <1>2 DEF TrackerTypes
<1>4. "Default" \in AxSections  BY AxesAssumption DEF AxSections, AxisSettings!Sections, AxisSettings!Profiles
<1>5. /\ f \in AxFiles /\ f["Default"] = axFile["Default"] /\ was = axFile[handle.section] /\ v \in FullSection
  <2>1. v \in FullSection  BY <1>3, <1>4, LoadedIs
  <2> QED  BY <1>3, <1>4, <2>1, FilledIs
<1>6. axFile' = [f EXCEPT ![handle.section] = s]  BY <1>1, Zenon
<1> HIDE DEF v, f, was
<1>7. s \in FullSection /\ s.filter = was.filter
  <2>1. v.inverted \in {"Yes", "No"} /\ was \in FullSection  BY <1>3, <1>5 DEF FullSection
  <2> QED  BY <2>1, FullSwitch
<1> HIDE DEF s
<1>8. axFile' \in AxFiles /\ axFile'[handle.section] = s /\ (handle.section # "Default" => axFile'["Default"] = f["Default"])
  BY <1>3, <1>4, <1>5, <1>6, <1>7 DEF AxFiles
<1>9. axFile'["Default"] \in FullSection /\ axFile'["Default"].filter = axFile["Default"].filter
  BY <1>3, <1>5, <1>7, <1>8
<1>10. handle' \in [section : AxSections, values : FullSection] /\ handle'.section = handle.section
  BY <1>1, <1>3, <1>5, HandleWith
<1>11. axChanges' \in 0 .. AxChanges  BY <1>1, <1>2, AxesSteps
<1>12. TrackerTypes'  BY <1>1, <1>2, <1>7, <1>8, <1>9, <1>10, <1>11, Zenon DEF TrackerTypes
<1>13. MemoryInv' /\ AxisSettings!FilterIsSum'
  <2>1. defaulted'  BY <1>1
  <2> QED  BY <2>1, Zenon DEF MemoryInv, AxisSettings!FilterIsSum
<1>14. FarTypes' /\ FarInv'
  <2>1. UNCHANGED <<axSlave, joining, channel, raced>>  BY <1>1
  <2> QED  BY <1>2, <1>9, <2>1, FarSame
<1> QED  BY <1>12, <1>13, <1>14, Zenon DEF AxesInv

\* What the slave and its channel do leaves the tracker as it is.
TrackerStays ==
    /\ axDisk' \in AxFiles /\ handle' = handle /\ profile' = profile /\ profileSection' = profileSection /\ ffs' = ffs
    /\ common' = common /\ defaulted' = defaulted /\ axChanges' \in 0 .. AxChanges
    /\ axFile' \in AxFiles /\ axFile'["Default"] = axFile["Default"]
    /\ axFile'[handle.section] = axFile[handle.section]

LEMMA TrackerSame ==
    ASSUME TrackerTypes, MemoryInv, AxisSettings!FilterIsSum, TrackerStays
    PROVE  TrackerTypes' /\ MemoryInv' /\ AxisSettings!FilterIsSum'
<1>1. /\ axDisk' \in AxFiles /\ handle' = handle /\ profile' = profile /\ profileSection' = profileSection /\ ffs' = ffs
      /\ common' = common /\ defaulted' = defaulted /\ axChanges' \in 0 .. AxChanges
      /\ axFile' \in AxFiles /\ axFile'["Default"] = axFile["Default"]
      /\ axFile'[handle.section] = axFile[handle.section]
  BY Zenon DEF TrackerStays
<1>2. TrackerTypes'  BY <1>1, Zenon DEF TrackerTypes
<1>3. defaulted' <=> defaulted  BY <1>1
<1>4. MemoryInv'  BY <1>1, <1>3, Zenon DEF MemoryInv, Capped, AxisSettings!Least
<1>5. AxisSettings!FilterIsSum'  BY <1>1, <1>3, Zenon DEF AxisSettings!FilterIsSum, AxisSettings!Limit
<1> QED  BY <1>2, <1>4, <1>5

LEMMA StartKeeps ==
    ASSUME AxesInv, NEW p \in DOMAIN ProfileSections, AxisSettings!SlaveStarts(p) PROVE AxesInv'
<1> DEFINE v == AxisSettings!Loaded(axDisk, ProfileSections[p])
           s == [profile |-> p, values |-> v, announced |-> FALSE]
<1>1. /\ AxisSettings!Change /\ axSlave = AxisSettings!None /\ axSlave' = s
      /\ axFile' = axFile /\ axDisk' = axDisk /\ handle' = handle /\ profile' = profile
      /\ profileSection' = profileSection /\ ffs' = ffs /\ common' = common
      /\ joining' = joining /\ channel' = channel /\ defaulted' = defaulted /\ raced' = raced
  BY Zenon DEF AxisSettings!SlaveStarts, AxisSettings!tracker, AxisSettings!prefs
<1>2. TrackerTypes /\ FarTypes /\ MemoryInv /\ AxisSettings!FilterIsSum  BY Zenon DEF AxesInv
<1>3. axDisk \in AxFiles /\ axFile \in AxFiles  BY <1>2 DEF TrackerTypes
<1>4. ProfileSections[p] \in AxSections  BY DEF AxSections, AxisSettings!Sections, AxisSettings!Profiles
<1>5. v \in FullSection  BY <1>3, <1>4, LoadedIs
<1> HIDE DEF v
<1>6. s \in AxSlaves /\ s.announced = FALSE  BY <1>5 DEF AxSlaves
<1>7. axSlave \notin AxSlaves  BY <1>1, SlaveIsThere, Zenon
<1>8. joining = AxisSettings!None /\ channel = <<>>  BY <1>2, <1>7, Zenon DEF FarTypes
<1> HIDE DEF s
<1>9. FarTypes'  BY <1>1, <1>2, <1>6, Zenon DEF FarTypes
<1>10. FarInv'
  <2>1. joining' = AxisSettings!None /\ ~axSlave'.announced  BY <1>1, <1>6, <1>8
  <2> QED  BY <2>1, Zenon DEF FarInv
<1>11. axChanges' \in 0 .. AxChanges  BY <1>1, <1>2, AxesSteps
<1>12. TrackerStays  BY <1>1, <1>3, <1>11, Zenon DEF TrackerStays
<1> QED  BY <1>2, <1>9, <1>10, <1>12, TrackerSame, Zenon DEF AxesInv

LEMMA JoinKeepsAxes == ASSUME AxesInv, AxisSettings!Join PROVE AxesInv'
<1> DEFINE sec == ProfileSections[axSlave.profile]
           v == AxisSettings!Loaded(axFile, sec)
<1>1. /\ axSlave # AxisSettings!None /\ ~axSlave.announced /\ joining = AxisSettings!None /\ joining' = [values |-> v]
      /\ axFile' = AxisSettings!Filled(axFile, sec) /\ axDisk' = axDisk /\ handle' = handle /\ profile' = profile
      /\ profileSection' = profileSection /\ ffs' = ffs /\ common' = common
      /\ axSlave' = axSlave /\ channel' = channel /\ defaulted' = defaulted /\ raced' = raced /\ axChanges' = axChanges
  BY Zenon DEF AxisSettings!Join, AxisSettings!tracker
<1>2. TrackerTypes /\ FarTypes /\ MemoryInv /\ AxisSettings!FilterIsSum  BY Zenon DEF AxesInv
<1>3. axFile \in AxFiles /\ axDisk \in AxFiles /\ axChanges \in 0 .. AxChanges  BY <1>2 DEF TrackerTypes
<1>4. axSlave \in AxSlaves /\ axSlave.profile \in DOMAIN ProfileSections  BY <1>1, <1>2 DEF FarTypes, AxSlaves
<1>5. sec \in AxSections  BY <1>4 DEF AxSections, AxisSettings!Sections, AxisSettings!Profiles
<1>6. axSlave.profile = "Default" => sec = "Default"  BY AxesAssumption
<1> HIDE DEF sec
<1>7. /\ axFile' \in AxFiles /\ axFile'["Default"] = axFile["Default"] /\ axFile'[sec] \in FullSection
      /\ axFile'[handle.section] = axFile[handle.section]
  BY <1>1, <1>2, <1>5, OpenedKeeps
<1>8. v \in FullSection /\ \A a \in Axes : v.filter[a] = Capped(axFile'[sec].filter[a])
  BY <1>1, <1>3, <1>5, LoadedIs
<1> HIDE DEF v
<1>9. joining' \in [values : FullSection] /\ joining'.values = v  BY <1>1, <1>8
<1>10. FarTypes'  BY <1>1, <1>2, <1>4, <1>9, Zenon DEF FarTypes
<1>11. FarInv'
  <2>1. \A a \in Axes : axFile'[sec].filter[a] \in AxFilters  BY <1>7 DEF FullSection
  <2>2. \A a \in Axes : Capped(v.filter[a]) = Capped(axFile'[sec].filter[a])  BY <1>8, <2>1, CappedIs
  <2>3. axSlave'.profile = "Default" =>
          \A a \in Axes : Capped(joining'.values.filter[a]) = Capped(axFile'["Default"].filter[a])
    BY <1>1, <1>6, <1>9, <2>2, Zenon
  <2>4. ~axSlave'.announced  BY <1>1
  <2> QED  BY <2>3, <2>4, Zenon DEF FarInv, Goal, Capped, AxisSettings!Least
<1>12. TrackerStays  BY <1>1, <1>3, <1>7, Zenon DEF TrackerStays
<1> QED  BY <1>2, <1>10, <1>11, <1>12, TrackerSame, Zenon DEF AxesInv

LEMMA AnnounceKeepsAxes == ASSUME AxesInv, AxisSettings!Announce PROVE AxesInv'
<1> DEFINE f == joining.values.filter
           m == <<<<"inverted", "all", joining.values.inverted>>>>
           n == AxisSettings!SetToSeq({<<"filter", a, f[a]>> : a \in Axes})
           q == channel \o m
           s == [axSlave EXCEPT !.announced = TRUE]
<1>1. /\ joining # AxisSettings!None /\ joining' = AxisSettings!None /\ axSlave' = s /\ channel' = q \o n
      /\ axFile' = axFile /\ axDisk' = axDisk /\ handle' = handle /\ profile' = profile
      /\ profileSection' = profileSection /\ ffs' = ffs /\ common' = common
      /\ defaulted' = defaulted /\ raced' = raced /\ axChanges' = axChanges
  BY Zenon DEF AxisSettings!Announce, AxisSettings!tracker, AxisSettings!prefs
<1>2. TrackerTypes /\ FarTypes /\ FarInv /\ MemoryInv /\ AxisSettings!FilterIsSum  BY Zenon DEF AxesInv
<1>3. /\ axSlave \in AxSlaves /\ joining \in [values : FullSection] /\ channel \in Seq(AxMessages)
  BY <1>1, <1>2 DEF FarTypes
<1>4. f \in [Axes -> AxFilters] /\ joining.values.inverted \in {"Yes", "No"}  BY <1>3 DEF FullSection
<1>5. m \in Seq(AxMessages)
  <2>1. <<"inverted", "all", joining.values.inverted>> \in AxMessages  BY <1>4 DEF AxMessages
  <2> QED  BY <2>1
<1> HIDE DEF f, m
<1>6. /\ n \in Seq(AxMessages) /\ \A a \in Axes : \E i \in DOMAIN n : For(n[i], a)
      /\ \A a \in Axes : \A i \in DOMAIN n : For(n[i], a) => n[i][3] = f[a]
  BY <1>4, SeqOfAll
<1> HIDE DEF n
<1>7. q \in Seq(AxMessages)  BY <1>3, <1>5
<1> HIDE DEF q
<1>8. q \o n \in Seq(AxMessages)  BY <1>6, <1>7
<1>9. s \in AxSlaves /\ s.profile = axSlave.profile /\ s.values = axSlave.values  BY <1>3 DEF AxSlaves
<1> HIDE DEF s
<1>10. FarTypes'  BY <1>1, <1>8, <1>9, Zenon DEF FarTypes
<1>11. FarInv'
  <2>1. raced' <=> raced  BY <1>1
  <2>2. \A a \in Axes : Goal(a)' = Goal(a)  BY <1>1, Zenon DEF Goal
  <2>3. ASSUME ~raced, axSlave.profile = "Default", NEW a \in Axes
        PROVE  Settles(q \o n, s.values.filter[a], a, Goal(a))
    <3>1. Capped(f[a]) = Goal(a)  BY <1>1, <1>2, <2>3, Zenon DEF FarInv, f
    <3>2. (\E i \in DOMAIN n : For(n[i], a)) /\ \A i \in DOMAIN n : For(n[i], a) => Capped(n[i][3]) = Goal(a)
      BY <1>6, <3>1, Zenon
    <3> DEFINE g == Goal(a)
    <3> HIDE DEF g
    <3>3. \A i \in DOMAIN n : For(n[i], a) => Capped(n[i][3]) = g  BY <3>2 DEF g
    <3>4. Settles(q \o n, s.values.filter[a], a, g)  BY <1>6, <1>7, <3>2, <3>3, SettlesMore
    <3> QED  BY <3>4 DEF g
  <2> SUFFICES ASSUME ~raced'
               PROVE  /\ joining' # AxisSettings!None /\ axSlave'.profile = "Default" =>
                            \A a \in Axes : Capped(joining'.values.filter[a]) = Goal(a)'
                      /\ axSlave' \in AxSlaves /\ axSlave'.profile = "Default" /\ axSlave'.announced =>
                            \A a \in Axes : Settles(channel', axSlave'.values.filter[a], a, Goal(a)')
    BY Zenon DEF FarInv, Settles
  <2> QED  BY <1>1, <1>9, <2>1, <2>2, <2>3, Zenon
<1>12. TrackerStays  BY <1>1, <1>2, Zenon DEF TrackerStays, TrackerTypes
<1> QED  BY <1>2, <1>10, <1>11, <1>12, TrackerSame, Zenon DEF AxesInv

LEMMA HearKeepsAxes == ASSUME AxesInv, AxisSettings!Hear PROVE AxesInv'
<1> DEFINE m == Head(channel)
           s == [axSlave EXCEPT !.values.filter[m[2]] = m[3]]
<1>1. /\ channel # <<>> /\ channel' = Tail(channel) /\ axSlave' = (IF m[1] = "filter" THEN s ELSE axSlave)
      /\ axFile' = axFile /\ axDisk' = axDisk /\ handle' = handle /\ profile' = profile
      /\ profileSection' = profileSection /\ ffs' = ffs /\ common' = common /\ joining' = joining
      /\ defaulted' = defaulted /\ raced' = raced /\ axChanges' = axChanges
  BY Zenon DEF AxisSettings!Hear, AxisSettings!tracker, AxisSettings!prefs
<1>2. TrackerTypes /\ FarTypes /\ FarInv /\ MemoryInv /\ AxisSettings!FilterIsSum  BY Zenon DEF AxesInv
<1>3. axSlave \in AxSlaves /\ channel \in Seq(AxMessages)  BY <1>1, <1>2 DEF FarTypes
<1>4. m \in AxMessages /\ Tail(channel) \in Seq(AxMessages)  BY <1>1, <1>3
<1>5. m[1] = "filter" => m[2] \in Axes /\ m[3] \in AxFilters  BY <1>4 DEF AxMessages
<1>6. /\ axSlave' \in AxSlaves /\ axSlave'.profile = axSlave.profile /\ axSlave'.announced = axSlave.announced
      /\ \A a \in Axes : axSlave'.values.filter[a] = IF For(m, a) THEN m[3] ELSE axSlave.values.filter[a]
  <2>1. CASE m[1] # "filter"
    <3>1. axSlave' = axSlave /\ \A a : ~For(m, a)  BY <1>1, <2>1 DEF For
    <3> QED  BY <1>3, <3>1
  <2>2. CASE m[1] = "filter"
    <3> DEFINE h == [axSlave.values.filter EXCEPT ![m[2]] = m[3]]
               w == [axSlave.values EXCEPT !.filter = h]
    <3>1. axSlave.values \in FullSection /\ axSlave.values.filter \in [Axes -> AxFilters]  BY <1>3 DEF AxSlaves, FullSection
    <3> HIDE DEF m
    <3>2. h \in [Axes -> AxFilters] /\ \A a \in Axes : h[a] = IF m[2] = a THEN m[3] ELSE axSlave.values.filter[a]
      BY <1>5, <2>2, <3>1
    <3>3. axSlave' = [axSlave EXCEPT !.values = w]  BY <1>1, <2>2, Zenon
    <3> HIDE DEF h
    <3>4. w \in FullSection /\ w.filter = h  BY <3>1, <3>2, FullFilter
    <3> HIDE DEF w
    <3>5. axSlave' \in AxSlaves  BY <1>3, <3>3, <3>4 DEF AxSlaves
    <3>6. axSlave'.profile = axSlave.profile /\ axSlave'.values = w  BY <1>3, <3>3, <3>4 DEF AxSlaves
    <3>7. axSlave'.announced = axSlave.announced  BY <1>3, <3>3, <3>4 DEF AxSlaves
    <3>8. \A a \in Axes : For(m, a) <=> m[2] = a  BY <2>2 DEF For
    <3> QED  BY <3>2, <3>4, <3>5, <3>6, <3>7, <3>8
  <2> QED  BY <2>1, <2>2
<1>7. FarTypes'  BY <1>1, <1>2, <1>4, <1>6, Zenon DEF FarTypes
<1>8. FarInv'
  <2>1. raced' <=> raced  BY <1>1
  <2>2. \A a \in Axes : Goal(a)' = Goal(a)  BY <1>1, Zenon DEF Goal
  <2>3. ASSUME ~raced, axSlave.profile = "Default", axSlave.announced, NEW a \in Axes
        PROVE  Settles(channel', axSlave'.values.filter[a], a, Goal(a))
    <3> DEFINE g == Goal(a)
               v == axSlave.values.filter[a]
    <3>1. Settles(channel, v, a, g)  BY <1>2, <1>3, <2>3, Zenon DEF FarInv
    <3> HIDE DEF g, v
    <3>2. Settles(Tail(channel), IF For(m, a) THEN m[3] ELSE v, a, g)  BY <1>1, <1>3, <3>1, SettlesLess
    <3>3. axSlave'.values.filter[a] = (IF For(m, a) THEN m[3] ELSE v)  BY <1>6 DEF v
    <3> QED  BY <1>1, <3>2, <3>3 DEF g
  <2>4. axSlave'.announced <=> axSlave.announced  BY <1>6
  <2> SUFFICES ASSUME ~raced'
               PROVE  /\ joining' # AxisSettings!None /\ axSlave'.profile = "Default" =>
                            \A a \in Axes : Capped(joining'.values.filter[a]) = Goal(a)'
                      /\ axSlave' \in AxSlaves /\ axSlave'.profile = "Default" /\ axSlave'.announced =>
                            \A a \in Axes : Settles(channel', axSlave'.values.filter[a], a, Goal(a)')
    BY Zenon DEF FarInv, Settles
  <2>5. joining # AxisSettings!None /\ axSlave.profile = "Default" =>
          \A a \in Axes : Capped(joining.values.filter[a]) = Goal(a)
    BY <1>2, <2>1, Zenon DEF FarInv
  <2> QED  BY <1>1, <1>6, <2>1, <2>2, <2>3, <2>4, <2>5, Zenon
<1>9. TrackerStays  BY <1>1, <1>2, Zenon DEF TrackerStays, TrackerTypes
<1> QED  BY <1>2, <1>7, <1>8, <1>9, TrackerSame, Zenon DEF AxesInv

LEMMA EndKeepsAxes == ASSUME AxesInv, AxisSettings!SlaveEnds PROVE AxesInv'
<1>1. /\ joining = AxisSettings!None /\ axSlave' = AxisSettings!None /\ channel' = <<>> /\ joining' = joining
      /\ axFile' = axFile /\ axDisk' = axDisk /\ handle' = handle /\ profile' = profile
      /\ profileSection' = profileSection /\ ffs' = ffs /\ common' = common
      /\ defaulted' = defaulted /\ axChanges' = axChanges
  BY Zenon DEF AxisSettings!SlaveEnds, AxisSettings!tracker, AxisSettings!prefs
<1>2. TrackerTypes /\ MemoryInv /\ AxisSettings!FilterIsSum  BY Zenon DEF AxesInv
<1>3. <<>> \in Seq(AxMessages)  OBVIOUS
<1>4. FarTypes'  BY <1>1, <1>3, Zenon DEF FarTypes
<1>5. FarInv'
  <2>1. axSlave' \notin AxSlaves  BY <1>1, SlaveIsThere, Zenon
  <2> QED  BY <1>1, <2>1, Zenon DEF FarInv
<1>6. TrackerStays  BY <1>1, <1>2, Zenon DEF TrackerStays, TrackerTypes
<1> QED  BY <1>2, <1>4, <1>5, <1>6, TrackerSame, Zenon DEF AxesInv

\* A step that neither changes the axes, in the file or in memory, nor the slave.
LEMMA AxesSame ==
    ASSUME AxesInv, UNCHANGED <<handle, profile, profileSection, ffs, common, defaulted, axFile>>,
           UNCHANGED <<axSlave, joining, channel, raced>>, axDisk' \in AxFiles, axChanges' \in 0 .. AxChanges
    PROVE  AxesInv'
<1>1. TrackerTypes /\ MemoryInv /\ AxisSettings!FilterIsSum /\ FarTypes /\ FarInv  BY Zenon DEF AxesInv
<1>2. axFile' = axFile  BY Zenon
<1>3. axFile'["Default"].filter = axFile["Default"].filter  BY <1>2
<1>4. FarTypes' /\ FarInv'  BY <1>1, <1>3, FarSame
<1>5. TrackerStays  BY <1>1, <1>2, Zenon DEF TrackerStays, TrackerTypes
<1> QED  BY <1>1, <1>4, <1>5, TrackerSame, Zenon DEF AxesInv

LEMMA SaveKeepsAxes == ASSUME AxesInv, AxisSettings!Save PROVE AxesInv'
<1>1. /\ AxisSettings!Change /\ axDisk' = axFile
      /\ UNCHANGED <<handle, profile, profileSection, ffs, common, defaulted, axFile>>
      /\ UNCHANGED <<axSlave, joining, channel, raced>>
  BY Zenon DEF AxisSettings!Save, AxisSettings!tracker, AxisSettings!far
<1>2. TrackerTypes  BY Zenon DEF AxesInv
<1>3. axDisk' \in AxFiles  BY <1>1, <1>2 DEF TrackerTypes
<1>4. axChanges' \in 0 .. AxChanges  BY <1>1, <1>2, AxesSteps
<1> QED  BY <1>1, <1>3, <1>4, AxesSame

LEMMA IdleKeepsAxes == ASSUME AxesInv, AxisSettings!Pose \/ UNCHANGED settingsVars PROVE AxesInv'
<1>1. /\ axDisk' = axDisk /\ axChanges' = axChanges
      /\ UNCHANGED <<handle, profile, profileSection, ffs, common, defaulted, axFile>>
      /\ UNCHANGED <<axSlave, joining, channel, raced>>
  <2>1. CASE AxisSettings!Pose
    BY <2>1, Zenon DEF AxisSettings!Pose, AxisSettings!tracker, AxisSettings!far, AxisSettings!prefs
  <2>2. CASE UNCHANGED settingsVars  BY <2>2, Zenon DEF settingsVars
  <2> QED  BY <2>1, <2>2
<1>2. axDisk' \in AxFiles /\ axChanges' \in 0 .. AxChanges  BY <1>1, Zenon DEF AxesInv, TrackerTypes
<1> QED  BY <1>1, <1>2, AxesSame

LEMMA AxesKeep == AxesInv /\ [AxisSettings!Next]_settingsVars => AxesInv'
<1> SUFFICES ASSUME AxesInv, [AxisSettings!Next]_settingsVars PROVE AxesInv'  OBVIOUS
<1>1. CASE \E p \in DOMAIN ProfileSections : AxisSettings!AddProfile(p)  BY <1>1, AddKeeps
<1>2. CASE \E p \in DOMAIN ProfileSections : AxisSettings!SetProfile(p)  BY <1>2, ProfileKeeps
<1>3. CASE \E p \in DOMAIN ProfileSections : AxisSettings!SlaveStarts(p)  BY <1>3, StartKeeps
<1>4. CASE \E a \in Axes, v \in AxFilters : AxisSettings!SetFilter(a, v)  BY <1>4, FilterKeeps
<1>5. CASE \E c \in AxFilters : AxisSettings!SetCommon(c)  BY <1>5, CommonKeeps
<1>6. CASE \E v \in {"Yes", "No"} : AxisSettings!Invert(v)  BY <1>6, InvertKeeps
<1>7. CASE AxisSettings!FromDefault  BY <1>7, DefaultKeeps
<1>8. CASE AxisSettings!Save  BY <1>8, SaveKeepsAxes
<1>9. CASE AxisSettings!Join  BY <1>9, JoinKeepsAxes
<1>10. CASE AxisSettings!Announce  BY <1>10, AnnounceKeepsAxes
<1>11. CASE AxisSettings!Hear  BY <1>11, HearKeepsAxes
<1>12. CASE AxisSettings!SlaveEnds  BY <1>12, EndKeepsAxes
<1>13. CASE AxisSettings!Pose \/ UNCHANGED settingsVars  BY <1>13, IdleKeepsAxes
<1> QED
  BY <1>1, <1>2, <1>3, <1>4, <1>5, <1>6, <1>7, <1>8, <1>9, <1>10, <1>11, <1>12, <1>13, Zenon
  DEF AxisSettings!Next, AxisSettings!Profiles, AxFilters

\* The GUI's axes start as those of the default section, the common part of their filters is the least.
LEMMA AxesBegin == AxisSettings!Init => AxesInv
<1> DEFINE v == AxisSettings!Loaded(axDisk, "Default")
           values == {handle.values.filter[a] : a \in Axes} \cup {MaxCommon}
<1> SUFFICES ASSUME AxisSettings!Init PROVE AxesInv  OBVIOUS
<1>1. /\ axDisk \in [AxSections -> {AxisSettings!NoSection, AxisDefaults}]
      /\ axFile = AxisSettings!Filled(axDisk, "Default") /\ profile = "Default" /\ profileSection = "Default"
      /\ handle = [section |-> "Default", values |-> v]
      /\ common = (CHOOSE m \in values : \A n \in values : m <= n)
      /\ ffs = [a \in Axes |-> handle.values.filter[a] - common]
      /\ axSlave = AxisSettings!None /\ joining = AxisSettings!None /\ channel = <<>> /\ defaulted = FALSE
      /\ raced = FALSE /\ axChanges = 0
  BY Zenon DEF AxisSettings!Init, AxSections
<1>2. "Default" \in AxSections  BY AxesAssumption DEF AxSections, AxisSettings!Sections, AxisSettings!Profiles
<1>3. axDisk \in AxFiles  BY <1>1, AxesAssumption DEF AxFiles
<1>4. axFile \in AxFiles /\ axFile["Default"] \in FullSection  BY <1>1, <1>2, <1>3, FilledIs
<1>5. /\ v \in FullSection /\ v.inverted = axFile["Default"].inverted
      /\ \A a \in Axes : v.filter[a] = Capped(axFile["Default"].filter[a])
  BY <1>1, <1>2, <1>3, LoadedIs
<1> HIDE DEF v
<1>6. /\ handle \in [section : AxSections, values : FullSection]
      /\ handle.section = "Default" /\ handle.values = v
  BY <1>1, <1>2, <1>5
<1>7. \A a \in Axes : handle.values.filter[a] \in AxFilters  BY <1>5, <1>6 DEF FullSection
<1>8. common \in AxFilters /\ \A a \in Axes : common <= handle.values.filter[a]
  <2>1. values \subseteq Nat /\ values # {} /\ values \subseteq AxFilters /\ \A a \in Axes : handle.values.filter[a] \in values
    BY <1>7, AxesAssumption DEF AxFilters
  <2> HIDE DEF values
  <2>2. common \in values /\ \A n \in values : common <= n
    <3>1. (CHOOSE m \in values : \A n \in values : m <= n) \in values
          /\ \A n \in values : (CHOOSE m \in values : \A k \in values : m <= k) <= n
      BY <2>1, LeastOf
    <3> QED  BY <1>1, <3>1, Zenon
  <2> QED  BY <2>1, <2>2
<1> HIDE DEF values
<1>9. ffs \in [Axes -> AxFilters] /\ \A a \in Axes : ffs[a] + common = handle.values.filter[a]
  <2>1. \A a \in Axes : /\ handle.values.filter[a] - common \in AxFilters
                        /\ (handle.values.filter[a] - common) + common = handle.values.filter[a]
    BY <1>7, <1>8, AxesAssumption DEF AxFilters
  <2> QED  BY <1>1, <2>1
<1>10. axChanges \in 0 .. AxChanges  BY <1>1, AxesAssumption
<1>11. profile \in DOMAIN ProfileSections  BY <1>1, AxesAssumption
<1>12. TrackerTypes  BY <1>1, <1>3, <1>4, <1>6, <1>8, <1>9, <1>10, <1>11, Zenon DEF TrackerTypes
<1>13. MemoryInv
  <2>1. \A a \in Axes : axFile["Default"].filter[a] \in AxFilters  BY <1>4 DEF FullSection
  <2>2. \A a \in Axes : Capped(v.filter[a]) = Capped(axFile["Default"].filter[a])  BY <1>5, <2>1, CappedIs
  <2> QED  BY <1>5, <1>6, <2>2, Zenon DEF MemoryInv
<1>14. AxisSettings!FilterIsSum
  <2>1. \A a \in Axes : handle.values.filter[a] \in Int  BY <1>7 DEF AxFilters
  <2>2. \A a \in Axes : handle.values.filter[a] = AxisSettings!Limit(handle.values.filter[a])  BY <1>7, <2>1, LimitIs
  <2> QED  BY <1>9, <2>2, Zenon DEF AxisSettings!FilterIsSum
<1>15. FarTypes
  <2>1. <<>> \in Seq(AxMessages)  OBVIOUS
  <2> QED  BY <1>1, <2>1, Zenon DEF FarTypes
<1>16. FarInv
  <2>1. axSlave \notin AxSlaves  BY <1>1, SlaveIsThere, Zenon
  <2> QED  BY <1>1, <2>1, Zenon DEF FarInv
<1> QED  BY <1>12, <1>13, <1>14, <1>15, <1>16, Zenon DEF AxesInv

AxesAgree == AxisSettings!MemoryIsSection /\ AxisSettings!FilterIsSum /\ AxisSettings!SlaveFilters

LEMMA AxesSound == AxesInv => AxisSettings!TypeOK /\ AxesAgree
<1> SUFFICES ASSUME AxesInv PROVE AxisSettings!TypeOK /\ AxesAgree  OBVIOUS
<1>1. TrackerTypes /\ MemoryInv /\ AxisSettings!FilterIsSum /\ FarTypes /\ FarInv  BY Zenon DEF AxesInv
<1>2. /\ axFile \in AxFiles /\ handle.section \in AxSections /\ axFile[handle.section] \in FullSection
      /\ handle \in [section : AxSections, values : FullSection]
      /\ profile \in DOMAIN ProfileSections /\ profileSection = handle.section
      /\ ffs \in [Axes -> AxFilters] /\ common \in AxFilters /\ axChanges \in 0 .. AxChanges
  BY <1>1 DEF TrackerTypes
<1>3. AxisSettings!TypeOK
  <2>1. \A s \in AxSections : axFile[s].inverted \in {"Yes", "No", "unset", "missing"}
    <3> TAKE s \in AxSections
    <3>1. CASE axFile[s] \in FullSection  BY <3>1 DEF FullSection
    <3>2. CASE axFile[s] = AxisSettings!NoSection
      <4>1. AxisSettings!NoSection.inverted = "missing"  BY DEF AxisSettings!NoSection
      <4> QED  BY <3>2, <4>1
    <3> QED  BY <1>2, <3>1, <3>2 DEF AxFiles
  <2>2. handle.values.filter \in [Axes -> AxFilters]  BY <1>2 DEF FullSection
  <2>3. \A a \in Axes : ffs[a] \in AxFilters  BY <1>2
  <2> QED  BY <1>2, <2>1, <2>2, <2>3, Zenon DEF AxisSettings!TypeOK, AxSections, AxisSettings!Profiles, AxFilters
<1>4. AxisSettings!MemoryIsSection
  <2>1. AxisSettings!Filled(axFile, handle.section)[handle.section] = axFile[handle.section]
    BY <1>2, FilledIs
  <2> QED  BY <1>1, <2>1, Zenon DEF AxisSettings!MemoryIsSection, MemoryInv, Capped
<1>5. AxisSettings!SlaveFilters
  <2> SUFFICES ASSUME handle.section = "Default", ~defaulted, ~raced, axSlave # AxisSettings!None,
                      axSlave.profile = "Default", axSlave.announced, channel = <<>>, NEW a \in Axes
               PROVE  Capped(axSlave.values.filter[a]) = Capped(handle.values.filter[a])
    BY Zenon DEF AxisSettings!SlaveFilters, Capped
  <2> DEFINE g == Goal(a)
             v == axSlave.values.filter[a]
  <2>1. axSlave \in AxSlaves  BY <1>1, Zenon DEF FarTypes
  <2>2. Settles(channel, v, a, g)  BY <1>1, <2>1, Zenon DEF FarInv
  <2>3. Capped(handle.values.filter[a]) = g  BY <1>1, Zenon DEF MemoryInv, Goal
  <2> HIDE DEF g, v
  <2>4. Capped(v) = g
    <3>1. \A i \in DOMAIN channel : ~For(channel[i], a)  OBVIOUS
    <3> QED  BY <2>2, <3>1, Zenon DEF Settles
  <2> QED  BY <2>3, <2>4 DEF v
<1> QED  BY <1>1, <1>3, <1>4, <1>5 DEF AxesAgree

-----------------------------------------------------------------------
(* The settings together *)

storeVars == <<stored, index, sePc, want, trial, latest, given, alone, broken, seCalls>>
allVars == <<settingsVars, formVars, deviceVars, modelVars, storeVars, windowVars>>

SettingsInit ==
    /\ AxisSettings!Init /\ Form!Init /\ DeviceTab!Init /\ ModelTab!Init /\ Store!Init /\ MainWindow!Init

ChangeSettings ==
    AxisSettings!Next /\ UNCHANGED <<formVars, deviceVars, modelVars, storeVars, windowVars>>
EditForm == Form!Next /\ UNCHANGED <<settingsVars, deviceVars, modelVars, storeVars, windowVars>>
ChooseDevices == DeviceTab!Next /\ UNCHANGED <<settingsVars, formVars, modelVars, storeVars, windowVars>>
EditModels == ModelTab!Next /\ UNCHANGED <<settingsVars, formVars, deviceVars, storeVars, windowVars>>
UseStore == Store!Next /\ UNCHANGED <<settingsVars, formVars, deviceVars, modelVars, windowVars>>
UseWindow == MainWindow!Next /\ UNCHANGED <<settingsVars, formVars, deviceVars, modelVars, storeVars>>

SettingsNext == ChangeSettings \/ EditForm \/ ChooseDevices \/ EditModels \/ UseStore \/ UseWindow

SettingsSpec == SettingsInit /\ [][SettingsNext]_allVars

\* The modules keep their types.
SettingsTyped ==
    /\ AxisSettings!TypeOK /\ Form!TypeOK /\ DeviceTab!TypeOK /\ ModelTab!TypeOK /\ Store!TypeOK
    /\ MainWindow!TypeOK

\* A setting is the same wherever it is kept: that of an axis in memory, in its section,
\* in the window and in the slave that heard of it (axis.c:497-674, tracker.cpp:121-285,
\* scurve.cpp, profile_setup.cpp), and looking at it changes none; that of a device in
\* its own section and its driver (device_setup.cpp, tir_prefs.cpp and its like); that of
\* a model in the tab, its section and the tracker (ltr_model.cpp, guardian.cpp); any
\* value read from the preferences is the one last written (pref.cpp); and what the main
\* window shows holds for the tracker, the slaves and, once saved, the file (ltr_gui.cpp).
SettingsAgree ==
    /\ SettingsTyped
    /\ AxisSettings!MemoryIsSection /\ AxisSettings!FilterIsSum /\ AxisSettings!SlaveFilters
    /\ Form!FormsShow /\ Form!LookingIsFree
    /\ DeviceTab!FormIsOfDevice /\ DeviceTab!OneSection /\ DeviceTab!RefreshKeeps
    /\ ModelTab!ModelTaken /\ ModelTab!ModelsWhole /\ ModelTab!TabShowsModel /\ ModelTab!GuardianRight
    /\ Store!LastWriteRead /\ Store!ReadsBack /\ Store!NamesUnique
    /\ MainWindow!OptionAgrees /\ MainWindow!NothingUnsaved /\ MainWindow!LastKept
    /\ MainWindow!SlaveHears /\ MainWindow!ButtonsFollow

SettingsInv == AxesInv /\ FormInv /\ DeviceInv /\ ModelInv /\ StoreInv /\ NamesInv /\ WindowInv

LEMMA SettingsBegin == SettingsInit => SettingsInv
BY AxesBegin, FormBegins, DeviceBegins, ModelBegins, StoreBegins, NamesBegin, WindowBegins, Zenon
DEF SettingsInit, SettingsInv

LEMMA SettingsKeep == SettingsInv /\ [SettingsNext]_allVars => SettingsInv'
<1> SUFFICES ASSUME SettingsInv, [SettingsNext]_allVars PROVE SettingsInv'  OBVIOUS
<1>1. /\ [AxisSettings!Next]_settingsVars /\ [Form!Next]_formVars /\ [DeviceTab!Next]_deviceVars
      /\ [ModelTab!Next]_modelVars /\ [Store!Next]_storeVars /\ [MainWindow!Next]_windowVars
  BY Zenon
  DEF SettingsNext, allVars, ChangeSettings, EditForm, ChooseDevices, EditModels, UseStore, UseWindow
<1>2. [Store!Next]_(Store!vars)  BY <1>1, Zenon DEF storeVars, Store!vars
<1>3. CandidatesKnown  BY StoreAssumption
<1>4. StoreInv' /\ NamesInv'  BY <1>2, <1>3, StoreKeeps, NamesKeep, Zenon DEF SettingsInv
<1> QED
  BY <1>1, <1>4, AxesKeep, FormKeeps, DeviceKeeps, ModelKeeps, WindowKeeps, Zenon DEF SettingsInv

LEMMA SettingsInductive == SettingsSpec => []SettingsInv
BY SettingsBegin, SettingsKeep, PTL DEF SettingsSpec

LEMMA SettingsSound == SettingsInv => SettingsAgree
BY AxesSound, FormSound, DeviceSound, ModelSound, StoreSound, WindowSound, Zenon
DEF SettingsInv, SettingsAgree, SettingsTyped, AxesAgree, FormAgrees, DevicesAgree, ModelsAgree,
    StoreAgrees, WindowAgrees

\* A setting is the same wherever it is kept, for all settings, devices, models, sections and files
\* and however many changes: in the section and in memory, in the window that shows it, in the driver
\* and in the slave that heard of it (axis.c:497-674, tracker.cpp:121-285, scurve.cpp, device_setup.cpp,
\* ltr_model.cpp, pref.cpp, ltr_gui.cpp).
THEOREM SettingsAlwaysAgree == SettingsSpec => []SettingsAgree
BY SettingsInductive, SettingsSound, PTL
===================================================================================
