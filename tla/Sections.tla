------------------------------ MODULE Sections ------------------------------
(***************************************************************************)
(* The preferences in memory (pref.cpp, class prefs): the sections in the  *)
(* order they are printed, an index that finds one by its name, and a lock *)
(* that every look and every change takes for itself.  Whether a section   *)
(* is there is asked under the lock and acted on after it was released, so *)
(* two threads may both make it.  All keys of a section stand for one.     *)
(***************************************************************************)
EXTENDS Integers, Sequences

CONSTANTS Threads, Names,
          Candidates,  \* the names tried for a section that must be new: a template, then with numbers
          Written,     \* values
          MaxCalls     \* bound: calls of the threads

VARIABLES stored,      \* items: sections, [name, val]
          index,       \* where a name is found, 0 for nowhere
          pc, want,    \* of each thread: where it is, the section and the value of its call
          trial,       \* which candidate it has come to
          latest,      \* the value last written to a section, whoever wrote it
          given,       \* the names given out as new, in their order
          alone,       \* no two threads have been inside at once
          broken,      \* a thread wrote to a section that was cleared away meanwhile
          seCalls

vars == <<stored, index, pc, want, trial, latest, given, alone, broken, seCalls>>

None == 0
NewName == "new"

Init ==
    /\ stored = <<>> /\ index = [n \in Names |-> 0] /\ latest = [n \in Names |-> None]
    /\ pc = [t \in Threads |-> "out"] /\ want = [t \in Threads |-> <<NewName, None>>] /\ trial = [t \in Threads |-> 1]
    /\ given = <<>> /\ alone = TRUE /\ broken = FALSE /\ seCalls = 0

\* prefs::getValue and prefs::sectionExists
SectionExists(name) == index[name] # 0
Value(name) == IF index[name] = 0 THEN None ELSE stored[index[name]].val

Call(t) ==
    /\ pc[t] = "out" /\ ~broken /\ seCalls < MaxCalls /\ seCalls' = seCalls + 1
    /\ alone' = (alone /\ \A u \in Threads \ {t} : pc[u] = "out")
    /\ UNCHANGED <<stored, index, latest, given, broken>>

\* prefs::setValue and prefs::addKey begin; addSection with a template begins.
SetValue(t, name, val) ==
    Call(t) /\ pc' = [pc EXCEPT ![t] = "look"] /\ want' = [want EXCEPT ![t] = <<name, val>>] /\ UNCHANGED trial
AddUnique(t) ==
    /\ Call(t) /\ pc' = [pc EXCEPT ![t] = "try"] /\ want' = [want EXCEPT ![t] = <<NewName, None>>]
    /\ trial' = [trial EXCEPT ![t] = 1]

Rest == <<seCalls, alone>>

\* sectionExists in setValue, and again in addSection
Look(t) ==
    /\ pc[t] \in {"look", "add"}
    /\ pc' = [pc EXCEPT ![t] = IF SectionExists(want[t][1]) THEN "write" ELSE IF @ = "look" THEN "add" ELSE "insert"]
    /\ UNCHANGED <<stored, index, want, trial, latest, given, broken, Rest>>

\* The loop over the names; the name is given out although it may have come to exist meanwhile.
Try(t) ==
    /\ pc[t] = "try" /\ trial[t] \in DOMAIN Candidates
    /\ LET name == Candidates[trial[t]] IN
       IF SectionExists(name) THEN trial' = [trial EXCEPT ![t] = @ + 1] /\ UNCHANGED <<pc, want, given>>
       ELSE /\ want' = [want EXCEPT ![t] = <<name, None>>] /\ given' = Append(given, name)
            /\ pc' = [pc EXCEPT ![t] = "add"] /\ UNCHANGED trial
    /\ UNCHANGED <<stored, index, latest, broken, Rest>>

\* Mutant: the entry is replaced.
RegisteredLast(name) == [index EXCEPT ![name] = Len(stored) + 1]

\* registerSection: map::insert, which leaves an entry that is there alone.
Registered(name) == IF index[name] # 0 THEN index ELSE [index EXCEPT ![name] = Len(stored) + 1]

\* prefs::addItem, under the lock
Insert(t) ==
    /\ pc[t] = "insert"
    /\ stored' = Append(stored, [name |-> want[t][1], val |-> None]) /\ index' = Registered(want[t][1])
    /\ pc' = [pc EXCEPT ![t] = "write"] /\ UNCHANGED <<want, trial, latest, given, broken, Rest>>

\* The value is written through the index, under the lock; nothing asks whether it is still there.
Write(t) ==
    LET name == want[t][1] IN
    /\ pc[t] = "write" /\ pc' = [pc EXCEPT ![t] = "out"]
    /\ IF want[t][2] = None THEN UNCHANGED <<stored, latest, broken>>
       ELSE IF index[name] = 0 THEN broken' = TRUE /\ UNCHANGED <<stored, latest>>
       ELSE /\ stored' = [stored EXCEPT ![index[name]].val = want[t][2]]
            /\ latest' = [latest EXCEPT ![name] = want[t][2]] /\ UNCHANGED broken
    /\ UNCHANGED <<index, want, trial, given, Rest>>

\* prefs::clear, under the lock; sections given out before are forgotten.
Clear(t) ==
    /\ pc[t] = "out" /\ ~broken /\ seCalls < MaxCalls /\ seCalls' = seCalls + 1
    /\ stored' = <<>> /\ index' = [n \in Names |-> 0] /\ latest' = [n \in Names |-> None] /\ given' = <<>>
    /\ alone' = (alone /\ \A u \in Threads \ {t} : pc[u] = "out")
    /\ UNCHANGED <<pc, want, trial, broken>>

Next ==
    \E t \in Threads :
        \/ \E n \in Names, v \in Written : SetValue(t, n, v)
        \/ AddUnique(t) \/ Look(t) \/ Try(t) \/ Insert(t) \/ Write(t) \/ Clear(t)

Spec == Init /\ [][Next]_vars

-----------------------------------------------------------------------

\* Types and bounds.
TypeOK ==
    /\ \A i \in DOMAIN stored : stored[i].name \in Names /\ stored[i].val \in Written \cup {None}
    /\ \A n \in Names : index[n] \in 0 .. Len(stored)
    /\ \A t \in Threads : pc[t] \in {"out", "look", "try", "add", "insert", "write"}
    /\ {alone, broken} \subseteq BOOLEAN /\ seCalls \in 0 .. MaxCalls

\* The value last written is the one read, though two threads made the section at once
\* (prefs::setValue, prefs::getValue).
LastWriteRead == \A n \in Names : Value(n) = latest[n]

\* Printed and read back the store is the same (operator<<, where a second section of a name comes later and
\* is never written to).
ReadsBack ==
    \A i \in DOMAIN stored :
        LET n == stored[i].name
        IN  i = index[n] \/ (index[n] # 0 /\ index[n] < i /\ stored[i].val = None)

\* A name that was given out as new is nobody else's, as long as the threads keep out of each other's way.
NamesUnique == alone => \A i, j \in DOMAIN given : given[i] = given[j] => i = j

\* Not so when they do not: two threads are given one name, and a section is cleared away under a writer.
NamesAlwaysUnique == \A i, j \in DOMAIN given : given[i] = given[j] => i = j
NeverBroken == ~broken
=======================================================================
