------------------------------ MODULE HotKeys -------------------------------
(***************************************************************************)
(* Mickey's hot keys: the widgets (mickey/hotkey.cpp), their shortcuts     *)
(* (mickey/keyb.cpp) and the X11 side (mickey/keyb_x11.cpp), which grabs a *)
(* key four times, once for each state of the two lock keys that must not  *)
(* matter, and looks a pressed key up in shortcutHash.                     *)
(*                                                                         *)
(* All of it runs on the GUI thread.  The X server and the other clients   *)
(* that grab keys are external.  Key 0 stands for "None".                  *)
(***************************************************************************)
EXTENDS Integers, FiniteSets, FiniteSetsExt

CONSTANTS HotKeyIds,    \* the hot keys 1..n, in the order MickeyGUI::init adds them
          Keys,         \* key and modifiers, positive integers
          Unknown,      \* the keys X has no code for
          MaxChanges    \* bound on assignments and on other clients' grabs

\* Lock states: none, NumLock, ScrollLock, both; in the order they are grabbed.
Locks == 1..4
NoKey == 0
Nobody == 0

VARIABLES shortcutHash, \* key -> the hot key it activates, or Nobody
          grabbed,      \* key -> the lock states Mickey holds a grab for
          others,       \* key -> the lock states another client holds
          shown,        \* hot key -> HotKey::hotKey
          saved,        \* hot key -> its line in Mickey's settings
          widget,       \* hot key -> "unmade", "there", "deleted"
          filters,      \* native event filters installed
          errHandler,   \* X error handler: "default" or "own"
          changes

vars == <<shortcutHash, grabbed, others, shown, saved, widget, filters, errHandler,
          changes>>

Shortcuts == Keys \cup {NoKey}

Init ==
  /\ shortcutHash = [k \in Keys |-> Nobody]
  /\ grabbed = [k \in Keys |-> {}]
  /\ others \in [Keys -> {{}, {1}, {3}}]
  /\ shown = [h \in HotKeyIds |-> NoKey]
  /\ saved \in [HotKeyIds -> Shortcuts]
  /\ widget = [h \in HotKeyIds |-> "unmade"]
  /\ filters = 0 /\ errHandler = "default" /\ changes = 0

\* removeIdFromHash
Without(h) == [k \in Keys |-> IF shortcutHash[k] = h THEN Nobody ELSE shortcutHash[k]]
IsEmpty(hash) == \A k \in Keys : hash[k] = Nobody

\* Mutant: the failing grab is undone, the one before the previous is not.
GrabKeyXHalf(k) ==
  IF others[k] = {} THEN Locks
  ELSE grabbed[k] \cup {l \in Locks : l < Min(others[k]) - 1}

\* grabKeyX, the grabs Mickey holds for k afterwards: a grab fails when another
\* client has it, and those made before it are undone.
GrabKeyX(k) ==
  IF others[k] = {} THEN Locks ELSE grabbed[k] \ (1..(Min(others[k]) - 1))

\* The handler is put back on every way out but the one where the first fails.
ErrHandlerAfter(k) == IF 1 \in others[k] THEN "own" ELSE errHandler

\* What setShortCut refuses without asking X: a key without a code, or taken.
Taken(h, k) == k \in Unknown \/ Without(h)[k] # Nobody
Usable(h, k) == ~Taken(h, k) /\ others[k] = {}

\* Mutant: the old key stays in the table.
SetShortCutKeeping(h, k) ==
  LET ok == k \notin Unknown /\ shortcutHash[k] = Nobody /\ others[k] = {}
  IN /\ shortcutHash' = IF ok THEN [shortcutHash EXCEPT ![k] = h] ELSE shortcutHash
     /\ grabbed' = IF ok THEN [grabbed EXCEPT ![k] = GrabKeyX(k)] ELSE grabbed
     /\ filters' = filters + IF ok /\ IsEmpty(shortcutHash) THEN 1 ELSE 0
     /\ UNCHANGED errHandler

\* setShortCut: the old key leaves the table first, and whatever happens next
\* its grabs stay; the filter is installed when the table is empty by then.
SetShortCut(h, k) ==
  /\ shortcutHash' = IF Usable(h, k) THEN [Without(h) EXCEPT ![k] = h] ELSE Without(h)
  /\ grabbed' = IF Taken(h, k) THEN grabbed ELSE [grabbed EXCEPT ![k] = GrabKeyX(k)]
  /\ errHandler' = IF Taken(h, k) THEN errHandler ELSE ErrHandlerAfter(k)
  /\ filters' = filters + IF Usable(h, k) /\ IsEmpty(Without(h)) THEN 1 ELSE 0

\* unsetShortcut
UnsetShortcut(h) ==
  LET mine == {k \in Keys : shortcutHash[k] = h}
  IN /\ shortcutHash' = Without(h)
     /\ grabbed' = [k \in Keys |-> IF k \in mine THEN {} ELSE grabbed[k]]
     /\ filters' = filters - IF mine # {} /\ IsEmpty(Without(h)) THEN 1 ELSE 0
     /\ UNCHANGED errHandler

\* HotKey::setHotKey; the new key is saved through newHotKey, once connected.
SetHotKey(h, k) ==
  IF k = NoKey THEN UnsetShortcut(h) /\ shown' = [shown EXCEPT ![h] = k]
  ELSE /\ SetShortCut(h, k)
       /\ shown' = IF Usable(h, k) THEN [shown EXCEPT ![h] = k] ELSE shown

\* addHotKey: a hot key whose saved key cannot be had is deleted, for the whole
\* session; its line in the settings stays.
AddHotKey(h) ==
  /\ widget[h] = "unmade" /\ \A g \in HotKeyIds : g < h => widget[g] # "unmade"
  /\ SetHotKey(h, saved[h])
  /\ widget' = [widget EXCEPT ![h] =
                  IF saved[h] = NoKey \/ Usable(h, saved[h]) THEN "there" ELSE "deleted"]
  /\ UNCHANGED <<others, saved, changes>>

\* HotKey::on_AssignButton_pressed, with the set-up dialog accepted
Assign(h, k) ==
  /\ widget[h] = "there" /\ \A g \in HotKeyIds : widget[g] # "unmade"
  /\ changes < MaxChanges /\ changes' = changes + 1
  /\ SetHotKey(h, k)
  \* updateHotKey
  /\ saved' = [saved EXCEPT ![h] = shown'[h]]
  /\ UNCHANGED <<others, widget>>

\* External: another client takes or leaves a grab; X refuses one that is held.
OtherGrabs(k, l) ==
  /\ changes < MaxChanges /\ changes' = changes + 1
  /\ l \notin grabbed[k] /\ others' = [others EXCEPT ![k] = @ \cup {l}]
  /\ UNCHANGED <<shortcutHash, grabbed, shown, saved, widget, filters, errHandler>>

OthersLeave(k) ==
  /\ others[k] # {} /\ others' = [others EXCEPT ![k] = {}]
  /\ UNCHANGED <<shortcutHash, grabbed, shown, saved, widget, filters, errHandler, changes>>

Next ==
  \/ \E h \in HotKeyIds : AddHotKey(h) \/ \E k \in Shortcuts : Assign(h, k)
  \/ \E k \in Keys : OthersLeave(k) \/ \E l \in Locks : OtherGrabs(k, l)

Spec == Init /\ [][Next]_vars

-----------------------------------------------------------------------------
TypeOK ==
  /\ shortcutHash \in [Keys -> HotKeyIds \cup {Nobody}]
  /\ grabbed \in [Keys -> SUBSET Locks] /\ others \in [Keys -> SUBSET Locks]
  /\ shown \in [HotKeyIds -> Shortcuts] /\ saved \in [HotKeyIds -> Shortcuts]
  /\ widget \in [HotKeyIds -> {"unmade", "there", "deleted"}]
  /\ filters \in Nat /\ errHandler \in {"default", "own"} /\ changes \in 0..MaxChanges

\* Whatever other clients hold and give up meanwhile, a failed grab leaves no
\* half of itself behind: a key is Mickey's in every lock state or in none, and
\* every key in the table is Mickey's, so that a hot key works with NumLock on.
WholeGrabs ==
  \A k \in Keys : /\ grabbed[k] \in {{}, Locks}
                  /\ shortcutHash[k] # Nobody => grabbed[k] = Locks

\* A hot key reacts to no key but the one its button shows, and a hot key that
\* was deleted to none.
OnlyTheShown ==
  \A k \in Keys : shortcutHash[k] # Nobody =>
     shown[shortcutHash[k]] = k /\ widget[shortcutHash[k]] = "there"

\* Refuted: ShownIsHeard (a rejected key leaves the hot key without any, while
\* the button shows the old one), NothingLeaked (grabbed[k] # {} => the table
\* has k: reassigning never ungrabs), OneFilter (filters =< 1), HandlerPutBack
\* (errHandler = "default").
=============================================================================
