------------------------------ MODULE Loader ------------------------------
(***************************************************************************)
(* The stub a program is linked with (linuxtrack.c).  It looks for the     *)
(* library when linuxtrack_init is called, looks up its functions one      *)
(* after the other, and forgets them in linuxtrack_shutdown.  Between the  *)
(* calls the user may install, remove and move what is looked for.         *)
(***************************************************************************)
EXTENDS Integers, Sequences, SequencesExt

CONSTANTS Functions,     \* in the order they are looked up
          Optional,      \* those a library may be without
          Forgotten,     \* those linuxtrack_shutdown sets to NULL
          EnvPlaces,     \* of LINUXTRACK_LIBS, in order
          PrefixPlaces,  \* lib_locations below the prefix, in order
          MaxCalls       \* bound: calls of linuxtrack_init

Null == "NULL"
Places == ToSet(EnvPlaces) \cup ToSet(PrefixPlaces)

VARIABLES
    library,     \* place -> the functions of the library there, {} if none can be loaded
    env, config, \* LINUXTRACK_LIBS is set, the config file has a prefix
    fun,         \* function -> place of the library it points into
    libHandle,   \* lib_handle
    opened,      \* place -> dlopen count
    started,     \* place -> ltr_init was called there, and not ltr_shutdown
    result,      \* of the last call
    calls

world == <<library, env, config>>
stub == <<fun, libHandle>>
vars == <<world, stub, opened, started, result, calls>>

\* The libraries there may be: complete, without what is optional, and without
\* a function that is not.
Lacking == CHOOSE f \in ToSet(Functions) \ Optional : f # Functions[1]
Contents == {{}, ToSet(Functions), ToSet(Functions) \ Optional, ToSet(Functions) \ {Lacking}}

Init ==
    /\ library \in [Places -> Contents] /\ env \in BOOLEAN /\ config \in BOOLEAN
    /\ fun = [f \in ToSet(Functions) |-> Null] /\ libHandle = Null
    /\ opened = [p \in Places |-> 0] /\ started = {}
    /\ result = "none" /\ calls = 0

-----------------------------------------------------------------------
(* linuxtrack_find_library *)

Loads(p) == library[p] # {}

Search == (IF env THEN EnvPlaces ELSE <<>>) \o (IF config THEN PrefixPlaces ELSE <<>>)

\* linuxtrack_try_library in the order of Search.
FindLibrary == LET i == SelectInSeq(Search, Loads) IN IF i = 0 THEN Null ELSE Search[i]

Problem == IF config THEN "NOT_FOUND" ELSE "NO_CONFIG"

(* linuxtrack_load_functions: up to the first mandatory one that is missing. *)

Bad(p) == SelectInSeq(Functions, LAMBDA f : f \notin library[p] /\ f \notin Optional)

LoadFunctions(p) ==
    [f \in ToSet(Functions) |->
        IF Bad(p) # 0 /\ \A i \in 1 .. Bad(p) - 1 : Functions[i] # f THEN fun[f]
        ELSE IF f \in library[p] THEN p ELSE Null]

-----------------------------------------------------------------------
(* The calls. *)

NoLibrary ==
    /\ calls < MaxCalls /\ calls' = calls + 1
    /\ FindLibrary = Null /\ libHandle' = Null /\ result' = Problem
    /\ UNCHANGED <<world, fun, opened, started>>

\* linuxtrack_init; ltr_init itself may report an error, and changes nothing here.
InitCall ==
    /\ calls < MaxCalls /\ calls' = calls + 1
    /\ LET p == FindLibrary IN
       /\ p # Null
       /\ libHandle' = p /\ opened' = [opened EXCEPT ![p] = @ + 1]
       /\ fun' = LoadFunctions(p)
       /\ IF Bad(p) # 0 THEN result' = "SYMBOL_LOOKUP" /\ UNCHANGED started
          ELSE result' = "OK" /\ started' = started \cup {p}
    /\ UNCHANGED world

\* Mutant: the library is closed, and its functions are kept.
ShutdownKeeping ==
    /\ IF fun["ltr_shutdown"] = Null THEN result' = "NOT_INITIALIZED" /\ UNCHANGED <<stub, opened, started>>
       ELSE /\ result' = "OK"
            /\ IF libHandle = Null THEN UNCHANGED <<stub, opened>>
               ELSE /\ libHandle' = Null /\ opened' = [opened EXCEPT ![libHandle] = @ - 1]
                    /\ fun' = [fun EXCEPT !["ltr_shutdown"] = Null]
            /\ started' = {p \in started \ {fun["ltr_shutdown"]} : opened'[p] > 0}
    /\ UNCHANGED <<world, calls>>

\* linuxtrack_shutdown
Shutdown ==
    /\ IF fun["ltr_shutdown"] = Null THEN result' = "NOT_INITIALIZED" /\ UNCHANGED <<stub, opened, started>>
       ELSE /\ result' = "OK"
            /\ IF libHandle = Null THEN UNCHANGED <<stub, opened>>
               ELSE /\ libHandle' = Null /\ opened' = [opened EXCEPT ![libHandle] = @ - 1]
                    /\ fun' = [f \in ToSet(Functions) |-> IF f \in Forgotten THEN Null ELSE fun[f]]
            /\ started' = {p \in started \ {fun["ltr_shutdown"]} : opened'[p] > 0}
    /\ UNCHANGED <<world, calls>>

\* All other functions: a test of the pointer and the call.
Call(f) ==
    /\ f \notin {"ltr_init", "ltr_shutdown"}
    /\ result' = IF fun[f] = Null THEN "NOT_INITIALIZED"
                 ELSE IF opened[fun[f]] = 0 THEN "crash"
                 ELSE IF fun[f] \in started THEN "OK" ELSE "NOT_INITIALIZED"
    /\ UNCHANGED <<world, stub, opened, started, calls>>

\* The user installs, removes or reconfigures.
Reinstall ==
    /\ 0 < calls /\ calls < MaxCalls
    /\ \/ \E p \in Places, c \in Contents : /\ opened[p] = 0 \/ c = {}
                                            /\ library' = [library EXCEPT ![p] = c] /\ UNCHANGED config
       \/ config' = ~config /\ UNCHANGED library
    /\ UNCHANGED <<env, stub, opened, started, result, calls>>

Next == NoLibrary \/ InitCall \/ Shutdown \/ Reinstall \/ \E f \in ToSet(Functions) : Call(f)

Spec == Init /\ [][Next]_vars

-----------------------------------------------------------------------
(* Properties *)

TypeOK ==
    /\ libHandle \in Places \cup {Null} /\ \A f \in ToSet(Functions) : fun[f] \in Places \cup {Null}
    /\ \A p \in Places : opened[p] \in 0 .. MaxCalls
    /\ libHandle # Null => opened[libHandle] > 0

\* No function that the shutdown forgets points into a library that was closed,
\* whatever failed or was called twice before (linuxtrack.c:149-161, 250-266).
ForgottenLoaded == \A f \in Forgotten : fun[f] # Null => opened[fun[f]] > 0

(* What the code does not keep. *)

\* A function is called in a library that is there, or says it is not initialized.
NoCallAway == result # "crash"

\* A call that succeeds after an initialization that failed is one of a library
\* that was initialized before.
FailureForgets == result = "SYMBOL_LOOKUP" => \A f \in ToSet(Functions) : fun[f] = Null \/ fun[f] \in started
=======================================================================
