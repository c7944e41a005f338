---------------------------- MODULE Master_proofs ----------------------------
(***************************************************************************)
(* Proofs about module Master, for any finite set of connections, any      *)
(* number of descriptors and of commands, and about module Election, which *)
(* decides who is the master, for any numbers of processes.                *)
(*                                                                         *)
(* RegistrySound is not inductive.  That a descriptor of the registry is   *)
(* open and a slave's needs to know what the descriptors are (FileInv: no  *)
(* connection has two of them) and that a connection registers only once   *)
(* (InboxInv: CMD_NEW_SOCKET is the first message; RegisterInv: between    *)
(* the message and the registration nobody closes the descriptor).  That   *)
(* a slave that is there is polled needs that no entry that reports it     *)
(* hung up is its own (LiveInv), or remove_poll_desc would take it.  That  *)
(* a broadcast is complete needs what it has done so far (BroadcastInv)    *)
(* and, of a heartbeat, that the device is not paused anew while it is     *)
(* under way (BeatInv).                                                    *)
(*                                                                         *)
(* The loops over the polled array are recursive functions; what they do   *)
(* to an array of any length is proved by induction over sets of numbers   *)
(* (SetInduction).                                                         *)
(***************************************************************************)
EXTENDS Master, Election, FiniteSetTheorems, WellFoundedInduction, TLAPS

-----------------------------------------------------------------------
(* The inductive invariant. *)

\* An entry of the polled array.
Desc == [fd : Fds \cup {NoFd}, rev : SUBSET {"IN", "HUP", "NVAL"}]
\* Who may hold send_mx for a broadcast.
ByWhom == {"nobody", "main", "device"}

\* The types, and that the scan is at an entry or just past the last one.
TypeInv ==
    /\ peer \in [Clients -> {"away", "up", "gone"}] /\ backlog \subseteq Clients
    /\ inbox \in [Clients -> Seq(MessageSet)]
    /\ asked \in [Clients -> 0 .. MaxCommands + 1]
    /\ file \in [Fds -> Clients \cup {"listener", Nobody}]
    /\ descs \in Seq(Desc)
    /\ slaves \in Seq(Fds)
    /\ mainPc \in {"test", "poll", "scan", "register", "beat", "beating", "left"}
    /\ idx \in 1 .. Len(descs) + 1
    /\ heartbeat \in 0 .. HeartbeatAfter
    /\ status \in Statuses /\ request \in {"CONTINUE", "PAUSE", "RUN"}
    /\ devPc \in {"off", "idle", "tell", "telling", "ended"}
    /\ bc \in [by : ByWhom, todo : Seq(Fds), what : Statuses, lost : BOOLEAN]
    /\ told \subseteq Clients

\* The flags, apart from the rest for the sake of the provers.
FlagsInv == closeConn \in BOOLEAN /\ noSlaves \in BOOLEAN /\ stop \in BOOLEAN

\* The connections that were accepted, whatever became of them since.
Accepted == {k \in Clients : peer[k] # "away" /\ k \notin backlog}

\* There are no more entries than the socket and the connections accepted.
RoomInv ==
    /\ \A k \in backlog : peer[k] # "away"
    /\ Len(descs) <= 1 + Cardinality(Accepted)

\* A number is the socket, nothing, or the one descriptor of a connection accepted.
FileInv ==
    /\ \A fd \in Fds : file[fd] = "listener" <=> fd = Listening
    /\ \A fd \in Fds : file[fd] \in Clients => file[fd] \in Accepted
    /\ \A fd, other \in Fds : file[fd] \in Clients /\ file[fd] = file[other] => fd = other

\* Nothing has been read of what the slave sent.
Unread(k) == Len(inbox[k]) = asked[k]

\* Only the first message registers, and it is read once.
InboxInv ==
    \A k \in Clients :
        /\ Len(inbox[k]) <= asked[k]
        /\ \A i \in DOMAIN inbox[k] : inbox[k][i] = "NEW_SOCKET" => i = 1 /\ Unread(k)

\* No descriptor is registered twice, and each is of a connection that has announced itself.
SlavesInv ==
    /\ \A i, j \in DOMAIN slaves : slaves[i] = slaves[j] => i = j
    /\ \A i \in DOMAIN slaves : file[slaves[i]] \in Clients /\ ~Unread(file[slaves[i]])

\* A connection about to be registered has announced itself and is not registered yet.
RegisterInv ==
    mainPc = "register" =>
        /\ idx \in DOMAIN descs /\ Here.fd \in Fds
        /\ file[Here.fd] \in Clients /\ ~Unread(file[Here.fd])
        /\ \A i \in DOMAIN slaves : slaves[i] # Here.fd

\* The socket, or a connection whose slave has not hung up.
Live(fd) == file[fd] # Nobody /\ (file[fd] \in Clients => ~Gone(file[fd]))

\* What is live is polled, by an entry that remove_poll_desc leaves.
LiveInv ==
    \A fd \in Fds : Live(fd) => \E i \in DOMAIN descs : descs[i].fd = fd /\ "HUP" \notin descs[i].rev

\* What is left of a broadcast is the end of the registry.
Sent == Len(slaves) - Len(bc.todo)
\* Who broadcasts, what, and that the slaves before the iterator have been told.
BroadcastInv ==
    /\ bc.by = "nobody" => bc.todo = <<>>
    /\ bc.by = "main" <=> mainPc = "beating"
    /\ bc.by = "device" <=> devPc = "telling"
    /\ bc.by = "main" => bc.what = "PAUSED"
    /\ bc.by = "device" => bc.what = status
    /\ Len(bc.todo) <= Len(slaves)
    /\ \A i \in DOMAIN bc.todo : bc.todo[i] = slaves[Sent + i]
    /\ bc.by # "nobody" /\ bc.what = status => \A i \in 1 .. Sent : file[slaves[i]] \in told

\* Once a heartbeat is due the device cannot be paused again before it is sent.
BeatInv ==
    /\ devPc = "off" => status = "STOPPED"
    /\ mainPc \in {"beat", "beating"} =>
          devPc # "off" /\ status # "INITIALIZING" /\ (status = "PAUSED" \/ request # "PAUSE")

\* All of it.
IInv == /\ TypeInv /\ FlagsInv /\ RoomInv /\ FileInv /\ InboxInv /\ SlavesInv /\ RegisterInv /\ LiveInv
        /\ BroadcastInv /\ BeatInv

-----------------------------------------------------------------------
(* Induction, and what it says of the two operators that walk the polled   *)
(* array.                                                                  *)

\* The theorems of induction of the library take a predicate; these take a set.
LEMMA Least ==
    ASSUME NEW T, T \subseteq Nat, T # {}
    PROVE  \E m \in T : \A n \in T : m <= n
<1>1. PICK m \in T : \A n \in T : ~ (<<n, m>> \in OpToRel(<, Nat))
  BY NatLessThanWellFounded, WFMin, Zenon
<1>2. \A n \in T : ~(n < m)
  BY <1>1 DEF OpToRel
<1> QED  BY <1>2

\* Induction over the natural numbers, by the least that is not in T.
LEMMA SetInduction ==
    ASSUME NEW T, 0 \in T, \A n \in Nat : n \in T => n + 1 \in T
    PROVE  Nat \subseteq T
<1> SUFFICES ASSUME Nat \ T # {} PROVE FALSE
  OBVIOUS
<1>1. PICK m \in Nat \ T : \A n \in Nat \ T : m <= n
  BY Least
<1>2. m # 0 /\ m - 1 \in Nat /\ (m - 1) + 1 = m
  OBVIOUS
<1> QED  BY <1>1, <1>2

\* The entry of the loop that comes next lies ahead.
LEMMA NextReadyAhead ==
    ASSUME NEW ds, Len(ds) \in Nat, NEW i \in 0 .. Len(ds)
    PROVE  NextReady(ds, i) \in i + 1 .. Len(ds) + 1
<1> DEFINE T == {j \in i + 1 .. Len(ds) + 1 : j = Len(ds) + 1 \/ "IN" \in ds[j].rev}
<1>1. T \subseteq Nat /\ Len(ds) + 1 \in T
  OBVIOUS
<1>2. PICK j \in T : \A n \in T : j <= n
  BY <1>1, Least
<1>3. /\ j \in i + 1 .. Len(ds) + 1
      /\ j = Len(ds) + 1 \/ "IN" \in ds[j].rev
      /\ \A between \in i + 1 .. j - 1 : "IN" \notin ds[between].rev
  BY <1>2
<1> QED  BY <1>3 DEF NextReady

\* One round of remove_poll_desc.
Round(s, i) == IF i <= Len(s) /\ "HUP" \in s[i].rev THEN Shrink(s, i) ELSE s

\* An entry that did not hang up is still there.
Keeps(s, t) ==
    /\ s \in Seq(Desc) /\ t \in Seq(Desc) /\ Len(t) <= Len(s)
    /\ \A j \in DOMAIN s : "HUP" \notin s[j].rev => \E i \in DOMAIN t : t[i] = s[j]

\* One removal loses only the entry that hung up.
LEMMA ShrinkKeeps ==
    ASSUME NEW s \in Seq(Desc), NEW i \in DOMAIN s, "HUP" \in s[i].rev
    PROVE  Keeps(s, Shrink(s, i))
<1> DEFINE t == Shrink(s, i)
<1>1. Len(s) \in Nat \ {0} /\ DOMAIN s = 1 .. Len(s) /\ \A j \in DOMAIN s : s[j] \in Desc
  OBVIOUS
<1>2. t = [j \in 1 .. Len(s) - 1 |-> IF j = i THEN s[Len(s)] ELSE s[j]]
  BY DEF Shrink
<1> HIDE DEF t
<1>3. t \in Seq(Desc) /\ Len(t) = Len(s) - 1
  <2>1. \A j \in 1 .. Len(s) - 1 : t[j] \in Desc
    BY <1>1, <1>2
  <2> QED  BY <1>1, <1>2, <2>1
<1>4. ASSUME NEW j \in DOMAIN s, "HUP" \notin s[j].rev PROVE \E h \in DOMAIN t : t[h] = s[j]
  <2>1. j # i
    BY <1>4
  <2>2. CASE j = Len(s)
    <3>1. i \in 1 .. Len(s) - 1 /\ t[i] = s[j]
      BY <1>1, <1>2, <2>1, <2>2
    <3> QED  BY <1>2, <3>1
  <2>3. CASE j # Len(s)
    <3>1. j \in 1 .. Len(s) - 1 /\ t[j] = s[j]
      BY <1>1, <1>2, <2>1, <2>3
    <3> QED  BY <1>2, <3>1
  <2> QED  BY <2>2, <2>3
<1>5. Keeps(s, t)
  BY <1>1, <1>3, <1>4 DEF Keeps
<1> QED  BY <1>5 DEF t

\* Rounds that lose no other entry, one after the other.
LEMMA RoundKeeps ==
    ASSUME NEW r, NEW s, NEW i \in Nat \ {0}, Keeps(r, s)
    PROVE  Keeps(r, Round(s, i))
<1>1. s \in Seq(Desc) /\ DOMAIN s = 1 .. Len(s) /\ Len(s) \in Nat
  BY DEF Keeps
<1>2. Keeps(s, Round(s, i))
  <2>1. CASE i <= Len(s) /\ "HUP" \in s[i].rev
    BY <1>1, <2>1, ShrinkKeeps DEF Round
  <2>2. CASE ~(i <= Len(s) /\ "HUP" \in s[i].rev)
    BY <1>1, <2>2 DEF Round, Keeps
  <2> QED  BY <2>1, <2>2
<1> DEFINE t == Round(s, i)
<1> HIDE DEF t
<1>3. Keeps(s, t)
  BY <1>2 DEF t
<1>4. r \in Seq(Desc) /\ t \in Seq(Desc) /\ Len(t) <= Len(r)
  <2>1. Len(t) \in Nat /\ Len(s) \in Nat /\ Len(r) \in Nat
    BY <1>3 DEF Keeps
  <2> QED  BY <1>3, <2>1 DEF Keeps
<1>5. ASSUME NEW j \in DOMAIN r, "HUP" \notin r[j].rev PROVE \E h \in DOMAIN t : t[h] = r[j]
  <2>1. PICK m \in DOMAIN s : s[m] = r[j]
    BY <1>5 DEF Keeps
  <2> QED  BY <1>3, <1>5, <2>1 DEF Keeps
<1>6. Keeps(r, t)
  BY <1>4, <1>5 DEF Keeps
<1> QED  BY <1>6 DEF t

\* The recursive function of RemoveHung exists.
LEMMA Rounds ==
    ASSUME NEW ds, Len(ds) \in Nat
    PROVE  \E f : /\ f = [i \in 0 .. Len(ds) |-> IF i = 0 THEN ds ELSE Round(f[i - 1], i)]
                  /\ RemoveHung(ds) = f[Len(ds)]
<1> DEFINE T == {n \in Nat : \E f : f = [i \in 0 .. n |-> IF i = 0 THEN ds ELSE Round(f[i - 1], i)]}
<1>1. 0 \in T
  <2> DEFINE f == [i \in 0 .. 0 |-> ds]
  <2>1. f = [i \in 0 .. 0 |-> IF i = 0 THEN ds ELSE Round(f[i - 1], i)]
    OBVIOUS
  <2> QED  BY <2>1
<1>2. ASSUME NEW n \in Nat, n \in T PROVE n + 1 \in T
  <2>1. PICK f : f = [i \in 0 .. n |-> IF i = 0 THEN ds ELSE Round(f[i - 1], i)]
    BY <1>2
  <2> DEFINE g == [i \in 0 .. n + 1 |-> IF i = n + 1 THEN Round(f[n], n + 1) ELSE f[i]]
  <2>2. ASSUME NEW i \in 0 .. n + 1
        PROVE  g[i] = IF i = 0 THEN ds ELSE Round(g[i - 1], i)
    <3>1. CASE i = n + 1
      <4>1. g[i - 1] = f[n]  BY <3>1
      <4> QED  BY <3>1, <4>1
    <3>2. CASE i \in 1 .. n
      <4>1. g[i] = f[i] /\ g[i - 1] = f[i - 1]  BY <3>2
      <4>2. f[i] = Round(f[i - 1], i)  BY <2>1, <3>2
      <4> QED  BY <3>2, <4>1, <4>2
    <3>3. CASE i = 0
      <4>1. g[i] = f[i] /\ f[i] = ds  BY <2>1, <3>3
      <4> QED  BY <3>3, <4>1
    <3> QED  BY <3>1, <3>2, <3>3
  <2>3. g = [i \in 0 .. n + 1 |-> IF i = 0 THEN ds ELSE Round(g[i - 1], i)]
    BY <2>2
  <2> HIDE DEF g
  <2>4. n + 1 \in Nat
    OBVIOUS
  <2> QED  BY <2>3, <2>4
<1>3. Len(ds) \in T
  <2> HIDE DEF T
  <2> QED  BY <1>1, <1>2, SetInduction
<1>4. PICK f : f = [i \in 0 .. Len(ds) |-> IF i = 0 THEN ds ELSE Round(f[i - 1], i)]
  BY <1>3
<1> DEFINE h == CHOOSE g : g = [i \in 0 .. Len(ds) |-> IF i = 0 THEN ds ELSE Round(g[i - 1], i)]
<1>5. h = [i \in 0 .. Len(ds) |-> IF i = 0 THEN ds ELSE Round(h[i - 1], i)]
  BY <1>4
<1>6. RemoveHung(ds) = h[Len(ds)]
  BY DEF RemoveHung, Round
<1> QED  BY <1>5, <1>6

\* What remove_poll_desc does to an array of any length: no entry that did not
\* hang up is lost, though the last one takes the place of each that is removed.
LEMMA RemoveHungKeeps ==
    ASSUME NEW ds \in Seq(Desc)
    PROVE  Keeps(ds, RemoveHung(ds))
<1>0. Len(ds) \in Nat
  OBVIOUS
<1>1. PICK f : /\ f = [i \in 0 .. Len(ds) |-> IF i = 0 THEN ds ELSE Round(f[i - 1], i)]
               /\ RemoveHung(ds) = f[Len(ds)]
  BY <1>0, Rounds
<1> DEFINE T == {n \in Nat : n <= Len(ds) => Keeps(ds, f[n])}
<1>2. 0 \in T
  <2>1. f[0] = ds  BY <1>0, <1>1
  <2> QED  BY <1>0, <2>1 DEF Keeps
<1>3. ASSUME NEW n \in Nat, n \in T PROVE n + 1 \in T
  <2>1. CASE n + 1 <= Len(ds)
    <3>1. f[n + 1] = Round(f[n], n + 1)  BY <1>0, <1>1, <2>1
    <3>2. Keeps(ds, f[n])  BY <1>0, <1>3, <2>1
    <3> QED  BY <3>1, <3>2, RoundKeeps
  <2>2. CASE ~(n + 1 <= Len(ds))
    BY <2>2
  <2> QED  BY <2>1, <2>2
<1>4. Len(ds) \in T
  <2> HIDE DEF T
  <2> QED  BY <1>0, <1>2, <1>3, SetInduction
<1> QED  BY <1>0, <1>1, <1>4

-----------------------------------------------------------------------
(* What a step keeps by leaving its variables alone. *)

\* RoomInv looks at the length of the array and at who was accepted.
LEMMA RoomKept ==
    ASSUME RoomInv, peer' = peer, backlog' = backlog, Len(descs') = Len(descs)
    PROVE  RoomInv'
BY DEF RoomInv, Accepted

\* FileInv looks at the descriptors and at who was accepted.
LEMMA FileKept ==
    ASSUME FileInv, peer' = peer, backlog' = backlog, file' = file
    PROVE  FileInv'
BY DEF FileInv, Accepted

\* InboxInv looks at the messages.
LEMMA InboxKept ==
    ASSUME InboxInv, inbox' = inbox, asked' = asked
    PROVE  InboxInv'
BY DEF InboxInv, Unread

\* SlavesInv looks at the registry, at the descriptors and at the messages.
LEMMA SlavesKept ==
    ASSUME SlavesInv, slaves' = slaves, file' = file, inbox' = inbox, asked' = asked
    PROVE  SlavesInv'
BY DEF SlavesInv, Unread

\* RegisterInv looks at these and at where the scan is.
LEMMA RegisterKept ==
    ASSUME RegisterInv, mainPc' = mainPc, idx' = idx, descs' = descs, slaves' = slaves, file' = file,
           inbox' = inbox, asked' = asked
    PROVE  RegisterInv'
BY DEF RegisterInv, Here, Unread

\* LiveInv looks at the array and at who is there.
LEMMA LiveKept ==
    ASSUME LiveInv, file' = file, peer' = peer, descs' = descs
    PROVE  LiveInv'
BY DEF LiveInv, Live, Gone

\* BroadcastInv looks at the broadcast, the registry and the status.
LEMMA BroadcastKept ==
    ASSUME BroadcastInv, bc' = bc, (mainPc' = "beating") <=> (mainPc = "beating"), devPc' = devPc, status' = status,
           slaves' = slaves, file' = file, told' = told
    PROVE  BroadcastInv'
BY DEF BroadcastInv, Sent

\* A heartbeat that is not due cannot be disturbed.
LEMMA BeatKept ==
    ASSUME BeatInv, devPc' = devPc, status' = status, request' = request,
           mainPc' \in {"beat", "beating"} => mainPc \in {"beat", "beating"}
    PROVE  BeatInv'
BY DEF BeatInv

\* The main loop leaves a broadcast under way to the other thread.
LEMMA MainKept ==
    ASSUME NEW p, p \notin {"beat", "beating"}, mainPc' = p, IInv, mainPc # "beating",
           UNCHANGED <<bc, devPc, status, slaves, file, told>>,
           request' = request
    PROVE  BroadcastInv' /\ BeatInv'
BY BroadcastKept, BeatKept DEF IInv

-----------------------------------------------------------------------
(* The slaves. *)

\* A slave connects: it waits in the backlog and nobody else notices.
LEMMA ConnectInv == ASSUME IInv, NEW k \in Clients, Connect(k) PROVE IInv'
<1> USE DEF Connect, clientVars, loopVars, devVars
<1>0. peer \in [Clients -> {"away", "up", "gone"}] /\ backlog \subseteq Clients
  BY DEF IInv, TypeInv
<1>1. TypeInv' /\ FlagsInv'
  BY DEF IInv, TypeInv, FlagsInv
<1>2. Accepted' = Accepted
  BY <1>0 DEF Accepted
<1>3. RoomInv'
  BY <1>0, <1>2 DEF IInv, RoomInv
<1>4. FileInv'
  BY <1>2 DEF IInv, FileInv
<1>5. InboxInv' /\ SlavesInv' /\ RegisterInv'
  BY InboxKept, SlavesKept, RegisterKept DEF IInv
<1>6. \A fd \in Fds : Live(fd)' => Live(fd)
  BY <1>0 DEF Live, Gone
<1>7. LiveInv'
  BY <1>6 DEF IInv, LiveInv
<1>8. BroadcastInv' /\ BeatInv'
  BY BroadcastKept, BeatKept DEF IInv
<1> QED  BY <1>1, <1>3, <1>4, <1>5, <1>7, <1>8 DEF IInv

\* A slave hangs up: fewer are live.
LEMMA HangUpInv == ASSUME IInv, NEW k \in Clients, HangUp(k) PROVE IInv'
<1> USE DEF HangUp, clientVars, loopVars, devVars
<1>0. peer \in [Clients -> {"away", "up", "gone"}] /\ backlog \subseteq Clients
  BY DEF IInv, TypeInv
<1>1. TypeInv' /\ FlagsInv'
  BY DEF IInv, TypeInv, FlagsInv
<1>2. Accepted' = Accepted
  BY <1>0 DEF Accepted
<1>3. RoomInv'
  BY <1>0, <1>2 DEF IInv, RoomInv
<1>4. FileInv'
  BY <1>2 DEF IInv, FileInv
<1>5. InboxInv' /\ SlavesInv' /\ RegisterInv'
  BY InboxKept, SlavesKept, RegisterKept DEF IInv
<1>6. \A fd \in Fds : Live(fd)' => Live(fd)
  BY <1>0 DEF Live, Gone
<1>7. LiveInv'
  BY <1>6 DEF IInv, LiveInv
<1>8. BroadcastInv' /\ BeatInv'
  BY BroadcastKept, BeatKept DEF IInv
<1> QED  BY <1>1, <1>3, <1>4, <1>5, <1>7, <1>8 DEF IInv

\* CMD_NEW_SOCKET is sent once, and nothing is unread before it is.
LEMMA AskInv == ASSUME ConstantsAssumption, IInv, NEW k \in Clients, Ask(k) PROVE IInv'
<1> USE DEF Ask
<1>0. /\ inbox \in [Clients -> Seq(MessageSet)] /\ asked \in [Clients -> 0 .. MaxCommands + 1]
      /\ asked[k] \in Nat /\ Len(inbox[k]) \in Nat /\ MaxCommands \in Nat
  BY DEF IInv, TypeInv, ConstantsAssumption
<1>1. PICK m \in IF asked[k] = 0 THEN {"NEW_SOCKET"} ELSE Commands :
         inbox' = [inbox EXCEPT ![k] = Append(@, m)]
  OBVIOUS
<1>2. m \in MessageSet /\ (m = "NEW_SOCKET" => asked[k] = 0)
  BY <1>1 DEF ConstantsAssumption, MessageSet, AllCommands
<1>3. /\ asked' \in [Clients -> 0 .. MaxCommands + 1] /\ asked'[k] = asked[k] + 1
      /\ \A h \in Clients \ {k} : asked'[h] = asked[h]
  BY <1>0
<1>4. /\ inbox' \in [Clients -> Seq(MessageSet)] /\ inbox'[k] = Append(inbox[k], m)
      /\ \A h \in Clients \ {k} : inbox'[h] = inbox[h]
  BY <1>0, <1>1, <1>2
<1>5. /\ Len(inbox'[k]) = Len(inbox[k]) + 1 /\ DOMAIN inbox'[k] = 1 .. Len(inbox[k]) + 1
      /\ \A i \in 1 .. Len(inbox[k]) : inbox'[k][i] = inbox[k][i]
      /\ inbox'[k][Len(inbox[k]) + 1] = m
  BY <1>0, <1>2, <1>4
<1>6. TypeInv'
  BY <1>3, <1>4 DEF IInv, TypeInv, clientVars, loopVars, devVars
<1>7. FlagsInv'
  BY DEF IInv, FlagsInv, loopVars
<1>8. \A h \in Clients : Unread(h)' <=> Unread(h)
  BY <1>0, <1>3, <1>4, <1>5 DEF Unread
<1>9. InboxInv'
  <2> SUFFICES ASSUME NEW h \in Clients
               PROVE  /\ Len(inbox'[h]) <= asked'[h]
                      /\ \A i \in DOMAIN inbox'[h] : inbox'[h][i] = "NEW_SOCKET" => i = 1 /\ Unread(h)
    BY <1>8 DEF InboxInv
  <2>1. CASE h # k
    BY <1>3, <1>4, <2>1 DEF IInv, InboxInv
  <2>2. CASE h = k
    <3>1. /\ Len(inbox[k]) <= asked[k]
          /\ \A i \in 1 .. Len(inbox[k]) : inbox[k][i] = "NEW_SOCKET" => i = 1 /\ Unread(k)
      BY <1>0 DEF IInv, InboxInv
    <3>2. m = "NEW_SOCKET" => Len(inbox[k]) = 0 /\ Unread(k)
      BY <1>0, <1>2, <3>1 DEF Unread
    <3> QED  BY <1>0, <1>3, <1>5, <2>2, <3>1, <3>2
  <2> QED  BY <2>1, <2>2
<1>10. RoomInv' /\ FileInv' /\ LiveInv' /\ BroadcastInv' /\ BeatInv'
  BY RoomKept, FileKept, LiveKept, BroadcastKept, BeatKept DEF IInv, loopVars, devVars
<1>11. SlavesInv'
  BY <1>8 DEF IInv, SlavesInv
<1>12. RegisterInv'
  BY <1>8 DEF IInv, RegisterInv, Here, loopVars
<1> QED  BY <1>6, <1>7, <1>9, <1>10, <1>11, <1>12 DEF IInv

\* A GUI asks the master to stop.
LEMMA AskToStopInv == ASSUME IInv, AskToStop PROVE IInv'
<1> USE DEF AskToStop, clientVars, loopVars, devVars
<1>1. TypeInv'
  BY DEF IInv, TypeInv
<1>2. FlagsInv'
  BY DEF IInv, FlagsInv
<1>3. RoomInv' /\ FileInv' /\ InboxInv' /\ SlavesInv' /\ RegisterInv' /\ LiveInv' /\ BroadcastInv' /\ BeatInv'
  BY RoomKept, FileKept, InboxKept, SlavesKept, RegisterKept, LiveKept, BroadcastKept, BeatKept DEF IInv
<1> QED  BY <1>1, <1>2, <1>3 DEF IInv

-----------------------------------------------------------------------
(* The main loop. *)

\* The steps of the main loop that leave the array of descriptors alone.
LEMMA LoopKept ==
    ASSUME IInv, UNCHANGED <<clientVars, inbox, file, slaves, stop, devVars, bc, told>>,
           descs' = descs, mainPc # "beating", mainPc' \notin {"register", "beating"},
           mainPc' \in {"test", "poll", "scan", "beat", "left"},
           mainPc' = "beat" => mainPc = "beat" \/ status = "PAUSED",
           idx' \in 1 .. Len(descs) + 1, heartbeat' \in 0 .. HeartbeatAfter,
           closeConn' \in BOOLEAN, noSlaves' = noSlaves
    PROVE  IInv'
<1> USE DEF clientVars, devVars
<1>1. TypeInv'
  BY DEF IInv, TypeInv
<1>2. FlagsInv'
  BY DEF IInv, FlagsInv
<1>3. RoomInv' /\ FileInv' /\ InboxInv' /\ SlavesInv' /\ LiveInv'
  BY RoomKept, FileKept, InboxKept, SlavesKept, LiveKept DEF IInv
<1>4. RegisterInv'
  BY DEF RegisterInv
<1>5. BroadcastInv'
  BY BroadcastKept DEF IInv
<1>6. BeatInv'
  BY DEF IInv, BeatInv
<1> QED  BY <1>1, <1>2, <1>3, <1>4, <1>5, <1>6 DEF IInv

\* The test of the loop.
LEMMA TestLoopInv == ASSUME IInv, TestLoop PROVE IInv'
<1>1. mainPc = "test" /\ mainPc' \in {"left", "poll"}
  BY DEF TestLoop, MainAt
<1>2. UNCHANGED <<clientVars, inbox, file, slaves, stop, devVars, bc, told>>
  BY DEF TestLoop
<1>3. /\ descs' = descs /\ idx' = idx /\ idx \in 1 .. Len(descs) + 1
      /\ heartbeat' = heartbeat /\ heartbeat \in 0 .. HeartbeatAfter
  BY DEF TestLoop, IInv, TypeInv
<1>4. closeConn' = closeConn /\ noSlaves' = noSlaves /\ closeConn \in BOOLEAN
  BY DEF TestLoop, IInv, FlagsInv
<1> QED  BY <1>1, <1>2, <1>3, <1>4, LoopKept

\* A heartbeat is due only while the device is paused.
LEMMA PollTimeoutInv == ASSUME ConstantsAssumption, IInv, PollTimeout PROVE IInv'
<1>1. /\ mainPc = "poll" /\ mainPc' \in {"test", "beat"}
      /\ mainPc' = "beat" => status = "PAUSED"
  BY DEF PollTimeout, MainAt
<1>2. UNCHANGED <<clientVars, inbox, file, slaves, stop, devVars, bc, told>>
  BY DEF PollTimeout
<1>3. descs' = descs /\ idx' = idx /\ idx \in 1 .. Len(descs) + 1
  BY DEF PollTimeout, IInv, TypeInv
<1>4. heartbeat' \in 0 .. HeartbeatAfter
  BY DEF PollTimeout, IInv, TypeInv, ConstantsAssumption
<1>5. closeConn' = closeConn /\ noSlaves' = noSlaves /\ closeConn \in BOOLEAN
  BY DEF PollTimeout, IInv, FlagsInv
<1> QED  BY <1>1, <1>2, <1>3, <1>4, <1>5, LoopKept

\* Where the scan goes on from.
LEMMA NextDescTyped ==
    ASSUME TypeInv, FlagsInv, Scanning, NextDesc
    PROVE  idx' \in 1 .. Len(descs) + 1 /\ closeConn' \in BOOLEAN /\ idx \in DOMAIN descs
<1>1. descs \in Seq(Desc) /\ Len(descs) \in Nat /\ idx \in 1 .. Len(descs)
  BY DEF TypeInv, Scanning
<1>2. NextReady(descs, idx) \in idx + 1 .. Len(descs) + 1
  BY <1>1, NextReadyAhead
<1>3. idx' = NextReady(descs, idx) /\ closeConn' = (closeConn \/ "HUP" \in Here.rev)
  BY DEF NextDesc
<1>4. closeConn' \in BOOLEAN
  BY <1>3, Zenon DEF FlagsInv
<1> QED  BY <1>1, <1>2, <1>3, <1>4

\* End of file at an entry.
LEMMA ReadNothingInv == ASSUME IInv, ReadNothing PROVE IInv'
<1>1. mainPc = "scan" /\ mainPc' = "scan" /\ Scanning /\ NextDesc
  BY DEF ReadNothing, Reading, Scanning
<1>2. UNCHANGED <<clientVars, inbox, file, slaves, stop, devVars, bc, told>>
  BY DEF ReadNothing
<1>3. idx' \in 1 .. Len(descs) + 1 /\ closeConn' \in BOOLEAN
  BY <1>1, NextDescTyped DEF IInv
<1>4. descs' = descs /\ heartbeat' = heartbeat /\ heartbeat \in 0 .. HeartbeatAfter /\ noSlaves' = noSlaves
  BY DEF ReadNothing, IInv, TypeInv
<1> QED  BY <1>1, <1>2, <1>3, <1>4, LoopKept

\* What poll() reports.
LEMMA EventsTyped ==
    ASSUME TypeInv, NEW fd \in Fds \cup {NoFd}
    PROVE  /\ Events(fd) \in SUBSET {"IN", "HUP", "NVAL"}
           /\ fd \in Fds /\ Live(fd) => "HUP" \notin Events(fd)
<1>1. CASE fd = NoFd
  BY <1>1 DEF Events, NoFd, Fds
<1>2. CASE fd # NoFd
  <2>1. file[fd] \in Clients \cup {"listener", Nobody}
    BY <1>2 DEF TypeInv
  <2>2. CASE file[fd] = Nobody
    BY <1>2, <2>2 DEF Events, Live
  <2>3. CASE file[fd] # Nobody /\ file[fd] = "listener"
    BY <1>2, <2>3, ConstantsAssumption DEF Events, ConstantsAssumption
  <2>4. CASE file[fd] # Nobody /\ file[fd] # "listener" /\ file[fd] \in Clients
    BY <1>2, <2>4 DEF Events, Live
  <2> QED  BY <2>1, <2>2, <2>3, <2>4
<1> QED  BY <1>1, <1>2

\* The array after a step in which the main loop alone moved.
LEMMA ArrayKept ==
    ASSUME IInv, UNCHANGED <<clientVars, inbox, file, slaves, stop, devVars, bc, told>>,
           UNCHANGED <<heartbeat, noSlaves>>,
           mainPc \in {"poll", "scan"}, mainPc' \in {"test", "scan"},
           descs' \in Seq(Desc), Len(descs') <= Len(descs),
           idx' \in 1 .. Len(descs') + 1, closeConn' \in BOOLEAN, LiveInv'
    PROVE  IInv'
<1> USE DEF clientVars, devVars
<1>1. TypeInv'
  BY DEF IInv, TypeInv
<1>2. FlagsInv'
  BY DEF IInv, FlagsInv
<1>3. FileInv' /\ InboxInv' /\ SlavesInv'
  BY FileKept, InboxKept, SlavesKept DEF IInv
<1>4. RoomInv'
  <2>1. Accepted' = Accepted
    BY DEF Accepted
  <2>2. IsFiniteSet(Accepted)
    BY FS_Subset, ConstantsAssumption DEF ConstantsAssumption, Accepted
  <2>3. Cardinality(Accepted) \in Nat /\ Len(descs) \in Nat /\ Len(descs') \in Nat
    BY <2>2, FS_CardinalityType DEF IInv, TypeInv
  <2> QED  BY <2>1, <2>3 DEF IInv, RoomInv
<1>5. RegisterInv'
  BY DEF RegisterInv
<1>6. BroadcastInv'
  BY BroadcastKept DEF IInv
<1>7. BeatInv'
  BY DEF IInv, BeatInv
<1> QED  BY <1>1, <1>2, <1>3, <1>4, <1>5, <1>6, <1>7 DEF IInv

\* A poll that reports something: no entry of a live slave reports POLLHUP.
LEMMA PollInv == ASSUME IInv, Poll PROVE IInv'
<1>0. descs \in Seq(Desc) /\ Len(descs) \in Nat /\ DOMAIN descs = 1 .. Len(descs)
      /\ \A i \in DOMAIN descs : descs[i] \in Desc
  BY DEF IInv, TypeInv
<1>1. mainPc = "poll" /\ mainPc' = "scan"
  BY DEF Poll, MainAt
<1>2. descs' = [i \in DOMAIN descs |-> [descs[i] EXCEPT !.rev = Events(descs[i].fd)]]
  BY DEF Poll, Polled
<1>3. \A i \in DOMAIN descs : descs[i].fd \in Fds \cup {NoFd}
  BY <1>0 DEF Desc
<1>4. \A i \in DOMAIN descs : Events(descs[i].fd) \in SUBSET {"IN", "HUP", "NVAL"}
  BY <1>3, EventsTyped DEF IInv
<1>5. \A i \in DOMAIN descs : /\ descs'[i] \in Desc /\ descs'[i].fd = descs[i].fd
                              /\ descs'[i].rev = Events(descs[i].fd)
  <2> SUFFICES ASSUME NEW i \in DOMAIN descs
               PROVE  /\ descs'[i] \in Desc /\ descs'[i].fd = descs[i].fd
                      /\ descs'[i].rev = Events(descs[i].fd)
    OBVIOUS
  <2> DEFINE d == descs[i]
             e == Events(descs[i].fd)
  <2>1. d \in [fd : Fds \cup {NoFd}, rev : SUBSET {"IN", "HUP", "NVAL"}]
    BY <1>0 DEF Desc
  <2>2. e \in SUBSET {"IN", "HUP", "NVAL"}
    BY <1>4
  <2>3. descs'[i] = [d EXCEPT !.rev = e]
    BY <1>2
  <2> HIDE DEF d, e
  <2>4. /\ [d EXCEPT !.rev = e] \in [fd : Fds \cup {NoFd}, rev : SUBSET {"IN", "HUP", "NVAL"}]
        /\ [d EXCEPT !.rev = e].fd = d.fd /\ [d EXCEPT !.rev = e].rev = e
    BY <2>1, <2>2
  <2>5. d.fd = descs[i].fd /\ e = Events(descs[i].fd)
    BY DEF d, e
  <2> QED  BY <2>3, <2>4, <2>5 DEF Desc
<1>6. descs' \in Seq(Desc) /\ Len(descs') = Len(descs) /\ DOMAIN descs' = DOMAIN descs
  <2>1. DOMAIN descs' = 1 .. Len(descs) /\ descs' = [i \in 1 .. Len(descs) |-> descs'[i]]
    BY <1>0, <1>2, Zenon
  <2>2. descs' \in [1 .. Len(descs) -> Desc]
    BY <1>0, <1>5, <2>1
  <2>3. descs' \in Seq(Desc)
    BY <1>0, <2>2
  <2> QED  BY <1>0, <2>1, <2>3
<1>7. idx' \in 1 .. Len(descs') + 1
  <2>1. idx' = NextReady(descs', 0)
    BY DEF Poll
  <2>2. Len(descs') \in Nat /\ 0 \in 0 .. Len(descs')
    BY <1>0, <1>6
  <2>3. NextReady(descs', 0) \in 0 + 1 .. Len(descs') + 1
    BY <2>2, NextReadyAhead
  <2> QED  BY <2>1, <2>3
<1>8. LiveInv'
  <2> SUFFICES ASSUME NEW fd \in Fds, Live(fd)
               PROVE  \E i \in DOMAIN descs' : descs'[i].fd = fd /\ "HUP" \notin descs'[i].rev
    BY DEF LiveInv, Live, Gone, Poll, clientVars
  <2>1. PICK i \in DOMAIN descs : descs[i].fd = fd
    BY DEF IInv, LiveInv
  <2>2. "HUP" \notin Events(fd)
    BY EventsTyped DEF IInv
  <2> QED  BY <1>5, <1>6, <2>1, <2>2
<1>9. UNCHANGED <<clientVars, inbox, file, slaves, stop, devVars, bc, told>> /\ UNCHANGED <<heartbeat, noSlaves>>
  BY DEF Poll
<1>10. closeConn' \in BOOLEAN
  BY DEF Poll
<1>11. Len(descs') <= Len(descs)
  BY <1>0, <1>6
<1> QED  BY <1>1, <1>6, <1>7, <1>8, <1>9, <1>10, <1>11, ArrayKept

\* A read that fails: the entry was of a slave that is not there.
LEMMA ReadErrorInv == ASSUME IInv, ReadError PROVE IInv'
<1>0. descs \in Seq(Desc) /\ Len(descs) \in Nat /\ idx \in 1 .. Len(descs) /\ descs[idx] \in Desc
  BY DEF IInv, TypeInv, ReadError, Reading, Scanning
<1>1. mainPc = "scan" /\ mainPc' = "scan"
  BY DEF ReadError, Reading, Scanning
<1> DEFINE cut == [descs[idx] EXCEPT !.fd = NoFd]
<1>2. descs' = [descs EXCEPT ![idx] = cut]
  BY DEF ReadError
<1>3. cut \in Desc
  BY <1>0 DEF Desc
<1> HIDE DEF cut
<1>4. /\ descs' \in Seq(Desc) /\ Len(descs') = Len(descs) /\ DOMAIN descs' = DOMAIN descs
      /\ \A i \in DOMAIN descs \ {idx} : descs'[i] = descs[i]
  BY <1>0, <1>2, <1>3
<1>5. idx' \in 1 .. Len(descs') + 1
  <2>1. idx' = NextReady(descs, idx)
    BY DEF ReadError
  <2>2. NextReady(descs, idx) \in idx + 1 .. Len(descs) + 1
    BY <1>0, NextReadyAhead
  <2> QED  BY <1>0, <1>4, <2>1, <2>2
<1>6. LiveInv'
  <2> SUFFICES ASSUME NEW fd \in Fds, Live(fd)
               PROVE  \E i \in DOMAIN descs' : descs'[i].fd = fd /\ "HUP" \notin descs'[i].rev
    BY DEF LiveInv, Live, Gone, ReadError, clientVars
  <2>1. PICK i \in DOMAIN descs : descs[i].fd = fd /\ "HUP" \notin descs[i].rev
    BY DEF IInv, LiveInv
  <2>2. i # idx
    <3>1. ASSUME i = idx PROVE FALSE
      <4>1. Here.fd = fd /\ fd # NoFd
        BY <2>1, <3>1 DEF Here, Fds, NoFd
      <4>2. Source = file[fd]
        BY <4>1 DEF Source
      <4>3. file[fd] # Nobody /\ (file[fd] \in Clients => ~Gone(file[fd]))
        BY DEF Live
      <4>4. file[fd] \notin Clients
        BY <4>2, <4>3 DEF ReadError
      <4>5. file[fd] = "listener"
        BY <4>3, <4>4 DEF IInv, TypeInv
      <4>6. fd = Listening
        BY <4>5 DEF IInv, FileInv
      <4> QED  BY <4>1, <4>6 DEF ReadError, Reading
    <3> QED  BY <3>1
  <2> QED  BY <1>4, <2>1, <2>2
<1>7. UNCHANGED <<clientVars, inbox, file, slaves, stop, devVars, bc, told>> /\ UNCHANGED <<heartbeat, noSlaves>>
  BY DEF ReadError
<1>8. closeConn' \in BOOLEAN
  BY DEF ReadError
<1>9. Len(descs') <= Len(descs)
  BY <1>0, <1>4
<1> QED  BY <1>1, <1>4, <1>5, <1>6, <1>7, <1>8, <1>9, ArrayKept

\* remove_poll_desc loses no descriptor of a slave that is there.
LEMMA EndScanInv == ASSUME IInv, EndScan PROVE IInv'
<1> DEFINE kept == IF closeConn THEN RemoveHung(descs) ELSE descs
<1>0. descs \in Seq(Desc) /\ Len(descs) \in Nat
  BY DEF IInv, TypeInv
<1>1. mainPc = "scan" /\ mainPc' = "test"
  BY DEF EndScan
<1>2. Keeps(descs, kept)
  <2>1. CASE closeConn
    BY <1>0, <2>1, RemoveHungKeeps
  <2>2. CASE ~closeConn
    BY <1>0, <2>2 DEF Keeps
  <2> QED  BY <2>1, <2>2
<1>3. descs' = [i \in DOMAIN kept |-> [kept[i] EXCEPT !.rev = {}]]
  BY DEF EndScan
<1> HIDE DEF kept
<1>4. kept \in Seq(Desc) /\ Len(kept) \in Nat /\ Len(kept) <= Len(descs) /\ DOMAIN kept = 1 .. Len(kept)
  BY <1>2 DEF Keeps
<1>5. \A i \in DOMAIN kept : descs'[i] \in Desc /\ descs'[i].fd = kept[i].fd /\ descs'[i].rev = {}
  <2> SUFFICES ASSUME NEW i \in DOMAIN kept
               PROVE  descs'[i] \in Desc /\ descs'[i].fd = kept[i].fd /\ descs'[i].rev = {}
    OBVIOUS
  <2> DEFINE d == kept[i]
  <2>1. d \in [fd : Fds \cup {NoFd}, rev : SUBSET {"IN", "HUP", "NVAL"}]
    <3>1. kept[i] \in Desc
      BY <1>4
    <3> QED  BY <3>1 DEF Desc
  <2>2. descs'[i] = [d EXCEPT !.rev = {}]
    BY <1>3
  <2> HIDE DEF d
  <2>3. /\ [d EXCEPT !.rev = {}] \in [fd : Fds \cup {NoFd}, rev : SUBSET {"IN", "HUP", "NVAL"}]
        /\ [d EXCEPT !.rev = {}].fd = d.fd /\ [d EXCEPT !.rev = {}].rev = {}
    BY <2>1
  <2>4. d.fd = kept[i].fd
    BY DEF d
  <2> QED  BY <2>2, <2>3, <2>4 DEF Desc
<1>6. descs' \in Seq(Desc) /\ Len(descs') = Len(kept) /\ DOMAIN descs' = DOMAIN kept
  BY <1>3, <1>4, <1>5
<1>7. LiveInv'
  <2> SUFFICES ASSUME NEW fd \in Fds, Live(fd)
               PROVE  \E i \in DOMAIN descs' : descs'[i].fd = fd /\ "HUP" \notin descs'[i].rev
    BY DEF LiveInv, Live, Gone, EndScan, clientVars
  <2>1. PICK j \in DOMAIN descs : descs[j].fd = fd /\ "HUP" \notin descs[j].rev
    BY DEF IInv, LiveInv
  <2>2. PICK i \in DOMAIN kept : kept[i] = descs[j]
    BY <1>2, <2>1 DEF Keeps
  <2> QED  BY <1>5, <1>6, <2>1, <2>2
<1>8. UNCHANGED <<clientVars, inbox, file, slaves, stop, devVars, bc, told>> /\ UNCHANGED <<heartbeat, noSlaves>>
  BY DEF EndScan
<1>9. idx' \in 1 .. Len(descs') + 1 /\ Len(descs') <= Len(descs)
  BY <1>0, <1>4, <1>6 DEF EndScan
<1>10. closeConn' \in BOOLEAN
  BY DEF EndScan
<1> QED  BY <1>1, <1>6, <1>7, <1>8, <1>9, <1>10, ArrayKept

\* A message is read: of CMD_NEW_SOCKET it was the first.
LEMMA ReadMessageInv == ASSUME IInv, ReadMessage PROVE IInv'
<1>0. /\ mainPc = "scan" /\ idx \in 1 .. Len(descs) /\ descs \in Seq(Desc) /\ descs[idx] \in Desc
      /\ Source \in Clients /\ Here.fd \in Fds /\ file[Here.fd] = Source /\ inbox[Source] # <<>>
  <2>1. /\ mainPc = "scan" /\ idx \in 1 .. Len(descs) /\ descs \in Seq(Desc) /\ descs[idx] \in Desc
        /\ Source # Nobody /\ Here.fd # Listening /\ inbox[Source] # <<>>
    BY DEF IInv, TypeInv, ReadMessage, Reading, Scanning
  <2>2. Here.fd # NoFd /\ Source = file[Here.fd]
    BY <2>1 DEF Source
  <2>3. Here.fd \in Fds
    BY <2>1, <2>2 DEF Here, Desc
  <2>4. Source \in Clients
    BY <2>1, <2>2, <2>3 DEF IInv, TypeInv, FileInv
  <2> QED  BY <2>1, <2>2, <2>3, <2>4
<1>k. PICK k \in Clients : k = Source /\ file[Here.fd] = k /\ inbox[k] # <<>>
  BY <1>0
<1>m. PICK m : m = Head(inbox[k])
  OBVIOUS
<1>1. /\ inbox \in [Clients -> Seq(MessageSet)] /\ asked \in [Clients -> 0 .. MaxCommands + 1]
      /\ inbox' = [inbox EXCEPT ![k] = Tail(inbox[k])] /\ asked' = asked
  BY <1>k DEF IInv, TypeInv, ReadMessage, clientVars
<1>2. UNCHANGED <<clientVars, file, descs, slaves, heartbeat, noSlaves, stop, status, devPc, bc, told>>
  BY DEF ReadMessage
<1>3. /\ request' = (IF m \in DOMAIN Asking THEN Asking[m] ELSE request)
      /\ IF m = "NEW_SOCKET" THEN mainPc' = "register" /\ UNCHANGED <<idx, closeConn>>
                             ELSE NextDesc /\ mainPc' = "scan"
  BY <1>0, <1>k, <1>m DEF ReadMessage, MainAt
<1>4. inbox[k] \in Seq(MessageSet) /\ Len(inbox[k]) \in Nat \ {0} /\ asked[k] \in Nat /\ m = inbox[k][1]
  BY <1>k, <1>m, <1>1
<1>5. /\ inbox' \in [Clients -> Seq(MessageSet)] /\ inbox'[k] = Tail(inbox[k])
      /\ \A h \in Clients \ {k} : inbox'[h] = inbox[h]
      /\ Len(inbox'[k]) = Len(inbox[k]) - 1 /\ DOMAIN inbox'[k] = 1 .. Len(inbox[k]) - 1
      /\ \A i \in 1 .. Len(inbox[k]) - 1 : inbox'[k][i] = inbox[k][i + 1]
  BY <1>0, <1>1, <1>4
<1>6. request' \in {"CONTINUE", "PAUSE", "RUN"}
  BY <1>3 DEF Asking, IInv, TypeInv
<1>7. /\ idx' \in 1 .. Len(descs) + 1 /\ closeConn' \in BOOLEAN
      /\ mainPc' \in {"register", "scan"}
      /\ mainPc' = "register" => m = "NEW_SOCKET" /\ idx' = idx
  <2>1. CASE m = "NEW_SOCKET"
    BY <1>0, <1>3, <2>1 DEF IInv, FlagsInv
  <2>2. CASE m # "NEW_SOCKET"
    <3>1. Scanning
      BY DEF ReadMessage, Reading
    <3> QED  BY <1>3, <2>2, <3>1, NextDescTyped DEF IInv
  <2> QED  BY <2>1, <2>2
<1>8. TypeInv'
  BY <1>2, <1>5, <1>6, <1>7 DEF IInv, TypeInv, clientVars
<1>9. FlagsInv'
  BY <1>2, <1>7 DEF IInv, FlagsInv
\* Nothing is unread of a connection only until its first message is read.
<1>10. /\ ~Unread(k)' /\ Len(inbox[k]) <= asked[k]
       /\ m = "NEW_SOCKET" => Unread(k)
       /\ \A h \in Clients : Unread(h)' => Unread(h)
  <2>1. Len(inbox[k]) <= asked[k]
    BY <1>0 DEF IInv, InboxInv
  <2>2. ~Unread(k)'
    BY <1>1, <1>4, <1>5, <2>1 DEF Unread
  <2>3. ASSUME NEW h \in Clients, Unread(h)' PROVE Unread(h)
    <3>1. h # k
      BY <2>2, <2>3
    <3>2. inbox'[h] = inbox[h] /\ asked' = asked
      BY <1>1, <1>5, <3>1
    <3> QED  BY <2>3, <3>2 DEF Unread
  <2>4. m = "NEW_SOCKET" => Unread(k)
    <3>1. 1 \in DOMAIN inbox[k]
      BY <1>4
    <3> QED  BY <1>4, <3>1 DEF IInv, InboxInv
  <2> QED  BY <2>1, <2>2, <2>3, <2>4
<1>11. InboxInv'
  <2> SUFFICES ASSUME NEW h \in Clients
               PROVE  /\ Len(inbox'[h]) <= asked'[h]
                      /\ \A i \in DOMAIN inbox'[h] : inbox'[h][i] = "NEW_SOCKET" => i = 1 /\ Unread(h)'
    BY DEF InboxInv
  <2>1. CASE h # k
    BY <1>1, <1>5, <2>1 DEF IInv, InboxInv, Unread
  <2>2. CASE h = k
    <3>1. \A i \in 1 .. Len(inbox[k]) : inbox[k][i] = "NEW_SOCKET" => i = 1
      BY <1>0, <1>4 DEF IInv, InboxInv
    <3>2. ASSUME NEW i \in 1 .. Len(inbox[k]) - 1 PROVE inbox'[k][i] # "NEW_SOCKET"
      <4>1. i + 1 \in 1 .. Len(inbox[k]) /\ i + 1 # 1
        BY <1>4
      <4>2. inbox'[k][i] = inbox[k][i + 1]
        BY <1>5
      <4> QED  BY <3>1, <4>1, <4>2
    <3>3. Len(inbox'[k]) <= asked'[k]
      BY <1>1, <1>4, <1>5, <1>10
    <3> QED  BY <1>5, <2>2, <3>2, <3>3
  <2> QED  BY <2>1, <2>2
<1>12. SlavesInv'
  BY <1>2, <1>10 DEF IInv, SlavesInv
<1>13. RegisterInv'
  <2> SUFFICES ASSUME mainPc' = "register"
               PROVE  /\ idx \in DOMAIN descs /\ Here.fd \in Fds
                      /\ file[Here.fd] \in Clients /\ ~Unread(file[Here.fd])'
                      /\ \A i \in DOMAIN slaves : slaves[i] # Here.fd
    BY <1>2, <1>7 DEF RegisterInv, Here
  <2>1. Unread(k)
    BY <1>7, <1>10
  <2>2. ~Unread(file[Here.fd])'
    BY <1>k, <1>2, <1>7, <1>10 DEF Here
  <2>3. \A i \in DOMAIN slaves : slaves[i] # Here.fd
    BY <1>k, <2>1 DEF IInv, SlavesInv
  <2> QED  BY <1>0, <2>2, <2>3
<1>14. RoomInv' /\ FileInv' /\ LiveInv' /\ BroadcastInv'
  BY <1>0, <1>2, <1>7, RoomKept, FileKept, LiveKept, BroadcastKept DEF IInv, clientVars
<1>15. BeatInv'
  BY <1>0, <1>2, <1>7 DEF IInv, BeatInv
<1> QED  BY <1>8, <1>9, <1>11, <1>12, <1>13, <1>14, <1>15 DEF IInv

\* A connection gets a number that no other has, and is polled from now on.
LEMMA AcceptInv == ASSUME IInv, Accept PROVE IInv'
<1>0. /\ mainPc = "scan" /\ idx \in 1 .. Len(descs) /\ descs \in Seq(Desc) /\ Len(descs) \in Nat
      /\ mainPc' = mainPc
  BY DEF IInv, TypeInv, Accept, Scanning
<1>1. UNCHANGED <<peer, asked, inbox, slaves, mainPc, heartbeat, noSlaves, stop, devVars, bc, told>>
  BY DEF Accept
<1>2. CASE NextDesc /\ UNCHANGED <<backlog, file, descs>>
  <2>1. idx' \in 1 .. Len(descs) + 1 /\ closeConn' \in BOOLEAN
    BY <1>2, NextDescTyped DEF IInv, Accept
  <2>2. heartbeat' \in 0 .. HeartbeatAfter
    BY <1>1 DEF IInv, TypeInv
  <2> QED  BY <1>0, <1>1, <1>2, <2>1, <2>2, LoopKept DEF clientVars
<1>3. ASSUME NEW k \in backlog, NEW fd \in Fds, file[fd] = Nobody,
             backlog' = backlog \ {k}, file' = [file EXCEPT ![fd] = k],
             descs' = Append(descs, [fd |-> fd, rev |-> {}]),
             UNCHANGED <<idx, closeConn>>
      PROVE  IInv'
  <2> DEFINE new == [fd |-> fd, rev |-> {}]
  <2>0. /\ k \in Clients /\ k # Nobody /\ k # "listener" /\ Nobody # "listener"
        /\ peer[k] # "away" /\ k \notin Accepted /\ Nobody \notin Clients /\ "listener" \notin Clients
    BY ConstantsAssumption DEF IInv, TypeInv, RoomInv, Accepted, ConstantsAssumption
  <2>1. new \in Desc /\ new.fd = fd /\ new.rev = {}
    BY DEF Desc
  <2> HIDE DEF new
  <2>2. /\ descs' \in Seq(Desc) /\ Len(descs') = Len(descs) + 1 /\ DOMAIN descs' = 1 .. Len(descs) + 1
        /\ \A i \in 1 .. Len(descs) : descs'[i] = descs[i]
        /\ descs'[Len(descs) + 1] = new
    BY <1>0, <1>3, <2>1 DEF new
  <2>3. /\ file' \in [Fds -> Clients \cup {"listener", Nobody}] /\ file'[fd] = k
        /\ \A other \in Fds \ {fd} : file'[other] = file[other]
    BY <1>3, <2>0 DEF IInv, TypeInv
  <2>4. Accepted' = Accepted \cup {k}
    BY <1>1, <1>3, <2>0 DEF Accepted
  <2>5. TypeInv'
    BY <1>0, <1>1, <1>3, <2>2, <2>3 DEF IInv, TypeInv, devVars
  <2>6. FlagsInv'
    BY <1>1, <1>3 DEF IInv, FlagsInv
  <2>7. RoomInv'
    <3>1. IsFiniteSet(Accepted)
      BY FS_Subset, ConstantsAssumption DEF ConstantsAssumption, Accepted
    <3>2. Cardinality(Accepted') = Cardinality(Accepted) + 1 /\ Cardinality(Accepted) \in Nat
      BY <2>0, <2>4, <3>1, FS_AddElement, FS_CardinalityType
    <3> QED  BY <1>0, <1>1, <1>3, <2>2, <3>2 DEF IInv, RoomInv
  <2>8. FileInv'
    <3>1. \A other \in Fds : file'[other] = "listener" <=> other = Listening
      BY <1>3, <2>0, <2>3 DEF IInv, FileInv
    <3>2. \A other \in Fds : file'[other] \in Clients => file'[other] \in Accepted'
      BY <2>0, <2>3, <2>4 DEF IInv, FileInv
    <3>3. \A other \in Fds \ {fd} : file[other] # k
      BY <2>0 DEF IInv, FileInv
    <3>4. ASSUME NEW one \in Fds, NEW other \in Fds, file'[one] \in Clients, file'[one] = file'[other]
          PROVE  one = other
      <4>1. CASE one = fd
        BY <2>3, <3>3, <3>4, <4>1
      <4>2. CASE other = fd
        BY <2>3, <3>3, <3>4, <4>2
      <4>3. CASE one # fd /\ other # fd
        BY <2>3, <3>4, <4>3 DEF IInv, FileInv
      <4> QED  BY <4>1, <4>2, <4>3
    <3> QED  BY <3>1, <3>2, <3>4 DEF FileInv
  <2>9. InboxInv'
    BY <1>1, InboxKept DEF IInv
  <2>10. \A i \in DOMAIN slaves : slaves[i] \in Fds /\ slaves[i] # fd /\ file'[slaves[i]] = file[slaves[i]]
    BY <1>3, <2>0, <2>3 DEF IInv, TypeInv, SlavesInv
  <2>11. SlavesInv'
    BY <1>1, <2>10 DEF IInv, SlavesInv, Unread
  <2>12. RegisterInv'
    BY <1>0 DEF RegisterInv
  <2>13. LiveInv'
    <3> SUFFICES ASSUME NEW other \in Fds, Live(other)'
                 PROVE  \E i \in DOMAIN descs' : descs'[i].fd = other /\ "HUP" \notin descs'[i].rev
      BY DEF LiveInv
    <3>1. CASE other = fd
      <4>1. Len(descs) + 1 \in DOMAIN descs'
        BY <1>0, <2>2
      <4> QED  BY <2>1, <2>2, <3>1, <4>1
    <3>2. CASE other # fd
      <4>1. Live(other)
        BY <1>1, <2>3, <3>2 DEF Live, Gone
      <4>2. PICK i \in 1 .. Len(descs) : descs[i].fd = other /\ "HUP" \notin descs[i].rev
        BY <1>0, <4>1 DEF IInv, LiveInv
      <4>3. i \in DOMAIN descs' /\ descs'[i] = descs[i]
        BY <1>0, <2>2
      <4> QED  BY <4>2, <4>3
    <3> QED  BY <3>1, <3>2
  <2>14. BroadcastInv'
    <3>1. Len(slaves) \in Nat /\ Len(bc.todo) \in Nat /\ bc' = bc /\ slaves' = slaves
      BY <1>1 DEF IInv, TypeInv
    <3>2. \A i \in 1 .. Sent : i \in DOMAIN slaves
      BY <3>1 DEF Sent, IInv, TypeInv
    <3>3. bc.by # "nobody" /\ bc.what = status => \A i \in 1 .. Sent : file'[slaves[i]] \in told
      BY <2>10, <3>2 DEF IInv, BroadcastInv
    <3> QED  BY <1>1, <3>1, <3>3 DEF IInv, BroadcastInv, Sent, devVars
  <2>15. BeatInv'
    BY <1>0, <1>1, BeatKept DEF IInv, devVars
  <2> QED  BY <2>5, <2>6, <2>7, <2>8, <2>9, <2>11, <2>12, <2>13, <2>14, <2>15 DEF IInv
<1> QED  BY <1>2, <1>3 DEF Accept

\* The descriptor that announced itself is appended to the registry.
LEMMA RegisterStepInv == ASSUME IInv, Register PROVE IInv'
<1> DEFINE fd == descs[idx].fd
<1>0. /\ mainPc = "register" /\ mainPc' = "scan" /\ bc.by = "nobody" /\ slaves' = Append(slaves, fd) /\ NextDesc
      /\ UNCHANGED <<clientVars, inbox, file, descs, heartbeat, noSlaves, stop, devVars, bc, told>>
  BY DEF Register, MainAt, Here
<1>1. /\ idx \in DOMAIN descs /\ fd \in Fds /\ file[fd] \in Clients /\ ~Unread(file[fd])
      /\ \A i \in DOMAIN slaves : slaves[i] # fd
  BY <1>0 DEF IInv, RegisterInv, Here
<1> HIDE DEF fd
<1>2. slaves \in Seq(Fds) /\ Len(slaves) \in Nat /\ DOMAIN slaves = 1 .. Len(slaves)
  BY DEF IInv, TypeInv
<1>3. /\ slaves' \in Seq(Fds) /\ Len(slaves') = Len(slaves) + 1 /\ DOMAIN slaves' = 1 .. Len(slaves) + 1
      /\ \A i \in 1 .. Len(slaves) : slaves'[i] = slaves[i]
      /\ slaves'[Len(slaves) + 1] = fd
  BY <1>0, <1>1, <1>2
<1>4. idx' \in 1 .. Len(descs) + 1 /\ closeConn' \in BOOLEAN
  <2>1. descs \in Seq(Desc) /\ Len(descs) \in Nat /\ idx \in 0 .. Len(descs)
    BY <1>1 DEF IInv, TypeInv
  <2>2. idx' \in idx + 1 .. Len(descs) + 1
    BY <1>0, <2>1, NextReadyAhead DEF NextDesc
  <2>3. closeConn' = (closeConn \/ "HUP" \in Here.rev)
    BY <1>0 DEF NextDesc
  <2>4. closeConn' \in BOOLEAN
    BY <2>3, Zenon DEF IInv, FlagsInv
  <2> QED  BY <2>1, <2>2, <2>4
<1>5. TypeInv'
  BY <1>0, <1>3, <1>4 DEF IInv, TypeInv, clientVars, devVars
<1>6. FlagsInv'
  BY <1>0, <1>4 DEF IInv, FlagsInv
<1>7. RoomInv' /\ FileInv' /\ InboxInv' /\ LiveInv'
  BY <1>0, RoomKept, FileKept, InboxKept, LiveKept DEF IInv, clientVars
<1>8. SlavesInv'
  <2>1. ASSUME NEW i \in DOMAIN slaves', NEW j \in DOMAIN slaves', slaves'[i] = slaves'[j] PROVE i = j
    <3>1. CASE i \in 1 .. Len(slaves) /\ j \in 1 .. Len(slaves)
      BY <1>2, <1>3, <2>1, <3>1 DEF IInv, SlavesInv
    <3>2. CASE i = Len(slaves) + 1 \/ j = Len(slaves) + 1
      BY <1>1, <1>2, <1>3, <2>1, <3>2
    <3> QED  BY <1>2, <1>3, <3>1, <3>2
  <2>2. ASSUME NEW i \in DOMAIN slaves' PROVE file[slaves'[i]] \in Clients /\ ~Unread(file[slaves'[i]])
    <3>1. CASE i \in 1 .. Len(slaves)
      BY <1>2, <1>3, <3>1 DEF IInv, SlavesInv
    <3>2. CASE i = Len(slaves) + 1
      BY <1>1, <1>3, <3>2
    <3> QED  BY <1>2, <1>3, <3>1, <3>2
  <2> QED  BY <1>0, <2>1, <2>2 DEF SlavesInv, Unread, clientVars
<1>9. RegisterInv'
  BY <1>0 DEF RegisterInv
<1>10. BroadcastInv'
  <2>1. bc.todo = <<>> /\ Len(bc.todo) = 0 /\ DOMAIN bc.todo = {}
    BY <1>0 DEF IInv, BroadcastInv
  <2> QED  BY <1>0, <1>2, <1>3, <2>1 DEF IInv, BroadcastInv, Sent, devVars
<1>11. BeatInv'
  BY <1>0 DEF IInv, BeatInv, devVars
<1> QED  BY <1>5, <1>6, <1>7, <1>8, <1>9, <1>10, <1>11 DEF IInv

-----------------------------------------------------------------------
(* The broadcasts. *)

\* Whoever begins one has every slave before him.
LEMMA BegunInv ==
    ASSUME IInv, NEW by \in {"main", "device"}, NEW what \in Statuses, Broadcast(by, what),
           UNCHANGED <<slaves, file, told, status>>,
           (by = "main") <=> (mainPc' = "beating"), (by = "device") <=> (devPc' = "telling"),
           by = "main" => what = "PAUSED", by = "device" => what = status
    PROVE  BroadcastInv' /\ bc' \in [by : ByWhom, todo : Seq(Fds), what : Statuses, lost : BOOLEAN]
<1>0. slaves \in Seq(Fds) /\ Len(slaves) \in Nat
  BY DEF IInv, TypeInv
<1>1. bc' = [by |-> by, todo |-> slaves, what |-> what, lost |-> FALSE]
  BY DEF Broadcast
<1>2. bc'.by = by /\ bc'.todo = slaves /\ bc'.what = what
  BY <1>1
<1>3. bc' \in [by : ByWhom, todo : Seq(Fds), what : Statuses, lost : BOOLEAN]
  BY <1>0, <1>1 DEF ByWhom
<1> QED  BY <1>0, <1>2, <1>3 DEF BroadcastInv, Sent

\* A heartbeat begins, of a device that is paused and stays so.
LEMMA BeatStepInv == ASSUME ConstantsAssumption, IInv, Beat PROVE IInv'
<1>0. /\ mainPc = "beat" /\ mainPc' = "beating" /\ heartbeat' = 0 /\ Broadcast("main", "PAUSED")
      /\ UNCHANGED <<clientVars, inbox, file, descs, slaves, idx, closeConn, noSlaves, stop, devVars, told>>
  BY DEF Beat, MainAt
<1>1. bc.by = "nobody" /\ devPc # "telling"
  BY <1>0 DEF Broadcast, IInv, BroadcastInv
<1>2. BroadcastInv' /\ bc' \in [by : ByWhom, todo : Seq(Fds), what : Statuses, lost : BOOLEAN]
  <2>1. "PAUSED" \in Statuses
    BY DEF Statuses
  <2> QED  BY <1>0, <1>1, <2>1, BegunInv DEF devVars
<1>3. TypeInv'
  BY <1>0, <1>2, ConstantsAssumption DEF IInv, TypeInv, clientVars, devVars, ConstantsAssumption
<1>4. FlagsInv'
  BY <1>0 DEF IInv, FlagsInv
<1>5. RoomInv' /\ FileInv' /\ InboxInv' /\ SlavesInv' /\ LiveInv'
  BY <1>0, RoomKept, FileKept, InboxKept, SlavesKept, LiveKept DEF IInv, clientVars
<1>6. RegisterInv'
  BY <1>0 DEF RegisterInv
<1>7. BeatInv'
  BY <1>0 DEF IInv, BeatInv, devVars
<1> QED  BY <1>2, <1>3, <1>4, <1>5, <1>6, <1>7 DEF IInv

\* The device thread begins to broadcast what the status is.
LEMMA TellInv == ASSUME IInv, Tell PROVE IInv'
<1>0. /\ devPc = "tell" /\ devPc' = "telling" /\ Broadcast("device", status)
      /\ UNCHANGED <<clientVars, inbox, file, descs, slaves, loopVars, noSlaves, stop, status, request, told>>
  BY DEF Tell
<1>1. bc.by = "nobody" /\ mainPc # "beating"
  BY <1>0 DEF Broadcast, IInv, BroadcastInv
<1>2. BroadcastInv' /\ bc' \in [by : ByWhom, todo : Seq(Fds), what : Statuses, lost : BOOLEAN]
  <2>1. status \in Statuses
    BY DEF IInv, TypeInv
  <2> QED  BY <1>0, <1>1, <2>1, BegunInv DEF loopVars
<1>3. TypeInv'
  BY <1>0, <1>2 DEF IInv, TypeInv, clientVars, loopVars
<1>4. FlagsInv'
  BY <1>0 DEF IInv, FlagsInv, loopVars
<1>5. RoomInv' /\ FileInv' /\ InboxInv' /\ SlavesInv' /\ RegisterInv' /\ LiveInv'
  BY <1>0, RoomKept, FileKept, InboxKept, SlavesKept, RegisterKept, LiveKept DEF IInv, clientVars, loopVars
<1>6. BeatInv'
  BY <1>0 DEF IInv, BeatInv, loopVars
<1> QED  BY <1>2, <1>3, <1>4, <1>5, <1>6 DEF IInv

\* A broadcast ends.
LEMMA EndBroadcastInv == ASSUME IInv, EndBroadcast PROVE IInv'
<1>0. /\ bc.by # "nobody" /\ bc.todo = <<>> /\ bc' = Quiet
      /\ mainPc' = IF bc.by = "main" THEN "test" ELSE mainPc
      /\ devPc'  = IF bc.by = "device" THEN "idle" ELSE devPc
      /\ UNCHANGED <<clientVars, inbox, file, descs, slaves, idx, closeConn, heartbeat, stop, status, request, told>>
  BY DEF EndBroadcast
<1>1. /\ bc'.by = "nobody" /\ bc'.todo = <<>>
      /\ bc' \in [by : ByWhom, todo : Seq(Fds), what : Statuses, lost : BOOLEAN]
  <2>1. Quiet \in [by : ByWhom, todo : Seq(Fds), what : Statuses, lost : BOOLEAN]
    BY DEF Quiet, ByWhom, Statuses
  <2> QED  BY <1>0, <2>1 DEF Quiet
<1>2. /\ bc.by = "main" <=> mainPc = "beating"
      /\ bc.by = "device" <=> devPc = "telling"
  BY DEF IInv, BroadcastInv
<1>3. TypeInv'
  BY <1>0, <1>1 DEF IInv, TypeInv, clientVars
<1>4. FlagsInv'
  <2>1. noSlaves' = (noSlaves \/ (bc.lost /\ slaves = <<>>))
    BY DEF EndBroadcast
  <2>2. noSlaves' \in BOOLEAN
    BY <2>1, Zenon DEF IInv, FlagsInv
  <2> QED  BY <1>0, <2>2 DEF IInv, FlagsInv
<1>5. RoomInv' /\ FileInv' /\ InboxInv' /\ SlavesInv' /\ LiveInv'
  BY <1>0, RoomKept, FileKept, InboxKept, SlavesKept, LiveKept DEF IInv, clientVars
<1>6. RegisterInv'
  <2>1. CASE mainPc' = "register"
    BY <1>0, <2>1, RegisterKept DEF IInv, clientVars
  <2>2. CASE mainPc' # "register"
    BY <2>2 DEF RegisterInv
  <2> QED  BY <2>1, <2>2
<1>7. BroadcastInv'
  <2>1. mainPc' # "beating" /\ devPc' # "telling"
    BY <1>0, <1>2
  <2>2. Len(bc'.todo) = 0 /\ DOMAIN bc'.todo = {} /\ Len(slaves') \in Nat
    BY <1>0, <1>1 DEF IInv, TypeInv
  <2> QED  BY <1>1, <2>1, <2>2 DEF BroadcastInv
<1>8. BeatInv'
  BY <1>0, <1>2 DEF IInv, BeatInv
<1> QED  BY <1>3, <1>4, <1>5, <1>6, <1>7, <1>8 DEF IInv

\* The iterator of a broadcast and the registry.
LEMMA Iterator ==
    ASSUME IInv, bc.todo # <<>>
    PROVE  /\ slaves \in Seq(Fds) /\ bc.todo \in Seq(Fds) /\ Sent \in Nat /\ Len(slaves) \in Nat
           /\ Len(bc.todo) \in Nat \ {0} /\ Sent + Len(bc.todo) = Len(slaves) /\ Sent < Len(slaves)
           /\ DOMAIN slaves = 1 .. Len(slaves) /\ Sent + 1 \in DOMAIN slaves
           /\ Head(bc.todo) = slaves[Sent + 1] /\ Head(bc.todo) \in Fds
           /\ file[Head(bc.todo)] \in Clients
           /\ \A i \in DOMAIN slaves : i # Sent + 1 => slaves[i] # Head(bc.todo)
<1>1. slaves \in Seq(Fds) /\ bc.todo \in Seq(Fds) /\ Len(slaves) \in Nat /\ Len(bc.todo) \in Nat \ {0}
      /\ DOMAIN slaves = 1 .. Len(slaves)
  BY DEF IInv, TypeInv
<1>2. Len(bc.todo) <= Len(slaves) /\ \A i \in 1 .. Len(bc.todo) : bc.todo[i] = slaves[Sent + i]
  BY <1>1 DEF IInv, BroadcastInv
<1>3. Sent \in Nat /\ Sent + Len(bc.todo) = Len(slaves) /\ Sent < Len(slaves) /\ Sent + 1 \in 1 .. Len(slaves)
  BY <1>1, <1>2 DEF Sent
<1>4. Head(bc.todo) = slaves[Sent + 1] /\ slaves[Sent + 1] \in Fds
  <2>1. 1 \in 1 .. Len(bc.todo) /\ Head(bc.todo) = bc.todo[1]
    BY <1>1
  <2>2. bc.todo[1] = slaves[Sent + 1]
    BY <1>2, <2>1
  <2>3. slaves[Sent + 1] \in Fds
    <3>1. \A i \in 1 .. Len(slaves) : slaves[i] \in Fds
      BY <1>1
    <3> QED  BY <1>3, <3>1
  <2> QED  BY <2>1, <2>2, <2>3
<1>5. /\ file[slaves[Sent + 1]] \in Clients
      /\ \A i \in DOMAIN slaves : i # Sent + 1 => slaves[i] # slaves[Sent + 1]
  BY <1>1, <1>3 DEF IInv, SlavesInv
<1> QED  BY <1>1, <1>3, <1>4, <1>5

\* What it has not come to yet.
LEMMA IteratorRest ==
    ASSUME IInv, bc.todo # <<>>
    PROVE  \E rest \in Seq(Fds) :
              /\ rest = Tail(bc.todo) /\ Len(rest) = Len(bc.todo) - 1
              /\ \A i \in 1 .. Len(rest) : rest[i] = slaves[Sent + 1 + i]
<1>1. bc.todo \in Seq(Fds) /\ Len(bc.todo) \in Nat \ {0} /\ Sent \in Nat
  BY Iterator
<1>2. PICK rest \in Seq(Fds) : rest = Tail(bc.todo)
  <2>1. bc.todo \in Seq(Fds)
    BY <1>1
  <2>2. Tail(bc.todo) \in Seq(Fds)
    BY <2>1
  <2> QED  BY <2>2
<1>3. Len(rest) = Len(bc.todo) - 1 /\ \A i \in 1 .. Len(bc.todo) - 1 : rest[i] = bc.todo[i + 1]
  BY <1>1, <1>2
<1>4. \A i \in DOMAIN bc.todo : bc.todo[i] = slaves[Sent + i]
  BY DEF IInv, BroadcastInv
<1>5. ASSUME NEW i \in 1 .. Len(rest) PROVE rest[i] = slaves[Sent + 1 + i]
  <2>1. i + 1 \in DOMAIN bc.todo /\ Sent + (i + 1) = Sent + 1 + i /\ rest[i] = bc.todo[i + 1]
    BY <1>1, <1>3
  <2>2. bc.todo[i + 1] = slaves[Sent + (i + 1)]
    BY <1>4, <2>1
  <2> QED  BY <2>1, <2>2
<1> QED  BY <1>2, <1>3, <1>5

\* The write finds the slave at the iterator gone.
SendGone ==
    /\ file' = [file EXCEPT ![Head(bc.todo)] = Nobody]
    /\ slaves' = Visited \o Tail(bc.todo)
    /\ bc' = [bc EXCEPT !.todo = Tail(bc.todo), !.lost = TRUE]
    /\ UNCHANGED <<clientVars, inbox, descs, loopVars, noSlaves, stop, devVars, told>>

\* The write reaches the slave at the iterator.
SendThere ==
    /\ told' = Told(file[Head(bc.todo)])
    /\ bc' = [bc EXCEPT !.todo = Tail(bc.todo)]
    /\ UNCHANGED <<clientVars, inbox, file, slaves, descs, loopVars, noSlaves, stop, devVars>>

\* The slave at the iterator is gone: the others keep their places before and after it.
LEMMA SendGoneInv ==
    ASSUME IInv, bc.todo # <<>>,
           SendGone
    PROVE  IInv'
<1> USE DEF clientVars, loopVars, devVars
<1>f. file' = [file EXCEPT ![Head(bc.todo)] = Nobody] /\ slaves' = Visited \o Tail(bc.todo)
  BY DEF SendGone
<1>b. bc' = [bc EXCEPT !.todo = Tail(bc.todo), !.lost = TRUE]
  BY DEF SendGone
<1>u. UNCHANGED <<clientVars, inbox, descs, loopVars, noSlaves, stop, devVars, told>>
  BY DEF SendGone
<1>0. PICK fd \in Fds : fd = Head(bc.todo)
  BY Iterator
<1>s. PICK s \in Nat : s = Sent
  BY Iterator
<1>n. PICK n \in Nat : n = Len(slaves)
  BY Iterator
<1>1. /\ slaves \in Seq(Fds) /\ Len(slaves) = n /\ DOMAIN slaves = 1 .. n /\ s < n
      /\ fd = slaves[s + 1] /\ file[fd] \in Clients
      /\ \A i \in 1 .. n : i # s + 1 => slaves[i] # fd
  BY <1>0, <1>s, <1>n, Iterator
<1>t. PICK rest \in Seq(Fds) : /\ rest = Tail(bc.todo) /\ Len(rest) = Len(bc.todo) - 1
                               /\ \A i \in 1 .. Len(rest) : rest[i] = slaves[s + 1 + i]
  BY <1>s, IteratorRest
<1>r. Len(rest) = n - s - 1 /\ \A i \in 1 .. n - s - 1 : rest[i] = slaves[s + 1 + i]
  <2>1. Len(bc.todo) - 1 = n - s - 1
    <3>1. PICK k \in Nat : k = Len(bc.todo)
      BY Iterator
    <3>2. s + k = n
      BY <1>s, <1>n, <3>1, Iterator, Zenon
    <3> QED  BY <3>1, <3>2
  <2> QED  BY <1>t, <2>1
<1>2. Visited \in Seq(Fds) /\ Len(Visited) = s /\ \A i \in 1 .. s : Visited[i] = slaves[i]
  <2>1. Visited = SubSeq(slaves, 1, s)
    BY <1>s, <1>n, Iterator DEF Visited, Sent
  <2> QED  BY <1>1, <2>1
<1>3. /\ slaves' \in Seq(Fds) /\ Len(slaves') = n - 1 /\ DOMAIN slaves' = 1 .. n - 1
      /\ \A i \in 1 .. s : slaves'[i] = slaves[i]
      /\ \A i \in s + 1 .. n - 1 : slaves'[i] = slaves[i + 1]
  <2> DEFINE first == Visited
  <2>1. first \in Seq(Fds) /\ Len(first) = s /\ rest \in Seq(Fds) /\ Len(rest) = n - s - 1
    BY <1>1, <1>2, <1>r
  <2>2. slaves' = first \o rest
    BY <1>f, <1>t
  <2> HIDE DEF first
  <2>3. /\ slaves' \in Seq(Fds) /\ Len(slaves') = s + (n - s - 1)
        /\ \A i \in 1 .. s : slaves'[i] = first[i]
        /\ \A i \in s + 1 .. n - 1 : slaves'[i] = rest[i - s]
    BY <1>1, <2>1, <2>2
  <2>4. Len(slaves') = n - 1 /\ DOMAIN slaves' = 1 .. n - 1
    BY <1>1, <2>3
  <2>5. \A i \in 1 .. s : slaves'[i] = slaves[i]
    BY <1>2, <2>3 DEF first
  <2>6. ASSUME NEW i \in s + 1 .. n - 1 PROVE slaves'[i] = slaves[i + 1]
    <3>1. i - s \in 1 .. n - s - 1 /\ s + 1 + (i - s) = i + 1
      BY <1>1
    <3>2. rest[i - s] = slaves[s + 1 + (i - s)]
      BY <1>1, <1>r, <3>1
    <3> QED  BY <2>3, <3>1, <3>2
  <2> QED  BY <2>3, <2>4, <2>5, <2>6
\* Every slave left was there before, at one place.
<1>4. ASSUME NEW i \in DOMAIN slaves'
      PROVE  \E j \in DOMAIN slaves : j # s + 1 /\ slaves'[i] = slaves[j] /\ (j = i \/ j = i + 1)
                                       /\ (j < s + 1 <=> i < s + 1) /\ (j = i <=> i < s + 1)
  <2>1. CASE i \in 1 .. s
    BY <1>1, <1>3, <2>1
  <2>2. CASE i \in s + 1 .. n - 1
    <3>1. i + 1 \in DOMAIN slaves /\ slaves'[i] = slaves[i + 1]
      BY <1>1, <1>3, <2>2
    <3> QED  BY <2>2, <3>1
  <2> QED  BY <1>1, <1>3, <2>1, <2>2
<1>5. /\ file' \in [Fds -> Clients \cup {"listener", Nobody}] /\ file'[fd] = Nobody
      /\ \A other \in Fds \ {fd} : file'[other] = file[other]
  BY <1>f, <1>0 DEF IInv, TypeInv
<1>6. \A i \in DOMAIN slaves' : slaves'[i] # fd /\ slaves'[i] \in Fds /\ file'[slaves'[i]] = file[slaves'[i]]
  BY <1>1, <1>3, <1>4, <1>5
<1>7. /\ bc'.by = bc.by /\ bc'.what = bc.what /\ bc'.todo = rest
      /\ bc' \in [by : ByWhom, todo : Seq(Fds), what : Statuses, lost : BOOLEAN]
  <2>1. bc \in [by : ByWhom, todo : Seq(Fds), what : Statuses, lost : BOOLEAN]
    BY DEF IInv, TypeInv
  <2> QED  BY <1>b, <1>t, <2>1
<1>8. TypeInv'
  BY <1>u, <1>3, <1>5, <1>7 DEF IInv, TypeInv
<1>9. FlagsInv'
  BY <1>u DEF IInv, FlagsInv
<1>10. RoomInv' /\ InboxInv'
  BY <1>u, RoomKept, InboxKept DEF IInv
<1>11. FileInv'
  <2>1. Nobody \notin Clients /\ Nobody # "listener" /\ "listener" \notin Clients
    BY ConstantsAssumption DEF ConstantsAssumption
  <2>2. fd # Listening
    BY <1>1, <2>1 DEF IInv, FileInv
  <2>3. \A other \in Fds : file'[other] = "listener" <=> other = Listening
    BY <1>5, <2>1, <2>2 DEF IInv, FileInv
  <2>4. \A other \in Fds : file'[other] \in Clients => file'[other] \in Accepted
    BY <1>5, <2>1 DEF IInv, FileInv
  <2>5. \A one, other \in Fds : file'[one] \in Clients /\ file'[one] = file'[other] => one = other
    BY <1>5, <2>1 DEF IInv, FileInv
  <2> QED  BY <1>u, <2>3, <2>4, <2>5 DEF FileInv, Accepted
<1>12. SlavesInv'
  <2>1. ASSUME NEW i \in DOMAIN slaves', NEW j \in DOMAIN slaves', slaves'[i] = slaves'[j] PROVE i = j
    <3>1. PICK g \in DOMAIN slaves : slaves'[i] = slaves[g] /\ (g = i \/ g = i + 1) /\ (g < s + 1 <=> i < s + 1)
                                      /\ (g = i <=> i < s + 1)
      BY <1>4
    <3>2. PICK h \in DOMAIN slaves : slaves'[j] = slaves[h] /\ (h = j \/ h = j + 1) /\ (h < s + 1 <=> j < s + 1)
                                      /\ (h = j <=> j < s + 1)
      BY <1>4
    <3>3. g = h
      BY <2>1, <3>1, <3>2 DEF IInv, SlavesInv
    <3>4. i \in Int /\ j \in Int /\ g \in Int
      BY <1>1, <1>3
    <3> QED  BY <3>1, <3>2, <3>3, <3>4
  <2>2. ASSUME NEW i \in DOMAIN slaves' PROVE file'[slaves'[i]] \in Clients /\ ~Unread(file'[slaves'[i]])
    <3>1. PICK g \in DOMAIN slaves : slaves'[i] = slaves[g]
      BY <1>4
    <3> QED  BY <1>6, <3>1 DEF IInv, SlavesInv
  <2> QED  BY <1>u, <2>1, <2>2 DEF SlavesInv, Unread
<1>13. RegisterInv'
  <2> SUFFICES ASSUME mainPc = "register"
               PROVE  /\ idx \in DOMAIN descs /\ Here.fd \in Fds
                      /\ file'[Here.fd] \in Clients /\ ~Unread(file'[Here.fd])
                      /\ \A i \in DOMAIN slaves' : slaves'[i] # Here.fd
    BY <1>u DEF RegisterInv, Here, Unread
  <2>1. /\ idx \in DOMAIN descs /\ Here.fd \in Fds
        /\ file[Here.fd] \in Clients /\ ~Unread(file[Here.fd])
        /\ \A i \in DOMAIN slaves : slaves[i] # Here.fd
    BY DEF IInv, RegisterInv
  <2>2. s + 1 \in DOMAIN slaves
    BY <1>1
  <2>3. Here.fd # fd
    BY <1>1, <2>1, <2>2
  <2> QED  BY <1>4, <1>5, <2>1, <2>3
<1>14. LiveInv'
  <2>1. \A other \in Fds : Live(other)' => Live(other)
    BY <1>u, <1>5 DEF Live, Gone
  <2> QED  BY <1>u, <2>1 DEF IInv, LiveInv
<1>15. BroadcastInv'
  <2>1. Sent' = s /\ Len(rest) <= Len(slaves') /\ Len(rest) = n - s - 1
    <3>1. Len(rest) = n - s - 1
      BY <1>r
    <3>2. Len(slaves') = n - 1 /\ s \in Nat /\ n \in Nat
      BY <1>1, <1>3
    <3>3. Sent' = Len(slaves') - Len(rest)
      BY <1>7 DEF Sent
    <3> QED  BY <3>1, <3>2, <3>3
  <2>d. DOMAIN rest = 1 .. n - s - 1
    BY <1>r
  <2>2. ASSUME NEW i \in DOMAIN rest PROVE rest[i] = slaves'[s + i]
    <3>1. i \in 1 .. n - s - 1 /\ s + i \in s + 1 .. n - 1 /\ (s + i) + 1 = s + 1 + i
      BY <1>1, <2>d
    <3> QED  BY <1>1, <1>3, <1>r, <3>1
  <2>3. bc.by # "nobody" /\ bc.what = status => \A i \in 1 .. s : file'[slaves'[i]] \in told
    <3>1. \A i \in 1 .. s : i \in DOMAIN slaves' /\ slaves'[i] = slaves[i]
      BY <1>1, <1>3
    <3> QED  BY <1>6, <1>s, <3>1 DEF IInv, BroadcastInv
  <2>4. bc.by # "nobody"
    BY DEF IInv, BroadcastInv
  <2> QED  BY <1>u, <1>7, <2>1, <2>2, <2>3, <2>4 DEF IInv, BroadcastInv
<1>16. BeatInv'
  BY <1>u, BeatKept DEF IInv
<1> QED  BY <1>8, <1>9, <1>10, <1>11, <1>12, <1>13, <1>14, <1>15, <1>16 DEF IInv

\* The slave at the iterator gets the pose.
LEMMA SendThereInv ==
    ASSUME IInv, bc.todo # <<>>,
           SendThere
    PROVE  IInv'
<1> USE DEF clientVars, loopVars, devVars
<1>t. PICK rest \in Seq(Fds) : /\ rest = Tail(bc.todo) /\ Len(rest) = Len(bc.todo) - 1
                               /\ \A i \in 1 .. Len(rest) : rest[i] = slaves[Sent + 1 + i]
  BY IteratorRest
<1>r. Len(rest) = Len(bc.todo) - 1 /\ \A i \in 1 .. Len(rest) : rest[i] = slaves[Sent + 1 + i]
  BY <1>t
<1>b. bc' = [bc EXCEPT !.todo = Tail(bc.todo)] /\ told' = Told(file[Head(bc.todo)])
  BY DEF SendThere
<1>u. UNCHANGED <<clientVars, inbox, file, slaves, descs, loopVars, noSlaves, stop, devVars>>
  BY DEF SendThere
<1>1. /\ bc'.by = bc.by /\ bc'.what = bc.what /\ bc'.todo = rest
      /\ bc' \in [by : ByWhom, todo : Seq(Fds), what : Statuses, lost : BOOLEAN]
  <2>1. bc \in [by : ByWhom, todo : Seq(Fds), what : Statuses, lost : BOOLEAN]
    BY DEF IInv, TypeInv
  <2> QED  BY <1>b, <1>t, <2>1
<1>2. told' \subseteq Clients
  BY <1>b, Iterator DEF Told, IInv, TypeInv
<1>3. TypeInv'
  BY <1>u, <1>1, <1>2 DEF IInv, TypeInv
<1>4. FlagsInv'
  BY <1>u DEF IInv, FlagsInv
<1>5. RoomInv' /\ FileInv' /\ InboxInv' /\ SlavesInv' /\ RegisterInv' /\ LiveInv' /\ BeatInv'
  BY <1>u, RoomKept, FileKept, InboxKept, SlavesKept, RegisterKept, LiveKept, BeatKept DEF IInv
<1>6. BroadcastInv'
  <2>1. Sent' = Sent + 1 /\ Len(bc'.todo) <= Len(slaves) /\ DOMAIN bc'.todo = 1 .. Len(bc.todo) - 1
    BY <1>u, <1>1, <1>r, Iterator DEF Sent
  <2>2. \A i \in DOMAIN bc'.todo : bc'.todo[i] = slaves[Sent' + i]
    BY <1>1, <1>r, <2>1, Iterator
  <2>3. bc.by # "nobody" /\ bc.what = status => \A i \in 1 .. Sent' : file[slaves[i]] \in told'
    <3> SUFFICES ASSUME bc.by # "nobody", bc.what = status, NEW i \in 1 .. Sent'
                 PROVE  file[slaves[i]] \in told'
      OBVIOUS
    <3>1. told' = told \cup {file[slaves[Sent + 1]]}
      BY <1>b, Iterator DEF Told
    <3>2. i \in 1 .. Sent \/ i = Sent + 1
      BY <2>1, Iterator
    <3> QED  BY <3>1, <3>2 DEF IInv, BroadcastInv
  <2>4. bc.by # "nobody"
    BY DEF IInv, BroadcastInv
  <2> QED  BY <1>u, <1>1, <2>1, <2>2, <2>3, <2>4 DEF IInv, BroadcastInv
<1> QED  BY <1>3, <1>4, <1>5, <1>6 DEF IInv

\* One write of a broadcast.
LEMMA SendNextInv == ASSUME IInv, SendNext PROVE IInv'
<1>1. bc.todo # <<>>
  BY DEF SendNext
<1>2. CASE Gone(file[Head(bc.todo)])
  BY <1>1, <1>2, SendGoneInv DEF SendNext, SendGone
<1>3. CASE ~Gone(file[Head(bc.todo)])
  BY <1>1, <1>3, SendThereInv DEF SendNext, SendThere
<1> QED  BY <1>2, <1>3

-----------------------------------------------------------------------
(* The device. *)

\* A status that a heartbeat was begun with does not come back before it ends.
LEMMA DeviceInv == ASSUME IInv, Device PROVE IInv'
<1> USE DEF clientVars, loopVars, devVars
<1>1. /\ UNCHANGED <<clientVars, inbox, file, descs, slaves, loopVars, noSlaves, stop, bc>>
      /\ told' = IF status' = status THEN told ELSE {}
  BY DEF Device
<1>2. /\ status \in Statuses /\ status' \in Statuses /\ request' \in {"CONTINUE", "PAUSE", "RUN"}
      /\ devPc \in {"off", "idle"} /\ devPc' \in {"idle", "tell", "ended"}
  BY DEF Device, Initialize, LoadFails, ChangeStatus, Becomes, DropRequest, NewFrame, IInv, TypeInv, Statuses, Errors
<1>3. /\ devPc = "off" => status = "STOPPED" /\ request' = request
      /\ devPc # "off" /\ status' # status /\ status' = "PAUSED" => status = "RUNNING" /\ request = "PAUSE"
      /\ devPc # "off" => status' = status \/ status' # "INITIALIZING"
      /\ devPc # "off" /\ status = "PAUSED" => status' = "PAUSED" \/ request' = "CONTINUE"
      /\ request' = request \/ request' = "CONTINUE"
  BY DEF Device, Initialize, LoadFails, ChangeStatus, Becomes, DropRequest, NewFrame, IInv, BeatInv
<1>4. TypeInv'
  BY <1>1, <1>2 DEF IInv, TypeInv
<1>5. FlagsInv'
  BY <1>1 DEF IInv, FlagsInv
<1>6. RoomInv' /\ FileInv' /\ InboxInv' /\ SlavesInv' /\ RegisterInv' /\ LiveInv'
  BY <1>1, RoomKept, FileKept, InboxKept, SlavesKept, RegisterKept, LiveKept DEF IInv
<1>7. BeatInv'
  <2>1. devPc' # "off" /\ mainPc' = mainPc
    BY <1>1, <1>2
  <2>2. ASSUME mainPc \in {"beat", "beating"} PROVE status' # "INITIALIZING" /\ (status' = "PAUSED" \/ request' # "PAUSE")
    <3>1. devPc # "off" /\ status # "INITIALIZING" /\ (status = "PAUSED" \/ request # "PAUSE")
      BY <2>2 DEF IInv, BeatInv
    <3> QED  BY <1>3, <3>1
  <2> QED  BY <2>1, <2>2 DEF BeatInv
<1>8. BroadcastInv'
  <2>1. devPc # "telling" /\ devPc' # "telling" /\ bc.by # "device"
    BY <1>2 DEF IInv, BroadcastInv
  <2>2. CASE bc.by = "nobody"
    BY <1>1, <2>1, <2>2 DEF IInv, BroadcastInv, Sent
  <2>3. CASE bc.by = "main"
    <3>1. mainPc = "beating" /\ bc.what = "PAUSED"
      BY <2>3 DEF IInv, BroadcastInv
    <3>2. devPc # "off" /\ (status = "PAUSED" \/ request # "PAUSE")
      BY <3>1 DEF IInv, BeatInv
    <3>3. status' = "PAUSED" => status' = status
      BY <1>3, <3>2
    <3> QED  BY <1>1, <2>1, <2>3, <3>1, <3>3 DEF IInv, BroadcastInv, Sent
  <2>4. bc.by \in ByWhom
    BY DEF IInv, TypeInv
  <2> QED  BY <2>1, <2>2, <2>3, <2>4 DEF ByWhom
<1> QED  BY <1>4, <1>5, <1>6, <1>7, <1>8 DEF IInv

-----------------------------------------------------------------------
(* Every behaviour. *)

\* The master starts with nothing but its socket.
LEMMA InitInv == Init => IInv
<1> SUFFICES ASSUME Init PROVE IInv
  OBVIOUS
<1>0. /\ MaxCommands \in Nat /\ HeartbeatAfter \in Nat /\ MaxFd \in Nat \ {0} /\ Nobody \notin Clients
      /\ "listener" \notin Clients /\ Nobody # "listener" /\ 1 \in Fds
  BY ConstantsAssumption DEF ConstantsAssumption, Fds
<1>1. /\ descs \in Seq(Desc) /\ Len(descs) = 1 /\ DOMAIN descs = {1}
      /\ descs[1].fd = Listening /\ descs[1].rev = {}
  <2>1. [fd |-> Listening, rev |-> {}] \in Desc
    BY <1>0 DEF Desc, Listening
  <2> QED  BY <2>1 DEF Init
<1>2. /\ slaves \in Seq(Fds) /\ Len(slaves) = 0 /\ DOMAIN slaves = {}
      /\ inbox \in [Clients -> Seq(MessageSet)] /\ \A k \in Clients : inbox[k] = <<>> /\ asked[k] = 0
  BY DEF Init
<1>3. bc \in [by : ByWhom, todo : Seq(Fds), what : Statuses, lost : BOOLEAN]
  BY DEF Init, Quiet, ByWhom, Statuses
<1>4. file \in [Fds -> Clients \cup {"listener", Nobody}]
  BY DEF Init
<1>5. asked \in [Clients -> 0 .. MaxCommands + 1] /\ heartbeat \in 0 .. HeartbeatAfter /\ idx \in 1 .. Len(descs) + 1
  BY <1>0, <1>1 DEF Init
<1>6. TypeInv
  BY <1>1, <1>2, <1>3, <1>4, <1>5 DEF Init, TypeInv, Statuses
<1>7. FlagsInv
  BY DEF Init, FlagsInv
<1>8. RoomInv
  <2>1. Accepted = {}
    BY DEF Init, Accepted
  <2>2. Cardinality({}) = 0
    BY FS_EmptySet
  <2> QED  BY <1>1, <2>1, <2>2 DEF Init, RoomInv
<1>9. FileInv
  BY <1>0 DEF Init, FileInv
<1>10. InboxInv /\ SlavesInv /\ RegisterInv
  BY <1>2 DEF Init, InboxInv, SlavesInv, RegisterInv
<1>11. LiveInv
  BY <1>0, <1>1 DEF Init, LiveInv, Live
<1>12. BroadcastInv
  <2>1. bc.by = "nobody" /\ bc.todo = <<>> /\ Len(bc.todo) = 0 /\ DOMAIN bc.todo = {}
    BY DEF Init, Quiet
  <2> QED  BY <1>2, <2>1 DEF Init, BroadcastInv
<1>13. BeatInv
  BY DEF Init, BeatInv
<1> QED  BY <1>6, <1>7, <1>8, <1>9, <1>10, <1>11, <1>12, <1>13 DEF IInv

\* Every step keeps it: one case per action.
LEMMA StepInv == IInv /\ [Next]_vars => IInv'
<1> SUFFICES ASSUME IInv, [Next]_vars PROVE IInv'
  OBVIOUS
<1>1. CASE UNCHANGED vars
  <2> USE DEF vars, clientVars, loopVars, devVars
  <2>1. TypeInv'
    BY <1>1 DEF IInv, TypeInv
  <2>2. FlagsInv'
    BY <1>1 DEF IInv, FlagsInv
  <2>3. /\ RoomInv' /\ FileInv' /\ InboxInv' /\ SlavesInv' /\ RegisterInv' /\ LiveInv' /\ BroadcastInv' /\ BeatInv'
    BY <1>1, RoomKept, FileKept, InboxKept, SlavesKept, RegisterKept, LiveKept, BroadcastKept, BeatKept DEF IInv
  <2> QED  BY <2>1, <2>2, <2>3 DEF IInv
<1>2. ASSUME NEW k \in Clients, Connect(k) \/ Ask(k) \/ HangUp(k) PROVE IInv'
  BY <1>2, ConnectInv, AskInv, HangUpInv, ConstantsAssumption
<1>3. CASE Main
  BY <1>3, ConstantsAssumption, TestLoopInv, PollInv, PollTimeoutInv, AcceptInv, ReadMessageInv, ReadNothingInv,
     ReadErrorInv, RegisterStepInv, EndScanInv, BeatStepInv DEF Main
<1>4. CASE AskToStop \/ SendNext \/ EndBroadcast \/ Device \/ Tell
  BY <1>4, AskToStopInv, SendNextInv, EndBroadcastInv, DeviceInv, TellInv
<1> QED  BY <1>1, <1>2, <1>3, <1>4 DEF Next

\* It holds in every reachable state.
LEMMA Inductive == Spec => []IInv
BY InitInv, StepInv, PTL DEF Spec

-----------------------------------------------------------------------
(* What follows. *)

\* Every variable keeps its type, and the polled array has an entry for no more than the
\* socket and the connections accepted so far (add_poll_desc, remove_poll_desc).
LEMMA Typed == IInv => TypeOK
<1> SUFFICES ASSUME IInv PROVE TypeOK
  OBVIOUS
<1>1. Cardinality(Accepted) \in Nat /\ Cardinality(Clients) \in Nat /\ Cardinality(Accepted) <= Cardinality(Clients)
  BY ConstantsAssumption, FS_Subset, FS_CardinalityType DEF ConstantsAssumption, Accepted
<1>2. /\ descs \in Seq(Desc) /\ Len(descs) \in Nat /\ Len(descs) <= 1 + Cardinality(Accepted)
      /\ idx \in 1 .. Len(descs) + 1
  BY DEF IInv, TypeInv, RoomInv
<1>3. Len(descs) <= 1 + Cardinality(Clients) /\ idx \in 1 .. Len(descs) + Cardinality(Clients) + 1
  BY <1>1, <1>2
<1>4. \A i \in DOMAIN descs : descs[i].fd \in Fds \cup {NoFd} /\ descs[i].rev \subseteq {"IN", "HUP", "NVAL"}
  <2>1. \A i \in DOMAIN descs : descs[i] \in Desc
    BY <1>2
  <2> QED  BY <2>1 DEF Desc
<1>5. /\ DOMAIN inbox = Clients
      /\ \A k \in Clients : Len(inbox[k]) <= asked[k] /\ \A i \in DOMAIN inbox[k] : inbox[k][i] \in MessageSet
  <2>1. inbox \in [Clients -> Seq(MessageSet)]
    BY DEF IInv, TypeInv
  <2>2. \A k \in Clients : \A i \in DOMAIN inbox[k] : inbox[k][i] \in MessageSet
    BY <2>1
  <2> QED  BY <2>1, <2>2 DEF IInv, InboxInv
<1>6. \A i \in DOMAIN slaves : slaves[i] \in Fds
  BY DEF IInv, TypeInv
<1>7. bc.by \in {"nobody", "main", "device"}
  BY DEF IInv, TypeInv, ByWhom
<1>8. closeConn \in BOOLEAN /\ noSlaves \in BOOLEAN /\ stop \in BOOLEAN
  BY Zenon DEF IInv, FlagsInv
<1>9. /\ peer \in [Clients -> {"away", "up", "gone"}] /\ backlog \subseteq Clients
      /\ asked \in [Clients -> 0 .. MaxCommands + 1]
      /\ file \in [Fds -> Clients \cup {"listener", Nobody}]
      /\ mainPc \in {"test", "poll", "scan", "register", "beat", "beating", "left"}
      /\ heartbeat \in 0 .. HeartbeatAfter
      /\ status \in Statuses /\ request \in {"CONTINUE", "PAUSE", "RUN"}
      /\ devPc \in {"off", "idle", "tell", "telling", "ended"}
      /\ told \subseteq Clients
  BY DEF IInv, TypeInv
<1> QED  BY <1>3, <1>4, <1>5, <1>6, <1>7, <1>8, <1>9, Zenon DEF TypeOK

\* The registry and the array are what RegistrySound says of them.
LEMMA Sound == IInv => RegistryOpen /\ LivePolled
<1> SUFFICES ASSUME IInv PROVE RegistryOpen /\ LivePolled
  OBVIOUS
<1>1. ASSUME NEW i \in DOMAIN slaves PROVE asked[file[slaves[i]]] > 0
  <2>1. PICK k \in Clients : k = file[slaves[i]] /\ ~Unread(k)
    BY DEF IInv, SlavesInv
  <2>2. Len(inbox[k]) \in Nat /\ asked[k] \in Nat /\ Len(inbox[k]) <= asked[k]
    BY ConstantsAssumption DEF IInv, TypeInv, InboxInv, ConstantsAssumption
  <2>3. asked[k] > 0
    BY <2>1, <2>2 DEF Unread
  <2> QED  BY <2>1, <2>3
<1>2. RegistryOpen
  BY <1>1 DEF IInv, SlavesInv, RegistryOpen
<1>3. LivePolled
  BY DEF IInv, LiveInv, Live, LivePolled
<1> QED  BY <1>2, <1>3

\* What the registry names is open, a slave's and there once, and every slave that is
\* there is polled, whichever descriptors the device's thread closes and the kernel
\* hands out again between any two steps of the loop (ltr_int_master_main_loop,
\* remove_poll_desc, ltr_int_broadcast_pose).
THEOREM RegistryAlwaysSound == Spec => []RegistrySound
<1>1. IInv => RegistrySound
  BY Typed, Sound DEF RegistrySound
<1> QED  BY <1>1, Inductive, PTL

\* A broadcast that has come to its end has been sent to every slave registered, though
\* it erased some on its way and slaves connected meanwhile (ltr_int_broadcast_pose).
THEOREM BroadcastsComplete == Spec => []BroadcastComplete
<1>1. IInv => BroadcastComplete
  <2> SUFFICES ASSUME IInv, bc.by # "nobody", bc.todo = <<>>, bc.what = status, NEW i \in DOMAIN slaves
               PROVE  file[slaves[i]] \in told
    BY DEF BroadcastComplete
  <2>1. Len(slaves) \in Nat /\ DOMAIN slaves = 1 .. Len(slaves) /\ Len(bc.todo) = 0
    BY DEF IInv, TypeInv
  <2>2. i \in 1 .. Sent
    BY <2>1 DEF Sent
  <2> QED  BY <2>2 DEF IInv, BroadcastInv
<1> QED  BY <1>1, Inductive, PTL

-----------------------------------------------------------------------
(* Which process is the master: module Election, for any numbers of        *)
(* processes and attempts.  A GUI that goes for the socket has the lock    *)
(* (LockInv).                                                              *)

\* A GUI that competes for the socket has the lock.
LockInv == \A m \in Guis : pc[m] # "off" => guiLock = m

\* What is assumed of the bounds.
Bounds == Retries \in Nat /\ PollSleeps \in Nat \ {0} /\ Backlog \in Nat

\* No process has started yet.
LEMMA StartBegins == Bounds /\ ElectionInit => ElectionTypeOK /\ LockInv
<1> SUFFICES ASSUME Bounds, ElectionInit PROVE ElectionTypeOK /\ LockInv
  OBVIOUS
<1>1. ElectionTypeOK
  BY DEF ElectionInit, ElectionTypeOK, Pcs, Bounds
<1>2. LockInv
  BY DEF ElectionInit, Masters, LockInv
<1> QED  BY <1>1, <1>2

\* No attempt is counted below zero.
LEMMA Counts ==
    ASSUME Retries \in Nat, tries \in [Masters -> 0 .. Retries], NEW m \in Masters,
           CountTry(m) \/ UNCHANGED tries
    PROVE  tries' \in [Masters -> 0 .. Retries]
<1>1. CASE UNCHANGED tries
  BY <1>1
<1>2. CASE CountTry(m)
  <2>1. tries[m] \in 0 .. Retries /\ (tries[m] > 0 => tries[m] - 1 \in 0 .. Retries)
    OBVIOUS
  <2> QED  BY <1>2, <2>1 DEF CountTry
<1> QED  BY <1>1, <1>2

\* No queue grows beyond what the kernel keeps.
LEMMA Queued ==
    ASSUME Backlog \in Nat, queue \in [Masters -> 0 .. Backlog], path \in Masters, Knock
    PROVE  queue' \in [Masters -> 0 .. Backlog]
<1>1. queue[path] \in 0 .. Backlog /\ (queue[path] < Backlog => queue[path] + 1 \in 0 .. Backlog)
  OBVIOUS
<1> QED  BY <1>1 DEF Knock

\* What a step of one master changes of where the masters are.
LEMMA Moves ==
    ASSUME ElectionTypeOK, LockInv, NEW m \in Masters, pc[m] # "off", NEW q \in Pcs,
           pc' = [pc EXCEPT ![m] = q], guiLock' = guiLock
    PROVE  pc' \in [Masters -> Pcs] /\ LockInv'
<1>1. pc' \in [Masters -> Pcs] /\ \A n \in Guis : pc'[n] # "off" => pc[n] # "off"
  BY DEF ElectionTypeOK, Masters
<1> QED  BY <1>1 DEF LockInv

\* The system calls of ltr_int_make_socket that connect to nobody.
LEMMA SocketStep ==
    ASSUME Bounds, ElectionTypeOK, LockInv, NEW m \in Masters,
           Stat(m) \/ (ConnectTest(m) /\ ~ConnectAnswered(m)) \/ UnlinkStale(m) \/ Bind(m) \/ Listen(m)
    PROVE  ElectionTypeOK' /\ LockInv'
<1>1. /\ pc[m] # "off" /\ \E q \in Pcs : pc' = [pc EXCEPT ![m] = q]
  BY DEF Stat, ConnectTest, UnlinkStale, Bind, Listen, At, Pcs, Refused
<1>2. CountTry(m) \/ UNCHANGED tries
  BY DEF Stat, ConnectTest, UnlinkStale, Bind, Listen, triesVars
<1>3. /\ path' \in {path, m, NoOne}
      /\ sock' = sock \/ \E q \in {"bound", "listening"} : sock' = [sock EXCEPT ![m] = q]
      /\ UNCHANGED <<guiLock, met, queue, waited, slavePc, server>>
  BY DEF Stat, ConnectTest, UnlinkStale, Bind, Listen, slaveVars, triesVars, timeVars
<1>4. tries' \in [Masters -> 0 .. Retries]
  BY <1>2, Counts DEF ElectionTypeOK, Bounds
<1>5. pc' \in [Masters -> Pcs] /\ LockInv'
  BY <1>1, <1>3, Moves
<1> QED  BY <1>3, <1>4, <1>5 DEF ElectionTypeOK

\* A master answers, and is left a connection to accept; the GUI sleeps.
LEMMA AnswerStep ==
    ASSUME Bounds, ElectionTypeOK, LockInv, NEW m \in Masters, ConnectAnswered(m) \/ Sleep(m)
    PROVE  ElectionTypeOK' /\ LockInv'
<1>1. /\ pc[m] # "off" /\ \E q \in Pcs : pc' = [pc EXCEPT ![m] = q]
      /\ UNCHANGED <<path, sock, guiLock, slavePc, server>>
  BY DEF ConnectAnswered, Sleep, At, Pcs, Refused, slaveVars
<1>2. pc' \in [Masters -> Pcs] /\ LockInv'
  BY <1>1, Moves
<1>3. CASE ConnectAnswered(m)
  <2>1. path \in Masters /\ Knock /\ CountTry(m) /\ UNCHANGED waited
    BY <1>3 DEF ConnectAnswered, Answers, ElectionTypeOK
  <2>2. queue' \in [Masters -> 0 .. Backlog]
    BY <2>1, Queued DEF ElectionTypeOK, Bounds
  <2>3. tries' \in [Masters -> 0 .. Retries]
    BY <2>1, Counts DEF ElectionTypeOK, Bounds
  <2>4. met' \in [Guis -> SUBSET Masters]
    BY <1>3, <2>1 DEF ConnectAnswered, ElectionTypeOK
  <2> QED  BY <1>1, <1>2, <2>1, <2>2, <2>3, <2>4 DEF ElectionTypeOK
<1>4. CASE Sleep(m)
  <2>1. UNCHANGED <<tries, met, queue>>
    BY <1>4 DEF Sleep, triesVars
  <2>2. waited' = [n \in Standalone |-> IF pc[n] = "loop" THEN waited[n] + 1 ELSE waited[n]]
    BY <1>4 DEF Sleep
  <2>3. ASSUME NEW n \in Standalone
        PROVE  (IF pc[n] = "loop" THEN waited[n] + 1 ELSE waited[n]) \in 0 .. PollSleeps
    <3>1. waited[n] \in 0 .. PollSleeps /\ PollSleeps \in Nat
      BY DEF ElectionTypeOK, Bounds
    <3>2. pc[n] = "loop" => waited[n] < PollSleeps
      BY <1>4 DEF Sleep
    <3> QED  BY <3>1, <3>2
  <2>4. waited' \in [Standalone -> 0 .. PollSleeps]
    BY <2>2, <2>3
  <2> QED  BY <1>1, <1>2, <2>1, <2>4 DEF ElectionTypeOK
<1> QED  BY <1>3, <1>4

\* A look at the lock, a round of the loop, and its end.
LEMMA LoopStep ==
    ASSUME Bounds, ElectionTypeOK, LockInv, NEW m \in Masters, LoopRound(m) \/ LeaveLoop(m)
    PROVE  ElectionTypeOK' /\ LockInv'
<1>1. UNCHANGED <<path, sock, guiLock, tries, met, slavePc, server>>
  BY DEF LoopRound, LeaveLoop, triesVars, slaveVars
<1>2. waited' = [n \in Standalone |-> IF n = m THEN 0 ELSE waited[n]]
  BY DEF LoopRound, LeaveLoop, Looked
<1>3. waited' \in [Standalone -> 0 .. PollSleeps]
  BY <1>2 DEF ElectionTypeOK, Bounds
<1>4. queue' = queue \/ queue' = [queue EXCEPT ![m] = 0]
  BY DEF LoopRound, LeaveLoop
<1>5. queue' \in [Masters -> 0 .. Backlog]
  BY <1>4 DEF ElectionTypeOK, Bounds
<1>6. pc' = pc \/ (pc[m] # "off" /\ \E q \in Pcs : pc' = [pc EXCEPT ![m] = q])
  BY DEF LoopRound, LeaveLoop, At, Pcs
<1>7. pc' \in [Masters -> Pcs] /\ LockInv'
  <2>1. CASE pc' = pc
    BY <1>1, <2>1 DEF ElectionTypeOK, LockInv
  <2> QED  BY <1>1, <1>6, <2>1, Moves
<1> QED  BY <1>1, <1>3, <1>5, <1>7 DEF ElectionTypeOK

\* What a master does before and after, and its user.
LEMMA MasterStep ==
    ASSUME ProcessesAssumption, Bounds, ElectionTypeOK, LockInv, NEW m \in Masters,
           \/ OpenGui(m) \/ StartGui(m) \/ TestLock(m) \/ InitTracking(m) \/ JoinDevice(m)
           \/ CloseSocket(m) \/ RemoveSocket(m) \/ CleanLock(m) \/ GuiExits(m)
    PROVE  ElectionTypeOK' /\ LockInv'
<1>0. Retries \in Nat /\ Backlog \in Nat /\ \A n \in Guis : n # NoOne
  BY DEF ProcessesAssumption, Masters, Bounds
<1>1. CASE OpenGui(m)
  BY <1>0, <1>1 DEF OpenGui, slaveVars, triesVars, timeVars, ElectionTypeOK, LockInv
<1>2. CASE StartGui(m)
  <2>1. /\ m \in Guis /\ guiLock \in {NoOne, m} /\ guiLock' = m /\ pc' = [pc EXCEPT ![m] = "stat"]
        /\ tries' = [tries EXCEPT ![m] = Retries] /\ met' = [met EXCEPT ![m] = {}]
        /\ UNCHANGED <<path, sock, queue, waited, slavePc, server>>
    BY <1>2 DEF StartGui, slaveVars, timeVars
  <2>2. pc' \in [Masters -> Pcs] /\ tries' \in [Masters -> 0 .. Retries] /\ met' \in [Guis -> SUBSET Masters]
    BY <1>0, <2>1 DEF ElectionTypeOK, Pcs
  <2>3. ASSUME NEW n \in Guis, pc'[n] # "off", n # m PROVE FALSE
    <3>1. pc[n] # "off"
      BY <2>1, <2>3 DEF ElectionTypeOK, Masters
    <3>2. guiLock = n
      BY <3>1 DEF LockInv
    <3> QED  BY <1>0, <2>1, <2>3, <3>2
  <2>4. LockInv'
    BY <2>1, <2>3 DEF LockInv
  <2> QED  BY <2>1, <2>2, <2>4 DEF ElectionTypeOK
<1>3. CASE TestLock(m) \/ InitTracking(m) \/ JoinDevice(m) \/ CloseSocket(m) \/ RemoveSocket(m)
  <2>1. /\ pc[m] # "off" /\ \E q \in Pcs : pc' = [pc EXCEPT ![m] = q]
        /\ path' \in {path, NoOne} /\ (sock' = sock \/ sock' = [sock EXCEPT ![m] = "closed"])
        /\ (queue' = queue \/ queue' = [queue EXCEPT ![m] = 0])
        /\ UNCHANGED <<guiLock, tries, met, waited, slavePc, server>>
    BY <1>3 DEF TestLock, InitTracking, JoinDevice, CloseSocket, RemoveSocket, At, slaveVars,
                triesVars, timeVars, Pcs
  <2>2. pc' \in [Masters -> Pcs] /\ LockInv'
    BY <2>1, Moves
  <2>3. queue' \in [Masters -> 0 .. Backlog]
    BY <1>0, <2>1 DEF ElectionTypeOK
  <2> QED  BY <2>1, <2>2, <2>3 DEF ElectionTypeOK
<1>4. CASE CleanLock(m) \/ GuiExits(m)
  <2>1. /\ pc' = [pc EXCEPT ![m] = "off"] /\ sock' = [sock EXCEPT ![m] = "none"]
        /\ guiLock' = IF guiLock = m THEN NoOne ELSE guiLock
        /\ (queue' = queue \/ queue' = [queue EXCEPT ![m] = 0])
        /\ tries' = [tries EXCEPT ![m] = Retries]
        /\ met' = [g \in Guis |-> IF g = m THEN {} ELSE met[g]]
        /\ UNCHANGED <<path, waited, slavePc, server>>
    BY <1>4 DEF CleanLock, GuiExits, Forgets, At, slaveVars, timeVars
  <2>2. pc' \in [Masters -> Pcs] /\ pc'[m] = "off" /\ \A n \in Guis \ {m} : pc'[n] = pc[n]
    BY <2>1 DEF ElectionTypeOK, Masters, Pcs
  <2>3. LockInv'
    BY <2>1, <2>2 DEF LockInv
  <2>4. queue' \in [Masters -> 0 .. Backlog] /\ tries' \in [Masters -> 0 .. Retries]
    BY <1>0, <2>1 DEF ElectionTypeOK
  <2>5. met' \in [Guis -> SUBSET Masters]
    BY <2>1 DEF ElectionTypeOK
  <2> QED  BY <2>1, <2>2, <2>3, <2>4, <2>5 DEF ElectionTypeOK
<1> QED  BY <1>1, <1>2, <1>3, <1>4

\* A slave starts masters that are standalone, and leaves them connections to accept.
LEMMA StarterStep ==
    ASSUME Bounds, ElectionTypeOK, LockInv, NEW s \in Slaves, SlaveStep(s), Standalone \cap Guis = {}
    PROVE  ElectionTypeOK' /\ LockInv'
<1>1. CASE Spawn(s)
  <2>1. PICK m \in Standalone : pc' = [pc EXCEPT ![m] = "lock"] /\ server' = [server EXCEPT ![s] = m]
    BY <1>1 DEF Spawn
  <2>2. /\ slavePc' = [slavePc EXCEPT ![s] = "wait"]
        /\ UNCHANGED <<path, sock, guiLock, tries, met, queue, waited>>
    BY <1>1 DEF Spawn, triesVars, timeVars
  <2>3. pc' \in [Masters -> Pcs] /\ \A n \in Guis : pc'[n] = pc[n]
    BY <2>1 DEF ElectionTypeOK, Masters, Pcs
  <2>4. server' \in [Slaves -> Masters \cup {NoOne}]
    BY <2>1 DEF ElectionTypeOK, Masters
  <2> QED  BY <2>1, <2>2, <2>3, <2>4 DEF ElectionTypeOK, LockInv
<1>2. CASE Probe(s) \/ Waited(s) \/ Open(s) \/ Reconnect(s)
  <2>1. /\ \E q \in {"open", "connected", "probe"} : slavePc' = [slavePc EXCEPT ![s] = q]
        /\ server' = server \/ server' = [server EXCEPT ![s] = NoOne] \/ server' = [server EXCEPT ![s] = path]
        /\ UNCHANGED <<path, sock, guiLock, pc, tries, met, waited>>
    BY <1>2 DEF Probe, Waited, Open, Reconnect, triesVars, timeVars
  <2>2. UNCHANGED queue \/ (path \in Masters /\ Knock)
    BY <1>2 DEF Probe, Waited, Open, Reconnect, timeVars, Answers, ElectionTypeOK
  <2>3. queue' \in [Masters -> 0 .. Backlog]
    BY <2>2, Queued DEF ElectionTypeOK, Bounds
  <2>4. server' \in [Slaves -> Masters \cup {NoOne}]
    BY <2>1 DEF ElectionTypeOK
  <2> QED  BY <2>1, <2>3, <2>4 DEF ElectionTypeOK, LockInv
<1> QED  BY <1>1, <1>2 DEF SlaveStep

\* Every step of the masters and the slaves keeps both.
LEMMA StartKeeps ==
    ASSUME ProcessesAssumption, ElectionTypeOK, LockInv, [ElectionNext]_electionVars
    PROVE  ElectionTypeOK' /\ LockInv'
<1>0. Bounds /\ Standalone \cap Guis = {}
  BY DEF ProcessesAssumption, Bounds
<1>1. CASE ElectionNext
  <2>1. CASE \E m \in Masters : OpenGui(m) \/ StartGui(m) \/ Step(m) \/ LoopRound(m) \/ LeaveLoop(m)
                                       \/ GuiExits(m)
    BY <1>0, <2>1, MasterStep, SocketStep, AnswerStep, LoopStep DEF Step
  <2> QED  BY <1>0, <1>1, <2>1, StarterStep DEF ElectionNext
<1>2. CASE UNCHANGED electionVars
  BY <1>2 DEF electionVars, ElectionTypeOK, LockInv
<1> QED  BY <1>1, <1>2

\* Never two GUIs go for the socket: one that has been told to start has the lock,
\* or does not go on (ltr_srv_master.cpp:38-73, 425-431).
OneGui == \A m, n \in Guis : pc[m] # "off" /\ pc[n] # "off" => m = n

LEMMA ElectionInductive == ElectionSpec => [](ElectionTypeOK /\ LockInv)
<1>1. ElectionInit => ElectionTypeOK /\ LockInv
  BY StartBegins, ProcessesAssumption DEF ProcessesAssumption, Bounds
<1>2. ElectionTypeOK /\ LockInv /\ [ElectionNext]_electionVars => (ElectionTypeOK /\ LockInv)'
  BY StartKeeps, ProcessesAssumption
<1> QED  BY <1>1, <1>2, PTL DEF ElectionSpec

\* The election keeps its types, and no GUI makes more attempts at the socket than it
\* may, whoever answers or unlinks it in between (ltr_srv_master.cpp:432-446).
THEOREM ElectionTyped == ElectionSpec => []ElectionTypeOK
<1> QED  BY ElectionInductive, PTL

\* ... and never do two GUIs go for the socket, though one that gives up keeps the
\* lock and may go on later (ltr_srv_master.cpp:38-73, 425-446).
THEOREM GuisExclude == ElectionSpec => []OneGui
<1>1. LockInv => OneGui
  BY DEF LockInv, OneGui
<1> QED  BY <1>1, ElectionInductive, PTL
=======================================================================
