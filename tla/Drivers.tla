------------------------------- MODULE Drivers -------------------------------
(***************************************************************************)
(* The drivers of the webcam, the PlayStation Eye, the camera of a Mac,    *)
(* the Wiimote and the joystick and the choice of a webcam's format        *)
(* together, and proofs about them and the image processing for all values *)
(* of their constants.  They share nothing: a step is a step of one of     *)
(* them.  A driver's invariant stands after its INSTANCE, with lemmas that *)
(* its steps keep it; the theorems, none of whose properties is inductive, *)
(* are at the end.                                                         *)
(*                                                                         *)
(* Image processing: each preblob is connected and touches no other        *)
(* (AreaInv), the ranges of two lines point to the preblobs of their       *)
(* stripes (RangeInv), and a preblob is on the list or pointed to, never   *)
(* both (PreblobInv); stripes still to come are later (InputInv).          *)
(* Webcam: a buffer is queued, filled or held, and nowhere twice           *)
(* (OncePlaced, AllPlaced); from the kernel's queue through the driver's   *)
(* hands to the run loop pictures only get older (OrderInv).               *)
(* PS3 Eye: what was put together are parts of one frame in rising order,  *)
(* so as many as a frame has are all of it (PosInv), and one that is       *)
(* complete is handed on before anything else is looked at (DoneInv).      *)
(* Mac: the ring's filled slots are those from the reader's to the         *)
(* writer's (RingOf), and of one qt_cam alone the list of blobs, the       *)
(* driver's and the ring's pictures rise (ListInv); a flagged picture is   *)
(* whole until it is taken (FlagInv).                                      *)
(* Joystick: before the queue is empty an axis is where the last of its    *)
(* events tells (LastInv), and a coordinate whose axis has none is where   *)
(* that axis is (PoseInv).  What a recursive function makes of a batch is  *)
(* proved by induction over sets of numbers (SetInduction).                *)
(* Wiimote: window and thread learn of each other by signals; while it is  *)
(* open no loss is on its way (OpenInv), on the way there nothing but      *)
(* CONNECTING is (OpeningInv), and a window that knows none has forgotten  *)
(* the last command (ForgottenInv), so that it asks again.                 *)
(* Formats: the preferences are an entry of the rows, the one chosen last  *)
(* and shown, so that it is found again (FormatInv).                       *)
(***************************************************************************)
EXTENDS Blobs, Integers, Sequences, WellFoundedInduction, FiniteSetTheorems, TLAPS

-----------------------------------------------------------------------
(* Induction and sequences *)

\* A set of numbers has a least one; the induction theorems of the library take a
\* predicate, these take a set.
LEMMA Least ==
    ASSUME NEW T, T \subseteq Nat, T # {}
    PROVE  \E m \in T : \A n \in T : m <= n
<1>1. PICK m \in T : \A n \in T : ~ (<<n, m>> \in OpToRel(<, Nat))
  BY NatLessThanWellFounded, WFMin, Zenon
<1>2. \A n \in T : ~(n < m)
  BY <1>1 DEF OpToRel
<1> QED  BY <1>2

\* What holds of 0, and of n + 1 when it does of n.
LEMMA SetInduction ==
    ASSUME NEW T, 0 \in T, \A n \in Nat : n \in T => n + 1 \in T
    PROVE  Nat \subseteq T
<1> SUFFICES ASSUME Nat \ T # {} PROVE FALSE
  OBVIOUS
<1>1. PICK m \in Nat \ T : \A n \in Nat \ T : m <= n
  BY Least
<1>2. m # 0 /\ m - 1 \in Nat /\ (m - 1) + 1 = m
  OBVIOUS
<1> QED  BY <1>1, <1>2

LEMMA SeqAppend ==
    ASSUME NEW S, NEW s \in Seq(S), NEW e \in S
    PROVE  /\ Len(s) \in Nat /\ Append(s, e) \in Seq(S) /\ Len(Append(s, e)) = Len(s) + 1
           /\ Append(s, e)[Len(s) + 1] = e
           /\ \A i \in 1 .. Len(s) : Append(s, e)[i] = s[i]
OBVIOUS

-----------------------------------------------------------------------
(* The image processing *)

(* Lists *)

LEMMA ListExists ==
    ASSUME NEW U, NEW s \in Seq(U), NEW S
    PROVE  \E f : /\ f = [n \in 0 .. Len(s) |->
                            IF n = 0 THEN <<>>
                            ELSE IF s[n] \in S /\ \A m \in 1 .. n - 1 : s[m] # s[n] THEN Append(f[n - 1], s[n])
                            ELSE f[n - 1]]
                  /\ Listed(s, S) = f[Len(s)]
<1> DEFINE Step(g, n) == IF n = 0 THEN <<>>
                         ELSE IF s[n] \in S /\ \A m \in 1 .. n - 1 : s[m] # s[n] THEN Append(g[n - 1], s[n])
                         ELSE g[n - 1]
           T == {k \in Nat : \E f : f = [n \in 0 .. k |-> Step(f, n)]}
<1>1. 0 \in T
  <2> DEFINE f == [n \in 0 .. 0 |-> <<>>]
  <2>1. f = [n \in 0 .. 0 |-> Step(f, n)]
    OBVIOUS
  <2> QED  BY <2>1
<1>2. ASSUME NEW k \in Nat, k \in T PROVE k + 1 \in T
  <2>1. PICK f : f = [n \in 0 .. k |-> Step(f, n)]
    BY <1>2
  <2> DEFINE g == [n \in 0 .. k + 1 |-> IF n = k + 1 THEN Step(f, k + 1) ELSE f[n]]
  <2>2. ASSUME NEW n \in 0 .. k + 1 PROVE g[n] = Step(g, n)
    <3>1. CASE n = k + 1
      <4>1. g[n] = Step(f, n) /\ n # 0 /\ g[n - 1] = f[n - 1]
        BY <3>1
      <4> HIDE DEF g
      <4> QED  BY <4>1
    <3>2. CASE n \in 1 .. k
      <4>1. g[n] = f[n] /\ g[n - 1] = f[n - 1] /\ n # 0
        BY <3>2
      <4>2. f[n] = Step(f, n)
        <5> HIDE DEF Step
        <5>1. n \in 0 .. k
          BY <3>2
        <5> QED  BY <2>1, <5>1
      <4> HIDE DEF g
      <4> QED  BY <4>1, <4>2
    <3>3. CASE n = 0
      <4>1. g[n] = f[n] /\ f[n] = <<>>
        BY <2>1, <3>3
      <4> QED  BY <3>3, <4>1
    <3> QED  BY <3>1, <3>2, <3>3
  <2>3. g = [n \in 0 .. k + 1 |-> Step(g, n)]
    <3>1. g = [n \in 0 .. k + 1 |-> g[n]]
      OBVIOUS
    <3> HIDE DEF g, Step
    <3> QED  BY <2>2, <3>1
  <2> HIDE DEF g
  <2> QED  BY <2>3, SMTT(30)
<1>3. Len(s) \in T
  <2>1. Len(s) \in Nat
    OBVIOUS
  <2> HIDE DEF T
  <2> QED  BY <1>1, <1>2, <2>1, SetInduction
<1>4. PICK f : f = [n \in 0 .. Len(s) |-> Step(f, n)]
  BY <1>3
<1> DEFINE h == CHOOSE g : g = [n \in 0 .. Len(s) |-> Step(g, n)]
<1>5. h = [n \in 0 .. Len(s) |-> Step(h, n)]
  BY <1>4
<1>6. Listed(s, S) = h[Len(s)]
  BY DEF Listed
<1> QED  BY <1>5, <1>6

\* What is listed are the elements of s in S, each once.
LEMMA ListedOnce ==
    ASSUME NEW U, NEW s \in Seq(U), NEW S
    PROVE  /\ Listed(s, S) \in Seq(U)
           /\ {Listed(s, S)[k] : k \in 1 .. Len(Listed(s, S))} = {s[i] : i \in 1 .. Len(s)} \cap S
           /\ \A j, k \in 1 .. Len(Listed(s, S)) : Listed(s, S)[j] = Listed(s, S)[k] => j = k
<1>1. PICK f : /\ f = [n \in 0 .. Len(s) |->
                         IF n = 0 THEN <<>>
                         ELSE IF s[n] \in S /\ \A m \in 1 .. n - 1 : s[m] # s[n] THEN Append(f[n - 1], s[n])
                         ELSE f[n - 1]]
               /\ Listed(s, S) = f[Len(s)]
  BY ListExists
<1> DEFINE P(n) == /\ f[n] \in Seq(U)
                   /\ {f[n][k] : k \in 1 .. Len(f[n])} = {s[i] : i \in 1 .. n} \cap S
                   /\ \A j, k \in 1 .. Len(f[n]) : f[n][j] = f[n][k] => j = k
           T == {n \in Nat : n <= Len(s) => P(n)}
<1>0. Len(s) \in Nat /\ \A i \in 1 .. Len(s) : s[i] \in U
  OBVIOUS
<1>2. 0 \in T
  <2>1. f[0] = <<>>
    BY <1>0, <1>1
  <2>2. <<>> \in Seq(U) /\ Len(<<>>) = 0 /\ 1 .. 0 = {}
    OBVIOUS
  <2>3. {f[0][k] : k \in 1 .. Len(f[0])} = {} /\ {s[i] : i \in 1 .. 0} = {}
    BY <2>1, <2>2
  <2> QED  BY <2>1, <2>2, <2>3
<1>3. ASSUME NEW n \in Nat, n \in T PROVE n + 1 \in T
  <2> SUFFICES ASSUME n + 1 <= Len(s) PROVE P(n + 1)
    <3> HIDE DEF P
    <3> QED  OBVIOUS
  <2>1. P(n) /\ s[n + 1] \in U
    <3> HIDE DEF P
    <3> QED  BY <1>0, <1>3
  <2>2. f[n + 1] = IF s[n + 1] \in S /\ \A m \in 1 .. n : s[m] # s[n + 1] THEN Append(f[n], s[n + 1]) ELSE f[n]
    <3>1. n + 1 \in 0 .. Len(s) /\ n + 1 # 0 /\ (n + 1) - 1 = n
      BY <1>0
    <3> QED  BY <1>1, <3>1
  <2>3. CASE s[n + 1] \in S /\ \A m \in 1 .. n : s[m] # s[n + 1]
    <3>1. f[n + 1] = Append(f[n], s[n + 1])
      BY <2>2, <2>3
    <3>2. /\ f[n + 1] \in Seq(U) /\ Len(f[n]) \in Nat /\ Len(f[n + 1]) = Len(f[n]) + 1
          /\ f[n + 1][Len(f[n]) + 1] = s[n + 1]
          /\ \A k \in 1 .. Len(f[n]) : f[n + 1][k] = f[n][k]
      <4> DEFINE g == f[n]
      <4>1. g \in Seq(U)
        BY <2>1
      <4> HIDE DEF g
      <4> QED  BY <2>1, <3>1, <4>1, SeqAppend DEF g
    <3>3. {f[n + 1][k] : k \in 1 .. Len(f[n + 1])} = {f[n][k] : k \in 1 .. Len(f[n])} \cup {s[n + 1]}
      <4> DEFINE g == f[n]
                 h == f[n + 1]
      <4>1. Len(g) \in Nat /\ Len(h) = Len(g) + 1 /\ h[Len(g) + 1] = s[n + 1]
            /\ \A k \in 1 .. Len(g) : h[k] = g[k]
        BY <3>2
      <4> HIDE DEF g, h
      <4>2. 1 .. Len(h) = 1 .. Len(g) \cup {Len(g) + 1}
        BY <4>1
      <4>3. {h[k] : k \in 1 .. Len(h)} = {g[k] : k \in 1 .. Len(g)} \cup {s[n + 1]}
        BY <4>1, <4>2
      <4> QED  BY <4>3 DEF g, h
    <3>4. {s[i] : i \in 1 .. n + 1} = {s[i] : i \in 1 .. n} \cup {s[n + 1]}
      OBVIOUS
    <3>5. \A k \in 1 .. Len(f[n]) : f[n][k] # s[n + 1]
      BY <2>1, <2>3
    <3>6. \A j, k \in 1 .. Len(f[n + 1]) : f[n + 1][j] = f[n + 1][k] => j = k
      <4> DEFINE g == f[n]
                 h == f[n + 1]
      <4>1. \A j, k \in 1 .. Len(g) : g[j] = g[k] => j = k
        BY <2>1
      <4>2. Len(g) \in Nat /\ Len(h) = Len(g) + 1 /\ h[Len(g) + 1] = s[n + 1]
            /\ \A k \in 1 .. Len(g) : h[k] = g[k] /\ g[k] # s[n + 1]
        BY <3>2, <3>5
      <4> HIDE DEF g, h
      <4>3. \A j, k \in 1 .. Len(h) : h[j] = h[k] => j = k
        BY <4>1, <4>2
      <4> QED  BY <4>3 DEF h
    <3> QED  BY <2>1, <2>3, <3>2, <3>3, <3>4, <3>6
  <2>4. CASE ~(s[n + 1] \in S /\ \A m \in 1 .. n : s[m] # s[n + 1])
    <3>1. f[n + 1] = f[n]
      BY <2>2, <2>4
    <3>2. {s[i] : i \in 1 .. n + 1} = {s[i] : i \in 1 .. n} \cup {s[n + 1]}
      OBVIOUS
    <3>3. {s[i] : i \in 1 .. n + 1} \cap S = {s[i] : i \in 1 .. n} \cap S
      BY <2>4, <3>2
    <3> QED  BY <2>1, <3>1, <3>3
  <2> QED  BY <2>3, <2>4
<1>4. Len(s) \in T
  <2> HIDE DEF T
  <2> QED  BY <1>0, <1>2, <1>3, SetInduction
<1>5. P(Len(s))
  <2> HIDE DEF P
  <2> QED  BY <1>0, <1>4
<1>6. Listed(s, S) = f[Len(s)]
  BY <1>1
<1> QED  BY <1>5, <1>6, Zenon

(* Connected sets of stripes *)

Connected(part) ==
    /\ part # {}
    /\ \A less \in SUBSET part : Closed(less, part) => less \in {{}, part}

\* A stripe connects what it touches.
LEMMA StripeConnects ==
    ASSUME NEW x, NEW parts, \A part \in parts : Connected(part) /\ \E s \in part : Touch(x, s)
    PROVE  Connected({x} \cup UNION parts)
<1> DEFINE all == {x} \cup UNION parts
<1> SUFFICES ASSUME NEW less \in SUBSET all, Closed(less, all) PROVE less \in {{}, all}
  BY DEF Connected
<1>1. \A s, t : Touch(s, t) => Touch(t, s)
  BY DEF Touch
<1>2. ASSUME NEW part \in parts
      PROVE  less \cap part \in {{}, part} /\ \E s \in part : Touch(x, s) /\ Touch(s, x)
  <2>1. Closed(less \cap part, part)
    BY DEF Closed
  <2> QED  BY <1>1, <2>1 DEF Connected
<1>3. CASE x \in less
  <2>1. ASSUME NEW part \in parts PROVE part \subseteq less
    BY <1>2, <1>3 DEF Closed
  <2> QED  BY <1>3, <2>1
<1>4. CASE x \notin less
  <2>1. ASSUME NEW part \in parts PROVE less \cap part = {}
    <3> SUFFICES ASSUME less \cap part = part PROVE FALSE
      BY <1>2
    <3>1. PICK s \in part : Touch(s, x)
      BY <1>2
    <3> QED  BY <1>4, <3>1 DEF Closed
  <2> QED  BY <1>4, <2>1
<1> QED  BY <1>3, <1>4

(* The stripes of a picture, line by line *)

Stripes == [line : 0 .. Height - 1, from : 0 .. Width - 1, to : 0 .. Width - 1]

\* On a line there is a gap between two stripes.
Apart(stripes) ==
    /\ stripes \subseteq Stripes /\ \A s \in stripes : s.from <= s.to
    /\ \A s, t \in stripes : s.line = t.line /\ s.from = t.from => s = t
    /\ \A s, t \in stripes : s.line = t.line /\ s.from < t.from => s.to + 1 < t.from

LEMMA RunsApart == ASSUME NEW lit PROVE Apart(Runs(lit))
<1> USE SizesAssumption DEF Runs
<1>1. Runs(lit) \subseteq Stripes /\ \A s \in Runs(lit) : s.from <= s.to
  BY DEF Stripes
<1>2. ASSUME NEW s \in Runs(lit), NEW t \in Runs(lit), s.line = t.line, s.from = t.from PROVE s = t
  <2>1. s \in Stripes /\ t \in Stripes
    BY <1>1
  <2>2. s.to = t.to
    <3>1. s.to \in Int /\ t.to \in Int /\ s.from \in Int
      BY <2>1 DEF Stripes
    <3>2. ~(s.to < t.to)
      <4> SUFFICES ASSUME s.to < t.to PROVE FALSE
        OBVIOUS
      <4>1. s.to + 1 \in t.from .. t.to
        BY <1>1, <1>2, <3>1
      <4> QED  BY <1>2, <4>1
    <3>3. ~(t.to < s.to)
      <4> SUFFICES ASSUME t.to < s.to PROVE FALSE
        OBVIOUS
      <4>1. t.to + 1 \in s.from .. s.to
        BY <1>1, <1>2, <3>1
      <4> QED  BY <1>2, <4>1
    <3> QED  BY <3>1, <3>2, <3>3
  <2> QED  BY <1>2, <2>1, <2>2 DEF Stripes
<1>3. ASSUME NEW s \in Runs(lit), NEW t \in Runs(lit), s.line = t.line, s.from < t.from
      PROVE  s.to + 1 < t.from
  <2>1. s.to \in Int /\ t.to \in Int /\ s.from \in Int /\ t.from \in Int
    BY <1>1 DEF Stripes
  <2> SUFFICES ASSUME t.from <= s.to + 1 PROVE FALSE
    BY <2>1
  <2>2. t.from - 1 \in s.from .. s.to
    BY <1>3, <2>1
  <2> QED  BY <1>3, <2>2
<1> QED  BY <1>1, <1>2, <1>3 DEF Apart

LEMMA ApartFinite == ASSUME NEW S, Apart(S) PROVE IsFiniteSet(S)
<1> DEFINE place == [s \in S |-> <<s.line, s.from>>]
           Spots == (0 .. Height - 1) \X (0 .. Width - 1)
<1>1. IsFiniteSet(Spots)
  <2>1. IsFiniteSet(0 .. Height - 1) /\ IsFiniteSet(0 .. Width - 1)
    BY FS_Interval, SizesAssumption
  <2> QED  BY <2>1, FS_Product
<1>2. \A s \in S : s \in Stripes
  BY DEF Apart
<1>3. place \in [S -> Spots]
  BY <1>2 DEF Stripes
<1>4. \A s, t \in S : place[s] = place[t] => s = t
  BY DEF Apart
<1>5. place \in Injection(S, Spots)
  BY <1>3, <1>4 DEF Injection, IsInjective
<1> QED  BY <1>1, <1>5, FS_Injection

LEMMA Ordered ==
    ASSUME NEW S, Apart(S)
    PROVE  /\ \A s \in S : ~Before(s, s)
           /\ \A s, t \in S : s = t \/ Before(s, t) \/ Before(t, s)
           /\ \A s, t, u \in S : Before(s, t) /\ Before(t, u) => Before(s, u)
<1>1. \A s \in S : s.line \in Int /\ s.from \in Int
  BY DEF Apart, Stripes
<1>2. \A s, t \in S : s.line = t.line /\ s.from = t.from => s = t
  BY DEF Apart
<1> QED  BY <1>1, <1>2 DEF Before

\* The stripes in their order: each comes at the place given by how many are before it.
LEMMA AllInOrder ==
    ASSUME NEW S, Apart(S)
    PROVE  LET list == LineByLine(S)
           IN  /\ list \in Seq(S)
               /\ S = {list[i] : i \in 1 .. Len(list)}
               /\ \A i, j \in 1 .. Len(list) : i < j => Before(list[i], list[j])
<1> DEFINE Above(s) == {t \in S : Before(t, s)}
           rank == [s \in S |-> Cardinality(Above(s))]
           n == Cardinality(S)
<1>0. IsFiniteSet(S) /\ n \in Nat
  BY ApartFinite, FS_CardinalityType
<1>1. ASSUME NEW s \in S
      PROVE  IsFiniteSet(Above(s)) /\ rank[s] \in 0 .. n - 1
  <2>1. Above(s) \in SUBSET S /\ s \notin Above(s)
    BY Ordered
  <2>2. IsFiniteSet(Above(s)) /\ Cardinality(Above(s)) <= n /\ (n = Cardinality(Above(s)) => S = Above(s))
    BY <1>0, <2>1, FS_Subset
  <2>3. Cardinality(Above(s)) \in Nat
    BY <2>2, FS_CardinalityType
  <2>4. Cardinality(Above(s)) # n
    BY <2>1, <2>2
  <2> QED  BY <1>0, <2>2, <2>3, <2>4
<1>11. \A s \in S : rank[s] \in Int /\ rank[s] + 1 \in 1 .. n /\ (rank[s] + 1) - 1 = rank[s]
  <2> SUFFICES ASSUME NEW s \in S
               PROVE  rank[s] \in Int /\ rank[s] + 1 \in 1 .. n /\ (rank[s] + 1) - 1 = rank[s]
    OBVIOUS
  <2> DEFINE r == rank[s]
  <2>1. r \in 0 .. n - 1 
    BY <1>1, Zenon
  <2>3. n \in Nat
    BY <1>0, Zenon
  <2> HIDE DEF r, n
  <2>2. r \in Int /\ r + 1 \in 1 .. n /\ (r + 1) - 1 = r
    BY <2>1, <2>3
  <2> QED  BY <2>2 DEF r
<1>2. ASSUME NEW s \in S, NEW t \in S, Before(s, t) PROVE rank[s] < rank[t]
  <2>1. Above(s) \in SUBSET Above(t) /\ s \in Above(t) /\ s \notin Above(s)
    BY <1>2, Ordered
  <2>2. Cardinality(Above(s)) <= Cardinality(Above(t))
        /\ (Cardinality(Above(t)) = Cardinality(Above(s)) => Above(t) = Above(s))
    BY <1>1, <2>1, FS_Subset
  <2>3. rank[s] \in Int /\ rank[t] \in Int
    BY <1>11, Zenon
  <2>4. Cardinality(Above(t)) # Cardinality(Above(s))
    BY <2>1, <2>2
  <2> QED  BY <2>2, <2>3, <2>4
<1>3. \A s, t \in S : (rank[s] = rank[t] => s = t) /\ (rank[s] < rank[t] => Before(s, t))
  <2> SUFFICES ASSUME NEW s \in S, NEW t \in S
               PROVE  (rank[s] = rank[t] => s = t) /\ (rank[s] < rank[t] => Before(s, t))
    OBVIOUS
  <2>1. rank[s] \in Int /\ rank[t] \in Int
    BY <1>11, Zenon
  <2>2. s = t \/ Before(s, t) \/ Before(t, s)
    BY Ordered
  <2> HIDE DEF rank
  <2> QED  BY <1>2, <2>1, <2>2
<1>4. rank \in Injection(S, 0 .. n - 1)
  <2>1. rank \in [S -> 0 .. n - 1]
    BY <1>1
  <2> HIDE DEF rank, n
  <2> QED  BY <1>3, <2>1 DEF Injection, IsInjective
<1>5. IsFiniteSet(0 .. n - 1) /\ Cardinality(0 .. n - 1) = n
  <2> HIDE DEF n
  <2>1. 0 \in Int /\ n - 1 \in Int
    BY <1>0
  <2>2. IsFiniteSet(0 .. n - 1) /\ Cardinality(0 .. n - 1) = IF 0 > n - 1 THEN 0 ELSE n - 1 - 0 + 1
    BY <2>1, FS_Interval, Zenon
  <2> QED  BY <1>0, <2>2
<1>6. rank \in Surjection(S, 0 .. n - 1)
  <2> HIDE DEF rank
  <2> QED  BY <1>4, <1>5, FS_Injection
<1> DEFINE list == LineByLine(S)
<1>7a. list = [k \in 1 .. n |-> CHOOSE s \in S : Cardinality({t \in S : Before(t, s)}) = k - 1]
  BY DEF LineByLine
<1>7. ASSUME NEW i \in 1 .. n PROVE list[i] \in S /\ rank[list[i]] = i - 1
  <2>1. \E s \in S : rank[s] = i - 1
    <3> HIDE DEF rank
    <3>1. i - 1 \in 0 .. n - 1
      BY <1>0
    <3> QED  BY <1>6, <3>1 DEF Surjection
  <2>2. \E s \in S : Cardinality({t \in S : Before(t, s)}) = i - 1
    BY <2>1
  <2>3. list[i] = CHOOSE s \in S : Cardinality({t \in S : Before(t, s)}) = i - 1
    <3> HIDE DEF list, n
    <3> QED  BY <1>7a
  <2>4. list[i] \in S /\ Cardinality({t \in S : Before(t, list[i])}) = i - 1
    BY <2>2, <2>3
  <2> QED  BY <2>4
<1>8. list \in Seq(S) /\ Len(list) = n
  <2> HIDE DEF list, n
  <2>1. list = [i \in 1 .. n |-> list[i]]
    <3> DEFINE at(k) == CHOOSE s \in S : Cardinality({t \in S : Before(t, s)}) = k - 1
    <3>1. list = [k \in 1 .. n |-> at(k)]
      BY <1>7a
    <3> HIDE DEF at
    <3> QED  BY <3>1
  <2>2. list \in [1 .. n -> S]
    BY <1>7, <2>1
  <2> QED  BY <1>0, <2>2
<1>9. ASSUME NEW s \in S PROVE \E i \in 1 .. n : list[i] = s
  <2>1. rank[s] + 1 \in 1 .. n /\ (rank[s] + 1) - 1 = rank[s]
    BY <1>11, Zenon
  <2> HIDE DEF list, rank, n
  <2> QED  BY <1>3, <1>7, <2>1
<1>10. ASSUME NEW i \in 1 .. n, NEW j \in 1 .. n, i < j PROVE Before(list[i], list[j])
  <2> HIDE DEF list, rank, n
  <2> QED  BY <1>0, <1>3, <1>7, <1>10
<1> HIDE DEF list, rank, n
<1>12. S = {list[i] : i \in 1 .. n}
  BY <1>7, <1>9
<1> QED  BY <1>8, <1>10, <1>12 DEF list

(* The inductive invariant. *)

\* The stripes that were added.
Done == UNION {preblob[p] : p \in DOMAIN preblob}

\* Those still to come are in order, and come after all that were added.
InputInv ==
    /\ Apart(image)
    /\ input \in Seq(image)
    /\ image = Done \cup {input[i] : i \in 1 .. Len(input)}
    /\ \A i, j \in 1 .. Len(input) : i < j => Before(input[i], input[j])
    /\ \A s \in Done, i \in 1 .. Len(input) : Before(s, input[i])
    /\ Done = {} \/ \A i \in 1 .. Len(input) : vline <= input[i].line

\* The ranges are the stripes added on one line, each with the preblob it is in.
RangesOf(ranges, n) ==
    /\ ranges \in Seq([stripe : image, pb : DOMAIN preblob])
    /\ \A i \in 1 .. Len(ranges) :
          /\ ranges[i].stripe \in preblob[ranges[i].pb] /\ ranges[i].stripe.line = n
          /\ 2 * (i - 1) <= ranges[i].stripe.from
    /\ \A s \in Done : s.line = n => \E i \in 1 .. Len(ranges) : ranges[i].stripe = s

RangeInv ==
    /\ vline \in 0 .. NoLine
    /\ RangesOf(current, vline - 1) /\ RangesOf(next, vline)
    /\ \A s \in Done : s.line <= vline

\* A preblob is connected, and what touches it is in it.
AreaInv ==
    /\ IsFiniteSet(DOMAIN preblob)
    /\ \A p \in DOMAIN preblob : Connected(preblob[p])
    /\ \A p, q \in DOMAIN preblob : \A s \in preblob[p], t \in preblob[q] :
          s = t \/ Touch(s, t) => p = q

\* A preblob is on the list, once, or a range points to it; those of this line are marked.
PreblobInv ==
    /\ preblobs \in Seq(DOMAIN preblob)
    /\ \A j, k \in 1 .. Len(preblobs) : preblobs[j] = preblobs[k] => j = k
    /\ added = {preblobs[k] : k \in 1 .. Len(preblobs)}
    /\ DOMAIN preblob = added \cup Preblobs(current) \cup Preblobs(next)
    /\ added \cap (Preblobs(current) \cup Preblobs(next)) = {}
    /\ matched = Preblobs(next)

\* Between two pictures nothing is left.
Reset ==
    /\ input = <<>> /\ current = <<>> /\ next = <<>> /\ vline = NoLine
    /\ DOMAIN preblob = {} /\ matched = {} /\ added = {} /\ preblobs = <<>>

BlobsInv ==
    /\ phase \in {"idle", "stripes", "blobs"}
    /\ IF phase = "stripes" THEN InputInv /\ RangeInv /\ AreaInv /\ PreblobInv ELSE Reset
    /\ BlobsAreAreas

LEMMA BlobsBegin == Init => BlobsInv
<1> SUFFICES ASSUME Init PROVE BlobsInv
  OBVIOUS
<1>1. DOMAIN preblob = {}
  BY DEF Init
<1> QED  BY <1>1 DEF Init, BlobsInv, Reset, BlobsAreAreas

LEMMA EmptyRanges == Preblobs(<<>>) = {} /\ Len(<<>>) = 0 /\ \A S : <<>> \in Seq(S)
<1>1. DOMAIN <<>> = {}
  OBVIOUS
<1> QED  BY <1>1 DEF Preblobs

LEMMA PictureBegins == ASSUME BlobsInv, NewPicture PROVE BlobsInv'
<1>1. Reset /\ phase' = "stripes" /\ UNCHANGED <<current, next, vline, preblob, matched, added, preblobs, blobs>>
  BY DEF BlobsInv, NewPicture, rangeVars, preblobVars
<1>2. PICK lit \in Pictures : image' = Runs(lit) /\ input' = LineByLine(Runs(lit))
  BY DEF NewPicture
<1>3. Apart(image') /\ \A s \in image' : s \in Stripes
  BY <1>2, RunsApart DEF Apart
<1>4. Done' = {}
  BY <1>1 DEF Reset, Done
<1>5. InputInv'
  <2>1. /\ input' \in Seq(image')
        /\ image' = {input'[i] : i \in 1 .. Len(input')}
        /\ \A i, j \in 1 .. Len(input') : i < j => Before(input'[i], input'[j])
    BY <1>2, <1>3, AllInOrder
  <2> QED  BY <1>3, <1>4, <2>1 DEF InputInv
<1>6. RangeInv'
  BY <1>1, <1>4, EmptyRanges, SizesAssumption DEF Reset, RangeInv, RangesOf, NoLine
<1>7. AreaInv'
  BY <1>1, FS_EmptySet DEF Reset, AreaInv
<1>8. PreblobInv'
  BY <1>1, EmptyRanges DEF Reset, PreblobInv
<1> QED  BY <1>1, <1>5, <1>6, <1>7, <1>8 DEF BlobsInv, BlobsAreAreas

LEMMA BlobsTaken == ASSUME BlobsInv, Take PROVE BlobsInv'
<1>1. phase = "blobs" /\ phase' = "idle" /\ UNCHANGED <<input, current, next, vline, preblob, matched, added, preblobs>>
  BY DEF Take, rangeVars, preblobVars
<1> QED  BY <1>1 DEF BlobsInv, BlobsAreAreas, Reset

(* What the ranges point to *)

LEMMA PreblobsOf ==
    ASSUME NEW I, NEW D, NEW ranges \in Seq([stripe : I, pb : D])
    PROVE  /\ Preblobs(ranges) = {ranges[i].pb : i \in 1 .. Len(ranges)} /\ Preblobs(ranges) \subseteq D
           /\ Len(ranges) \in Nat
           /\ \A i \in 1 .. Len(ranges) : ranges[i].pb \in D /\ ranges[i].stripe \in I
<1>1. DOMAIN ranges = 1 .. Len(ranges) /\ Len(ranges) \in Nat
  OBVIOUS
<1>2. \A i \in 1 .. Len(ranges) : ranges[i] \in [stripe : I, pb : D]
  <2> DEFINE R == [stripe : I, pb : D]
  <2>1. ranges \in Seq(R)
    OBVIOUS
  <2> HIDE DEF R
  <2>2. \A i \in 1 .. Len(ranges) : ranges[i] \in R
    BY <2>1
  <2> QED  BY <2>2 DEF R
<1> QED  BY <1>1, <1>2 DEF Preblobs

\* A list of these elements of D, each once.
Enumerates(list, D, S) ==
    /\ list \in Seq(D)
    /\ {list[k] : k \in 1 .. Len(list)} = S
    /\ \A j, k \in 1 .. Len(list) : list[j] = list[k] => j = k

LEMMA ListedEach ==
    ASSUME NEW D, NEW s \in Seq(D), NEW S
    PROVE  Enumerates(Listed(s, S), D, {s[i] : i \in 1 .. Len(s)} \cap S)
BY ListedOnce, Zenon DEF Enumerates

\* What is listed of the ranges: their preblobs among these, once each.
LEMMA RangesListed ==
    ASSUME NEW I, NEW D, NEW ranges \in Seq([stripe : I, pb : D]), NEW which
    PROVE  Enumerates(InOrder(ranges, which), D, Preblobs(ranges) \cap which)
<1> DEFINE s == [i \in 1 .. Len(ranges) |-> ranges[i].pb]
<1>1. Len(ranges) \in Nat /\ \A i \in 1 .. Len(ranges) : ranges[i].pb \in D
  BY PreblobsOf
<1>2. s \in Seq(D) /\ Len(s) = Len(ranges) /\ \A i \in 1 .. Len(ranges) : s[i] = ranges[i].pb
  BY <1>1
<1>4. InOrder(ranges, which) = Listed(s, which)
  BY DEF InOrder
<1> HIDE DEF s
<1>3. {s[i] : i \in 1 .. Len(s)} = Preblobs(ranges)
  <2>1. Preblobs(ranges) = {ranges[i].pb : i \in 1 .. Len(ranges)}
    BY PreblobsOf
  <2>2. {s[i] : i \in 1 .. Len(ranges)} = {ranges[i].pb : i \in 1 .. Len(ranges)}
    BY <1>2
  <2> QED  BY <1>2, <2>1, <2>2
<1>5. Enumerates(Listed(s, which), D, {s[i] : i \in 1 .. Len(s)} \cap which)
  BY <1>2, ListedEach
<1> QED  BY <1>3, <1>4, <1>5

LEMMA JoinedOnce ==
    ASSUME NEW D, NEW S, NEW T, NEW s, NEW t, Enumerates(s, D, S), Enumerates(t, D, T), S \cap T = {}
    PROVE  Enumerates(s \o t, D, S \cup T)
<1> DEFINE u == s \o t
<1>0. s \in Seq(D) /\ t \in Seq(D)
  BY DEF Enumerates
<1>1. /\ Len(s) \in Nat /\ Len(t) \in Nat /\ u \in Seq(D) /\ Len(u) = Len(s) + Len(t)
      /\ \A k \in 1 .. Len(s) : u[k] = s[k]
      /\ \A k \in Len(s) + 1 .. Len(u) : u[k] = t[k - Len(s)]
  BY <1>0
<1> HIDE DEF u
<1>2. \A k \in 1 .. Len(t) : u[Len(s) + k] = t[k] /\ Len(s) + k \in 1 .. Len(u)
  <2> SUFFICES ASSUME NEW k \in 1 .. Len(t) PROVE u[Len(s) + k] = t[k] /\ Len(s) + k \in 1 .. Len(u)
    OBVIOUS
  <2>1. /\ Len(s) + k \in Len(s) + 1 .. Len(u) /\ (Len(s) + k) - Len(s) = k
        /\ Len(s) + k \in 1 .. Len(u)
    BY <1>1
  <2>2. u[Len(s) + k] = t[(Len(s) + k) - Len(s)]
    BY <1>1, <2>1
  <2> QED  BY <2>1, <2>2
<1>3. \A k \in 1 .. Len(u) : k \in 1 .. Len(s) \/ \E j \in 1 .. Len(t) : k = Len(s) + j
  <2> SUFFICES ASSUME NEW k \in 1 .. Len(u), k > Len(s) PROVE \E j \in 1 .. Len(t) : k = Len(s) + j
    BY <1>1
  <2>1. k - Len(s) \in 1 .. Len(t) /\ k = Len(s) + (k - Len(s))
    BY <1>1
  <2> QED  BY <2>1
<1>4. \A k \in 1 .. Len(u) : (k \in 1 .. Len(s) /\ u[k] = s[k])
                             \/ \E j \in 1 .. Len(t) : k = Len(s) + j /\ u[k] = t[j]
  BY <1>1, <1>2, <1>3
<1>5. (\A k \in 1 .. Len(s) : s[k] \in S) /\ \A k \in 1 .. Len(t) : t[k] \in T
  BY DEF Enumerates
<1>6. {u[k] : k \in 1 .. Len(u)} = S \cup T
  <2>1. \A k \in 1 .. Len(u) : u[k] \in S \cup T
    BY <1>4, <1>5
  <2>2. \A e \in S : \E k \in 1 .. Len(u) : u[k] = e
    <3> SUFFICES ASSUME NEW e \in S PROVE \E k \in 1 .. Len(u) : u[k] = e
      OBVIOUS
    <3>1. PICK k \in 1 .. Len(s) : s[k] = e
      BY DEF Enumerates
    <3> QED  BY <1>1, <3>1
  <2>3. \A e \in T : \E k \in 1 .. Len(u) : u[k] = e
    <3> SUFFICES ASSUME NEW e \in T PROVE \E k \in 1 .. Len(u) : u[k] = e
      OBVIOUS
    <3>1. PICK k \in 1 .. Len(t) : t[k] = e
      BY DEF Enumerates
    <3> QED  BY <1>2, <3>1
  <2> QED  BY <2>1, <2>2, <2>3
<1>7. ASSUME NEW j \in 1 .. Len(u), NEW k \in 1 .. Len(u), u[j] = u[k] PROVE j = k
  <2>1. (\A a, b \in 1 .. Len(s) : s[a] = s[b] => a = b) /\ \A a, b \in 1 .. Len(t) : t[a] = t[b] => a = b
    BY DEF Enumerates
  <2>2. \A a \in 1 .. Len(s), b \in 1 .. Len(t) : s[a] # t[b]
    BY <1>5
  <2>3. CASE j \in 1 .. Len(s) /\ u[j] = s[j]
    BY <1>4, <1>7, <2>1, <2>2, <2>3
  <2>4. CASE \E a \in 1 .. Len(t) : j = Len(s) + a /\ u[j] = t[a]
    BY <1>4, <1>7, <2>1, <2>2, <2>4
  <2> QED  BY <1>4, <2>3, <2>4
<1> QED  BY <1>1, <1>6, <1>7 DEF u, Enumerates

\* What a line that ends leaves to no later stripe.
Left(all) == (Preblobs(current) \ Preblobs(next)) \cup (IF all THEN Preblobs(next) ELSE {})

\* What is added to the list when a line ends is not on it yet.
LEMMA ListGrows ==
    ASSUME PreblobInv, RangeInv, NEW all \in BOOLEAN
    PROVE  /\ Enumerates(preblobs \o Complete(all), DOMAIN preblob, added \cup Left(all))
           /\ ToSet(Complete(all)) = Left(all)
<1> DEFINE D == DOMAIN preblob
           first == InOrder(current, Preblobs(current) \ (matched \cup added))
           second == IF all THEN InOrder(next, Preblobs(next) \ added) ELSE <<>>
           com == first \o second
           kept == IF all THEN Preblobs(next) ELSE {}
           gone == Preblobs(current) \ Preblobs(next)
<1>0. Complete(all) = com /\ Left(all) = gone \cup kept
  BY DEF Complete, Left
<1>1. current \in Seq([stripe : image, pb : D]) /\ next \in Seq([stripe : image, pb : D])
  BY DEF RangeInv, RangesOf
<1>2. Preblobs(current) \cap (Preblobs(current) \ (matched \cup added)) = gone
      /\ Preblobs(next) \cap (Preblobs(next) \ added) = Preblobs(next)
  BY DEF PreblobInv
<1>3. Enumerates(first, D, gone)
  <2>1. Enumerates(first, D, Preblobs(current) \cap (Preblobs(current) \ (matched \cup added)))
    BY <1>1, RangesListed
  <2> QED  BY <1>2, <2>1
<1>4. Enumerates(second, D, kept)
  <2>1. CASE all
    <3>1. Enumerates(InOrder(next, Preblobs(next) \ added), D, Preblobs(next) \cap (Preblobs(next) \ added))
      BY <1>1, RangesListed
    <3> QED  BY <1>2, <2>1, <3>1
  <2>2. CASE ~all
    <3>1. second = <<>> /\ kept = {} /\ Len(<<>>) = 0 /\ 1 .. 0 = {} /\ <<>> \in Seq(D)
      BY <2>2
    <3>2. {<<>>[k] : k \in 1 .. Len(<<>>)} = {}
      BY <3>1
    <3> QED  BY <3>1, <3>2 DEF Enumerates
  <2> QED  BY <2>1, <2>2
<1> DEFINE rest == gone \cup kept
<1>5. Enumerates(com, D, rest) /\ added \cap rest = {}
  <2>1. gone \cap kept = {} /\ added \cap rest = {}
    BY DEF PreblobInv
  <2> HIDE DEF first, second, gone, kept, D
  <2> QED  BY <1>3, <1>4, <2>1, JoinedOnce
<1>6. Enumerates(preblobs, D, added)
  BY DEF PreblobInv, D, Enumerates
<1>7. Enumerates(preblobs \o com, D, added \cup rest)
  <2> HIDE DEF com, rest, D
  <2> QED  BY <1>5, <1>6, JoinedOnce
<1>8. ToSet(com) = rest
  <2> HIDE DEF com, rest, D
  <2>1. DOMAIN com = 1 .. Len(com)
    BY <1>5 DEF Enumerates
  <2> QED  BY <1>5, <2>1 DEF ToSet, Enumerates
<1> HIDE DEF com, gone, kept
<1> QED  BY <1>0, <1>7, <1>8

(* The actions *)

LEMMA InputFirst ==
    ASSUME InputInv, input # <<>>
    PROVE  /\ Len(input) \in Nat /\ 1 \in 1 .. Len(input)
           /\ \A i \in 1 .. Len(input) : input[i] \in image /\ input[i].line \in 0 .. Height - 1
           /\ \A i \in 1 .. Len(input) : input[1].line <= input[i].line
<1>1. input \in Seq(image)
  BY DEF InputInv
<1>2. Len(input) \in Nat /\ 1 \in 1 .. Len(input) /\ \A i \in 1 .. Len(input) : input[i] \in image
  BY <1>1
<1>3. \A s \in image : s.line \in 0 .. Height - 1
  BY DEF InputInv, Apart, Stripes
<1>4. ASSUME NEW i \in 1 .. Len(input) PROVE input[1].line <= input[i].line
  <2>1. i = 1 \/ 1 < i
    BY <1>2
  <2>2. input[1].line \in Int /\ input[i].line \in Int
    BY <1>2, <1>3
  <2>3. i = 1 \/ Before(input[1], input[i])
    BY <1>2, <2>1 DEF InputInv
  <2> QED  BY <2>2, <2>3 DEF Before
<1> QED  BY <1>2, <1>3, <1>4

LEMMA DoneTyped == ASSUME InputInv PROVE \A s \in Done : s \in image /\ s.line \in Int /\ s.from \in Int /\ s.to \in Int
BY DEF InputInv, Apart, Stripes

LEMMA LineEnds == ASSUME BlobsInv, NextLine PROVE BlobsInv'
<1> DEFINE n == input[1].line
<1>1. InputInv /\ RangeInv /\ AreaInv /\ PreblobInv /\ phase = "stripes" /\ input # <<>> /\ n # vline
  BY DEF BlobsInv, NextLine
<1>2. next' = <<>> /\ vline' = n /\ UNCHANGED <<phase, image, input, preblob, blobs>>
  BY DEF NextLine
<1>3. /\ matched' = {}
      /\ \/ /\ n = vline + 1 /\ current' = next
            /\ preblobs' = preblobs \o Complete(FALSE) /\ added' = added \cup Left(FALSE)
         \/ /\ n # vline + 1 /\ current' = <<>>
            /\ preblobs' = preblobs \o Complete(TRUE) /\ added' = added \cup Left(TRUE)
  <2>1. matched' = matched \ Preblobs(next)
    BY DEF NextLine, StorePreblobs
  <2>2. \/ n = vline + 1 /\ StorePreblobs(FALSE) /\ current' = next
        \/ n # vline + 1 /\ StorePreblobs(TRUE) /\ current' = <<>>
    BY DEF NextLine
  <2>3. ToSet(Complete(FALSE)) = Left(FALSE) /\ ToSet(Complete(TRUE)) = Left(TRUE)
    BY <1>1, ListGrows
  <2> QED  BY <1>1, <2>1, <2>2, <2>3 DEF PreblobInv, StorePreblobs
<1>4. Done' = Done
  BY <1>2 DEF Done
<1>5. /\ n \in 0 .. Height - 1 /\ vline \in Int
      /\ \A s \in Done : s.line \in Int /\ s.line <= vline /\ vline < n
  <2>1. n \in 0 .. Height - 1
    BY <1>1, InputFirst
  <2>2. vline \in Int
    BY <1>1, SizesAssumption DEF RangeInv, NoLine
  <2>3. Done = {} \/ vline <= n
    BY <1>1, InputFirst DEF InputInv
  <2>4. \A s \in Done : s.line \in Int /\ s.line <= vline
    BY <1>1, DoneTyped DEF RangeInv
  <2> QED  BY <1>1, <2>1, <2>2, <2>3, <2>4
<1>6. InputInv'
  <2>1. \A i \in 1 .. Len(input) : n <= input[i].line
    BY <1>1, InputFirst
  <2> QED  BY <1>1, <1>2, <1>4, <2>1 DEF InputInv
<1>7. RangeInv'
  <2>1. vline' \in 0 .. NoLine
    BY <1>2, <1>5, SizesAssumption DEF NoLine
  <2>2. RangesOf(next, vline)'
    BY <1>2, <1>4, <1>5, EmptyRanges DEF RangesOf
  <2>3. RangesOf(current, vline - 1)'
    <3>1. CASE n = vline + 1 /\ current' = next
      <4>1. RangesOf(next, vline) /\ vline' - 1 = vline
        BY <1>1, <1>2, <1>5, <3>1 DEF RangeInv
      <4> QED  BY <1>2, <1>4, <3>1, <4>1 DEF RangesOf
    <3>2. CASE n # vline + 1 /\ current' = <<>>
      <4>1. \A s \in Done : s.line # n - 1
        BY <1>5, <3>2
      <4> QED  BY <1>2, <1>4, <3>2, <4>1, EmptyRanges DEF RangesOf
    <3> QED  BY <1>3, <3>1, <3>2
  <2>4. \A s \in Done' : s.line <= vline'
    BY <1>2, <1>4, <1>5
  <2> QED  BY <2>1, <2>2, <2>3, <2>4 DEF RangeInv
<1>8. AreaInv'
  BY <1>1, <1>2 DEF AreaInv
<1>9. PreblobInv'
  <2>1. PICK all \in BOOLEAN : /\ preblobs' = preblobs \o Complete(all) /\ added' = added \cup Left(all)
                               /\ current' = IF all THEN <<>> ELSE next
    BY <1>3
  <2>2. Enumerates(preblobs', DOMAIN preblob, added')
    BY <1>1, <2>1, ListGrows
  <2>3. Preblobs(next') = {} /\ Preblobs(current') = IF all THEN {} ELSE Preblobs(next)
    BY <1>2, <2>1, EmptyRanges
  <2>4. /\ DOMAIN preblob = added' \cup Preblobs(current') \cup Preblobs(next')
        /\ added' \cap (Preblobs(current') \cup Preblobs(next')) = {}
    BY <1>1, <2>1, <2>3 DEF PreblobInv, Left
  <2> QED  BY <1>2, <1>3, <2>2, <2>3, <2>4 DEF PreblobInv, Enumerates, Preblobs
<1> QED  BY <1>1, <1>2, <1>6, <1>7, <1>8, <1>9 DEF BlobsInv, BlobsAreAreas

RangesIn(I, D) == Seq([stripe : I, pb : D])

Redirects(new, ranges, merged, root) ==
    /\ Len(new) = Len(ranges)
    /\ \A i \in 1 .. Len(ranges) :
          /\ new[i].stripe = ranges[i].stripe
          /\ new[i].pb = IF ranges[i].pb \in merged THEN root ELSE ranges[i].pb

\* Redirect moves the ranges that point to merged preblobs, and leaves their stripes.
LEMMA Redirected ==
    ASSUME NEW I, NEW D, NEW ranges \in RangesIn(I, D), NEW merged, NEW root
    PROVE  /\ Redirect(ranges, merged, root) \in RangesIn(I, (D \ merged) \cup {root})
           /\ Redirects(Redirect(ranges, merged, root), ranges, merged, root)
<1> DEFINE r == Redirect(ranges, merged, root)
           E == (D \ merged) \cup {root}
<1>0. ranges \in Seq([stripe : I, pb : D])
  BY DEF RangesIn
<1>1. Len(ranges) \in Nat /\ DOMAIN ranges = 1 .. Len(ranges)
  BY <1>0
<1>2. \A i \in 1 .. Len(ranges) : ranges[i] \in [stripe : I, pb : D]
  <2> DEFINE R == [stripe : I, pb : D]
  <2>1. ranges \in Seq(R)
    BY <1>0
  <2> HIDE DEF R
  <2>2. \A i \in 1 .. Len(ranges) : ranges[i] \in R
    BY <2>1
  <2> QED  BY <2>2 DEF R
<1>3. r = [i \in 1 .. Len(ranges) |-> IF ranges[i].pb \in merged THEN [ranges[i] EXCEPT !.pb = root] ELSE ranges[i]]
  BY <1>1 DEF Redirect
<1>4. ASSUME NEW i \in 1 .. Len(ranges)
      PROVE  /\ r[i] \in [stripe : I, pb : E] /\ r[i].stripe = ranges[i].stripe
             /\ r[i].pb = IF ranges[i].pb \in merged THEN root ELSE ranges[i].pb
  <2> DEFINE g == ranges[i]
  <2>1. g \in [stripe : I, pb : D]
    BY <1>2
  <2>2. r[i] = IF g.pb \in merged THEN [g EXCEPT !.pb = root] ELSE g
    BY <1>3
  <2> HIDE DEF r, g
  <2>3. /\ r[i] \in [stripe : I, pb : E] /\ r[i].stripe = g.stripe
        /\ r[i].pb = IF g.pb \in merged THEN root ELSE g.pb
    BY <2>1, <2>2
  <2> QED  BY <2>3 DEF g
<1> HIDE DEF r
<1>5. r \in [1 .. Len(ranges) -> [stripe : I, pb : E]]
  <2> DEFINE R == [stripe : I, pb : E]
  <2>1. \A i \in 1 .. Len(ranges) : r[i] \in R
    BY <1>4
  <2> HIDE DEF R
  <2>2. r \in [1 .. Len(ranges) -> R]
    BY <1>3, <2>1
  <2> QED  BY <2>2 DEF R
<1>6. r \in Seq([stripe : I, pb : E]) /\ Len(r) = Len(ranges)
  <2> DEFINE R == [stripe : I, pb : E]
  <2> HIDE DEF R
  <2>1. r \in [1 .. Len(ranges) -> R] => r \in Seq(R) /\ Len(r) = Len(ranges)
    BY <1>1
  <2> QED  BY <1>5, <2>1 DEF R
<1> QED  BY <1>4, <1>6 DEF r, RangesIn, Redirects

LEMMA RedirectNone ==
    ASSUME NEW R, NEW ranges \in Seq(R), NEW root
    PROVE  Redirect(ranges, {}, root) = ranges
<1>1. Redirect(ranges, {}, root) = [i \in DOMAIN ranges |-> ranges[i]]
  BY DEF Redirect
<1> QED  BY <1>1

LEMMA Fresh ==
    ASSUME IsFiniteSet(DOMAIN preblob)
    PROVE  NewPreblob \notin DOMAIN preblob
<1> DEFINE n == Cardinality(DOMAIN preblob)
<1>1. n \in Nat
  BY FS_CardinalityType
<1>2. \E k \in 1 .. n + 1 : k \notin DOMAIN preblob
  <2> SUFFICES ASSUME 1 .. n + 1 \subseteq DOMAIN preblob PROVE FALSE
    OBVIOUS
  <2>1. IsFiniteSet(1 .. n + 1) /\ Cardinality(1 .. n + 1) = n + 1
    <3> HIDE DEF n
    <3>1. 1 \in Int /\ n + 1 \in Int
      BY <1>1
    <3>2. IsFiniteSet(1 .. n + 1) /\ Cardinality(1 .. n + 1) = IF 1 > n + 1 THEN 0 ELSE (n + 1) - 1 + 1
      BY <3>1, FS_Interval, Zenon
    <3> QED  BY <1>1, <3>2
  <2>2. Cardinality(1 .. n + 1) <= n
    BY FS_Subset
  <2> QED  BY <1>1, <2>1, <2>2
<1> QED  BY <1>2 DEF NewPreblob

\* What adding the first stripe does: the stripe and the preblobs of the ranges it
\* touches (hits) become one preblob (root), the others of these are merged.
Adds(hits, merged, root) ==
    /\ hits = {current[i].pb : i \in {k \in DOMAIN current : InRange(input[1], current[k])}}
    /\ merged = hits \ {root}
    /\ root \in hits \/ (hits = {} /\ root \notin DOMAIN preblob)
    /\ preblob' = [p \in (DOMAIN preblob \ merged) \cup {root} |->
                     IF p = root THEN {input[1]} \cup UNION {preblob[q] : q \in hits} ELSE preblob[p]]
    /\ current' = Redirect(current, merged, root)
    /\ next' = Append(Redirect(next, merged, root), [stripe |-> input[1], pb |-> root])
    /\ matched' = (matched \ merged) \cup {root}
    /\ input' = Tail(input)
    /\ UNCHANGED <<phase, image, vline, added, preblobs, blobs>>

LEMMA StripeAdds ==
    ASSUME RangeInv, AreaInv, AddStripe
    PROVE  \E hits, merged, root : Adds(hits, merged, root) /\ hits \subseteq Preblobs(current)
<1> DEFINE touched == {i \in DOMAIN current : InRange(input[1], current[i])}
           hits == {current[i].pb : i \in touched}
<1>1. hits \subseteq Preblobs(current)
  BY DEF Preblobs
<1>2. current \in Seq([stripe : image, pb : DOMAIN preblob]) /\ next \in Seq([stripe : image, pb : DOMAIN preblob])
  BY DEF RangeInv, RangesOf
<1>3. hits \subseteq DOMAIN preblob
  <2>1. Preblobs(current) \subseteq DOMAIN preblob
    BY <1>2, PreblobsOf
  <2> QED  BY <1>1, <2>1
<1>4. input' = Tail(input) /\ UNCHANGED <<phase, image, vline, added, preblobs, blobs>>
  BY DEF AddStripe
<1>5. CASE touched = {}
  <2> DEFINE root == NewPreblob
  <2>1. hits = {} /\ hits \ {root} = {} /\ UNION {preblob[q] : q \in hits} = {}
    BY <1>5
  <2>2. root \notin DOMAIN preblob
    BY Fresh DEF AreaInv
  <2>3. StartPreblob(input[1])
    BY <1>5 DEF AddStripe
  <2>4. Redirect(current, {}, root) = current /\ Redirect(next, {}, root) = next
    BY <1>2, RedirectNone
  <2>5. preblob' = [p \in DOMAIN preblob \cup {root} |-> IF p = root THEN {input[1]} ELSE preblob[p]]
        /\ next' = Append(next, [stripe |-> input[1], pb |-> root])
        /\ matched' = matched \cup {root} /\ current' = current
    BY <2>3 DEF StartPreblob
  <2>6. {input[1]} \cup UNION {preblob[q] : q \in {}} = {input[1]} /\ DOMAIN preblob \ {} = DOMAIN preblob
        /\ matched \ {} = matched
    BY <2>1
  <2> HIDE DEF root
  <2>7. preblob' = [p \in (DOMAIN preblob \ {}) \cup {root} |->
                     IF p = root THEN {input[1]} \cup UNION {preblob[q] : q \in {}} ELSE preblob[p]]
    BY <2>5, <2>6, Zenon
  <2>8. Adds({}, {}, root)
    BY <1>4, <2>1, <2>2, <2>4, <2>5, <2>6, <2>7 DEF Adds
  <2> QED  BY <2>8
<1>6. CASE touched # {}
  <2> DEFINE root == current[First(touched)].pb
             merged == hits \ {root}
  <2>1. Join(input[1], hits, root)
    BY <1>6 DEF AddStripe
  <2>2. First(touched) \in touched
    <3>1. touched \in SUBSET Nat
      BY <1>2
    <3>2. \E i \in touched : \A j \in touched : i <= j
      <4> HIDE DEF touched
      <4> QED  BY <1>6, <3>1, Least
    <3> HIDE DEF touched
    <3> QED  BY <3>2 DEF First
  <2>3. root \in hits
    <3> HIDE DEF touched
    <3> QED  BY <2>2
  <2>4. preblob' = [p \in DOMAIN preblob \ merged |->
                     IF p = root THEN {input[1]} \cup UNION {preblob[q] : q \in hits} ELSE preblob[p]]
        /\ current' = Redirect(current, merged, root)
        /\ next' = Append(Redirect(next, merged, root), [stripe |-> input[1], pb |-> root])
        /\ matched' = (matched \cup hits) \ merged
    BY <2>1 DEF Join
  <2>5. /\ DOMAIN preblob \ merged = (DOMAIN preblob \ merged) \cup {root}
        /\ (matched \cup hits) \ merged = (matched \ merged) \cup {root}
    BY <1>3, <2>3
  <2>6. hits = {current[i].pb : i \in {k \in DOMAIN current : InRange(input[1], current[k])}} /\ merged = hits \ {root}
    OBVIOUS
  <2> HIDE DEF root, merged, hits, touched
  <2>7. Adds(hits, merged, root)
    BY <1>4, <2>3, <2>4, <2>5, <2>6, Zenon DEF Adds
  <2> QED  BY <1>1, <2>7
<1> QED  BY <1>5, <1>6

LEMMA TouchBothWays == \A s, t : Touch(s, t) => Touch(t, s)
BY DEF Touch

\* The stripe added touches stripes of the preblobs it hits, and of no other.
LEMMA HitsTouch ==
    ASSUME InputInv, RangeInv, AreaInv, PreblobInv, input # <<>>, input[1].line = vline,
           NEW hits, hits = {current[i].pb : i \in {k \in DOMAIN current : InRange(input[1], current[k])}}
    PROVE  /\ \A q \in hits : q \in DOMAIN preblob /\ \E t \in preblob[q] : Touch(input[1], t)
           /\ \A q \in DOMAIN preblob : \A t \in preblob[q] : Touch(input[1], t) => q \in hits
           /\ input[1] \notin Done /\ ~Touch(input[1], input[1])
<1> DEFINE x == input[1]
<1>1. x \in image /\ x.line \in Int /\ x.from \in Int /\ x.to \in Int /\ x.line = vline
  <2>1. x \in image
    BY InputFirst
  <2> QED  BY <2>1 DEF InputInv, Apart, Stripes
<1>2. current \in Seq([stripe : image, pb : DOMAIN preblob]) /\ DOMAIN current = 1 .. Len(current)
  BY DEF RangeInv, RangesOf
<1>3. \A i \in 1 .. Len(current) : current[i].pb \in DOMAIN preblob /\ current[i].stripe \in image
  BY <1>2, PreblobsOf
<1>4. \A i \in 1 .. Len(current) : current[i].stripe \in preblob[current[i].pb] /\ current[i].stripe.line = vline - 1
  BY DEF RangeInv, RangesOf
<1>5. \A s \in image : s.line \in Int /\ s.from \in Int /\ s.to \in Int
  BY DEF InputInv, Apart, Stripes
<1>6. \A i \in 1 .. Len(current) : InRange(x, current[i]) <=> Touch(x, current[i].stripe)
  <2> SUFFICES ASSUME NEW i \in 1 .. Len(current) PROVE InRange(x, current[i]) <=> Touch(x, current[i].stripe)
    OBVIOUS
  <2> DEFINE t == current[i].stripe
  <2>1. t.line \in Int /\ t.from \in Int /\ t.to \in Int /\ t.line = vline - 1
    BY <1>3, <1>4, <1>5
  <2>2. InRange(x, current[i]) <=> x.from <= t.to + 1 /\ x.to + 1 >= t.from
    BY DEF InRange
  <2> HIDE DEF t, x
  <2>3. Touch(x, t) <=> x.from <= t.to + 1 /\ x.to + 1 >= t.from
    BY <1>1, <2>1 DEF Touch
  <2> QED  BY <2>2, <2>3 DEF t
<1> HIDE DEF x
<1>7. ASSUME NEW q \in hits PROVE q \in DOMAIN preblob /\ \E t \in preblob[q] : Touch(x, t)
  <2>1. PICK i \in 1 .. Len(current) : q = current[i].pb /\ InRange(x, current[i])
    BY <1>2 DEF x
  <2> QED  BY <1>3, <1>4, <1>6, <2>1
<1>8. x \notin Done /\ ~Touch(x, x)
  <2>1. ~Before(x, x)
    BY <1>1, Ordered DEF InputInv
  <2>2. 1 \in 1 .. Len(input)
    BY InputFirst
  <2>3. x \notin Done
    BY <2>1, <2>2 DEF InputInv, x
  <2> QED  BY <1>1, <2>3 DEF Touch
<1>9. ASSUME NEW q \in DOMAIN preblob, NEW t \in preblob[q], Touch(x, t) PROVE q \in hits
  <2>1. t \in Done
    BY DEF Done
  <2>2. t.line \in Int /\ t.line <= vline
    BY <2>1, DoneTyped DEF RangeInv
  <2>3. t.line = vline - 1
    BY <1>1, <1>9, <2>2 DEF Touch
  <2>4. PICK i \in 1 .. Len(current) : current[i].stripe = t
    BY <2>1, <2>3 DEF RangeInv, RangesOf
  <2>5. current[i].pb = q
    BY <1>3, <1>4, <2>4 DEF AreaInv
  <2>6. InRange(x, current[i])
    BY <1>6, <1>9, <2>4
  <2> QED  BY <1>2, <2>5, <2>6 DEF x
<1> QED  BY <1>7, <1>8, <1>9 DEF x

LEMMA StripeAdded == ASSUME BlobsInv, AddStripe PROVE BlobsInv'
<1> DEFINE x == input[1]
<1>1. InputInv /\ RangeInv /\ AreaInv /\ PreblobInv /\ phase = "stripes" /\ input # <<>> /\ x.line = vline
  BY DEF BlobsInv, AddStripe
<1>2. PICK hits, merged, root : Adds(hits, merged, root) /\ hits \subseteq Preblobs(current)
  BY <1>1, StripeAdds
<1> DEFINE D == DOMAIN preblob
           D2 == (D \ merged) \cup {root}
           joined == {x} \cup UNION {preblob[q] : q \in hits}
<1>3. /\ \A q \in hits : q \in D /\ \E t \in preblob[q] : Touch(x, t)
      /\ \A q \in D : \A t \in preblob[q] : Touch(x, t) => q \in hits
      /\ x \notin Done /\ ~Touch(x, x)
  BY <1>1, <1>2, HitsTouch DEF Adds
<1>4. merged = hits \ {root} /\ (root \in hits \/ (hits = {} /\ root \notin D))
  BY <1>2 DEF Adds
<1>5. /\ UNCHANGED <<phase, image, vline, added, preblobs, blobs>> /\ input' = Tail(input)
      /\ matched' = (matched \ merged) \cup {root}
      /\ current' = Redirect(current, merged, root)
      /\ next' = Append(Redirect(next, merged, root), [stripe |-> x, pb |-> root])
  BY <1>2 DEF Adds
<1>6. DOMAIN preblob' = D2 /\ \A p \in D2 : preblob'[p] = IF p = root THEN joined ELSE preblob[p]
  BY <1>2 DEF Adds
<1>7. \A p \in D2 : p # root => p \in D \ hits
  BY <1>4
<1>8. \A p \in D : p \in hits \/ (p \in D2 /\ p # root)
  BY <1>4
<1>9. root \in D2 /\ \A p \in hits : preblob[p] \subseteq joined
  OBVIOUS
<1> HIDE DEF x, D, D2
<1>10. Done' = Done \cup {x}
  <2>1. \A p \in D2 : preblob'[p] \subseteq Done \cup {x}
    BY <1>3, <1>6, <1>7 DEF Done, D
  <2>2. \A p \in D : \E q \in D2 : preblob[p] \subseteq preblob'[q]
    <3> HIDE DEF joined
    <3> QED  BY <1>6, <1>8, <1>9
  <2>3. x \in preblob'[root]
    BY <1>6, <1>9
  <2> HIDE DEF joined
  <2>4. Done' = UNION {preblob'[p] : p \in D2}
    BY <1>6 DEF Done
  <2>5. Done = UNION {preblob[p] : p \in D}
    BY DEF Done, D
  <2> QED  BY <1>9, <2>1, <2>2, <2>3, <2>4, <2>5
<1>11. /\ Len(input) \in Nat /\ Len(input') = Len(input) - 1 /\ input' \in Seq(image)
       /\ \A i \in 1 .. Len(input') : i + 1 \in 1 .. Len(input) /\ input'[i] = input[i + 1]
       /\ \A i \in 1 .. Len(input) : i = 1 \/ (i - 1 \in 1 .. Len(input') /\ input[i] = input'[i - 1])
  <2>1. input \in Seq(image)
    BY <1>1 DEF InputInv
  <2>2. /\ Len(input) \in Nat /\ Len(input') = Len(input) - 1 /\ input' \in Seq(image)
        /\ \A i \in 1 .. Len(input') : input'[i] = input[i + 1]
    BY <1>1, <1>5, <2>1
  <2>3. \A i \in 1 .. Len(input) : i = 1 \/ (i - 1 \in 1 .. Len(input') /\ (i - 1) + 1 = i)
    BY <2>2
  <2> QED  BY <2>2, <2>3
<1>12. x \in image /\ x.line \in Int /\ x.from \in Int /\ x.to \in Int /\ x.from >= 0
  <2>1. x \in image
    BY <1>1, InputFirst DEF x
  <2> QED  BY <1>1, <2>1 DEF InputInv, Apart, Stripes
<1>13. InputInv'
  <2>1. /\ image = Done \cup {input[i] : i \in 1 .. Len(input)}
        /\ \A i, j \in 1 .. Len(input) : i < j => Before(input[i], input[j])
        /\ \A s \in Done, i \in 1 .. Len(input) : Before(s, input[i])
    BY <1>1 DEF InputInv
  <2>2. 1 \in 1 .. Len(input) /\ input[1] = x
    BY <1>1, InputFirst DEF x
  <2>3. image = Done' \cup {input'[i] : i \in 1 .. Len(input')}
    BY <1>10, <1>11, <2>1, <2>2
  <2>4. \A i, j \in 1 .. Len(input') : i < j => Before(input'[i], input'[j])
    <3> SUFFICES ASSUME NEW i \in 1 .. Len(input'), NEW j \in 1 .. Len(input'), i < j
                 PROVE  Before(input'[i], input'[j])
      OBVIOUS
    <3>1. i + 1 < j + 1
      BY <1>11
    <3> QED  BY <1>11, <2>1, <3>1
  <2>5. \A s \in Done', i \in 1 .. Len(input') : Before(s, input'[i])
    <3> SUFFICES ASSUME NEW s \in Done', NEW i \in 1 .. Len(input') PROVE Before(s, input'[i])
      OBVIOUS
    <3>1. 1 < i + 1
      BY <1>11
    <3> QED  BY <1>10, <1>11, <2>1, <2>2, <3>1
  <2>6. \A i \in 1 .. Len(input') : vline <= input'[i].line
    BY <1>1, <1>11, InputFirst DEF x
  <2>7. Apart(image)
    BY <1>1 DEF InputInv
  <2> QED  BY <1>5, <1>11, <2>3, <2>4, <2>5, <2>6, <2>7 DEF InputInv
<1>14. AreaInv'
  <2>1. IsFiniteSet(D2)
    <3>1. IsFiniteSet(D)
      BY <1>1 DEF AreaInv, D
    <3>2. IsFiniteSet(D \ merged)
      BY <3>1, FS_Difference
    <3> QED  BY <3>2, FS_AddElement DEF D2
  <2>2. \A p \in D : Connected(preblob[p])
    BY <1>1 DEF AreaInv, D
  <2>3. \A p, q \in D : \A s \in preblob[p], t \in preblob[q] : s = t \/ Touch(s, t) => p = q
    BY <1>1 DEF AreaInv, D
  <2>4. Connected(joined)
    <3> DEFINE parts == {preblob[q] : q \in hits}
    <3>1. \A part \in parts : Connected(part) /\ \E s \in part : Touch(x, s)
      BY <1>3, <2>2
    <3> HIDE DEF parts
    <3>2. Connected({x} \cup UNION parts)
      BY <3>1, StripeConnects
    <3> QED  BY <3>2 DEF parts
  <2>5. \A p \in D2 : Connected(preblob'[p])
    <3> HIDE DEF joined
    <3> QED  BY <1>6, <1>7, <2>2, <2>4
  <2>6. \A q \in D2, s \in joined : q # root => \A t \in preblob[q] : s # t /\ ~Touch(s, t) /\ ~Touch(t, s)
    <3> SUFFICES ASSUME NEW q \in D2, q # root, NEW s \in joined, NEW t \in preblob[q]
                 PROVE  s # t /\ ~Touch(s, t) /\ ~Touch(t, s)
      OBVIOUS
    <3>1. q \in D /\ q \notin hits
      BY <1>7
    <3>2. CASE s = x
      <4>1. t \in Done
        BY <3>1 DEF Done, D
      <4> QED  BY <1>3, <3>1, <3>2, <4>1, TouchBothWays
    <3>3. CASE \E h \in hits : s \in preblob[h]
      <4>1. PICK h \in hits : s \in preblob[h]
        BY <3>3
      <4>2. h \in D /\ h # q
        BY <1>3, <3>1
      <4> QED  BY <2>3, <3>1, <4>1, <4>2
    <3> QED  BY <3>2, <3>3
  <2>7. \A p, q \in D2 : \A s \in preblob'[p], t \in preblob'[q] : s = t \/ Touch(s, t) => p = q
    <3> SUFFICES ASSUME NEW p \in D2, NEW q \in D2, p # q, NEW s \in preblob'[p], NEW t \in preblob'[q]
                 PROVE  s # t /\ ~Touch(s, t)
      OBVIOUS
    <3> HIDE DEF joined
    <3>1. CASE p = root
      BY <1>6, <2>6, <3>1
    <3>2. CASE q = root
      BY <1>6, <2>6, <3>2
    <3>3. CASE p # root /\ q # root
      BY <1>6, <1>7, <2>3, <3>3
    <3> QED  BY <3>1, <3>2, <3>3
  <2> HIDE DEF joined
  <2> QED  BY <1>6, <2>1, <2>5, <2>7 DEF AreaInv
<1> HIDE DEF joined
<1>15. /\ current \in Seq([stripe : image, pb : D]) /\ next \in Seq([stripe : image, pb : D])
       /\ current' \in Seq([stripe : image, pb : D2]) /\ Redirect(next, merged, root) \in Seq([stripe : image, pb : D2])
       /\ Len(current') = Len(current) /\ Len(Redirect(next, merged, root)) = Len(next)
       /\ \A i \in 1 .. Len(current) :
             current'[i].stripe = current[i].stripe
             /\ current'[i].pb = IF current[i].pb \in merged THEN root ELSE current[i].pb
       /\ \A i \in 1 .. Len(next) :
             Redirect(next, merged, root)[i].stripe = next[i].stripe
             /\ Redirect(next, merged, root)[i].pb = IF next[i].pb \in merged THEN root ELSE next[i].pb
  <2>1. current \in RangesIn(image, D) /\ next \in RangesIn(image, D)
    BY <1>1 DEF RangeInv, RangesOf, D, RangesIn
  <2>2. Redirect(current, merged, root) \in RangesIn(image, (D \ merged) \cup {root}) /\ Redirects(Redirect(current, merged, root), current, merged, root)
    BY <2>1, Redirected
  <2>3. Redirect(next, merged, root) \in RangesIn(image, (D \ merged) \cup {root}) /\ Redirects(Redirect(next, merged, root), next, merged, root)
    BY <2>1, Redirected
  <2> QED  BY <1>5, <2>1, <2>2, <2>3 DEF RangesIn, D2, Redirects
<1>16. /\ Len(next) \in Nat /\ next' \in Seq([stripe : image, pb : D2]) /\ Len(next') = Len(next) + 1
       /\ next'[Len(next) + 1].stripe = x /\ next'[Len(next) + 1].pb = root
       /\ \A i \in 1 .. Len(next) :
             next'[i].stripe = next[i].stripe
             /\ next'[i].pb = IF next[i].pb \in merged THEN root ELSE next[i].pb
  <2> DEFINE R == [stripe : image, pb : D2]
             r == Redirect(next, merged, root)
             e == [stripe |-> x, pb |-> root]
  <2>1. r \in Seq(R) /\ e \in R /\ Len(r) = Len(next)
    BY <1>9, <1>12, <1>15
  <2>2. e.stripe = x /\ e.pb = root
    OBVIOUS
  <2>3. next' = Append(r, e)
    BY <1>5
  <2>4. /\ Len(r) \in Nat /\ next' \in Seq(R) /\ Len(next') = Len(r) + 1
        /\ next'[Len(r) + 1] = e
        /\ \A i \in 1 .. Len(r) : next'[i] = r[i]
    <3> HIDE DEF R, r, e
    <3> QED  BY <2>1, <2>3, SeqAppend
  <2>5. \A i \in 1 .. Len(next) : next'[i] = Redirect(next, merged, root)[i]
    BY <2>1, <2>4
  <2> QED  BY <1>15, <2>1, <2>2, <2>4, <2>5
<1>17. \A p \in D : preblob[p] \subseteq preblob'[IF p \in merged THEN root ELSE p]
  <2> SUFFICES ASSUME NEW p \in D PROVE preblob[p] \subseteq preblob'[IF p \in merged THEN root ELSE p]
    OBVIOUS
  <2>1. CASE p \in hits
    BY <1>4, <1>6, <1>9, <2>1
  <2>2. CASE p \notin hits
    BY <1>4, <1>6, <1>8, <2>2
  <2> QED  BY <2>1, <2>2
<1>18. RangeInv'
  <2>0. vline \in Int
    BY <1>1, <1>12
  <2>1. RangesOf(current, vline - 1)'
    <3>1. \A i \in 1 .. Len(current) :
             /\ current[i].stripe \in preblob[current[i].pb] /\ current[i].stripe.line = vline - 1
             /\ 2 * (i - 1) <= current[i].stripe.from
             /\ current[i].pb \in D
      BY <1>1, <1>15, PreblobsOf DEF RangeInv, RangesOf
    <3>2. \A i \in 1 .. Len(current') :
             /\ current'[i].stripe \in preblob'[current'[i].pb] /\ current'[i].stripe.line = vline - 1
             /\ 2 * (i - 1) <= current'[i].stripe.from
      <4> SUFFICES ASSUME NEW i \in 1 .. Len(current)
                   PROVE  /\ current'[i].stripe \in preblob'[current'[i].pb] /\ current'[i].stripe.line = vline - 1
                          /\ 2 * (i - 1) <= current'[i].stripe.from
        BY <1>15
      <4> QED  BY <1>15, <1>17, <3>1
    <3>3. \A s \in Done' : s.line = vline - 1 => \E i \in 1 .. Len(current') : current'[i].stripe = s
      <4> SUFFICES ASSUME NEW s \in Done, s.line = vline - 1 PROVE \E i \in 1 .. Len(current') : current'[i].stripe = s
        BY <1>1, <1>10, <2>0
      <4>1. PICK i \in 1 .. Len(current) : current[i].stripe = s
        BY <1>1 DEF RangeInv, RangesOf
      <4> QED  BY <1>15, <4>1
    <3> QED  BY <1>5, <1>6, <1>15, <3>2, <3>3 DEF RangesOf
  <2>2. RangesOf(next, vline)'
    <3>1. \A i \in 1 .. Len(next) :
             /\ next[i].stripe \in preblob[next[i].pb] /\ next[i].stripe.line = vline
             /\ 2 * (i - 1) <= next[i].stripe.from
             /\ next[i].pb \in D /\ next[i].stripe \in image
      BY <1>1, <1>15, PreblobsOf DEF RangeInv, RangesOf
    <3>2. 2 * Len(next) <= x.from
      <4>1. CASE Len(next) = 0
        BY <1>12, <4>1
      <4>2. CASE Len(next) # 0
        <5> DEFINE s == next[Len(next)].stripe
        <5>1. Len(next) \in 1 .. Len(next)
          BY <1>16, <4>2
        <5>2. s \in image /\ s.line = x.line /\ 2 * (Len(next) - 1) <= s.from /\ s \in Done
          BY <1>1, <3>1, <5>1 DEF Done, D
        <5>3. Before(s, x)
          <6>1. 1 \in 1 .. Len(input) /\ x = input[1]
            BY <1>1, InputFirst DEF x
          <6> QED  BY <1>1, <5>2, <6>1 DEF InputInv
        <5> HIDE DEF s
        <5>4. s.from < x.from
          BY <1>12, <5>2, <5>3 DEF Before
        <5>5. s.to + 1 < x.from /\ s.from <= s.to
          BY <1>1, <1>12, <5>2, <5>4 DEF InputInv, Apart
        <5>6. s.from \in Int /\ s.to \in Int
          BY <1>1, <5>2, DoneTyped
        <5> QED  BY <1>12, <1>16, <5>2, <5>5, <5>6
      <4> QED  BY <4>1, <4>2
    <3>3. ASSUME NEW i \in 1 .. Len(next')
          PROVE  /\ next'[i].stripe \in preblob'[next'[i].pb] /\ next'[i].stripe.line = vline
                 /\ 2 * (i - 1) <= next'[i].stripe.from
      <4>1. CASE i \in 1 .. Len(next)
        BY <1>16, <1>17, <3>1, <4>1
      <4>2. CASE i = Len(next) + 1
        <5>1. x \in preblob'[root]
          BY <1>6, <1>9 DEF joined
        <5>2. 2 * (i - 1) <= x.from
          BY <1>16, <3>2, <4>2
        <5> QED  BY <1>1, <1>16, <4>2, <5>1, <5>2
      <4> QED  BY <1>16, <4>1, <4>2
    <3>4. \A s \in Done' : s.line = vline => \E i \in 1 .. Len(next') : next'[i].stripe = s
      <4> SUFFICES ASSUME NEW s \in Done', s.line = vline PROVE \E i \in 1 .. Len(next') : next'[i].stripe = s
        OBVIOUS
      <4>1. CASE s = x
        <5>1. Len(next) + 1 \in 1 .. Len(next')
          BY <1>16
        <5> QED  BY <1>16, <4>1, <5>1
      <4>2. CASE s \in Done
        <5>1. PICK i \in 1 .. Len(next) : next[i].stripe = s
          BY <1>1, <4>2 DEF RangeInv, RangesOf
        <5>2. i \in 1 .. Len(next')
          BY <1>16
        <5> QED  BY <1>16, <5>1, <5>2
      <4> QED  BY <1>10, <4>1, <4>2
    <3> QED  BY <1>5, <1>6, <1>16, <3>3, <3>4 DEF RangesOf
  <2>3. vline' \in 0 .. NoLine /\ \A s \in Done' : s.line <= vline'
    BY <1>1, <1>5, <1>10, <1>12 DEF RangeInv
  <2> QED  BY <2>1, <2>2, <2>3 DEF RangeInv
<1>19. PreblobInv'
  <2>1. /\ Preblobs(current) = {current[i].pb : i \in 1 .. Len(current)}
        /\ Preblobs(next) = {next[i].pb : i \in 1 .. Len(next)}
        /\ Preblobs(current') = {current'[i].pb : i \in 1 .. Len(current)}
        /\ Preblobs(next') = {next'[i].pb : i \in 1 .. Len(next')}
    <3>1. Preblobs(current) = {current[i].pb : i \in 1 .. Len(current)}
      BY <1>15, PreblobsOf
    <3>2. Preblobs(next) = {next[i].pb : i \in 1 .. Len(next)}
      BY <1>15, PreblobsOf
    <3>3. Preblobs(current') = {current'[i].pb : i \in 1 .. Len(current')} /\ Len(current') = Len(current)
      BY <1>15, PreblobsOf
    <3>4. Preblobs(next') = {next'[i].pb : i \in 1 .. Len(next')}
      BY <1>16, PreblobsOf
    <3> QED  BY <3>1, <3>2, <3>3, <3>4
  <2>2. Preblobs(current') \subseteq (Preblobs(current) \ merged) \cup {root}
        /\ Preblobs(current) \ merged \subseteq Preblobs(current')
    BY <1>15, <2>1
  <2>3. Preblobs(next') = (Preblobs(next) \ merged) \cup {root}
    <3>1. \A i \in 1 .. Len(next') : i \in 1 .. Len(next) \/ i = Len(next) + 1
      BY <1>16
    <3>2. \A i \in 1 .. Len(next) : i \in 1 .. Len(next')
      BY <1>16
    <3>3. Len(next) + 1 \in 1 .. Len(next')
      BY <1>16
    <3>4. Preblobs(next') \subseteq (Preblobs(next) \ merged) \cup {root}
      BY <1>16, <2>1, <3>1
    <3>5. Preblobs(next) \ merged \subseteq Preblobs(next')
      BY <1>16, <2>1, <3>2
    <3>6. root \in Preblobs(next')
      BY <1>16, <2>1, <3>3
    <3> QED  BY <3>4, <3>5, <3>6
  <2>4. /\ D = added \cup Preblobs(current) \cup Preblobs(next)
        /\ added \cap (Preblobs(current) \cup Preblobs(next)) = {}
        /\ matched = Preblobs(next)
    BY <1>1 DEF PreblobInv, D
  <2>5. added \cap merged = {} /\ root \notin added
    BY <1>2, <1>4, <2>4
  <2>6. D2 = added \cup Preblobs(current') \cup Preblobs(next')
    BY <2>2, <2>3, <2>4, <2>5 DEF D2
  <2>7. added \cap (Preblobs(current') \cup Preblobs(next')) = {}
    BY <2>2, <2>3, <2>4, <2>5
  <2>8. preblobs \in Seq(D2)
    <3>1. preblobs \in Seq(D) /\ added = {preblobs[k] : k \in 1 .. Len(preblobs)}
      BY <1>1 DEF PreblobInv, D
    <3>2. \A k \in 1 .. Len(preblobs) : preblobs[k] \in D2
      BY <2>6, <3>1
    <3> QED  BY <3>1, <3>2
  <2>9. \A j, k \in 1 .. Len(preblobs) : preblobs[j] = preblobs[k] => j = k
    BY <1>1 DEF PreblobInv
  <2>10. added = {preblobs[k] : k \in 1 .. Len(preblobs)}
    BY <1>1 DEF PreblobInv
  <2>11. Preblobs(current)' = Preblobs(current') /\ Preblobs(next)' = Preblobs(next')
    BY DEF Preblobs
  <2> QED  BY <1>5, <1>6, <2>3, <2>4, <2>6, <2>7, <2>8, <2>9, <2>10, <2>11 DEF PreblobInv
<1> QED  BY <1>1, <1>5, <1>13, <1>14, <1>18, <1>19 DEF BlobsInv, BlobsAreAreas

\* The areas that are separate and cover the picture are its components.
LEMMA AreasAreComponents ==
    ASSUME AreaInv, NEW p \in DOMAIN preblob
    PROVE  IsComponent(preblob[p], Done)
<1>1. Connected(preblob[p]) /\ preblob[p] \subseteq Done
  BY DEF AreaInv, Done
<1>2. Closed(preblob[p], Done)
  BY DEF AreaInv, Closed, Done
<1>3. \A less \in SUBSET preblob[p] : Closed(less, Done) => Closed(less, preblob[p])
  BY <1>1 DEF Closed
<1> QED  BY <1>1, <1>2, <1>3 DEF IsComponent, Connected

\* And there are no others.
LEMMA ComponentsAreAreas ==
    ASSUME AreaInv, NEW part \in SUBSET Done, IsComponent(part, Done)
    PROVE  \E p \in DOMAIN preblob : part = preblob[p]
<1>1. PICK s \in part : TRUE
  BY DEF IsComponent
<1>2. PICK p \in DOMAIN preblob : s \in preblob[p]
  BY <1>1 DEF Done
<1> DEFINE both == part \cap preblob[p]
<1>3. Closed(part, Done) /\ Closed(preblob[p], Done) /\ Connected(preblob[p]) /\ preblob[p] \subseteq Done
  BY AreasAreComponents DEF IsComponent, AreaInv, Done
<1>4. Closed(both, Done) /\ Closed(both, preblob[p]) /\ s \in both
  BY <1>1, <1>2, <1>3 DEF Closed
<1>5. both = part
  BY <1>4 DEF IsComponent
<1>6. both = preblob[p]
  BY <1>3, <1>4 DEF Connected
<1> QED  BY <1>5, <1>6

LEMMA BlobsTold == ASSUME BlobsInv, StripesToBlobs PROVE BlobsInv'
<1> DEFINE D == DOMAIN preblob
           C == {p \in D : Counts(preblob[p])}
           list == preblobs \o Complete(TRUE)
           valid == Listed(list, C)
           m == IF Len(valid) < MaxBlobs THEN Len(valid) ELSE MaxBlobs
<1>1. InputInv /\ RangeInv /\ AreaInv /\ PreblobInv /\ phase = "stripes" /\ input = <<>>
  BY DEF BlobsInv, StripesToBlobs
<1>2. /\ phase' = "blobs" /\ blobs' = [i \in 1 .. m |-> preblob[valid[i]]]
      /\ preblobs' = <<>> /\ added' = {} /\ matched' = {}
      /\ preblob' = [p \in D \ (ToSet(preblobs) \cup ToSet(Complete(TRUE))) |-> preblob[p]]
      /\ current' = <<>> /\ next' = <<>> /\ vline' = NoLine /\ image' = image /\ input' = input
  BY DEF StripesToBlobs
<1>3. image = Done
  <2>1. Len(<<>>) = 0 /\ 1 .. 0 = {}
    OBVIOUS
  <2> QED  BY <1>1, <2>1 DEF InputInv
<1>4. D = added \cup Left(TRUE)
  BY <1>1 DEF PreblobInv, Left
<1>5. Enumerates(list, D, D) /\ ToSet(Complete(TRUE)) = Left(TRUE)
  <2>1. /\ Enumerates(preblobs \o Complete(TRUE), D, added \cup Left(TRUE))
        /\ ToSet(Complete(TRUE)) = Left(TRUE)
    BY <1>1, ListGrows
  <2> QED  BY <1>4, <2>1
<1> HIDE DEF D, C
<1>6. Enumerates(valid, D, C)
  <2> HIDE DEF list
  <2>1. list \in Seq(D) /\ {list[i] : i \in 1 .. Len(list)} = D
    BY <1>5 DEF Enumerates
  <2>2. Enumerates(Listed(list, C), D, {list[i] : i \in 1 .. Len(list)} \cap C)
    BY <2>1, ListedEach
  <2>3. D \cap C = C
    BY DEF C
  <2> QED  BY <2>1, <2>2, <2>3
<1> HIDE DEF list, valid
<1>7. Reset'
  <2>1. ToSet(preblobs) = added
    <3>1. DOMAIN preblobs = 1 .. Len(preblobs)
      BY <1>1 DEF PreblobInv
    <3> QED  BY <1>1, <3>1 DEF PreblobInv, ToSet
  <2>2. DOMAIN preblob' = {}
    BY <1>2, <1>4, <1>5, <2>1
  <2> QED  BY <1>1, <1>2, <2>2 DEF Reset
<1>8. /\ Len(valid) \in Nat /\ {valid[k] : k \in 1 .. Len(valid)} = C
      /\ \A j, k \in 1 .. Len(valid) : valid[j] = valid[k] => j = k
  BY <1>6 DEF Enumerates
<1>9. m \in Nat /\ m <= Len(valid) /\ m <= MaxBlobs /\ (m < MaxBlobs => m = Len(valid))
  BY <1>8, SizesAssumption
<1> HIDE DEF m
<1>10. DOMAIN blobs' = 1 .. m /\ Len(blobs') = m /\ \A i \in 1 .. m : blobs'[i] = preblob[valid[i]]
  BY <1>2, <1>9
<1>11. \A i \in 1 .. m : i \in 1 .. Len(valid) /\ valid[i] \in C
  <2>1. \A i \in 1 .. m : i \in 1 .. Len(valid)
    BY <1>8, <1>9
  <2> QED  BY <1>8, <2>1
<1>12. \A p \in C : p \in D /\ Counts(preblob[p])
  BY DEF C
<1>13. \A i \in DOMAIN blobs' : IsComponent(blobs'[i], image) /\ Counts(blobs'[i])
  BY <1>1, <1>3, <1>10, <1>11, <1>12, AreasAreComponents DEF D
<1>14. \A i, j \in DOMAIN blobs' : i # j => blobs'[i] \cap blobs'[j] = {}
  <2> SUFFICES ASSUME NEW i \in 1 .. m, NEW j \in 1 .. m, i # j PROVE blobs'[i] \cap blobs'[j] = {}
    BY <1>10
  <2>1. valid[i] # valid[j] /\ valid[i] \in D /\ valid[j] \in D
    BY <1>8, <1>11, <1>12
  <2>2. \A s \in preblob[valid[i]] : s \notin preblob[valid[j]]
    BY <1>1, <2>1 DEF AreaInv, D
  <2> QED  BY <1>10, <2>2
<1>15. ASSUME Len(blobs') < MaxBlobs, NEW part \in SUBSET (image \ UNION ToSet(blobs')),
              Counts(part), IsComponent(part, image)
       PROVE  FALSE
  <2>1. part \in SUBSET Done
    BY <1>3
  <2>2. PICK p \in D : part = preblob[p]
    BY <1>1, <1>3, <1>15, <2>1, ComponentsAreAreas DEF D
  <2>3. p \in C
    BY <1>15, <2>2 DEF C
  <2>4. PICK k \in 1 .. Len(valid) : valid[k] = p
    BY <1>8, <2>3
  <2>5. k \in 1 .. m
    BY <1>9, <1>10, <1>15
  <2>6. part \in ToSet(blobs')
    BY <1>10, <2>2, <2>4, <2>5 DEF ToSet
  <2>7. part = {}
    BY <2>6
  <2> QED  BY <1>15, <2>7 DEF IsComponent
<1>16. BlobsAreAreas'
  <2>1. Len(blobs') < MaxBlobs =>
           \A part \in SUBSET (image \ UNION ToSet(blobs')) : Counts(part) => ~IsComponent(part, image)
    BY <1>15
  <2> QED  BY <1>2, <1>13, <1>14, <2>1 DEF BlobsAreAreas
<1> QED  BY <1>1, <1>2, <1>7, <1>16 DEF BlobsInv

LEMMA BlobsStep == BlobsInv /\ [Next]_vars => BlobsInv'
<1> SUFFICES ASSUME BlobsInv, [Next]_vars PROVE BlobsInv'
  OBVIOUS
<1>1. CASE NewPicture
  BY <1>1, PictureBegins
<1>2. CASE NextLine
  BY <1>2, LineEnds
<1>3. CASE AddStripe
  BY <1>3, StripeAdded
<1>4. CASE StripesToBlobs
  BY <1>4, BlobsTold
<1>5. CASE Take
  BY <1>5, BlobsTaken
<1>6. CASE UNCHANGED vars
  <2>1. UNCHANGED <<phase, image, input, current, next, vline, preblob, matched, added, preblobs, blobs>>
    BY <1>6 DEF vars, rangeVars, preblobVars
  <2>2. Done' = Done
    BY <2>1 DEF Done
  <2>3. InputInv => InputInv'
    BY <2>1, <2>2 DEF InputInv
  <2>4. RangeInv => RangeInv'
    BY <2>1, <2>2 DEF RangeInv, RangesOf
  <2>5. AreaInv => AreaInv'
    BY <2>1 DEF AreaInv
  <2>6. PreblobInv => PreblobInv'
    BY <2>1 DEF PreblobInv, Preblobs
  <2>7. (Reset => Reset') /\ (BlobsAreAreas => BlobsAreAreas')
    BY <2>1 DEF Reset, BlobsAreAreas
  <2> QED  BY <2>1, <2>3, <2>4, <2>5, <2>6, <2>7 DEF BlobsInv
<1> QED  BY <1>1, <1>2, <1>3, <1>4, <1>5, <1>6 DEF Next

LEMMA BlobsTyped == ASSUME BlobsInv PROVE TypeOK
<1>1. CASE phase # "stripes"
  <2>1. ToSet(<<>>) = {}
    BY DEF ToSet
  <2>2. 0 <= (Width \div 2) + 1 /\ NoLine \in 0 .. NoLine
    BY SizesAssumption DEF NoLine
  <2> QED  BY <1>1, <2>1, <2>2, EmptyRanges DEF BlobsInv, Reset, TypeOK
<1>2. CASE phase = "stripes"
  <2>1. InputInv /\ RangeInv /\ PreblobInv
    BY <1>2 DEF BlobsInv
  <2>2. ToSet(preblobs) = added
    <3>1. DOMAIN preblobs = 1 .. Len(preblobs)
      BY <2>1 DEF PreblobInv
    <3> QED  BY <2>1, <3>1 DEF PreblobInv, ToSet
  <2>3. ASSUME NEW ranges, NEW n, RangesOf(ranges, n) PROVE Len(ranges) <= (Width \div 2) + 1
    <3>1. Len(ranges) \in Nat /\ \A i \in 1 .. Len(ranges) : ranges[i].stripe \in image
      BY <2>3, PreblobsOf DEF RangesOf
    <3>2. CASE Len(ranges) = 0
      BY <3>2, SizesAssumption
    <3>3. CASE Len(ranges) # 0
      <4> DEFINE s == ranges[Len(ranges)].stripe
      <4>1. Len(ranges) \in 1 .. Len(ranges)
        BY <3>1, <3>3
      <4>2. s \in Stripes /\ 2 * (Len(ranges) - 1) <= s.from
        BY <2>1, <2>3, <3>1, <4>1 DEF RangesOf, InputInv, Apart
      <4> HIDE DEF s
      <4>3. s.from \in 0 .. Width - 1
        BY <4>2 DEF Stripes
      <4> QED  BY <3>1, <4>2, <4>3, SizesAssumption
    <3> QED  BY <3>2, <3>3
  <2>4. Len(current) <= (Width \div 2) + 1 /\ Len(next) <= (Width \div 2) + 1
    BY <2>1, <2>3 DEF RangeInv
  <2>5. matched \subseteq DOMAIN preblob /\ Preblobs(current) \cup Preblobs(next) \cup ToSet(preblobs) = DOMAIN preblob
    BY <2>1, <2>2 DEF PreblobInv
  <2> QED  BY <1>2, <2>1, <2>2, <2>4, <2>5 DEF TypeOK, RangeInv
<1> QED  BY <1>1, <1>2

LEMMA BlobsAlwaysInv == Spec => []BlobsInv
<1>1. Init => BlobsInv
  BY BlobsBegin
<1>2. BlobsInv /\ [Next]_vars => BlobsInv'
  BY BlobsStep
<1> QED  BY <1>1, <1>2, PTL DEF Spec

-----------------------------------------------------------------------
(* The webcam *)

CONSTANTS WcBuffers, WcPictures, WcSessions, WcPauses, WcFailures

ASSUME WebcamAssumption == WcBuffers \in Nat

VARIABLES wcPhase, step, wcCamera, wcFd, wcStreaming, queued, wcFilled, wcContent, buffers,
          bwFrame, lost, held, wcUpper, wcLower, wcTold, wcPictures, wcAsked, wcSessions,
          wcPauses, failures

webcamVars == <<wcPhase, step, wcCamera, wcFd, wcStreaming, queued, wcFilled, wcContent, buffers,
                bwFrame, lost, held, wcUpper, wcLower, wcTold, wcPictures, wcAsked, wcSessions,
                wcPauses, failures>>

Camera == INSTANCE Webcam WITH
      NumBuffers <- WcBuffers, MaxPictures <- WcPictures, MaxSessions <- WcSessions,
      MaxPauses <- WcPauses, MaxFailures <- WcFailures,
      phase <- wcPhase, camera <- wcCamera, fd <- wcFd, streaming <- wcStreaming,
      filled <- wcFilled, content <- wcContent, upper <- wcUpper, lower <- wcLower,
      told <- wcTold, pictures <- wcPictures, asked <- wcAsked, sessions <- wcSessions,
      pauses <- wcPauses

BufferNumbers == 1 .. WcBuffers

WebcamTypes ==
    /\ queued \in Seq(BufferNumbers) /\ wcFilled \in Seq(BufferNumbers)
    /\ wcContent \in [BufferNumbers -> Nat] /\ wcPictures \in Nat /\ failures \in Nat
    /\ held \in {Camera!None} \cup BufferNumbers /\ buffers \in 0 .. WcBuffers
    /\ wcTold \in Seq(Nat \X Nat)

\* A buffer is in one place.
OncePlaced ==
    /\ \A i, j \in 1 .. Len(queued) : queued[i] = queued[j] => i = j
    /\ \A i, j \in 1 .. Len(wcFilled) : wcFilled[i] = wcFilled[j] => i = j
    /\ \A i \in 1 .. Len(queued) : queued[i] # held /\ \A j \in 1 .. Len(wcFilled) : queued[i] # wcFilled[j]
    /\ \A i \in 1 .. Len(wcFilled) : wcFilled[i] # held

\* Where the driver is tells what it holds and whether the stream runs.
StreamInv ==
    /\ held # Camera!None <=> wcPhase = "running" /\ step \in {"lower", "upper", "requeue"}
    /\ ~wcStreaming => wcFilled = <<>>
    /\ wcPhase \in {"closed", "failed", "init", "starting", "resume"} => ~wcStreaming
    /\ Camera!At("running", "dequeue") => wcFilled # <<>>

\* What the driver has mapped is queued, filled or held.
PlacedIn(b) ==
    \/ \E i \in 1 .. Len(queued) : queued[i] = b
    \/ \E i \in 1 .. Len(wcFilled) : wcFilled[i] = b
    \/ held = b
AllPlaced ==
    \/ wcStreaming /\ failures = 0 /\ wcCamera # "gone"
    \/ wcPhase \in {"starting", "resume"} /\ step = "on"
    => \A b \in BufferNumbers : b \in Camera!Buffers <=> PlacedIn(b)

\* The pictures waiting are later than those handed on.
OrderInv ==
    /\ \A i \in 1 .. Len(wcTold) : wcTold[i][1] = wcTold[i][2] /\ wcTold[i][1] \in 1 .. wcPictures
    /\ \A i, j \in 1 .. Len(wcTold) : i < j => wcTold[i][1] < wcTold[j][1]
    /\ \A k \in 1 .. Len(wcFilled) :
          /\ wcContent[wcFilled[k]] \in 1 .. wcPictures
          /\ \A i \in 1 .. Len(wcTold) : wcTold[i][1] < wcContent[wcFilled[k]]
          /\ held # Camera!None => wcContent[held] < wcContent[wcFilled[k]]
    /\ \A j, k \in 1 .. Len(wcFilled) : j < k => wcContent[wcFilled[j]] < wcContent[wcFilled[k]]
    /\ held # Camera!None =>
          /\ wcContent[held] \in 1 .. wcPictures
          /\ \A i \in 1 .. Len(wcTold) : wcTold[i][1] < wcContent[held]
    /\ Camera!At("running", "upper") => wcLower = wcContent[held]
    /\ Camera!At("running", "requeue") => wcLower = wcContent[held] /\ wcUpper = wcContent[held]

WebcamInv == WebcamTypes /\ OncePlaced /\ StreamInv /\ AllPlaced /\ OrderInv

LEMMA SeqTail ==
    ASSUME NEW S, NEW s \in Seq(S), s # <<>>
    PROVE  /\ Len(s) \in Nat \ {0} /\ Head(s) = s[1] /\ s[1] \in S
           /\ Tail(s) \in Seq(S) /\ Len(Tail(s)) = Len(s) - 1
           /\ \A i \in 1 .. Len(s) - 1 : Tail(s)[i] = s[i + 1]
OBVIOUS

LEMMA SeqEmpty == ASSUME NEW S PROVE <<>> \in Seq(S) /\ Len(<<>>) = 0
OBVIOUS

LEMMA WebcamBegins == Camera!Init => WebcamInv
<1> SUFFICES ASSUME Camera!Init PROVE WebcamInv
  OBVIOUS
<1>1. queued = <<>> /\ wcFilled = <<>> /\ wcTold = <<>> /\ held = Camera!None /\ buffers = 0
         /\ wcPhase = "closed" /\ wcPictures = 0
      /\ failures = 0 /\ wcContent = [b \in BufferNumbers |-> Camera!None]
  BY DEF Camera!Init, BufferNumbers
<1>2. ~wcStreaming
  BY DEF Camera!Init
<1>3. WebcamTypes
  BY <1>1, SeqEmpty, WebcamAssumption DEF WebcamTypes, Camera!None
<1>4. Len(queued) = 0 /\ Len(wcFilled) = 0 /\ Len(wcTold) = 0
  BY <1>1, SeqEmpty
<1> QED  BY <1>1, <1>2, <1>3, <1>4 DEF WebcamInv, OncePlaced, StreamInv, AllPlaced, OrderInv, Camera!At

\* Steps that move no buffer.
LEMMA NothingMoves ==
    ASSUME WebcamInv,
           UNCHANGED <<wcStreaming, queued, wcFilled, wcContent, held, wcTold, wcPictures>>,
           failures' \in Nat, failures' = 0 => failures = 0, wcCamera' # "gone" => wcCamera # "gone",
           wcPhase' \notin {"closed", "failed", "init", "starting", "resume"} \/ ~wcStreaming,
           ~(wcPhase = "running" /\ step \in {"lower", "upper", "requeue"}),
           ~(wcPhase' = "running" /\ step' \in {"lower", "upper", "requeue"}),
           Camera!At("running", "dequeue")' => wcFilled # <<>>,
           buffers' = buffers \/ (buffers' \in 0 .. WcBuffers /\ ~wcStreaming),
           ~(wcPhase' \in {"starting", "resume"} /\ step' = "on")
    PROVE  WebcamInv'
<1>1. WebcamTypes' /\ OncePlaced'
  BY DEF WebcamInv, WebcamTypes, OncePlaced
<1>2. StreamInv'
  BY DEF WebcamInv, StreamInv, Camera!At
<1>3. AllPlaced'
  BY DEF WebcamInv, AllPlaced, PlacedIn, Camera!Buffers
<1>4. OrderInv'
  BY DEF WebcamInv, OrderInv, Camera!At
<1> QED  BY <1>1, <1>2, <1>3, <1>4 DEF WebcamInv

\* Steps after which all buffers are the driver's again.
LEMMA AllReturned ==
    ASSUME WebcamInv, queued' = <<>>, wcFilled' = <<>>, ~wcStreaming', held' = Camera!None, 
           UNCHANGED wcContent, wcTold' = wcTold, wcPictures' = wcPictures, failures' \in Nat,
           buffers' \in 0 .. WcBuffers,
           ~(wcPhase' = "running"), ~(wcPhase' \in {"starting", "resume"})
    PROVE  WebcamInv'
<1>1. Len(queued') = 0 /\ Len(wcFilled') = 0
  BY SeqEmpty
<1>2. WebcamTypes'
  BY SeqEmpty DEF WebcamInv, WebcamTypes
<1>3. OncePlaced' /\ StreamInv' /\ AllPlaced'
  BY <1>1 DEF OncePlaced, StreamInv, AllPlaced, Camera!At
<1>4. OrderInv'
  BY <1>1 DEF WebcamInv, OrderInv, Camera!At
<1> QED  BY <1>2, <1>3, <1>4 DEF WebcamInv

\* A call that fails is counted.
LEMMA Counted ==
    ASSUME WebcamInv, Camera!Works \/ Camera!Broken \/ Camera!Fails
    PROVE  failures' \in Nat /\ (failures' = 0 => failures = 0)
<1>1. failures \in Nat
  BY DEF WebcamInv, WebcamTypes
<1>2. failures' = failures \/ failures' = failures + 1
  BY DEF Camera!Works, Camera!Broken, Camera!Fails
<1> QED  BY <1>1, <1>2

LEMMA WebcamQuiet ==
    ASSUME WebcamInv,
           Camera!SetFormat \/ Camera!SetParams \/ Camera!SetupBuffers \/ Camera!Enter \/ Camera!Poll
              \/ Camera!FrameFails
           \/ Camera!Resume \/ Camera!AskToStop \/ Camera!Trouble \/ Camera!Ask
    PROVE  WebcamInv'
<1> USE DEF Camera!Goto, Camera!At, Camera!kernel, Camera!memory, Camera!grey, Camera!bounds
<1>0. failures \in Nat
  BY DEF WebcamInv, WebcamTypes
<1>1. CASE Camera!SetFormat \/ Camera!SetParams \/ Camera!Enter \/ Camera!AskToStop
  BY <1>0, <1>1, NothingMoves DEF Camera!SetFormat, Camera!SetParams, Camera!Works, Camera!Enter,
                                  Camera!AskToStop, WebcamInv, StreamInv
<1>2. CASE Camera!SetupBuffers
  <2>1. buffers' \in 0 .. WcBuffers
    BY <1>2, WebcamAssumption DEF Camera!SetupBuffers
  <2> QED  BY <1>0, <1>2, <2>1, NothingMoves DEF Camera!SetupBuffers, Camera!Works, WebcamInv, StreamInv
<1>3. CASE Camera!Poll
  BY <1>0, <1>3, NothingMoves DEF Camera!Poll
<1>4. CASE Camera!FrameFails
  <2>1. /\ UNCHANGED <<queued, wcFilled, wcContent, held, wcTold, wcPictures, buffers, wcCamera>>
        /\ wcPhase = "running" /\ step \in {"poll", "dequeue"} /\ wcPhase' = "close"
    BY <1>4, Zenon DEF Camera!FrameFails
  <2>2. UNCHANGED wcStreaming /\ (Camera!Broken \/ Camera!Fails)
    BY <1>4, Zenon DEF Camera!FrameFails
  <2> QED  BY <2>1, <2>2, Counted, NothingMoves
<1>5. CASE Camera!Resume
  BY <1>0, <1>5, NothingMoves DEF Camera!Resume, WebcamInv, StreamInv
<1>6. CASE Camera!Trouble \/ Camera!Ask
  <2>1. UNCHANGED <<wcPhase, step, wcStreaming, queued, wcFilled, wcContent, held, wcTold, wcPictures,
                    failures, buffers, wcLower, wcUpper>>
    BY <1>6, Zenon DEF Camera!Trouble, Camera!Ask
  <2>2. wcCamera' # "gone" => wcCamera # "gone"
    BY <1>6 DEF Camera!Trouble, Camera!Ask
  <2>3. WebcamTypes' /\ OncePlaced'
    BY <2>1 DEF WebcamInv, WebcamTypes, OncePlaced
  <2>4. StreamInv'
    BY <2>1 DEF WebcamInv, StreamInv, Camera!At
  <2>5. AllPlaced'
    BY <2>1, <2>2 DEF WebcamInv, AllPlaced, PlacedIn, Camera!Buffers
  <2>6. OrderInv'
    BY <2>1 DEF WebcamInv, OrderInv, Camera!At
  <2> QED  BY <2>3, <2>4, <2>5, <2>6 DEF WebcamInv
<1> QED  BY <1>1, <1>2, <1>3, <1>4, <1>5, <1>6

LEMMA WebcamCloses ==
    ASSUME WebcamInv, Camera!OpenDevice \/ Camera!InitFails \/ Camera!ResumeFails \/ Camera!Close
    PROVE  WebcamInv'
<1> USE DEF Camera!Goto, Camera!At, Camera!kernel, Camera!memory, Camera!grey, Camera!bounds
<1>0. failures \in Nat /\ buffers \in 0 .. WcBuffers /\ 0 \in 0 .. WcBuffers
  BY WebcamAssumption DEF WebcamInv, WebcamTypes
<1>1. CASE Camera!OpenDevice
  <2>a. UNCHANGED wcStreaming /\ ~wcStreaming
    BY <1>1 DEF Camera!OpenDevice, WebcamInv, StreamInv
  <2>b. /\ UNCHANGED <<queued, wcFilled, wcContent, held, wcPictures,
                       buffers>>
        /\ (Camera!Works \/ Camera!Broken \/ Camera!Fails)
        /\ wcPhase' \in {"init", "failed"} /\ wcTold' \in {wcTold, <<>>} /\ wcPhase \in {"closed", "failed"}
    BY <1>1, Zenon DEF Camera!OpenDevice
  <2>c. held = Camera!None
    BY <2>b DEF WebcamInv, StreamInv
  <2>1. /\ UNCHANGED <<wcStreaming, queued, wcFilled, wcContent, held, wcPictures,
                       buffers>>
        /\ ~wcStreaming /\ held = Camera!None
        /\ wcPhase' \in {"init", "failed"} /\ failures' \in Nat /\ wcTold' \in {wcTold, <<>>}
    BY <2>a, <2>b, <2>c, Counted
  <2>2. wcFilled = <<>> /\ Len(wcFilled) = 0
    BY <2>1, SeqEmpty DEF WebcamInv, StreamInv
  <2>3. WebcamTypes' /\ OncePlaced'
    BY <2>1, SeqEmpty DEF WebcamInv, WebcamTypes, OncePlaced
  <2>4. StreamInv' /\ AllPlaced'
    BY <2>1, <2>2 DEF WebcamInv, StreamInv, AllPlaced
  <2>5. OrderInv'
    <3>1. CASE wcTold' = wcTold
      BY <2>1, <2>2, <3>1 DEF WebcamInv, OrderInv
    <3>2. CASE wcTold' = <<>>
      <4>1. Len(wcTold') = 0
        BY <3>2, SeqEmpty
      <4> QED  BY <2>1, <2>2, <4>1 DEF OrderInv
    <3> QED  BY <2>1, <3>1, <3>2
  <2> QED  BY <2>3, <2>4, <2>5 DEF WebcamInv
<1>2. CASE Camera!InitFails \/ (Camera!ResumeFails /\ wcPhase = "starting")
  <2>1. ~wcStreaming' /\ wcPhase' = "failed" /\ queued' = <<>> /\ wcFilled' = <<>>
    BY <1>2 DEF Camera!InitFails, Camera!ResumeFails, Camera!CloseFile
  <2>2. /\ UNCHANGED <<wcContent, held, wcTold, wcPictures,
                       buffers>>
        /\ (Camera!Broken \/ Camera!Fails) /\ wcPhase # "running"
    BY <1>2 DEF Camera!InitFails, Camera!ResumeFails, Camera!CloseFile
  <2>3. held = Camera!None
    BY <2>2 DEF WebcamInv, StreamInv
  <2> QED  BY <1>0, <2>1, <2>2, <2>3, Counted, AllReturned
<1>4. CASE Camera!ResumeFails /\ wcPhase # "starting"
  <2>1. UNCHANGED <<wcStreaming>> /\ ~wcStreaming
    BY <1>4 DEF Camera!ResumeFails, WebcamInv, StreamInv
  <2>2. /\ UNCHANGED <<queued, wcFilled, wcContent, held, wcTold, wcPictures, buffers, wcCamera>>
        /\ wcPhase = "resume" /\ wcPhase' = "running" /\ step' = ""
    BY <1>4 DEF Camera!ResumeFails
  <2>3. Camera!Broken \/ Camera!Fails
    BY <1>4 DEF Camera!ResumeFails
  <2> QED  BY <2>1, <2>2, <2>3, Counted, NothingMoves
<1>5. CASE Camera!Close
  BY <1>0, <1>5, AllReturned DEF Camera!Close, Camera!CloseFile
<1> QED  BY <1>1, <1>2, <1>4, <1>5

LEMMA PauseInv == ASSUME WebcamInv, Camera!Pause PROVE WebcamInv'
<1> USE DEF Camera!Goto, Camera!At, Camera!memory, Camera!grey, Camera!Fails, Camera!Broken, Camera!Works
<1>0. /\ UNCHANGED <<wcContent, held, wcTold, wcPictures, buffers,
                     wcCamera>>
      /\ wcPhase' = "paused" /\ held = Camera!None
      /\ ~(wcPhase = "running" /\ step \in {"lower", "upper", "requeue"})
  BY DEF Camera!Pause, WebcamInv, StreamInv
<1>1. CASE wcStreaming' = FALSE /\ queued' = <<>> /\ wcFilled' = <<>> /\ UNCHANGED failures
  BY <1>0, <1>1, AllReturned DEF WebcamInv, WebcamTypes
<1>2. CASE (Camera!Broken \/ Camera!Fails) /\ UNCHANGED <<wcStreaming, queued, wcFilled>>
  <2>1. failures' \in Nat /\ (failures' = 0 => failures = 0)
    BY <1>2 DEF WebcamInv, WebcamTypes
  <2> QED  BY <1>0, <1>2, <2>1, NothingMoves
<1> QED  BY <1>1, <1>2 DEF Camera!Pause

LEMMA QueueInv == ASSUME WebcamInv, Camera!QueueAll \/ Camera!StreamOn PROVE WebcamInv'
<1> USE DEF Camera!Goto, Camera!At, Camera!memory, Camera!grey, Camera!Works
<1>1. /\ UNCHANGED <<wcContent, held, wcTold, wcPictures, buffers, failures,
                     wcCamera>>
      /\ held = Camera!None /\ ~wcStreaming
      /\ ~(wcPhase' = "running" /\ step' \in {"lower", "upper", "requeue"})
      /\ wcFilled = <<>> /\ wcFilled' = wcFilled /\ Len(wcFilled) = 0
  BY SeqEmpty DEF Camera!QueueAll, Camera!StreamOn, WebcamInv, StreamInv
<1>2. buffers \in Nat /\ buffers <= WcBuffers
  BY WebcamAssumption DEF WebcamInv, WebcamTypes
<1>3. CASE Camera!QueueAll
  <2>1. queued' = [b \in 1 .. buffers |-> b] /\ wcStreaming' = wcStreaming /\ wcPhase' = wcPhase
    BY <1>3 DEF Camera!QueueAll, Camera!Buffers
  <2>2. queued' \in Seq(BufferNumbers) /\ Len(queued') = buffers /\ \A b \in 1 .. buffers : queued'[b] = b
    BY <1>2, <2>1, WebcamAssumption DEF BufferNumbers
  <2>3. WebcamTypes' /\ StreamInv' /\ OrderInv'
    BY <1>1, <1>3, <2>1, <2>2 DEF Camera!QueueAll, WebcamInv, WebcamTypes, StreamInv, OrderInv
  <2>4. OncePlaced'
    BY <1>1, <1>2, <2>2 DEF OncePlaced, Camera!None
  <2>5. AllPlaced'
    BY <1>1, <1>2, <2>1, <2>2 DEF AllPlaced, PlacedIn, Camera!Buffers, BufferNumbers, Camera!None
  <2> QED  BY <2>3, <2>4, <2>5 DEF WebcamInv
<1>4. CASE Camera!StreamOn
  <2>1. queued' = queued /\ wcPhase \in {"starting", "resume"} /\ step = "on" /\ wcPhase' = "running"
           /\ step' = ""
    BY <1>4 DEF Camera!StreamOn
  <2>2. WebcamTypes' /\ OncePlaced' /\ StreamInv'
    <3>1. WebcamTypes' /\ OncePlaced'
      <4>1. WebcamTypes'
        BY <1>1, <2>1 DEF WebcamInv, WebcamTypes
      <4>2. OncePlaced'
        <5>1. queued' = queued /\ wcFilled' = wcFilled /\ held' = held
          BY <1>1, <2>1
        <5> QED  BY <5>1 DEF WebcamInv, OncePlaced
      <4> QED  BY <4>1, <4>2
    <3>2. wcStreaming'
      BY <1>4 DEF Camera!StreamOn
    <3> QED  BY <1>1, <2>1, <3>1, <3>2 DEF StreamInv
  <2>3. AllPlaced'
    BY <1>1, <2>1 DEF WebcamInv, AllPlaced, PlacedIn, Camera!Buffers
  <2>4. OrderInv'
    BY <1>1, <2>1 DEF WebcamInv, OrderInv
  <2> QED  BY <2>2, <2>3, <2>4 DEF WebcamInv
<1> QED  BY <1>3, <1>4

LEMMA DequeueInv == ASSUME WebcamInv, Camera!Dequeue PROVE WebcamInv'
<1> USE DEF Camera!Goto, Camera!At, Camera!memory, Camera!Works
<1>1. /\ UNCHANGED <<wcStreaming, queued, wcContent, wcTold, wcPictures, buffers, failures,
                     wcCamera>>
      /\ held = Camera!None
      /\ wcPhase = "running" /\ wcPhase' = "running" /\ step' = "lower" /\ wcFilled # <<>>
      /\ held' = Head(wcFilled) /\ wcFilled' = Tail(wcFilled) /\ wcFilled \in Seq(BufferNumbers)
  BY DEF Camera!Dequeue, WebcamInv, WebcamTypes, StreamInv
<1>2. /\ Len(wcFilled) \in Nat \ {0} /\ held' = wcFilled[1] /\ held' \in BufferNumbers
      /\ wcFilled' \in Seq(BufferNumbers) /\ Len(wcFilled') = Len(wcFilled) - 1
      /\ \A i \in 1 .. Len(wcFilled) - 1 : wcFilled'[i] = wcFilled[i + 1]
  BY <1>1, SeqTail
<1>3. held' # Camera!None
  BY <1>2 DEF BufferNumbers, Camera!None
<1>4. \A i \in 1 .. Len(wcFilled') : i + 1 \in 1 .. Len(wcFilled) /\ wcFilled'[i] = wcFilled[i + 1]
         /\ i + 1 # 1
  BY <1>2
<1>5. WebcamTypes'
  BY <1>1, <1>2 DEF WebcamInv, WebcamTypes
<1>6. OncePlaced'
  BY <1>1, <1>2, <1>4 DEF WebcamInv, OncePlaced
<1>7. StreamInv'
  <2>1. wcStreaming
    BY <1>1 DEF WebcamInv, StreamInv
  <2> QED  BY <1>1, <1>3, <2>1 DEF StreamInv
<1>8. AllPlaced'
  <2> SUFFICES ASSUME wcStreaming, failures = 0, wcCamera # "gone", NEW b \in BufferNumbers
               PROVE  b \in Camera!Buffers <=> PlacedIn(b)'
    BY <1>1 DEF AllPlaced, Camera!Buffers
  <2>1. b \in Camera!Buffers <=> PlacedIn(b)
    BY DEF WebcamInv, AllPlaced
  <2>2. (\E i \in 1 .. Len(wcFilled) : wcFilled[i] = b)
           <=> held' = b \/ \E i \in 1 .. Len(wcFilled') : wcFilled'[i] = b
    <3>1. ASSUME NEW i \in 1 .. Len(wcFilled), wcFilled[i] = b
          PROVE  held' = b \/ \E k \in 1 .. Len(wcFilled') : wcFilled'[k] = b
      <4>1. CASE i = 1
        BY <1>2, <3>1, <4>1
      <4>2. CASE i # 1
        <5>1. i - 1 \in 1 .. Len(wcFilled') /\ wcFilled'[i - 1] = b
          BY <1>2, <3>1, <4>2
        <5> QED  BY <5>1
      <4> QED  BY <4>1, <4>2
    <3> QED  BY <1>2, <1>4, <3>1
  <2>3. held # b
    BY <1>1 DEF BufferNumbers, Camera!None
  <2> QED  BY <1>1, <2>1, <2>2, <2>3 DEF PlacedIn
<1>9. OrderInv'
  <2>1. 1 \in 1 .. Len(wcFilled)
    BY <1>2
  <2> QED  BY <1>1, <1>2, <1>4, <2>1 DEF WebcamInv, OrderInv
<1> QED  BY <1>5, <1>6, <1>7, <1>8, <1>9 DEF WebcamInv

LEMMA ConvertInv == ASSUME WebcamInv, Camera!ConvertLower \/ Camera!ConvertUpper PROVE WebcamInv'
<1> USE DEF Camera!Goto, Camera!At, Camera!kernel, Camera!memory, Camera!bounds
<1>1. /\ UNCHANGED <<wcStreaming, queued, wcFilled, wcContent, held, wcTold, wcPictures, failures, buffers,
                     wcCamera, wcPhase>>
      /\ wcPhase = "running"
      /\ \/ step = "lower" /\ step' = "upper" /\ wcLower' = wcContent[held]
         \/ step = "upper" /\ step' = "requeue" /\ wcUpper' = wcContent[held] /\ wcLower' = wcLower
  BY DEF Camera!ConvertLower, Camera!ConvertUpper
<1>2. WebcamTypes' /\ OncePlaced' /\ StreamInv' /\ AllPlaced'
  BY <1>1 DEF WebcamInv, WebcamTypes, OncePlaced, StreamInv, AllPlaced, PlacedIn, Camera!Buffers
<1>3. OrderInv'
  BY <1>1 DEF WebcamInv, OrderInv
<1> QED  BY <1>2, <1>3 DEF WebcamInv

LEMMA RequeueInv == ASSUME WebcamInv, Camera!Requeue PROVE WebcamInv'
<1> USE DEF Camera!Goto, Camera!At, Camera!memory
<1>0. UNCHANGED wcStreaming
  BY DEF Camera!Requeue
<1>a. /\ UNCHANGED <<wcFilled, wcContent, wcPictures, buffers, wcCamera>>
      /\ wcPhase = "running" /\ step = "requeue" /\ wcPhase' = "running" /\ step' = "" /\ held' = Camera!None
      /\ wcTold' = Append(wcTold, <<wcLower, wcUpper>>)
      /\ (queued' = Append(queued, held) /\ Camera!Works)
           \/ (queued' = queued /\ (Camera!Broken \/ Camera!Fails))
  BY Zenon DEF Camera!Requeue
<1>b. /\ failures' \in Nat /\ (Camera!Works => failures' = failures)
      /\ (Camera!Broken => wcCamera = "gone") /\ (Camera!Fails => failures' # 0)
  <2>1. failures \in Nat
    BY DEF WebcamInv, WebcamTypes
  <2>2. (Camera!Works => failures' = failures) /\ (Camera!Broken => wcCamera = "gone")
    BY DEF Camera!Works, Camera!Broken
  <2>3. Camera!Fails => failures' = failures + 1
    BY DEF Camera!Fails
  <2>4. Camera!Fails => failures' # 0
    BY <2>1, <2>3
  <2> QED  BY <1>a, <2>2, <2>4, Counted, Zenon
<1>1. /\ UNCHANGED <<wcFilled, wcContent, wcPictures, buffers, wcCamera>>
      /\ wcPhase = "running" /\ step = "requeue" /\ wcPhase' = "running" /\ step' = "" /\ held' = Camera!None
      /\ wcTold' = Append(wcTold, <<wcLower, wcUpper>>) /\ failures' \in Nat
      /\ \/ queued' = Append(queued, held) /\ failures' = failures
         \/ queued' = queued /\ (failures' # 0 \/ wcCamera = "gone")
  BY <1>a, <1>b, Zenon
<1>2. held \in BufferNumbers /\ wcLower = wcContent[held] /\ wcUpper = wcContent[held]
  BY <1>1 DEF WebcamInv, WebcamTypes, StreamInv, OrderInv
<1>3. /\ queued \in Seq(BufferNumbers) /\ wcFilled \in Seq(BufferNumbers) /\ wcTold \in Seq(Nat \X Nat)
      /\ wcContent[held] \in Nat
      /\ Len(wcFilled) \in Nat
  BY <1>2 DEF WebcamInv, WebcamTypes
<1>4. /\ Len(wcTold) \in Nat /\ wcTold' \in Seq(Nat \X Nat) /\ Len(wcTold') = Len(wcTold) + 1
      /\ wcTold'[Len(wcTold) + 1] = <<wcLower, wcUpper>> /\ \A i \in 1 .. Len(wcTold) : wcTold'[i] = wcTold[i]
  <2>1. <<wcLower, wcUpper>> \in Nat \X Nat
    BY <1>2, <1>3
  <2>2. PICK e \in Nat \X Nat : e = <<wcLower, wcUpper>>
    BY <2>1
  <2>3. wcTold' = Append(wcTold, e)
    BY <1>1, <2>2
  <2> QED  BY <1>3, <2>2, <2>3, SeqAppend
<1>5. OrderInv'
  <2>1. \A i \in 1 .. Len(wcTold') : i \in 1 .. Len(wcTold) \/ i = Len(wcTold) + 1
    BY <1>4
  <2>2. wcTold'[Len(wcTold) + 1][1] = wcContent[held] /\ wcTold'[Len(wcTold) + 1][2] = wcContent[held]
    BY <1>2, <1>4
  <2>3. /\ held # Camera!None /\ wcContent[held] \in 1 .. wcPictures
        /\ \A i \in 1 .. Len(wcTold) : wcTold[i][1] < wcContent[held] /\ wcTold[i][1] = wcTold[i][2]
             /\ wcTold[i][1] \in 1 .. wcPictures
    BY <1>2 DEF WebcamInv, OrderInv, BufferNumbers, Camera!None
  <2>4. \A i \in 1 .. Len(wcTold') : wcTold'[i][1] = wcTold'[i][2] /\ wcTold'[i][1] \in 1 .. wcPictures'
    BY <1>1, <1>4, <2>1, <2>2, <2>3
  <2>5. \A i, j \in 1 .. Len(wcTold') : i < j => wcTold'[i][1] < wcTold'[j][1]
    <3> SUFFICES ASSUME NEW i \in 1 .. Len(wcTold'), NEW j \in 1 .. Len(wcTold'), i < j
                 PROVE  wcTold'[i][1] < wcTold'[j][1]
      OBVIOUS
    <3>1. i \in 1 .. Len(wcTold)
      BY <1>4, <2>1
    <3>2. CASE j \in 1 .. Len(wcTold)
      BY <1>4, <3>1, <3>2 DEF WebcamInv, OrderInv
    <3>3. CASE j = Len(wcTold) + 1
      BY <1>4, <2>2, <2>3, <3>1, <3>3
    <3> QED  BY <2>1, <3>2, <3>3
  <2>6. \A k \in 1 .. Len(wcFilled') :
          /\ wcContent'[wcFilled'[k]] \in 1 .. wcPictures'
          /\ \A i \in 1 .. Len(wcTold') : wcTold'[i][1] < wcContent'[wcFilled'[k]]
    BY <1>1, <1>4, <2>1, <2>2, <2>3 DEF WebcamInv, OrderInv
  <2>7. \A j, k \in 1 .. Len(wcFilled') : j < k => wcContent'[wcFilled'[j]] < wcContent'[wcFilled'[k]]
    BY <1>1 DEF WebcamInv, OrderInv
  <2> QED  BY <1>1, <2>4, <2>5, <2>6, <2>7 DEF OrderInv
<1>6. StreamInv'
  BY <1>0, <1>1 DEF WebcamInv, StreamInv
<1>7. CASE queued' = queued /\ (failures' # 0 \/ wcCamera = "gone")
  <2>1. WebcamTypes' /\ OncePlaced' /\ AllPlaced'
    <3>0. \A i \in 1 .. Len(queued) : queued[i] \in BufferNumbers
      BY <1>3
    <3>4. \A i \in 1 .. Len(wcFilled) : wcFilled[i] \in BufferNumbers
      BY <1>3
    <3>1. WebcamTypes'
      BY <1>1, <1>4, <1>7 DEF WebcamInv, WebcamTypes
    <3>2. OncePlaced'
      <4>1. Camera!None \notin BufferNumbers
        BY DEF BufferNumbers, Camera!None
      <4> QED  BY <1>1, <1>7, <3>0, <3>4, <4>1 DEF WebcamInv, OncePlaced
    <3>3. AllPlaced'
      BY <1>1, <1>7 DEF AllPlaced
    <3> QED  BY <3>1, <3>2, <3>3
  <2> QED  BY <1>5, <1>6, <2>1 DEF WebcamInv
<1>8. CASE queued' = Append(queued, held) /\ failures' = failures
  <2>1. /\ Len(queued) \in Nat /\ queued' \in Seq(BufferNumbers) /\ Len(queued') = Len(queued) + 1
        /\ queued'[Len(queued) + 1] = held /\ \A i \in 1 .. Len(queued) : queued'[i] = queued[i]
             /\ queued[i] \in BufferNumbers
    BY <1>2, <1>3, <1>8, SeqAppend
  <2>2. WebcamTypes'
    BY <1>1, <1>4, <2>1, <1>8 DEF WebcamInv, WebcamTypes
  <2>3. OncePlaced'
    <3>1. \A i \in 1 .. Len(wcFilled) : wcFilled[i] \in BufferNumbers
      BY <1>3
    <3>2. Camera!None \notin BufferNumbers
      BY DEF BufferNumbers, Camera!None
    <3>3. \A i \in 1 .. Len(queued') : i \in 1 .. Len(queued) \/ i = Len(queued) + 1
      BY <2>1
    <3>4. \A i, j \in 1 .. Len(queued') : queued'[i] = queued'[j] => i = j
      BY <2>1, <3>3 DEF WebcamInv, OncePlaced
    <3>5. \A i \in 1 .. Len(queued') : queued'[i] # held'
             /\ \A j \in 1 .. Len(wcFilled) : queued'[i] # wcFilled[j]
      BY <1>1, <1>2, <2>1, <3>2, <3>3 DEF WebcamInv, OncePlaced
    <3> QED  BY <1>1, <3>1, <3>2, <3>4, <3>5 DEF WebcamInv, OncePlaced
  <2>4. AllPlaced'
    <3> SUFFICES ASSUME wcStreaming, failures = 0, wcCamera # "gone", NEW b \in BufferNumbers
                 PROVE  b \in Camera!Buffers <=> PlacedIn(b)'
      BY <1>0, <1>1, <1>8 DEF AllPlaced, Camera!Buffers
    <3>1. b \in Camera!Buffers <=> PlacedIn(b)
      BY DEF WebcamInv, AllPlaced
    <3>2. (\E i \in 1 .. Len(queued') : queued'[i] = b)
             <=> held = b \/ \E i \in 1 .. Len(queued) : queued[i] = b
      BY <2>1
    <3>3. b # Camera!None
      BY DEF BufferNumbers, Camera!None
    <3> QED  BY <1>1, <3>1, <3>2, <3>3 DEF PlacedIn
  <2> QED  BY <1>5, <1>6, <2>2, <2>3, <2>4 DEF WebcamInv
<1> QED  BY <1>1, <1>7, <1>8

LEMMA FillInv == ASSUME WebcamInv, Camera!Fill PROVE WebcamInv'
<1> USE DEF Camera!memory, Camera!grey, Camera!bounds
<1>1. /\ UNCHANGED <<wcPhase, step, wcCamera, wcStreaming, held, wcTold, buffers, failures, wcLower,
                     wcUpper>>
      /\ wcStreaming
      /\ wcPictures' = wcPictures + 1 /\ queued # <<>> /\ queued \in Seq(BufferNumbers)
      /\ wcFilled \in Seq(BufferNumbers)
      /\ wcContent' = [wcContent EXCEPT ![Head(queued)] = wcPictures + 1]
      /\ wcFilled' = Append(wcFilled, Head(queued)) /\ queued' = Tail(queued)
      /\ wcPictures \in Nat /\ wcContent \in [BufferNumbers -> Nat] /\ wcTold \in Seq(Nat \X Nat)
  BY DEF Camera!Fill, WebcamInv, WebcamTypes
<1>2. PICK b : b = Head(queued)
  OBVIOUS
<1>3. /\ Len(queued) \in Nat \ {0} /\ b = queued[1] /\ b \in BufferNumbers
      /\ queued' \in Seq(BufferNumbers) /\ Len(queued') = Len(queued) - 1
      /\ \A i \in 1 .. Len(queued) - 1 : queued'[i] = queued[i + 1]
  BY <1>1, <1>2, SeqTail
<1>4. /\ Len(wcFilled) \in Nat /\ wcFilled' \in Seq(BufferNumbers) /\ Len(wcFilled') = Len(wcFilled) + 1
      /\ wcFilled'[Len(wcFilled) + 1] = b /\ \A i \in 1 .. Len(wcFilled) : wcFilled'[i] = wcFilled[i]
  BY <1>1, <1>2, <1>3, SeqAppend
<1>5. wcContent'[b] = wcPictures + 1 /\ \A c \in BufferNumbers \ {b} : wcContent'[c] = wcContent[c]
  BY <1>1, <1>2, <1>3
<1>6. wcContent' \in [BufferNumbers -> Nat] /\ wcPictures' \in Nat
  BY <1>1, <1>2, <1>3
<1>7. \A i \in 1 .. Len(queued') : i + 1 \in 1 .. Len(queued) /\ queued'[i] = queued[i + 1] /\ i + 1 # 1
  BY <1>3
<1>8. 1 \in 1 .. Len(queued)
  BY <1>3
<1>9. b # held /\ \A i \in 1 .. Len(wcFilled) : wcFilled[i] # b /\ wcFilled[i] \in BufferNumbers
  BY <1>1, <1>3, <1>8 DEF WebcamInv, OncePlaced
<1>10. WebcamTypes'
  BY <1>1, <1>3, <1>4, <1>6 DEF WebcamInv, WebcamTypes
<1>11. OncePlaced'
  <2>1. \A i, j \in 1 .. Len(queued') : queued'[i] = queued'[j] => i = j
    BY <1>7, <1>3 DEF WebcamInv, OncePlaced
  <2>2. \A i, j \in 1 .. Len(wcFilled') : wcFilled'[i] = wcFilled'[j] => i = j
    BY <1>4, <1>9 DEF WebcamInv, OncePlaced
  <2>3. \A i \in 1 .. Len(queued') : queued'[i] # held'
           /\ \A j \in 1 .. Len(wcFilled') : queued'[i] # wcFilled'[j]
    <3> SUFFICES ASSUME NEW i \in 1 .. Len(queued')
                 PROVE  queued'[i] # held' /\ \A j \in 1 .. Len(wcFilled') : queued'[i] # wcFilled'[j]
      OBVIOUS
    <3>1. queued'[i] = queued[i + 1] /\ i + 1 \in 1 .. Len(queued) /\ i + 1 # 1
      BY <1>7
    <3>2. queued[i + 1] # b /\ queued[i + 1] # held
          /\ \A j \in 1 .. Len(wcFilled) : queued[i + 1] # wcFilled[j]
      BY <1>1, <1>3, <1>8, <3>1 DEF WebcamInv, OncePlaced
    <3>3. \A j \in 1 .. Len(wcFilled') : j \in 1 .. Len(wcFilled) \/ j = Len(wcFilled) + 1
      BY <1>4
    <3> QED  BY <1>1, <1>4, <3>1, <3>2, <3>3
  <2>4. \A i \in 1 .. Len(wcFilled') : wcFilled'[i] # held'
    BY <1>1, <1>4, <1>9 DEF WebcamInv, OncePlaced
  <2> QED  BY <2>1, <2>2, <2>3, <2>4 DEF OncePlaced
<1>12. StreamInv'
  <2>1. wcFilled' # <<>>
    <3>1. Len(wcFilled') # 0 /\ Len(<<>>) = 0
      BY <1>4, SeqEmpty
    <3> QED  BY <3>1
  <2> QED  BY <1>1, <2>1 DEF WebcamInv, StreamInv, Camera!At
<1>13. AllPlaced'
  <2> SUFFICES ASSUME failures = 0, wcCamera # "gone", NEW c \in BufferNumbers
               PROVE  c \in Camera!Buffers <=> PlacedIn(c)'
    BY <1>1 DEF WebcamInv, StreamInv, AllPlaced, Camera!Buffers
  <2>1. c \in Camera!Buffers <=> PlacedIn(c)
    BY <1>1 DEF WebcamInv, AllPlaced
  <2>2. (\E i \in 1 .. Len(wcFilled') : wcFilled'[i] = c)
           <=> b = c \/ \E i \in 1 .. Len(wcFilled) : wcFilled[i] = c
    BY <1>4
  <2>3. (\E i \in 1 .. Len(queued) : queued[i] = c) <=> b = c \/ \E i \in 1 .. Len(queued') : queued'[i] = c
    <3>1. ASSUME NEW i \in 1 .. Len(queued), queued[i] = c
          PROVE  b = c \/ \E k \in 1 .. Len(queued') : queued'[k] = c
      <4>1. CASE i = 1
        BY <1>3, <3>1, <4>1
      <4>2. CASE i # 1
        <5>1. i - 1 \in 1 .. Len(queued') /\ queued'[i - 1] = c
          BY <1>3, <3>1, <4>2
        <5> QED  BY <5>1
      <4> QED  BY <4>1, <4>2
    <3> QED  BY <1>3, <1>7, <1>8, <3>1
  <2> QED  BY <1>1, <2>1, <2>2, <2>3 DEF PlacedIn
<1>14. OrderInv'
  <2>0. \A i \in 1 .. Len(wcFilled) : wcContent'[wcFilled[i]] = wcContent[wcFilled[i]]
           /\ wcContent[wcFilled[i]] \in 1 .. wcPictures
    BY <1>5, <1>9 DEF WebcamInv, OrderInv
  <2>1. held # Camera!None => wcContent'[held] = wcContent[held] /\ wcContent[held] \in 1 .. wcPictures
    BY <1>5, <1>9 DEF WebcamInv, WebcamTypes, OrderInv
  <2>2. \A i \in 1 .. Len(wcTold') : /\ wcTold'[i][1] = wcTold'[i][2] /\ wcTold'[i][1] \in 1 .. wcPictures'
                                     /\ wcTold[i][1] \in 1 .. wcPictures
    <3>1. wcTold' = wcTold /\ \A p \in 1 .. wcPictures : p \in 1 .. wcPictures'
      BY <1>1
    <3>2. \A i \in 1 .. Len(wcTold) : wcTold[i][1] = wcTold[i][2] /\ wcTold[i][1] \in 1 .. wcPictures
      BY DEF WebcamInv, OrderInv
    <3> QED  BY <3>1, <3>2
  <2>3. \A i, j \in 1 .. Len(wcTold') : i < j => wcTold'[i][1] < wcTold'[j][1]
    BY <1>1 DEF WebcamInv, OrderInv
  <2>4. \A k \in 1 .. Len(wcFilled') :
          /\ wcContent'[wcFilled'[k]] \in 1 .. wcPictures'
          /\ \A i \in 1 .. Len(wcTold') : wcTold'[i][1] < wcContent'[wcFilled'[k]]
          /\ held' # Camera!None => wcContent'[held'] < wcContent'[wcFilled'[k]]
    <3>1. ASSUME NEW k \in 1 .. Len(wcFilled)
          PROVE  /\ wcContent'[wcFilled'[k]] \in 1 .. wcPictures'
                 /\ \A i \in 1 .. Len(wcTold') : wcTold'[i][1] < wcContent'[wcFilled'[k]]
                 /\ held' # Camera!None => wcContent'[held'] < wcContent'[wcFilled'[k]]
      BY <1>1, <1>4, <2>0, <2>1, SMTT(30) DEF WebcamInv, OrderInv
    <3>2. \A k \in 1 .. Len(wcFilled') : k \in 1 .. Len(wcFilled) \/ k = Len(wcFilled) + 1
      BY <1>4
    <3>3. wcContent'[wcFilled'[Len(wcFilled) + 1]] = wcPictures + 1
      BY <1>4, <1>5
    <3>4. /\ wcPictures + 1 \in 1 .. wcPictures'
          /\ \A i \in 1 .. Len(wcTold') : wcTold'[i][1] < wcPictures + 1
          /\ held' # Camera!None => wcContent'[held'] < wcPictures + 1
      <4>1. wcPictures + 1 \in 1 .. wcPictures' /\ \A p \in 1 .. wcPictures : p < wcPictures + 1
        BY <1>1
      <4>2. wcTold' = wcTold /\ held' = held
        BY <1>1
      <4> QED  BY <2>1, <2>2, <4>1, <4>2
    <3> QED  BY <3>1, <3>2, <3>3, <3>4
  <2>5. \A j, k \in 1 .. Len(wcFilled') : j < k => wcContent'[wcFilled'[j]] < wcContent'[wcFilled'[k]]
    <3>1. ASSUME NEW j \in 1 .. Len(wcFilled'), NEW k \in 1 .. Len(wcFilled'), j < k
          PROVE  wcContent'[wcFilled'[j]] < wcContent'[wcFilled'[k]]
      <4>1. j \in 1 .. Len(wcFilled) /\ wcFilled'[j] = wcFilled[j]
        BY <1>4, <3>1
      <4>2. CASE k = Len(wcFilled) + 1
        BY <1>1, <1>4, <1>5, <2>0, <4>1, <4>2, SMTT(30)
      <4>3. CASE k \in 1 .. Len(wcFilled)
        BY <1>4, <2>0, <3>1, <4>1, <4>3 DEF WebcamInv, OrderInv
      <4> QED  BY <1>4, <4>2, <4>3
    <3> QED  BY <3>1
  <2>6. held' # Camera!None => /\ wcContent'[held'] \in 1 .. wcPictures'
                               /\ \A i \in 1 .. Len(wcTold') : wcTold'[i][1] < wcContent'[held']
    <3>1. held # Camera!None => \A i \in 1 .. Len(wcTold) : wcTold[i][1] < wcContent[held]
      BY DEF WebcamInv, OrderInv
    <3>2. 1 .. wcPictures \subseteq 1 .. wcPictures'
      BY <1>1
    <3> QED  BY <1>1, <2>1, <3>1, <3>2
  <2>7. /\ Camera!At("running", "upper")' => wcLower' = wcContent'[held']
        /\ Camera!At("running", "requeue")' => wcLower' = wcContent'[held'] /\ wcUpper' = wcContent'[held']
    BY <1>1, <2>1 DEF WebcamInv, OrderInv, StreamInv, Camera!At
  <2> QED  BY <2>2, <2>3, <2>4, <2>5, <2>6, <2>7 DEF OrderInv
<1> QED  BY <1>10, <1>11, <1>12, <1>13, <1>14 DEF WebcamInv

LEMMA WebcamKeeps == WebcamInv /\ (Camera!Next \/ UNCHANGED webcamVars) => WebcamInv'
<1> SUFFICES ASSUME WebcamInv, Camera!Next \/ UNCHANGED webcamVars PROVE WebcamInv'
  OBVIOUS
<1>1. CASE UNCHANGED webcamVars
  <2>1. UNCHANGED <<wcPhase, step, wcCamera, wcStreaming, queued, wcFilled, wcContent, held, wcTold,
                    wcPictures, failures, buffers, wcLower, wcUpper>>
    BY <1>1 DEF webcamVars, Camera!kernel, Camera!memory, Camera!grey, Camera!bounds
  <2> QED  BY <2>1 DEF WebcamInv, WebcamTypes, OncePlaced, StreamInv, AllPlaced, PlacedIn, Camera!Buffers,
                       OrderInv, Camera!At
<1>2. CASE Camera!Next
  BY <1>2, WebcamQuiet, WebcamCloses, PauseInv, QueueInv, DequeueInv, ConvertInv, RequeueInv, FillInv
     DEF Camera!Next
<1> QED  BY <1>1, <1>2

LEMMA WebcamSound == WebcamInv => Camera!PicturesInOrder /\ Camera!BuffersGoRound
<1> SUFFICES ASSUME WebcamInv PROVE Camera!PicturesInOrder /\ Camera!BuffersGoRound
  OBVIOUS
<1>1. /\ queued \in Seq(BufferNumbers) /\ wcFilled \in Seq(BufferNumbers) /\ Len(queued) \in Nat
      /\ Len(wcFilled) \in Nat
      /\ DOMAIN wcTold = 1 .. Len(wcTold) /\ buffers \in Nat /\ buffers <= WcBuffers
  BY WebcamAssumption DEF WebcamInv, WebcamTypes
<1>2. Camera!PicturesInOrder
  <2>1. \A i \in 1 .. Len(wcTold) : wcTold[i][1] # Camera!None
    BY DEF WebcamInv, OrderInv, Camera!None
  <2> QED  BY <1>1, <2>1 DEF WebcamInv, OrderInv, Camera!PicturesInOrder
<1> DEFINE all == queued \o wcFilled
<1>3. /\ all \in Seq(BufferNumbers) /\ Len(all) = Len(queued) + Len(wcFilled) /\ DOMAIN all = 1 .. Len(all)
      /\ \A i \in 1 .. Len(all) : all[i] = IF i <= Len(queued) THEN queued[i] ELSE wcFilled[i - Len(queued)]
  BY <1>1
<1> HIDE DEF all
<1>4. \A i \in 1 .. Len(all) : IF i <= Len(queued) THEN i \in 1 .. Len(queued)
                                                  ELSE i - Len(queued) \in 1 .. Len(wcFilled)
  BY <1>1, <1>3
<1>5. Camera!IsInjective(all)
  <2> SUFFICES ASSUME NEW i \in 1 .. Len(all), NEW j \in 1 .. Len(all), all[i] = all[j] PROVE i = j
    BY <1>3 DEF Camera!IsInjective
  <2>1. CASE i <= Len(queued) /\ j <= Len(queued)
    BY <1>3, <1>4, <2>1 DEF WebcamInv, OncePlaced
  <2>2. CASE ~(i <= Len(queued)) /\ ~(j <= Len(queued))
    <3>1. i - Len(queued) = j - Len(queued)
      BY <1>3, <1>4, <2>2 DEF WebcamInv, OncePlaced
    <3> QED  BY <1>1, <3>1
  <2>3. CASE i <= Len(queued) /\ ~(j <= Len(queued))
    BY <1>3, <1>4, <2>3 DEF WebcamInv, OncePlaced
  <2>4. CASE ~(i <= Len(queued)) /\ j <= Len(queued)
    BY <1>3, <1>4, <2>4 DEF WebcamInv, OncePlaced
  <2> QED  BY <2>1, <2>2, <2>3, <2>4
<1>6. ~Camera!Contains(all, held)
  BY <1>1, <1>3, <1>4 DEF WebcamInv, OncePlaced, Camera!Contains
<1>7. ASSUME wcStreaming, failures = 0, wcCamera # "gone"
      PROVE  Camera!ToSet(all) \cup (IF held = Camera!None THEN {} ELSE {held}) = Camera!Buffers
  <2>1. \A b \in BufferNumbers : (\E i \in 1 .. Len(all) : all[i] = b) <=>
               (\E i \in 1 .. Len(queued) : queued[i] = b) \/ \E i \in 1 .. Len(wcFilled) : wcFilled[i] = b
    <3>1. ASSUME NEW i \in 1 .. Len(queued) PROVE i \in 1 .. Len(all) /\ all[i] = queued[i]
      BY <1>1, <1>3
    <3>2. ASSUME NEW i \in 1 .. Len(wcFilled)
          PROVE  Len(queued) + i \in 1 .. Len(all) /\ all[Len(queued) + i] = wcFilled[i]
      <4>1. Len(queued) + i \in 1 .. Len(all) /\ ~(Len(queued) + i <= Len(queued))
               /\ Len(queued) + i - Len(queued) = i
        BY <1>1, <1>3
      <4> QED  BY <1>3, <4>1
    <3> QED  BY <1>3, <1>4, <3>1, <3>2
  <2>2. Camera!ToSet(all) = {b \in BufferNumbers : \E i \in 1 .. Len(all) : all[i] = b}
    BY <1>3 DEF Camera!ToSet
  <2>3. Camera!Buffers \subseteq BufferNumbers
    BY <1>1, WebcamAssumption DEF Camera!Buffers, BufferNumbers
  <2>4. \A b \in BufferNumbers : b \in Camera!Buffers <=> PlacedIn(b)
    BY <1>7 DEF WebcamInv, AllPlaced
  <2>5. held # Camera!None => held \in BufferNumbers
    BY DEF WebcamInv, WebcamTypes
  <2>6. Camera!None \notin BufferNumbers
    BY DEF Camera!None, BufferNumbers
  <2>7. \A b \in BufferNumbers : b \in Camera!Buffers <=> b \in Camera!ToSet(all) \/ held = b
    BY <2>1, <2>2, <2>4 DEF PlacedIn
  <2>8. CASE held = Camera!None
    BY <2>2, <2>3, <2>6, <2>7, <2>8
  <2>9. CASE held # Camera!None
    BY <2>2, <2>3, <2>5, <2>7, <2>9
  <2> QED  BY <2>8, <2>9
<1> QED  BY <1>2, <1>5, <1>6, <1>7 DEF Camera!BuffersGoRound, all

CameraPhases == {"closed", "init", "starting", "resume", "running", "paused", "close", "failed"}

\* What runs has its file, its buffers and room for the grey picture; these come one
\* after the other.
CameraInv ==
    /\ wcPhase \in CameraPhases
    /\ wcPhase \in {"init", "starting", "resume", "running", "paused"} => wcFd
    /\ wcStreaming => wcFd
    /\ wcPhase = "init" /\ step # "format" => bwFrame
    /\ wcPhase \in {"starting", "resume", "running", "paused"} => bwFrame
    /\ wcPhase \in {"starting", "resume", "running", "paused"} => buffers # 0

\* Nothing is opened yet.
LEMMA CameraBegins == Camera!Init => CameraInv
BY Zenon DEF Camera!Init, CameraInv, CameraPhases

\* Step by step the file, the buffers and the room for the picture are got.
LEMMA CameraStaysTyped ==
    ASSUME WebcamInv, CameraInv, Camera!Next \/ UNCHANGED webcamVars
    PROVE  CameraInv'
<1> USE DEF CameraInv, CameraPhases
<1>1. CASE Camera!OpenDevice
  <2>1. \/ wcPhase' = "init" /\ step' = "format" /\ wcFd'
        \/ wcPhase' = "failed" /\ wcFd' = wcFd
    BY <1>1, Zenon DEF Camera!OpenDevice, Camera!Goto
  <2>2. UNCHANGED <<wcStreaming, bwFrame, buffers>>
    BY <1>1, Zenon DEF Camera!OpenDevice, Camera!memory
  <2> QED  BY <2>1, <2>2, Zenon
<1>2. CASE Camera!InitFails \/ Camera!Close
  BY <1>2, Zenon DEF Camera!InitFails, Camera!Close, Camera!CloseFile, Camera!Goto, Camera!memory
<1>3. CASE Camera!SetFormat \/ Camera!SetParams
  BY <1>3, Zenon DEF Camera!SetFormat, Camera!SetParams, Camera!At, Camera!Goto, Camera!memory, Camera!kernel
<1>4. CASE Camera!SetupBuffers
  <2>1. buffers' # 0
    BY <1>4, WebcamAssumption, SMT DEF Camera!SetupBuffers
  <2> QED  BY <1>4, <2>1, Zenon DEF Camera!SetupBuffers, Camera!At, Camera!Goto, Camera!kernel
<1>5. CASE Camera!QueueAll \/ Camera!StreamOn \/ Camera!ResumeFails
  BY <1>5, Zenon DEF Camera!QueueAll, Camera!StreamOn, Camera!ResumeFails, Camera!Goto, Camera!CloseFile,
         Camera!memory, Camera!kernel
<1>6. CASE Camera!Enter \/ Camera!Poll \/ Camera!Dequeue \/ Camera!FrameFails
  BY <1>6, Zenon DEF Camera!Enter, Camera!Poll, Camera!Dequeue, Camera!FrameFails, Camera!At, Camera!Goto,
         Camera!memory, Camera!kernel
<1>7. CASE Camera!ConvertLower \/ Camera!ConvertUpper \/ Camera!Requeue
  BY <1>7, Zenon DEF Camera!ConvertLower, Camera!ConvertUpper, Camera!Requeue, Camera!At, Camera!Goto,
         Camera!memory, Camera!kernel
<1>8. CASE Camera!Pause \/ Camera!AskToStop
  BY <1>8, Zenon DEF Camera!Pause, Camera!AskToStop, Camera!At, Camera!Goto, Camera!memory, Camera!kernel
<1>9. CASE Camera!Resume
  <2>1. wcPhase = "paused" /\ wcPhase' \in {"running", "resume"} /\ UNCHANGED <<wcFd, wcStreaming, buffers, bwFrame>>
    BY <1>9, Zenon DEF Camera!Resume, Camera!Goto, Camera!memory, Camera!kernel
  <2> QED  BY <2>1, Zenon
<1>10. CASE Camera!Fill \/ Camera!Trouble \/ Camera!Ask \/ UNCHANGED webcamVars
  <2>1. UNCHANGED <<wcPhase, step, wcFd, wcStreaming, bwFrame, buffers>>
    BY <1>10, Zenon DEF Camera!Fill, Camera!Trouble, Camera!Ask, webcamVars, Camera!memory, Camera!kernel
  <2> QED  BY <2>1, Zenon
<1> QED  BY <1>1, <1>2, <1>3, <1>4, <1>5, <1>6, <1>7, <1>8, <1>9, <1>10, Zenon DEF Camera!Next

\* The webcam's variables keep their types.
LEMMA CameraTyped == WebcamInv /\ CameraInv => Camera!TypeOK
<1> SUFFICES ASSUME WebcamInv, CameraInv PROVE Camera!TypeOK
  OBVIOUS
<1>1. held \in 0 .. WcBuffers /\ buffers \in 0 .. WcBuffers
  BY WebcamAssumption DEF WebcamInv, WebcamTypes, Camera!None, BufferNumbers
<1>2. buffers # 0 => buffers > 0
  BY <1>1
<1> QED  BY <1>1, <1>2, Zenon DEF CameraInv, CameraPhases, Camera!TypeOK

-----------------------------------------------------------------------
(* The PlayStation Eye *)

CONSTANTS PsPayloads, PsTransfer, PsFrames, PsLosses, PsValues, PsDefault, PsSets, PsShows,
          PsPauses, PsErrors

\* A frame has payloads.
ASSUME EyeAssumption == PsPayloads \in Nat \ {0}

VARIABLES psPhase, psPc, psStreaming, frame, psNext, losses, lastPts, lastFid, pos,
          frameCounter, currentFrame, got, psTold, val, changed, ctrlChanged, stored, setPc,
          asked, sets, shows, shown, psSeen, local, psCamera, usbErr, errors, psPauses

eyeVars == <<psPhase, psPc, psStreaming, frame, psNext, losses, lastPts, lastFid, pos,
             frameCounter, currentFrame, got, psTold, val, changed, ctrlChanged, stored, setPc,
             asked, sets, shows, shown, psSeen, local, psCamera, usbErr, errors, psPauses>>

Eye == INSTANCE Ps3Eye WITH
      Payloads <- PsPayloads, MaxTransfer <- PsTransfer, MaxFrames <- PsFrames,
      MaxLosses <- PsLosses, Values <- PsValues, Default <- PsDefault, MaxSets <- PsSets,
      MaxShows <- PsShows, MaxPauses <- PsPauses, MaxErrors <- PsErrors, phase <- psPhase, pc <- psPc,
      streaming <- psStreaming, next <- psNext, told <- psTold, seen <- psSeen,
      camera <- psCamera, pauses <- psPauses

\* A part of a frame, all parts of frame f, and what is sent.
Part == Nat \X (1 .. PsPayloads)
Whole(f) == [i \in 1 .. PsPayloads |-> <<f, i>>]
Sent == {p \in [pts : Nat \ {0}, fid : {0, 1}, part : Part, eof : BOOLEAN, err : BOOLEAN] :
            p.part[1] = p.pts /\ (p.eof <=> p.part[2] = PsPayloads)}

EyeTypes ==
    /\ frame \in Nat \ {0} /\ psNext \in 1 .. PsPayloads
    /\ lastPts \in Nat /\ frameCounter \in Nat /\ currentFrame \in Nat
    /\ got \in Seq(Sent) /\ pos \in Seq(Part) /\ psTold \in Seq({Whole(f) : f \in Nat})
    /\ psPhase = "paused" => psPc = ""

\* Part i of frame f was sent before the camera's next.
SentBefore(f, i) == f < frame \/ (f = frame /\ i < psNext)

\* The payloads looked at are of one frame and in order.
GotInv ==
    /\ \A i \in 1 .. Len(got) : SentBefore(got[i].pts, got[i].part[2])
    /\ \A i, j \in 1 .. Len(got) : i < j => got[i].pts = got[j].pts /\ got[i].part[2] < got[j].part[2]

\* What was put together are parts of one frame, in order, with gaps perhaps; what
\* is looked at or sent next comes after it.
PosInv ==
    lastPts # 0 =>
        /\ pos # <<>>
        /\ \A i \in 1 .. Len(pos) : /\ pos[i][1] = lastPts /\ i <= pos[i][2]
                                    /\ pos[i][2] + (Len(pos) - i) <= pos[Len(pos)][2]
        /\ SentBefore(lastPts, pos[Len(pos)][2])
        /\ \A i \in 1 .. Len(got) : lastPts <= got[i].pts
              /\ (lastPts = got[i].pts => pos[Len(pos)][2] < got[i].part[2])

\* A frame that was completed is handed on before anything else is looked at.
DoneInv ==
    \/ frameCounter = currentFrame
    \/ /\ frameCounter = currentFrame + 1 /\ psPc = "scan" /\ got = <<>> /\ lastPts = 0
       /\ \E f \in 1 .. frame - 1 : pos = Whole(f) /\ \A k \in 1 .. Len(psTold) : psTold[k][1][1] < f

\* The frames handed on are older than all that comes.
ToldInv ==
    /\ \A k \in 1 .. Len(psTold) : psTold[k][1][1] \in 1 .. frame - 1
    /\ \A j, k \in 1 .. Len(psTold) : j < k => psTold[j][1][1] < psTold[k][1][1]
    /\ \A k \in 1 .. Len(psTold) : lastPts # 0 => psTold[k][1][1] < lastPts
    /\ \A k \in 1 .. Len(psTold), i \in 1 .. Len(got) : psTold[k][1][1] < got[i].pts

\* ControlMarked also before and between the runs, and what is about to be written;
\* the page is filled at once.
MarkInv ==
    /\ psPhase \in {"init", "running", "paused"} /\ ~usbErr /\ ~shown /\ psCamera # val =>
          changed \/ setPc = "flag" \/ psPc \in {"start read", "start value", "value"}
                  \/ (psPc = "write" /\ local = val)
    /\ ~shown /\ psPc = "write" /\ local # val => changed \/ setPc = "flag"
    /\ psPc \in {"start read", "start value", "start stream"} => psPhase \in {"init", "running"}
    /\ setPc \in Eye!Showing => shown

FrameInv == EyeTypes /\ GotInv /\ PosInv /\ DoneInv /\ ToldInv

LEMMA OneMore ==
    ASSUME NEW a \in Nat, NEW n \in Nat, NEW i \in Nat, NEW b \in Nat, a + (n - i) < b
    PROVE  a + (n + 1 - i) <= b
OBVIOUS

LEMMA OfPart == ASSUME NEW q \in Part PROVE q[1] \in Nat /\ q[2] \in 1 .. PsPayloads /\ q = <<q[1], q[2]>>
BY DEF Part

LEMMA OfSent ==
    ASSUME NEW p \in Sent
    PROVE  /\ p.pts \in Nat \ {0} /\ p.part \in Part /\ p.part[1] = p.pts /\ p.part[2] \in 1 .. PsPayloads
           /\ p.eof <=> p.part[2] = PsPayloads
<1>1. p.pts \in Nat \ {0} /\ p.part \in Part /\ p.part[1] = p.pts
  BY DEF Sent
<1>2. p.eof <=> p.part[2] = PsPayloads
  BY Zenon DEF Sent
<1> QED  BY <1>1, <1>2, OfPart

LEMMA EyeNumbers ==
    ASSUME FrameInv
    PROVE  /\ PsPayloads \in Nat \ {0} /\ frame \in Nat \ {0} /\ psNext \in Nat \ {0} /\ psNext <= PsPayloads
           /\ lastPts \in Nat /\ frameCounter \in Nat /\ currentFrame \in Nat
           /\ Len(got) \in Nat /\ \A i \in 1 .. Len(got) : got[i] \in Sent
           /\ Len(pos) \in Nat /\ \A i \in 1 .. Len(pos) : pos[i] \in Part
<1>1. frame \in Nat \ {0} /\ psNext \in 1 .. PsPayloads /\ lastPts \in Nat /\ frameCounter \in Nat
         /\ currentFrame \in Nat
  BY Zenon DEF FrameInv, EyeTypes
<1>2. got \in Seq(Sent) /\ pos \in Seq(Part)
  BY Zenon DEF FrameInv, EyeTypes
<1>3. Len(got) \in Nat /\ \A i \in 1 .. Len(got) : got[i] \in Sent
  BY <1>2
<1>4. Len(pos) \in Nat /\ \A i \in 1 .. Len(pos) : pos[i] \in Part
  BY <1>2
<1> QED  BY <1>1, <1>3, <1>4, EyeAssumption

LEMMA LastPart ==
    ASSUME FrameInv, lastPts # 0
    PROVE  Len(pos) \in Nat \ {0} /\ pos[Len(pos)][2] \in Nat /\ pos[Len(pos)][2] \in 1 .. PsPayloads
<1>1. pos \in Seq(Part) /\ pos # <<>>
  BY Zenon DEF FrameInv, EyeTypes, PosInv
<1>2. Len(pos) \in Nat \ {0} /\ pos[Len(pos)] \in Part
  BY <1>1
<1> QED  BY <1>2, OfPart

LEMMA Earlier ==
    ASSUME NEW m \in Nat, NEW n \in Nat, m <= n
    PROVE  1 .. m - 1 \subseteq 1 .. n - 1 /\ \A f \in 1 .. m - 1 : f < m
OBVIOUS

LEMMA EyeBegins == Eye!Init => FrameInv /\ MarkInv
<1> SUFFICES ASSUME Eye!Init PROVE FrameInv /\ MarkInv
  OBVIOUS
<1>1. /\ frame = 1 /\ psNext = 1 /\ lastPts = 0 /\ pos = <<>> /\ frameCounter = 0 /\ currentFrame = 0
      /\ got = <<>> /\ psTold = <<>> /\ psPhase = "closed" /\ psPc = ""
  BY DEF Eye!Init
<1>2. Len(got) = 0 /\ Len(psTold) = 0 /\ got \in Seq(Sent) /\ pos \in Seq(Part)
         /\ psTold \in Seq({Whole(f) : f \in Nat})
  BY <1>1, SeqEmpty
<1>3. EyeTypes
  <2>1. 1 \in 1 .. PsPayloads /\ 1 \in Nat \ {0} /\ 0 \in Nat
    BY EyeAssumption
  <2> QED  BY <1>1, <1>2, <2>1, Zenon DEF EyeTypes
<1>4. GotInv /\ PosInv /\ DoneInv /\ ToldInv
  <2>1. 1 .. Len(got) = {} /\ 1 .. Len(psTold) = {}
    BY <1>2
  <2> QED  BY <1>1, <2>1, Zenon DEF GotInv, PosInv, DoneInv, ToldInv
<1>5. MarkInv
  <2>1. setPc = "" /\ "" \notin Eye!Showing
    BY Zenon DEF Eye!Init, Eye!Showing
  <2> QED  BY <1>1, <2>1, Zenon DEF MarkInv
<1> QED  BY <1>3, <1>4, <1>5 DEF FrameInv

\* Steps that do not look at the data.
LEMMA NothingScanned ==
    ASSUME FrameInv, UNCHANGED <<frame, psNext, Eye!packet>>, psPc = "scan" => psPc' = "scan",
           psPhase' = "paused" => psPc' = ""
    PROVE  FrameInv'
BY DEF FrameInv, EyeTypes, GotInv, PosInv, DoneInv, ToldInv, SentBefore, Eye!packet

\* The GUI's steps.
Setter == Eye!SetValue \/ Eye!SetFlag \/ Eye!SetCount \/ Eye!SetStored
Shower == Eye!ShowDefault \/ Eye!ShowMark \/ Eye!ShowStored \/ Eye!ShowRead

LEMMA GuiAlone ==
    ASSUME Setter \/ Shower
    PROVE  UNCHANGED <<psPhase, psPc, psStreaming, frame, psNext, losses, lastPts, lastFid, pos,
                       frameCounter, currentFrame, got, psTold, psSeen, local, psCamera, usbErr>>
BY Zenon DEF Setter, Shower, Eye!SetValue, Eye!SetFlag, Eye!SetCount, Eye!SetStored, Eye!ShowDefault,
             Eye!ShowMark, Eye!ShowStored, Eye!ShowRead, Eye!device, Eye!sending, Eye!packet, Eye!refresh

LEMMA ControlsKeepFrame ==
    ASSUME FrameInv,
           Eye!Open \/ Eye!StartReads \/ Eye!StartWrites \/ Eye!Pause \/ Eye!Resume \/ Eye!Close
           \/ Eye!ReadChanged \/ Eye!ClearChanged \/ Eye!ReadFlag \/ Eye!ReadValue \/ Eye!WriteControl
           \/ Setter \/ Shower
    PROVE  FrameInv'
<1>1. UNCHANGED <<frame, psNext, Eye!packet>>
  <2>1. CASE Setter \/ Shower
    BY <2>1, GuiAlone, Zenon DEF Eye!packet
  <2> QED
    BY <2>1, Zenon DEF Eye!Open, Eye!StartReads, Eye!StartWrites, Eye!Pause, Eye!Resume, Eye!Close, Eye!ReadChanged,
               Eye!ClearChanged, Eye!ReadFlag, Eye!ReadValue, Eye!WriteControl, Eye!sending
<1>2. psPhase = "paused" => psPc = ""
  BY DEF FrameInv, EyeTypes
<1>3. CASE Setter \/ Shower
  <2>1. UNCHANGED <<psPhase, psPc>>
    BY <1>3, GuiAlone, Zenon
  <2> QED  BY <1>1, <1>2, <2>1, NothingScanned
<1>4. CASE Eye!Open \/ Eye!Pause \/ Eye!Resume \/ Eye!Close
  <2>1. psPc = "" \/ psPhase = "paused"
    BY <1>4, Zenon DEF Eye!Open, Eye!Pause, Eye!Close, Eye!Resume
  <2>2. psPhase' = "paused" => psPc' = ""
    BY <1>2, <1>4, Zenon DEF Eye!Open, Eye!Pause, Eye!Close, Eye!Resume
  <2> QED  BY <1>1, <1>2, <2>1, <2>2, NothingScanned
<1>5. CASE Eye!StartReads \/ Eye!StartWrites \/ Eye!ReadChanged \/ Eye!ClearChanged \/ Eye!ReadFlag
         \/ Eye!ReadValue \/ Eye!WriteControl
  <2>1. psPc # "scan"
    BY <1>5, Zenon DEF Eye!StartReads, Eye!StartWrites, Eye!ReadChanged, Eye!ClearChanged, Eye!ReadFlag,
                       Eye!ReadValue, Eye!WriteControl
  <2>2. psPhase' = psPhase /\ (psPc # "" \/ psPhase = "running")
    BY <1>5, Zenon DEF Eye!StartReads, Eye!StartWrites, Eye!ReadChanged, Eye!ClearChanged, Eye!ReadFlag,
                       Eye!ReadValue, Eye!WriteControl
  <2> QED  BY <1>1, <1>2, <2>1, <2>2, NothingScanned
<1> QED  BY <1>3, <1>4, <1>5

LEMMA StartStreamFrame == ASSUME FrameInv, Eye!StartStream PROVE FrameInv'
<1>1. psPc = "start stream" /\ psPhase' = "running" /\ psPc' = "" /\ UNCHANGED Eye!packet
  BY Zenon DEF Eye!StartStream
<1>2. (frame' = frame + 1 /\ psNext' = 1) \/ UNCHANGED <<frame, psNext>>
  BY Zenon DEF Eye!StartStream, Eye!Access
<1>3. CASE UNCHANGED <<frame, psNext>>
  BY <1>1, <1>3, NothingScanned
<1>4. CASE frame' = frame + 1 /\ psNext' = 1
  <2>1. frame \in Nat \ {0} /\ 1 \in 1 .. PsPayloads /\ frame' \in Nat \ {0}
           /\ 1 .. frame - 1 \subseteq 1 .. frame' - 1
    BY <1>4, EyeNumbers
  <2>2. EyeTypes'
    BY <1>1, <1>4, <2>1 DEF FrameInv, EyeTypes, Eye!packet
  <2>3. \A f \in Nat, i \in Nat : SentBefore(f, i) => SentBefore(f, i)'
    BY <1>4, <2>1 DEF SentBefore
  <2>4. GotInv' /\ PosInv'
    <3>1. \A i \in 1 .. Len(got) : got[i].pts \in Nat /\ got[i].part[2] \in Nat
      BY EyeNumbers, OfSent
    <3>2. lastPts # 0 => pos[Len(pos)][2] \in Nat
      BY LastPart
    <3>3. lastPts \in Nat
      BY EyeNumbers
    <3> QED  BY <1>1, <2>3, <3>1, <3>2, <3>3 DEF FrameInv, GotInv, PosInv, Eye!packet
  <2>5. DoneInv'
    BY <1>1 DEF FrameInv, DoneInv, Eye!packet
  <2>6. ToldInv'
    BY <1>1, <2>1 DEF FrameInv, ToldInv, Eye!packet
  <2> QED  BY <2>2, <2>4, <2>5, <2>6 DEF FrameInv
<1> QED  BY <1>2, <1>3, <1>4

LEMMA ReceiveFrame == ASSUME FrameInv, Eye!Receive PROVE FrameInv'
<1>1. /\ psPc = "receive" /\ psPc' = "scan" /\ psPhase' = psPhase
      /\ UNCHANGED <<lastPts, pos, frameCounter, currentFrame, psTold>>
  BY Zenon DEF Eye!Receive
<1>2. frameCounter = currentFrame /\ psPhase # "paused"
  BY <1>1 DEF FrameInv, DoneInv, EyeTypes
<1>3. \/ got' = <<>> /\ UNCHANGED <<frame, psNext>>
      \/ \E to \in psNext .. PsPayloads : \E bad :
            /\ got' = Eye!Arrived(psNext, to, bad)
            /\ (frame' = frame + 1 /\ psNext' = 1) \/ (to # PsPayloads /\ psNext' = to + 1 /\ frame' = frame)
  BY Zenon DEF Eye!Receive, Eye!Ends
<1>4. CASE got' = <<>> /\ UNCHANGED <<frame, psNext>>
  <2>1. Len(got') = 0
    BY <1>4, SeqEmpty
  <2>2. EyeTypes'
    BY <1>1, <1>2, <1>4, SeqEmpty DEF FrameInv, EyeTypes
  <2>3. 1 .. Len(got') = {}
    BY <2>1
  <2>4. GotInv' /\ PosInv' /\ DoneInv' /\ ToldInv'
    BY <1>1, <1>2, <1>4, <2>3 DEF FrameInv, GotInv, PosInv, DoneInv, ToldInv, SentBefore
  <2> QED  BY <2>2, <2>4 DEF FrameInv
<1>5. ASSUME NEW to \in psNext .. PsPayloads, NEW bad, got' = Eye!Arrived(psNext, to, bad),
             (frame' = frame + 1 /\ psNext' = 1) \/ (to # PsPayloads /\ psNext' = to + 1 /\ frame' = frame)
      PROVE  FrameInv'
  <2>1. /\ frame \in Nat \ {0} /\ psNext \in Nat \ {0} /\ psNext <= PsPayloads /\ PsPayloads \in Nat
        /\ to \in Nat
        /\ psNext <= to /\ to <= PsPayloads /\ frame' \in Nat \ {0} /\ psNext' \in 1 .. PsPayloads
    BY <1>5, EyeNumbers
  <2>0. (frame' = frame + 1 /\ psNext' = 1) \/ (psNext' = to + 1 /\ frame' = frame)
    BY <1>5
  <2>2. /\ Len(got') = to - psNext + 1 /\ DOMAIN got' = 1 .. to - psNext + 1 /\ got' \in Seq(Sent)
        /\ \A i \in 1 .. to - psNext + 1 : got'[i].pts = frame /\ got'[i].part[2] = psNext + i - 1
    <3> DEFINE came(i) == [Eye!Payload(frame, psNext + i - 1) EXCEPT !.err = (psNext + i - 1) \in bad]
    <3>1. ASSUME NEW i \in 1 .. to - psNext + 1
          PROVE  came(i) \in Sent /\ came(i).pts = frame /\ came(i).part[2] = psNext + i - 1
      <4>1. psNext + i - 1 \in 1 .. PsPayloads /\ frame % 2 \in {0, 1}
        BY <2>1
      <4>2. /\ came(i).pts = frame /\ came(i).fid = frame % 2 /\ came(i).part = <<frame, psNext + i - 1>>
            /\ came(i).eof = (psNext + i - 1 = PsPayloads) /\ came(i).err = ((psNext + i - 1) \in bad)
            /\ came(i) = [pts |-> came(i).pts, fid |-> came(i).fid, part |-> came(i).part,
                 eof |-> came(i).eof, err |-> came(i).err]
        BY DEF Eye!Payload
      <4>3. came(i).part \in Part /\ came(i).part[1] = frame /\ came(i).part[2] = psNext + i - 1
        <5> HIDE DEF came
        <5> QED  BY <2>1, <4>1, <4>2 DEF Part
      <4>4. came(i).eof \in BOOLEAN /\ came(i).err \in BOOLEAN
        <5> HIDE DEF came
        <5>1. (psNext + i - 1 = PsPayloads) \in BOOLEAN /\ ((psNext + i - 1) \in bad) \in BOOLEAN
          OBVIOUS
        <5> QED  BY <4>2, <5>1, Zenon
      <4>5. came(i) \in [pts : Nat \ {0}, fid : {0, 1}, part : Part, eof : BOOLEAN, err : BOOLEAN]
        <5> HIDE DEF came
        <5> QED  BY <2>1, <4>1, <4>2, <4>3, <4>4, Zenon
      <4> QED  BY <4>2, <4>3, <4>5 DEF Sent
    <3>2. got' = [i \in 1 .. to - psNext + 1 |-> came(i)]
      BY <1>5 DEF Eye!Arrived
    <3> HIDE DEF came
    <3>3. to - psNext + 1 \in Nat
      BY <2>1
    <3> QED  BY <3>1, <3>2, <3>3
  <2>3. EyeTypes'
    BY <1>1, <1>2, <2>1, <2>2 DEF FrameInv, EyeTypes
  <2>4. \A f \in Nat, i \in Nat : SentBefore(f, i)
           => SentBefore(f, i)' /\ (f < frame \/ (f = frame /\ i < psNext))
    BY <1>5, <2>1 DEF SentBefore
  <2>5. GotInv'
    <3>1. \A i \in 1 .. to - psNext + 1 : frame < frame' \/ (frame = frame' /\ psNext + i - 1 < psNext')
      BY <2>0, <2>1
    <3>2. \A i, j \in 1 .. Len(got') : i < j => got'[i].pts = got'[j].pts /\ got'[i].part[2] < got'[j].part[2]
      BY <2>1, <2>2
    <3>3. \A i \in 1 .. Len(got') :
             got'[i].pts < frame' \/ (got'[i].pts = frame' /\ got'[i].part[2] < psNext')
      BY <2>2, <3>1
    <3> QED  BY <3>2, <3>3 DEF GotInv, SentBefore
  <2>6. PosInv'
    <3> SUFFICES ASSUME lastPts # 0 PROVE PosInv'
      BY <1>1 DEF PosInv
    <3>1. pos[Len(pos)][2] \in Nat /\ lastPts \in Nat
      BY LastPart, EyeNumbers
    <3>2. SentBefore(lastPts, pos[Len(pos)][2])
      BY DEF FrameInv, PosInv
    <3>3. \A i \in 1 .. Len(got') : lastPts <= got'[i].pts
              /\ (lastPts = got'[i].pts => pos[Len(pos)][2] < got'[i].part[2])
      <4>1. lastPts < frame \/ (lastPts = frame /\ pos[Len(pos)][2] < psNext)
        BY <3>2 DEF SentBefore
      <4>2. \A i \in 1 .. Len(got') : got'[i].pts = frame /\ psNext <= got'[i].part[2]
        BY <2>1, <2>2
      <4>3. psNext \in Nat /\ frame \in Nat /\ \A i \in 1 .. Len(got') : got'[i].part[2] \in Nat
        BY <2>1, <2>2
      <4> QED  BY <3>1, <4>1, <4>2, <4>3, SMTT(30)
    <3> QED  BY <1>1, <2>4, <3>1, <3>2, <3>3 DEF FrameInv, PosInv
  <2>7. DoneInv'
    BY <1>1, <1>2 DEF DoneInv
  <2>8. ToldInv'
    <3>1. 1 .. frame - 1 \subseteq 1 .. frame' - 1 /\ \A f \in 1 .. frame - 1 : f < frame
      <4>1. frame <= frame' /\ frame \in Nat /\ frame' \in Nat
        BY <2>0, <2>1
      <4> QED  BY <4>1, Earlier
    <3> QED  BY <1>1, <2>2, <3>1 DEF FrameInv, ToldInv
  <2> QED  BY <2>3, <2>5, <2>6, <2>7, <2>8 DEF FrameInv
<1> QED  BY <1>3, <1>4, <1>5

LEMMA HandOnFrame == ASSUME FrameInv, Eye!HandOn PROVE FrameInv'
<1>1. /\ psPc = "scan" /\ got = <<>> /\ psPc' = ""
      /\ UNCHANGED <<psPhase, frame, psNext, lastPts, pos, frameCounter, got>>
      /\ \/ frameCounter = currentFrame /\ UNCHANGED <<currentFrame, psTold>>
         \/ frameCounter # currentFrame /\ currentFrame' = frameCounter /\ psTold' = Append(psTold, pos)
  BY Zenon DEF Eye!HandOn, Eye!sending
<1>2. CASE frameCounter = currentFrame /\ UNCHANGED <<currentFrame, psTold>>
  <2>1. UNCHANGED <<frame, psNext, Eye!packet>> /\ psPhase' = psPhase
    BY <1>1, <1>2 DEF Eye!packet, Eye!HandOn
  <2>2. EyeTypes'
    BY <1>1, <2>1 DEF FrameInv, EyeTypes, Eye!packet
  <2>4. GotInv' /\ PosInv'
    BY <2>1 DEF FrameInv, GotInv, PosInv, SentBefore, Eye!packet
  <2>3. DoneInv' /\ ToldInv'
    BY <1>2, <2>1 DEF FrameInv, DoneInv, ToldInv, Eye!packet
  <2> QED  BY <2>2, <2>3, <2>4 DEF FrameInv
<1>3. CASE frameCounter # currentFrame /\ currentFrame' = frameCounter /\ psTold' = Append(psTold, pos)
  <2>1. lastPts = 0 /\ \E f \in 1 .. frame - 1 : pos = Whole(f)
           /\ \A k \in 1 .. Len(psTold) : psTold[k][1][1] < f
    BY <1>3 DEF FrameInv, DoneInv
  <2>2. PICK f \in 1 .. frame - 1 : pos = Whole(f) /\ \A k \in 1 .. Len(psTold) : psTold[k][1][1] < f
    BY <2>1
  <2>3. f \in Nat /\ Whole(f) \in {Whole(g) : g \in Nat} /\ Whole(f)[1][1] = f
    <3>1. f \in Nat
      BY EyeNumbers
    <3>2. 1 \in 1 .. PsPayloads
      BY EyeAssumption
    <3>3. Whole(f)[1] = <<f, 1>>
      BY <3>2 DEF Whole
    <3> QED  BY <3>1, <3>3
  <2>4. psTold \in Seq({Whole(g) : g \in Nat})
    BY DEF FrameInv, EyeTypes
  <2>5. PICK w : w = Whole(f)
    OBVIOUS
  <2>6. /\ Len(psTold) \in Nat /\ psTold' \in Seq({Whole(g) : g \in Nat}) /\ Len(psTold') = Len(psTold) + 1
        /\ psTold'[Len(psTold) + 1] = w /\ \A k \in 1 .. Len(psTold) : psTold'[k] = psTold[k]
    BY <1>3, <2>2, <2>3, <2>4, <2>5, SeqAppend
  <2>7. EyeTypes'
    BY <1>1, <1>3, <2>6 DEF FrameInv, EyeTypes
  <2>8. GotInv' /\ PosInv' /\ DoneInv'
    <3>1. GotInv'
      <4>1. UNCHANGED <<frame, psNext, got>>
        BY <1>1
      <4> QED  BY <4>1 DEF FrameInv, GotInv, SentBefore
    <3>2. PosInv'
      BY <1>1, <2>1 DEF PosInv
    <3>3. DoneInv'
      BY <1>1, <1>3 DEF DoneInv
    <3> QED  BY <3>1, <3>2, <3>3
  <2>9. ToldInv'
    <3>1. 1 .. Len(got') = {}
      <4>1. got' = <<>> /\ Len(<<>>) = 0
        BY <1>1, SeqEmpty
      <4> QED  BY <4>1
    <3>2. \A k \in 1 .. Len(psTold') : k \in 1 .. Len(psTold) \/ k = Len(psTold) + 1
      BY <2>6
    <3>3. \A k \in 1 .. Len(psTold') : psTold'[k][1][1] \in 1 .. frame - 1
      BY <2>2, <2>3, <2>5, <2>6, <3>2 DEF FrameInv, ToldInv
    <3>4. \A j, k \in 1 .. Len(psTold') : j < k => psTold'[j][1][1] < psTold'[k][1][1]
      <4> SUFFICES ASSUME NEW j \in 1 .. Len(psTold'), NEW k \in 1 .. Len(psTold'), j < k
                   PROVE  psTold'[j][1][1] < psTold'[k][1][1]
        OBVIOUS
      <4>1. j \in 1 .. Len(psTold) /\ psTold'[j] = psTold[j]
        BY <2>6, <3>2
      <4>2. CASE k \in 1 .. Len(psTold)
        BY <2>6, <4>1, <4>2 DEF FrameInv, ToldInv
      <4>3. CASE k = Len(psTold) + 1
        BY <2>2, <2>3, <2>5, <2>6, <4>1, <4>3
      <4> QED  BY <3>2, <4>2, <4>3
    <3> QED  BY <1>1, <2>1, <3>1, <3>3, <3>4 DEF ToldInv
  <2> QED  BY <2>7, <2>8, <2>9 DEF FrameInv
<1> QED  BY <1>1, <1>2, <1>3

\* What is left to look at after a payload.
LEMMA GotTail ==
    ASSUME FrameInv, got # <<>>, got' = Tail(got), UNCHANGED <<frame, psNext>>
    PROVE  /\ got[1] \in Sent /\ got' \in Seq(Sent) /\ Len(got') \in Nat /\ GotInv'
           /\ \A i \in 1 .. Len(got') : /\ i + 1 \in 1 .. Len(got) /\ got'[i] = got[i + 1]
                                         /\ got'[i].pts = got[1].pts /\ got[1].part[2] < got'[i].part[2]
           /\ 1 \in 1 .. Len(got) /\ Head(got) = got[1]
<1>1. got \in Seq(Sent)
  BY Zenon DEF FrameInv, EyeTypes
<1>2. /\ Len(got) \in Nat \ {0} /\ Head(got) = got[1] /\ got[1] \in Sent
      /\ got' \in Seq(Sent) /\ Len(got') = Len(got) - 1
      /\ \A i \in 1 .. Len(got) - 1 : got'[i] = got[i + 1]
  BY <1>1, SeqTail
<1>3. \A i \in 1 .. Len(got') : i + 1 \in 1 .. Len(got) /\ got'[i] = got[i + 1] /\ 1 < i + 1
  BY <1>2
<1>4. 1 \in 1 .. Len(got) /\ Len(got') \in Nat
  BY <1>2
<1>5. \A i \in 1 .. Len(got') : got'[i].pts = got[1].pts /\ got[1].part[2] < got'[i].part[2]
  BY <1>3, <1>4 DEF FrameInv, GotInv
<1>6. \A i, j \in 1 .. Len(got') : i < j => i + 1 < j + 1
  BY <1>2
<1>7. GotInv'
  BY <1>3, <1>6, SMTT(30) DEF FrameInv, GotInv, SentBefore
<1> QED  BY <1>2, <1>3, <1>4, <1>5, <1>7

LEMMA ScanFrame == ASSUME FrameInv, Eye!Scan PROVE FrameInv'
<1> DEFINE p == Head(got)
<1>1. /\ psPc = "scan" /\ got # <<>> /\ got' = Tail(got)
      /\ UNCHANGED <<psPhase, psPc, frame, psNext, currentFrame, psTold>>
  BY Zenon DEF Eye!Scan, Eye!sending
<1>2. /\ p \in Sent /\ got' \in Seq(Sent) /\ Len(got') \in Nat /\ GotInv' /\ p = got[1] /\ 1 \in 1 .. Len(got)
      /\ \A i \in 1 .. Len(got') : i + 1 \in 1 .. Len(got) /\ got'[i] = got[i + 1]
  BY <1>1, GotTail
<1>3. \A i \in 1 .. Len(got') : got'[i].pts = p.pts /\ p.part[2] < got'[i].part[2]
  BY <1>1, GotTail
<1>4. /\ frame \in Nat /\ psNext \in Nat /\ psNext <= PsPayloads /\ PsPayloads \in Nat \ {0}
      /\ lastPts \in Nat
      /\ p.pts \in Nat \ {0} /\ p.part \in Part /\ p.part[1] = p.pts /\ p.part[2] \in 1 .. PsPayloads
      /\ SentBefore(p.pts, p.part[2])
  <2>1. p.pts \in Nat \ {0} /\ p.part \in Part /\ p.part[1] = p.pts /\ p.part[2] \in 1 .. PsPayloads
    BY <1>2, OfSent
  <2>2. SentBefore(p.pts, p.part[2])
    BY <1>2 DEF FrameInv, GotInv
  <2> QED  BY <2>1, <2>2, EyeNumbers
<1>5. frameCounter = currentFrame /\ (psPhase = "paused" => psPc = "")
  BY <1>1 DEF FrameInv, DoneInv, EyeTypes
<1>6. \A k \in 1 .. Len(psTold) : psTold[k][1][1] < p.pts
  BY <1>2 DEF FrameInv, ToldInv
<1>7. /\ \A k \in 1 .. Len(psTold') : psTold'[k][1][1] \in 1 .. frame' - 1
      /\ \A j, k \in 1 .. Len(psTold') : j < k => psTold'[j][1][1] < psTold'[k][1][1]
      /\ \A k \in 1 .. Len(psTold'), i \in 1 .. Len(got') : psTold'[k][1][1] < got'[i].pts
  BY <1>1, <1>3, <1>6 DEF FrameInv, ToldInv
<1>8. lastPts # 0 => lastPts <= p.pts /\ (lastPts = p.pts => pos[Len(pos)][2] < p.part[2])
  BY <1>2 DEF FrameInv, PosInv
<1> HIDE DEF p
<1>9. CASE UNCHANGED <<lastPts, pos, frameCounter>>
  <2>1. EyeTypes'
    BY <1>1, <1>2, <1>9 DEF FrameInv, EyeTypes
  <2>2. PosInv'
    BY <1>1, <1>2, <1>9 DEF FrameInv, PosInv, SentBefore
  <2>3. DoneInv' /\ ToldInv'
    BY <1>1, <1>5, <1>7, <1>9 DEF FrameInv, DoneInv, ToldInv
  <2> QED  BY <1>2, <2>1, <2>2, <2>3 DEF FrameInv
<1>10. CASE lastPts' = p.pts /\ pos' = <<p.part>> /\ UNCHANGED frameCounter
  <2>1. pos' \in Seq(Part) /\ Len(pos') = 1 /\ pos'[1] = p.part /\ pos' # <<>>
    BY <1>4, <1>10
  <2>2. EyeTypes'
    BY <1>1, <1>2, <1>4, <1>10, <2>1 DEF FrameInv, EyeTypes
  <2>3. PosInv'
    <3>1. SentBefore(p.pts, p.part[2])'  = SentBefore(p.pts, p.part[2])'
      OBVIOUS
    <3>2. lastPts' < frame' \/ (lastPts' = frame' /\ p.part[2] < psNext')
      BY <1>1, <1>4, <1>10 DEF SentBefore
    <3>3. \A i \in 1 .. Len(got') : lastPts' <= got'[i].pts /\ p.part[2] < got'[i].part[2]
      BY <1>3, <1>4, <1>10
    <3>4. 1 <= p.part[2] /\ p.part[2] + (1 - 1) <= p.part[2]
      BY <1>4
    <3> QED  BY <1>4, <1>10, <2>1, <3>2, <3>3, <3>4 DEF PosInv, SentBefore
  <2>4. DoneInv' /\ ToldInv'
    BY <1>1, <1>5, <1>6, <1>7, <1>10 DEF DoneInv, ToldInv
  <2> QED  BY <1>2, <2>2, <2>3, <2>4 DEF FrameInv
<1>11. CASE lastPts' = 0 /\ UNCHANGED <<pos, frameCounter>>
  <2>1. EyeTypes'
    BY <1>1, <1>2, <1>11 DEF FrameInv, EyeTypes
  <2>2. PosInv' /\ DoneInv' /\ ToldInv'
    BY <1>1, <1>5, <1>7, <1>11 DEF PosInv, DoneInv, ToldInv
  <2> QED  BY <1>2, <2>1, <2>2 DEF FrameInv
\* The payload goes on with the frame.
<1>12. ASSUME p.pts = lastPts
       PROVE  /\ Len(pos) \in Nat \ {0} /\ Len(pos) < PsPayloads /\ Eye!Added(p.part) \in Seq(Part)
              /\ Len(Eye!Added(p.part)) = Len(pos) + 1 /\ Eye!Added(p.part)[Len(pos) + 1] = p.part
              /\ \A i \in 1 .. Len(pos) : Eye!Added(p.part)[i] = pos[i]
              /\ \A i \in 1 .. Len(pos) + 1 :
                    /\ Eye!Added(p.part)[i] \in Part /\ Eye!Added(p.part)[i][1] = p.pts
                    /\ i <= Eye!Added(p.part)[i][2]
                    /\ Eye!Added(p.part)[i][2] + (Len(pos) + 1 - i) <= p.part[2]
  <2>1. lastPts # 0
    BY <1>4, <1>12
  <2>2. /\ Len(pos) \in Nat \ {0} /\ pos[Len(pos)][2] \in Nat /\ pos[Len(pos)][2] < p.part[2]
        /\ pos \in Seq(Part) /\ \A i \in 1 .. Len(pos) : pos[i] \in Part
    <3>1. pos \in Seq(Part)
      BY Zenon DEF FrameInv, EyeTypes
    <3> QED  BY <1>8, <1>12, <2>1, <3>1, LastPart, EyeNumbers
  <2>3. \A i \in 1 .. Len(pos) : /\ pos[i][1] = p.pts /\ i <= pos[i][2] /\ pos[i][2] \in Nat
                                 /\ pos[i][2] + (Len(pos) - i) <= pos[Len(pos)][2]
    <3>1. \A i \in 1 .. Len(pos) : pos[i][2] \in Nat
      BY <2>2, OfPart
    <3> QED  BY <1>12, <2>1, <3>1 DEF FrameInv, PosInv
  <2>4. Len(pos) < p.part[2] /\ p.part[2] <= PsPayloads /\ p.part[2] \in Nat
    <3>1. Len(pos) <= pos[Len(pos)][2]
      BY <2>2, <2>3
    <3> QED  BY <1>4, <2>2, <3>1
  <2>5. Len(pos) < PsPayloads
    BY <1>4, <2>2, <2>4
  <2>6. Eye!Added(p.part) = Append(pos, p.part)
    BY <2>2, <2>5, <1>4 DEF Eye!Added
  <2>7. PICK q : q = Eye!Added(p.part)
    OBVIOUS
  <2>8. /\ q \in Seq(Part) /\ Len(q) = Len(pos) + 1 /\ q[Len(pos) + 1] = p.part
        /\ \A i \in 1 .. Len(pos) : q[i] = pos[i]
    BY <1>4, <2>2, <2>6, <2>7, SeqAppend
  <2>9. ASSUME NEW i \in 1 .. Len(pos) + 1
        PROVE  /\ q[i] \in Part /\ q[i][1] = p.pts /\ i <= q[i][2]
               /\ q[i][2] + (Len(pos) + 1 - i) <= p.part[2]
    <3>1. CASE i = Len(pos) + 1
      BY <1>4, <2>2, <2>4, <2>8, <3>1
    <3>2. CASE i \in 1 .. Len(pos)
      <4>1. q[i] = pos[i] /\ pos[i][2] + (Len(pos) - i) < p.part[2] /\ pos[i][2] \in Nat /\ i \in Nat
        BY <2>2, <2>3, <2>4, <2>8, <3>2
      <4>2. i <= pos[i][2]
        BY <2>3, <3>2
      <4>3. q[i] \in Part /\ q[i][1] = p.pts
        BY <2>2, <2>3, <3>2, <4>1
      <4> QED  BY <2>2, <2>4, <4>1, <4>2, <4>3, OneMore
    <3> QED  BY <2>2, <3>1, <3>2
  <2> QED  BY <2>2, <2>5, <2>7, <2>8, <2>9
<1>13. CASE p.pts = lastPts /\ pos' = Eye!Added(p.part) /\ UNCHANGED <<lastPts, frameCounter>>
  <2>1. EyeTypes'
    BY <1>1, <1>2, <1>12, <1>13 DEF FrameInv, EyeTypes
  <2>2. PosInv'
    <3>1. Len(pos') \in Nat \ {0} /\ pos'[Len(pos')] = p.part /\ pos' # <<>>
      BY <1>12, <1>13, SeqEmpty
    <3>2. \A i \in 1 .. Len(pos') : /\ pos'[i][1] = lastPts' /\ i <= pos'[i][2]
                                    /\ pos'[i][2] + (Len(pos') - i) <= pos'[Len(pos')][2]
      BY <1>12, <1>13
    <3>3. lastPts' < frame' \/ (lastPts' = frame' /\ p.part[2] < psNext')
      BY <1>1, <1>4, <1>13 DEF SentBefore
    <3>4. \A i \in 1 .. Len(got') : lastPts' <= got'[i].pts /\ p.part[2] < got'[i].part[2]
      BY <1>3, <1>4, <1>13
    <3> QED  BY <3>1, <3>2, <3>3, <3>4 DEF PosInv, SentBefore
  <2>3. DoneInv' /\ ToldInv'
    BY <1>1, <1>5, <1>6, <1>7, <1>13 DEF DoneInv, ToldInv
  <2> QED  BY <1>2, <2>1, <2>2, <2>3 DEF FrameInv
<1>14. CASE /\ p.pts = lastPts /\ p.part[2] = PsPayloads /\ Len(pos) + 1 = PsPayloads
            /\ pos' = Eye!Added(p.part) /\ lastPts' = 0 /\ frameCounter' = frameCounter + 1
  <2>1. frameCounter \in Nat
    BY EyeNumbers
  <2>2. EyeTypes'
    BY <1>1, <1>2, <1>12, <1>14, <2>1 DEF FrameInv, EyeTypes
  <2>3. got' = <<>>
    <3>1. \A i \in 1 .. Len(got') : got'[i].part[2] \in 1 .. PsPayloads
      BY <1>2, OfSent
    <3>2. 1 \notin 1 .. Len(got')
      BY <1>3, <1>4, <1>14, <3>1
    <3> QED  BY <1>2, <3>2
  <2>4. pos' = Whole(p.pts)
    <3>1. Len(pos') = PsPayloads /\ pos' \in Seq(Part)
      BY <1>12, <1>14
    <3>2. ASSUME NEW i \in 1 .. PsPayloads PROVE pos'[i] = <<p.pts, i>>
      <4>1. /\ pos'[i] \in Part /\ pos'[i][1] = p.pts /\ i <= pos'[i][2]
            /\ pos'[i][2] + (PsPayloads - i) <= PsPayloads
        BY <1>12, <1>14
      <4>2. pos'[i][2] \in Nat /\ pos'[i] = <<pos'[i][1], pos'[i][2]>>
        BY <4>1, OfPart
      <4>3. pos'[i][2] = i
        BY <1>4, <4>1, <4>2
      <4> QED  BY <4>1, <4>2, <4>3
    <3>3. DOMAIN pos' = 1 .. PsPayloads /\ pos' = [i \in DOMAIN pos' |-> pos'[i]]
      BY <3>1
    <3> QED  BY <3>2, <3>3 DEF Whole
  <2>5. p.pts \in 1 .. frame - 1
    BY <1>4, <1>14 DEF SentBefore
  <2>6. DoneInv'
    <3>1. frame' = frame /\ psTold' = psTold /\ psPc' = "scan" /\ frameCounter' = currentFrame' + 1
      BY <1>1, <1>5, <1>14
    <3> QED  BY <1>6, <1>14, <2>3, <2>4, <2>5, <3>1 DEF DoneInv
  <2>7. PosInv' /\ ToldInv'
    BY <1>1, <1>7, <1>14 DEF PosInv, ToldInv
  <2> QED  BY <1>2, <2>2, <2>6, <2>7 DEF FrameInv
<1>15. \/ UNCHANGED <<lastPts, pos, frameCounter>>
       \/ lastPts' = p.pts /\ pos' = <<p.part>> /\ UNCHANGED frameCounter
       \/ lastPts' = 0 /\ UNCHANGED <<pos, frameCounter>>
       \/ p.pts = lastPts /\ pos' = Eye!Added(p.part) /\ UNCHANGED <<lastPts, frameCounter>>
       \/ p.pts = lastPts /\ p.eof /\ Len(pos) + 1 = PsPayloads
          /\ pos' = Eye!Added(p.part) /\ lastPts' = 0 /\ frameCounter' = frameCounter + 1
  BY Zenon DEF Eye!Scan, Eye!StartsFrame, p
<1>16. p.eof => p.part[2] = PsPayloads
  BY <1>2, OfSent
<1> QED  BY <1>9, <1>10, <1>11, <1>13, <1>14, <1>15, <1>16

LEMMA FrameKeeps == FrameInv /\ (Eye!Next \/ UNCHANGED eyeVars) => FrameInv'
<1> SUFFICES ASSUME FrameInv, Eye!Next \/ UNCHANGED eyeVars PROVE FrameInv'
  OBVIOUS
<1>1. CASE UNCHANGED eyeVars
  <2>1. UNCHANGED <<frame, psNext, Eye!packet>> /\ psPhase' = psPhase /\ psPc' = psPc
    BY <1>1 DEF eyeVars, Eye!packet
  <2>2. psPhase = "paused" => psPc = ""
    BY DEF FrameInv, EyeTypes
  <2> QED  BY <2>1, <2>2, NothingScanned
<1>2. CASE Eye!Next
  BY <1>2, ControlsKeepFrame, StartStreamFrame, ReceiveFrame, ScanFrame, HandOnFrame DEF Eye!Next, Setter, Shower
<1> QED  BY <1>1, <1>2

LEMMA MarkKeeps == MarkInv /\ (Eye!Next \/ UNCHANGED eyeVars) => MarkInv'
<1> SUFFICES ASSUME MarkInv, Eye!Next \/ UNCHANGED eyeVars PROVE MarkInv'
  OBVIOUS
<1>1. CASE UNCHANGED eyeVars
  BY <1>1, Zenon DEF MarkInv, eyeVars
<1>2. CASE Eye!Open \/ Eye!StartReads
  BY <1>2, Zenon DEF MarkInv, Eye!Open, Eye!StartReads, Eye!Access, Eye!refresh, Eye!gui
<1>3. CASE Eye!StartWrites
  BY <1>3, Zenon DEF MarkInv, Eye!StartWrites, Eye!Access, Eye!control, Eye!gui
<1>4. CASE Eye!StartStream \/ Eye!Pause \/ Eye!Resume \/ Eye!Close
  <2>1. CASE Eye!StartStream
    <3>1. /\ psPc = "start stream" /\ psPc' = "" /\ psPhase' = "running"
          /\ UNCHANGED <<val, changed, setPc, shown, local, psCamera>>
      BY <2>1, Zenon DEF Eye!StartStream, Eye!control, Eye!gui, Eye!refresh
    <3>2. usbErr' = usbErr \/ usbErr' = TRUE
      BY <2>1, Zenon DEF Eye!StartStream, Eye!Access
    <3> QED  BY <3>1, <3>2 DEF MarkInv
  <2>2. CASE Eye!Pause
    <3>1. /\ psPhase = "running" /\ psPc = "" /\ psPhase' = "paused"
          /\ UNCHANGED <<psPc, val, changed, setPc, shown, local, psCamera>>
      BY <2>2, Zenon DEF Eye!Pause, Eye!control, Eye!gui, Eye!refresh
    <3>2. usbErr' = usbErr \/ usbErr' = TRUE
      BY <2>2, Zenon DEF Eye!Pause, Eye!Access
    <3> QED  BY <3>1, <3>2 DEF MarkInv
  <2>3. CASE Eye!Resume
    BY <2>3, Zenon DEF MarkInv, Eye!Resume, Eye!control, Eye!gui, Eye!refresh
  <2>4. CASE Eye!Close
    BY <2>4, Zenon DEF MarkInv, Eye!Close, Eye!Access, Eye!control, Eye!gui, Eye!refresh
  <2> QED  BY <1>4, <2>1, <2>2, <2>3, <2>4
<1>5. CASE Eye!ReadChanged \/ Eye!ClearChanged \/ Eye!ReadFlag
  BY <1>5, Zenon DEF MarkInv, Eye!ReadChanged, Eye!ClearChanged, Eye!ReadFlag, Eye!control, Eye!gui,
                    Eye!refresh
<1>6. CASE Eye!ReadValue
  BY <1>6, Zenon DEF MarkInv, Eye!ReadValue, Eye!control, Eye!gui
<1>7. CASE Eye!WriteControl
  <2>1. /\ psPc = "write" /\ psPc' = "receive" /\ UNCHANGED <<psPhase, Eye!control, local>>
        /\ \/ psCamera' = local /\ usbErr' = usbErr
           \/ usbErr' = TRUE
           \/ usbErr /\ usbErr' = usbErr
    BY <1>7, Zenon DEF Eye!WriteControl, Eye!Access
  <2>2. UNCHANGED <<val, changed, setPc, shown>>
    BY <2>1, Zenon DEF Eye!control, Eye!gui
  <2>3. CASE usbErr' = TRUE \/ (usbErr /\ usbErr' = usbErr)
    BY <2>1, <2>2, <2>3 DEF MarkInv
  <2>4. CASE psCamera' = local /\ usbErr' = usbErr
    BY <2>1, <2>2, <2>4, Zenon DEF MarkInv
  <2> QED  BY <2>1, <2>3, <2>4
<1>8. CASE Setter \/ Shower
  <2>1. /\ UNCHANGED <<psPhase, psPc, local, psCamera, usbErr>>
        /\ \/ setPc' = "flag" /\ shown' = shown
           \/ changed' = TRUE /\ setPc' = "count"
           \/ setPc \notin Eye!Showing /\ setPc' = "store" /\ UNCHANGED <<val, changed, shown>> /\ setPc # "flag"
           \/ setPc # "flag" /\ setPc' = "" /\ UNCHANGED <<val, changed, shown>>
           \/ shown'
    <3>1. CASE Setter
      BY <1>8, <3>1, GuiAlone, Zenon DEF Setter, Eye!SetValue, Eye!SetFlag, Eye!SetCount, Eye!SetStored, Eye!Showing
    <3>2. CASE Shower
      <4>1. setPc \in Eye!Showing \/ shown' = TRUE
        BY <3>2, Zenon DEF Shower, Eye!ShowDefault, Eye!ShowMark, Eye!ShowStored, Eye!ShowRead, Eye!Showing
      <4>2. shown' = shown \/ shown' = TRUE
        BY <3>2, Zenon DEF Shower, Eye!ShowDefault, Eye!ShowMark, Eye!ShowStored, Eye!ShowRead
      <4> QED  BY <3>2, <4>1, <4>2, GuiAlone, Zenon DEF MarkInv
    <3> QED  BY <1>8, <3>1, <3>2
  <2>2. "flag" \notin Eye!Showing /\ "count" \notin Eye!Showing /\ "store" \notin Eye!Showing /\ "" \notin Eye!Showing
    BY Zenon DEF Eye!Showing
  <2> QED  BY <2>1, <2>2, Zenon DEF MarkInv
<1>9. CASE Eye!Receive \/ Eye!Scan \/ Eye!HandOn
  BY <1>9, Zenon DEF MarkInv, Eye!Receive, Eye!Scan, Eye!HandOn, Eye!control, Eye!gui, Eye!refresh
<1> QED  BY <1>1, <1>2, <1>3, <1>4, <1>5, <1>6, <1>7, <1>8, <1>9 DEF Eye!Next, Setter, Shower

LEMMA EyeSound == FrameInv /\ MarkInv => Eye!WholeFrames /\ Eye!ControlMarked
<1> SUFFICES ASSUME FrameInv, MarkInv PROVE Eye!WholeFrames /\ Eye!ControlMarked
  OBVIOUS
<1>1. psTold \in Seq({Whole(f) : f \in Nat}) /\ frame \in Nat
  BY DEF FrameInv, EyeTypes
<1>2. DOMAIN psTold = 1 .. Len(psTold)
  BY <1>1
<1>3. ASSUME NEW k \in 1 .. Len(psTold)
      PROVE  \E f \in 1 .. frame : psTold[k] = [i \in 1 .. PsPayloads |-> <<f, i>>]
  <2>1. PICK f \in Nat : psTold[k] = Whole(f)
    BY <1>1
  <2>2. Whole(f)[1][1] = f
    BY EyeAssumption DEF Whole
  <2>3. f \in 1 .. frame - 1
    BY <2>1, <2>2 DEF FrameInv, ToldInv
  <2>4. f \in 1 .. frame
    BY <1>1, <2>3
  <2> QED  BY <2>1, <2>4 DEF Whole
<1>4. Eye!WholeFrames
  BY <1>2, <1>3 DEF FrameInv, ToldInv, Eye!WholeFrames
<1>5. Eye!ControlMarked
  BY Zenon DEF MarkInv, Eye!ControlMarked
<1> QED  BY <1>4, <1>5

\* The bound of changed controls; the default is a value.
ASSUME ControlAssumption == PsSets \in Nat /\ PsDefault \in PsValues

EyePhases == {"closed", "init", "running", "paused", "failed"}

\* A change of a control is counted once, after it was made.
Setting == IF setPc \in {"flag", "count"} THEN 1 ELSE 0
SetsInv == sets \in 0 .. PsSets /\ ctrlChanged \in 0 .. sets - Setting

EyeInv ==
    /\ psPhase \in EyePhases /\ Len(pos) <= PsPayloads
    /\ local \in PsValues /\ psCamera \in PsValues /\ val \in PsValues
    /\ stored \in PsValues /\ asked \in PsValues
    /\ SetsInv

\* No control was changed yet.
LEMMA EyeTypesBegin == Eye!Init => EyeInv
<1> SUFFICES ASSUME Eye!Init PROVE EyeInv
  OBVIOUS
<1>1. /\ psPhase = "closed" /\ pos = <<>> /\ sets = 0 /\ ctrlChanged = 0 /\ Setting = 0
      /\ val \in PsValues /\ local \in PsValues /\ psCamera \in PsValues
      /\ stored \in PsValues /\ asked \in PsValues
  <2>1. "" \notin {"flag", "count"}
    BY Zenon
  <2> QED  BY <2>1, ControlAssumption, Zenon DEF Eye!Init, Setting
<1>2. Len(pos) = 0 /\ Len(pos) <= PsPayloads
  <2>1. Len(pos) = 0
    BY <1>1
  <2> QED  BY <2>1, EyeAssumption
<1>3. SetsInv
  BY <1>1, ControlAssumption DEF SetsInv
<1> QED  BY <1>1, <1>2, <1>3, Zenon DEF EyeInv, EyePhases

\* A payload is added to an incomplete frame only, and what is sent are values set.
LEMMA EyeStaysTyped ==
    ASSUME FrameInv, EyeInv, Eye!Next \/ UNCHANGED eyeVars
    PROVE  EyeInv'
<1>0. /\ psPhase \in EyePhases /\ Len(pos) \in Nat /\ Len(pos) <= PsPayloads
      /\ local \in PsValues /\ psCamera \in PsValues /\ val \in PsValues
      /\ stored \in PsValues /\ asked \in PsValues
      /\ SetsInv /\ Setting \in {0, 1}
  <2>1. pos \in Seq(Part)
    BY DEF FrameInv, EyeTypes
  <2>2. Setting \in {0, 1}
    BY Zenon DEF Setting
  <2> QED  BY <2>1, <2>2 DEF EyeInv
<1>1. CASE Eye!Open \/ Eye!Pause \/ Eye!Resume \/ Eye!Close \/ Eye!StartReads \/ Eye!StartStream
  <2>1. /\ psPhase' \in EyePhases
        /\ UNCHANGED <<pos, local, psCamera, stored, asked, sets, ctrlChanged, setPc>>
        /\ val' \in {val, stored}
    BY <1>0, <1>1, Zenon DEF Eye!gui, Eye!Open, Eye!Pause, Eye!Resume, Eye!Close, Eye!StartReads, Eye!StartStream, Eye!packet,
         Eye!control, Eye!refresh, EyePhases
  <2> QED  BY <1>0, <2>1, Zenon DEF EyeInv, SetsInv, Setting
<1>2. CASE Eye!StartWrites \/ Eye!WriteControl
  <2>1. /\ psCamera' \in {psCamera, val, local}
        /\ UNCHANGED <<psPhase, pos, local, val, stored, asked, sets, ctrlChanged, setPc>>
    BY <1>2, Zenon DEF Eye!StartWrites, Eye!WriteControl, Eye!Access, Eye!packet, Eye!control, Eye!gui
  <2> QED  BY <1>0, <2>1, Zenon DEF EyeInv, SetsInv, Setting
<1>3. CASE Eye!ReadChanged \/ Eye!ClearChanged \/ Eye!ReadFlag \/ Eye!ReadValue
  <2>1. /\ local' \in {local, val} /\ ctrlChanged' \in {ctrlChanged, 0}
        /\ UNCHANGED <<psPhase, pos, psCamera, val, stored, asked, sets, Setting>>
    BY <1>3, Zenon DEF Setting, Eye!ReadChanged, Eye!ClearChanged, Eye!ReadFlag, Eye!ReadValue, Eye!packet, Eye!control,
         Eye!gui, Eye!refresh
  <2>2. SetsInv'
    BY <1>0, <2>1, ControlAssumption DEF SetsInv
  <2> QED  BY <1>0, <2>1, <2>2, Zenon DEF EyeInv
<1>4. CASE Setter \/ Shower
  <2>1. UNCHANGED <<psPhase, pos, local, psCamera>>
    BY <1>4, GuiAlone, Zenon
  <2>2. val' \in PsValues /\ stored' \in PsValues /\ asked' \in PsValues
    <3>1. CASE Setter
      BY <1>0, <3>1, Zenon DEF Setter, Eye!SetValue, Eye!SetFlag, Eye!SetCount, Eye!SetStored
    <3>2. CASE Shower
      BY <1>0, <3>2, ControlAssumption, Zenon
         DEF Shower, Eye!ShowDefault, Eye!ShowMark, Eye!ShowStored, Eye!ShowRead
    <3> QED  BY <1>4, <3>1, <3>2
  <2>3. SetsInv'
    <3>0. "flag" \in {"flag", "count"} /\ "count" \in {"flag", "count"}
             /\ "store" \notin {"flag", "count"} /\ "" \notin {"flag", "count"}
             /\ "mark" \notin {"flag", "count"} /\ "stored" \notin {"flag", "count"} /\ "read" \notin {"flag", "count"}
      BY Zenon
    <3>1. \/ Setting = 0 /\ sets < PsSets /\ sets' = sets + 1 /\ Setting' = 1 /\ ctrlChanged' = ctrlChanged
          \/ Setting' = Setting /\ sets' = sets /\ ctrlChanged' = ctrlChanged
          \/ Setting = 1 /\ Setting' = 0 /\ sets' = sets /\ ctrlChanged' = ctrlChanged + 1
      <4>1. CASE Setter
        BY <3>0, <4>1, Zenon DEF Setter, Eye!SetValue, Eye!SetFlag, Eye!SetCount, Eye!SetStored, Setting
      <4>2. CASE Shower
        BY <3>0, <4>2, Zenon DEF Shower, Eye!ShowDefault, Eye!ShowMark, Eye!ShowStored, Eye!ShowRead, Setting
      <4> QED  BY <1>4, <4>1, <4>2
    <3> QED  BY <1>0, <3>1, ControlAssumption DEF SetsInv
  <2> QED  BY <1>0, <2>1, <2>2, <2>3, Zenon DEF EyeInv
<1>5. CASE Eye!Receive \/ Eye!HandOn \/ UNCHANGED eyeVars
  <2>1. UNCHANGED <<psPhase, pos, local, psCamera, val, stored, asked, sets, ctrlChanged, setPc>>
    BY <1>5, Zenon DEF Eye!Receive, Eye!HandOn, Eye!control, Eye!gui, Eye!refresh, eyeVars
  <2> QED  BY <1>0, <2>1, Zenon DEF EyeInv, SetsInv, Setting
<1>6. CASE Eye!Scan
  <2>1. UNCHANGED <<psPhase, local, psCamera, val, stored, asked, sets, ctrlChanged, setPc>>
    BY <1>6, Zenon DEF Eye!Scan, Eye!control, Eye!gui, Eye!refresh
  <2>2. \E part : pos' \in {pos, <<part>>, Eye!Added(part)}
    BY <1>6, Zenon DEF Eye!Scan
  <2>3. ASSUME NEW part PROVE Len(<<part>>) <= PsPayloads /\ Len(Eye!Added(part)) <= PsPayloads
    <3>1. Len(<<part>>) <= PsPayloads
      BY EyeAssumption
    <3>2. pos \in Seq(Part)
      BY DEF FrameInv, EyeTypes
    <3>3. Len(Append(pos, part)) = Len(pos) + 1 /\ Len(<<>>) = 0
      BY <3>2
    <3> QED  BY <1>0, <3>1, <3>3, EyeAssumption DEF Eye!Added
  <2>4. Len(pos') <= PsPayloads
    BY <1>0, <2>2, <2>3, Zenon
  <2> QED  BY <1>0, <2>1, <2>4, Zenon DEF EyeInv, SetsInv, Setting
<1> QED  BY <1>1, <1>2, <1>3, <1>4, <1>5, <1>6, Zenon DEF Eye!Next, Setter, Shower

\* The PS3 Eye's variables keep their types.
LEMMA EyeTyped == FrameInv /\ EyeInv => Eye!TypeOK
<1> SUFFICES ASSUME FrameInv, EyeInv PROVE Eye!TypeOK
  OBVIOUS
<1>1. frameCounter - currentFrame \in {0, 1}
  <2>1. frameCounter \in Nat /\ currentFrame \in Nat
    BY DEF FrameInv, EyeTypes
  <2>2. frameCounter = currentFrame \/ frameCounter = currentFrame + 1
    BY DEF FrameInv, DoneInv
  <2> QED  BY <2>1, <2>2
<1>2. SetsInv
  BY DEF EyeInv
<1>3. Setting \in {0, 1}
  BY Zenon DEF Setting
<1>4. ctrlChanged \in 0 .. PsSets
  BY <1>2, <1>3, ControlAssumption DEF SetsInv
<1> QED  BY <1>1, <1>4, Zenon DEF EyeInv, EyePhases, Eye!TypeOK

-----------------------------------------------------------------------
(* The camera of a Mac *)

CONSTANTS CoBuffers, CoPictures, CoSessions, CoPauses

\* The ring has buffers.
ASSUME HelperAssumption == CoBuffers \in Nat \ {0} /\ CoSessions \in Nat

VARIABLES coCommand, lock, cells, count, counter, flag, coLower, coUpper, coDriver, last,
          room, copied, coTold, coSeen, order, alone, main, coOld, capturing, worker,
          reading, news, coFilled, coContent, reader, writer, coPictures, session, coPauses

courierVars == <<coCommand, lock, cells, count, counter, flag, coLower, coUpper, coDriver, last,
                 room, copied, coTold, coSeen, order, alone, main, coOld, capturing, worker,
                 reading, news, coFilled, coContent, reader, writer, coPictures, session, coPauses>>

Helper == INSTANCE Courier WITH
      Sessions <- CoSessions, Buffers <- CoBuffers, MaxPictures <- CoPictures,
      MaxPauses <- CoPauses, command <- coCommand,
      lower <- coLower, upper <- coUpper, driver <- coDriver, told <- coTold, seen <- coSeen,
      old <- coOld, filled <- coFilled, content <- coContent, pictures <- coPictures,
      pauses <- coPauses

\* How far slot s is ahead of slot r, and the slot after s.
Ahead(r, s) == IF s >= r THEN s - r ELSE s + CoBuffers - r
After(s) == IF s + 1 = CoBuffers THEN 0 ELSE s + 1

\* The slots that are filled are those from the reader's up to the writer's, with
\* later and later pictures.
RingOf(fl, co, rd, wr, n) ==
    /\ rd \in Helper!Slots /\ wr \in Helper!Slots /\ fl \in [Helper!Slots -> BOOLEAN]
    /\ co \in [Helper!Slots -> Nat]
    /\ fl[wr] => wr = rd /\ \A s \in Helper!Slots : fl[s]
    /\ ~fl[wr] => \A s \in Helper!Slots : fl[s] <=> Ahead(rd, s) < Ahead(rd, wr)
    /\ \A s \in Helper!Slots : fl[s] => co[s] <= n
    /\ \A s, t \in Helper!Slots : fl[s] /\ fl[t] /\ Ahead(rd, s) < Ahead(rd, t) => co[s] < co[t]

Busy == {"found", "blobs", "told", "copied", "done"}

\* A qt_cam takes pictures and works only in its time, and the worker looks at the
\* oldest picture of the ring.
HelperInv(h) ==
    /\ RingOf(coFilled[h], coContent[h], reader[h], writer[h], coPictures)
    /\ worker[h] \in Busy => coFilled[h][reader[h]] /\ reading[h] = coContent[h][reader[h]]
    /\ capturing[h] => main[h] = "loop"
    /\ main[h] \in {"none", "starting"} => worker[h] = "none"
    /\ main[h] = "gone" => worker[h] \in {"none", "gone"}
    /\ h > session => main[h] = "none" /\ \A s \in Helper!Slots : ~coFilled[h][s]

CourierTypes ==
    /\ session \in Nat /\ coPictures \in Nat
    /\ DOMAIN main = Helper!Helpers /\ DOMAIN capturing = Helper!Helpers /\ DOMAIN worker = Helper!Helpers
    /\ DOMAIN reading = Helper!Helpers
    /\ DOMAIN coFilled = Helper!Helpers /\ DOMAIN coContent = Helper!Helpers
    /\ DOMAIN reader = Helper!Helpers /\ DOMAIN writer = Helper!Helpers
    /\ cells \in [{1, 2} -> Nat] /\ cells[1] <= coPictures
    /\ order[1] \in Nat /\ order[2] \in Nat

\* In a session alone the blobs told are no older than those told before, and no
\* newer than the pictures that wait.
ListInv ==
    alone =>
        /\ \A h \in Helper!Helpers : h < session => main[h] = "gone"
        /\ order[1] <= order[2] /\ order[2] <= cells[1]
        /\ \A h \in Helper!Helpers : h = session =>
              \A s \in Helper!Slots : coFilled[h][s] => cells[1] <= coContent[h][s]

\* ... and a picture marked as there is whole until it is taken.
FlagInv ==
    alone =>
        /\ coDriver # "init" /\ flag => coLower = coUpper
        /\ coDriver = "copying" => flag /\ coSeen[1] = coLower
        /\ coSeen[2] # Helper!Free => coSeen[1] = coSeen[2]
        /\ \A h \in Helper!Helpers : h = session /\ worker[h] = "copied" => ~flag /\ coLower = reading[h]

CourierInv == CourierTypes /\ (\A h \in Helper!Helpers : HelperInv(h)) /\ ListInv /\ FlagInv

LEMMA Turns == ASSUME NEW s \in Helper!Slots PROVE (s + 1) % CoBuffers = After(s) /\ After(s) \in Helper!Slots
<1>1. CASE s + 1 = CoBuffers
  <2>1. CoBuffers % CoBuffers = 0
    BY HelperAssumption
  <2> QED  BY <1>1, <2>1, HelperAssumption DEF After, Helper!Slots
<1>2. CASE s + 1 # CoBuffers
  BY <1>2, HelperAssumption DEF After, Helper!Slots
<1> QED  BY <1>1, <1>2

LEMMA RingMore ==
    ASSUME NEW fl, NEW co, NEW rd, NEW wr, NEW n \in Nat, RingOf(fl, co, rd, wr, n)
    PROVE  RingOf(fl, co, rd, wr, n + 1)
<1>1. \A s \in Helper!Slots : co[s] \in Nat
  BY DEF RingOf
<1>2. \A s \in Helper!Slots : fl[s] => co[s] <= n + 1
  BY <1>1 DEF RingOf
<1> QED  BY <1>2 DEF RingOf

\* A picture is put where the writer is.
LEMMA RingFill ==
    ASSUME NEW fl, NEW co, NEW rd, NEW wr, NEW n \in Nat, RingOf(fl, co, rd, wr, n), ~fl[wr]
    PROVE  RingOf([fl EXCEPT ![wr] = TRUE], [co EXCEPT ![wr] = n + 1], rd, After(wr), n + 1)
<1> DEFINE fl2 == [fl EXCEPT ![wr] = TRUE]
           co2 == [co EXCEPT ![wr] = n + 1]
           wr2 == After(wr)
<1>1. /\ rd \in Helper!Slots /\ wr \in Helper!Slots /\ wr2 \in Helper!Slots
      /\ fl2 \in [Helper!Slots -> BOOLEAN] /\ co2 \in [Helper!Slots -> Nat]
  BY Turns DEF RingOf
<1>2. \A s \in Helper!Slots : fl2[s] <=> fl[s] \/ s = wr
  BY <1>1 DEF RingOf
<1>3. \A s \in Helper!Slots : co2[s] = IF s = wr THEN n + 1 ELSE co[s]
  BY <1>1 DEF RingOf
<1>4. \A s \in Helper!Slots : fl[s] <=> Ahead(rd, s) < Ahead(rd, wr)
  BY DEF RingOf
<1>5. \A s \in Helper!Slots : co[s] \in Nat /\ (fl[s] => co[s] <= n)
  BY DEF RingOf
<1> HIDE DEF fl2, co2
<1>6. \A s \in Helper!Slots : fl2[s] => co2[s] <= n + 1
  BY <1>2, <1>3, <1>5
<1>7. \A s, t \in Helper!Slots : fl2[s] /\ fl2[t] /\ Ahead(rd, s) < Ahead(rd, t) => co2[s] < co2[t]
  <2> SUFFICES ASSUME NEW s \in Helper!Slots, NEW t \in Helper!Slots, fl2[s], fl2[t],
         Ahead(rd, s) < Ahead(rd, t)
               PROVE  co2[s] < co2[t]
    OBVIOUS
  <2>1. Ahead(rd, s) \in Nat /\ Ahead(rd, t) \in Nat /\ Ahead(rd, wr) \in Nat
    BY <1>1, HelperAssumption DEF Ahead, Helper!Slots
  <2>2. CASE t = wr
    <3>1. s # wr /\ fl[s]
      BY <1>2, <2>1, <2>2
    <3> QED  BY <1>3, <1>5, <2>2, <3>1
  <2>3. CASE t # wr
    <3>1. fl[t] /\ Ahead(rd, t) < Ahead(rd, wr)
      BY <1>2, <1>4, <2>3
    <3>2. s # wr
      BY <2>1, <3>1
    <3>3. fl[s] /\ co[s] < co[t]
      BY <1>2, <3>1, <3>2 DEF RingOf
    <3> QED  BY <1>3, <2>3, <3>2, <3>3
  <2> QED  BY <2>2, <2>3
<1>8. fl2[wr2] => wr2 = rd /\ \A s \in Helper!Slots : fl2[s]
  <2> SUFFICES ASSUME fl2[wr2] PROVE wr2 = rd /\ \A s \in Helper!Slots : fl2[s]
    OBVIOUS
  <2>1. wr2 = wr \/ Ahead(rd, wr2) < Ahead(rd, wr)
    BY <1>1, <1>2, <1>4
  <2>2. wr2 = rd
    BY <1>1, <2>1, HelperAssumption DEF After, Ahead, Helper!Slots
  <2>3. \A s \in Helper!Slots : s = wr \/ Ahead(rd, s) < Ahead(rd, wr)
    BY <1>1, <2>2, HelperAssumption DEF After, Ahead, Helper!Slots
  <2> QED  BY <1>2, <1>4, <2>2, <2>3
<1>9. ~fl2[wr2] => \A s \in Helper!Slots : fl2[s] <=> Ahead(rd, s) < Ahead(rd, wr2)
  <2> SUFFICES ASSUME ~fl2[wr2], NEW s \in Helper!Slots PROVE fl2[s] <=> Ahead(rd, s) < Ahead(rd, wr2)
    OBVIOUS
  <2>1. wr2 # wr /\ ~(Ahead(rd, wr2) < Ahead(rd, wr))
    BY <1>1, <1>2, <1>4
  <2>2. s = wr \/ Ahead(rd, s) < Ahead(rd, wr) <=> Ahead(rd, s) < Ahead(rd, wr2)
    BY <1>1, <2>1, HelperAssumption DEF After, Ahead, Helper!Slots
  <2> QED  BY <1>2, <1>4, <2>2
<1> QED  BY <1>1, <1>6, <1>7, <1>8, <1>9 DEF RingOf, fl2, co2

\* The reader's slot is the oldest, and is given back.
LEMMA RingFree ==
    ASSUME NEW fl, NEW co, NEW rd, NEW wr, NEW n \in Nat, RingOf(fl, co, rd, wr, n), fl[rd]
    PROVE  RingOf([fl EXCEPT ![rd] = FALSE], co, After(rd), wr, n)
<1> DEFINE fl2 == [fl EXCEPT ![rd] = FALSE]
           rd2 == After(rd)
<1>1. rd \in Helper!Slots /\ wr \in Helper!Slots /\ rd2 \in Helper!Slots /\ fl2 \in [Helper!Slots -> BOOLEAN]
         /\ co \in [Helper!Slots -> Nat]
  BY Turns DEF RingOf
<1>2. \A s \in Helper!Slots : fl2[s] <=> fl[s] /\ s # rd
  BY <1>1 DEF RingOf
<1> HIDE DEF fl2
<1>3. \A s \in Helper!Slots : s # rd => Ahead(rd2, s) + 1 = Ahead(rd, s) /\ Ahead(rd2, s) \in Nat
  BY <1>1, HelperAssumption DEF After, Ahead, Helper!Slots
<1>4. Ahead(rd2, rd) = CoBuffers - 1 /\ \A s \in Helper!Slots : Ahead(rd2, s) \in Nat
         /\ Ahead(rd2, s) < CoBuffers
  BY <1>1, HelperAssumption DEF After, Ahead, Helper!Slots
<1>5. \A s, t \in Helper!Slots : fl2[s] /\ fl2[t] /\ Ahead(rd2, s) < Ahead(rd2, t) => co[s] < co[t]
  <2> SUFFICES ASSUME NEW s \in Helper!Slots, NEW t \in Helper!Slots, fl2[s], fl2[t],
         Ahead(rd2, s) < Ahead(rd2, t)
               PROVE  co[s] < co[t]
    OBVIOUS
  <2>1. fl[s] /\ fl[t] /\ s # rd /\ t # rd
    BY <1>2
  <2>2. Ahead(rd, s) < Ahead(rd, t)
    BY <1>3, <2>1
  <2> QED  BY <2>1, <2>2 DEF RingOf
<1>6. fl2[wr] => wr = rd2 /\ \A s \in Helper!Slots : fl2[s]
  BY <1>1, <1>2 DEF RingOf
<1>7. ~fl2[wr] => \A s \in Helper!Slots : fl2[s] <=> Ahead(rd2, s) < Ahead(rd2, wr)
  <2> SUFFICES ASSUME ~fl2[wr], NEW s \in Helper!Slots PROVE fl2[s] <=> Ahead(rd2, s) < Ahead(rd2, wr)
    OBVIOUS
  <2>1. CASE fl[wr]
    <3>1. wr = rd /\ fl[s]
      BY <2>1 DEF RingOf
    <3>2. s = rd \/ Ahead(rd2, s) < CoBuffers - 1
      BY <1>1, HelperAssumption DEF After, Ahead, Helper!Slots
    <3>3. CoBuffers \in Nat
      BY HelperAssumption
    <3> QED  BY <1>1, <1>2, <1>4, <3>1, <3>2, <3>3
  <2>2. CASE ~fl[wr]
    <3>1. wr # rd /\ (fl[s] <=> Ahead(rd, s) < Ahead(rd, wr))
      BY <2>2 DEF RingOf
    <3>2. CASE s = rd
      BY <1>1, <1>2, <1>4, <3>2, HelperAssumption
    <3>3. CASE s # rd
      BY <1>1, <1>2, <1>3, <3>1, <3>3
    <3> QED  BY <3>2, <3>3
  <2> QED  BY <2>1, <2>2
<1>8. \A s \in Helper!Slots : fl2[s] => co[s] <= n
  BY <1>2 DEF RingOf
<1> QED  BY <1>1, <1>5, <1>6, <1>7, <1>8 DEF RingOf, fl2

\* What the reader is at is no later than anything in the ring.
LEMMA RingOldest ==
    ASSUME NEW fl, NEW co, NEW rd, NEW wr, NEW n \in Nat, RingOf(fl, co, rd, wr, n), fl[rd]
    PROVE  co[rd] \in Nat /\ co[rd] <= n /\ \A s \in Helper!Slots : fl[s] => co[rd] <= co[s]
<1>1. rd \in Helper!Slots /\ \A s \in Helper!Slots : co[s] \in Nat
  BY DEF RingOf
<1>2. \A s \in Helper!Slots : s # rd => Ahead(rd, rd) < Ahead(rd, s)
  BY <1>1, HelperAssumption DEF Ahead, Helper!Slots
<1>3. ASSUME NEW s \in Helper!Slots, fl[s] PROVE co[rd] <= co[s]
  <2>1. CASE s = rd
    BY <1>1, <2>1
  <2>2. CASE s # rd
    <3>1. co[rd] < co[s]
      BY <1>1, <1>2, <1>3, <2>2 DEF RingOf
    <3> QED  BY <1>1, <3>1
  <2> QED  BY <2>1, <2>2
<1> QED  BY <1>1, <1>3 DEF RingOf

LEMMA CourierBegins == Helper!Init => CourierInv
<1> SUFFICES ASSUME Helper!Init PROVE CourierInv
  OBVIOUS
<1>1. 0 \in Helper!Slots
  BY HelperAssumption DEF Helper!Slots
<1>2. ASSUME NEW h \in Helper!Helpers PROVE HelperInv(h)
  <2> DEFINE fl == [s \in Helper!Slots |-> FALSE]
             co == [s \in Helper!Slots |-> Helper!Free]
  <2>1. /\ coFilled[h] = fl /\ coContent[h] = co /\ reader[h] = 0 /\ writer[h] = 0 /\ coPictures = 0
        /\ worker[h] = "none" /\ main[h] = "none"
    BY <1>2 DEF Helper!Init
  <2>2. capturing[h] = FALSE
    BY <1>2 DEF Helper!Init
  <2>3. fl \in [Helper!Slots -> BOOLEAN] /\ co \in [Helper!Slots -> Nat] /\ \A s \in Helper!Slots : ~fl[s]
    BY DEF Helper!Free
  <2>4. \A s \in Helper!Slots : ~(Ahead(0, s) < Ahead(0, 0))
    BY HelperAssumption DEF Ahead, Helper!Slots
  <2>5. RingOf(coFilled[h], coContent[h], reader[h], writer[h], coPictures)
    BY <1>1, <2>1, <2>3, <2>4 DEF RingOf
  <2> QED  BY <2>1, <2>2, <2>3, <2>5 DEF HelperInv, Busy
<1>3. CourierTypes
  BY DEF Helper!Init, CourierTypes, Helper!Free
<1>4. ListInv
  BY <1>2 DEF Helper!Init, ListInv, Helper!Free, Helper!Helpers
<1>5. FlagInv
  BY DEF Helper!Init, FlagInv, Helper!Free, Helper!Helpers
<1> QED  BY <1>2, <1>3, <1>4, <1>5 DEF CourierInv

\* What a qt_cam does leaves the others alone.
Kept(k) == UNCHANGED <<main[k], worker[k], reading[k], coContent[k], reader[k], writer[k]>>
           /\ capturing'[k] = capturing[k] /\ coFilled'[k] = coFilled[k]

LEMMA KeptHelper ==
    ASSUME NEW k \in Helper!Helpers, HelperInv(k), Kept(k), coPictures \in Nat, session' = session,
           coPictures' = coPictures \/ coPictures' = coPictures + 1
    PROVE  HelperInv(k)'
<1>1. RingOf(coFilled'[k], coContent'[k], reader'[k], writer'[k], coPictures')
  BY RingMore DEF HelperInv, Kept
<1> QED  BY <1>1 DEF HelperInv, Kept, RingOf

\* The driver's steps but for the beginning of a session.
LEMMA DriverKeeps ==
    ASSUME CourierInv,
           \/ Helper!ResetFlag \/ Helper!CopyLower \/ Helper!CopyUpper \/ Helper!NoPicture
           \/ Helper!NothingNew \/ Helper!GetBlobs \/ Helper!Pause \/ Helper!Resume
           \/ Helper!Stop \/ Helper!Closed \/ UNCHANGED courierVars
    PROVE  CourierInv'
<1>1. UNCHANGED <<main, worker, reading, coFilled, coContent, reader, writer, capturing, cells, session,
                  coPictures, alone, coLower, coUpper>>
  <2>1. UNCHANGED <<Helper!thread, Helper!work, coPictures, cells, session, alone, coLower, coUpper>>
    <3>1. CASE UNCHANGED courierVars
      BY <3>1 DEF courierVars, Helper!thread, Helper!work, Helper!ring
    <3>2. CASE ~UNCHANGED courierVars
      BY <3>2, Zenon DEF Helper!ResetFlag, Helper!CopyLower, Helper!CopyUpper, Helper!NoPicture,
                         Helper!NothingNew, Helper!GetBlobs, Helper!Pause, Helper!Resume, Helper!Stop,
                         Helper!Closed, Helper!shared, Helper!device
    <3> QED  BY <3>1, <3>2
  <2> QED  BY <2>1 DEF Helper!thread, Helper!work, Helper!ring
<1>2. \A h \in Helper!Helpers : HelperInv(h)'
  BY <1>1, KeptHelper DEF CourierInv, CourierTypes, Kept
<1>3. order' = order \/ (order' = <<order[2], cells[1]>>)
  BY Zenon DEF Helper!ResetFlag, Helper!CopyLower, Helper!CopyUpper, Helper!NoPicture, Helper!NothingNew,
               Helper!GetBlobs, Helper!Pause, Helper!Resume, Helper!Stop, Helper!Closed,
               courierVars, Helper!device
<1>4. CourierTypes'
  BY <1>1, <1>3 DEF CourierInv, CourierTypes
<1>5. ListInv'
  <2>1. alone => order'[1] <= order'[2] /\ order'[2] <= cells[1]
    BY <1>3 DEF CourierInv, CourierTypes, ListInv
  <2> QED  BY <1>1, <2>1 DEF CourierInv, ListInv
<1>6. \/ coDriver = "init" /\ coDriver' = "running" /\ flag' = FALSE /\ coSeen' = coSeen
      \/ coDriver = "running" /\ coDriver' = "copying" /\ flag /\ flag' = flag
           /\ coSeen' = <<coLower, Helper!Free>>
      \/ coDriver = "copying" /\ coDriver' = "blobs" /\ flag' = FALSE /\ coSeen' = <<coSeen[1], coUpper>>
      \/ flag' = flag /\ coSeen' = coSeen /\ coDriver' \notin {"init", "copying"} /\ coDriver # "init"
      \/ flag' = flag /\ coSeen' = coSeen /\ coDriver' = coDriver
  BY Zenon DEF Helper!ResetFlag, Helper!CopyLower, Helper!CopyUpper, Helper!NoPicture, Helper!NothingNew,
               Helper!GetBlobs, Helper!Pause, Helper!Resume, Helper!Stop, Helper!Closed,
               courierVars, Helper!device, Helper!shared, Helper!Command
<1>7. FlagInv'
  BY <1>1, <1>6 DEF CourierInv, FlagInv, Helper!Free
<1> QED  BY <1>2, <1>4, <1>5, <1>7 DEF CourierInv

\* Only the qt_cam of the session works in a session alone.
LEMMA InTurn == ASSUME CourierInv, NEW h \in Helper!Helpers, worker[h] \in Busy, alone PROVE h = session
<1>1. HelperInv(h) /\ (h < session => main[h] = "gone") /\ session \in Nat
  BY DEF CourierInv, CourierTypes, ListInv
<1>2. ~(h < session) /\ ~(h > session)
  BY <1>1 DEF HelperInv, Busy
<1> QED  BY <1>1, <1>2 DEF Helper!Helpers

\* The steps of a qt_cam that tell nothing.
LEMMA QuietHelper ==
    ASSUME CourierInv, NEW h \in Helper!Helpers, CourierTypes', HelperInv(h)',
           \A k \in Helper!Helpers : k # h => Kept(k),
           UNCHANGED <<session, order, coLower, coUpper, coSeen, coDriver>>, alone' = alone, flag' = flag,
           cells'[1] = cells[1], coPictures' = coPictures \/ coPictures' = coPictures + 1,
           main[h] = "gone" => main'[h] = "gone",
           worker'[h] = "copied" => worker[h] = "copied" /\ reading'[h] = reading[h],
           \A s \in Helper!Slots : coFilled'[h][s] => \/ coFilled[h][s] /\ coContent'[h][s] = coContent[h][s]
                                             \/ coContent'[h][s] = coPictures + 1
    PROVE  CourierInv'
<1>1. ASSUME NEW k \in Helper!Helpers PROVE HelperInv(k)'
  BY KeptHelper DEF CourierInv, CourierTypes
<1>2. ListInv'
  <2> SUFFICES ASSUME alone PROVE
          /\ \A k \in Helper!Helpers : k < session => main'[k] = "gone"
          /\ order[1] <= order[2] /\ order[2] <= cells[1]
          /\ \A k \in Helper!Helpers : k = session => \A s \in Helper!Slots : coFilled'[k][s]
               => cells[1] <= coContent'[k][s]
    BY DEF ListInv
  <2>1. \A k \in Helper!Helpers : k < session => main'[k] = "gone"
    BY DEF CourierInv, ListInv, Kept
  <2>2. order[1] <= order[2] /\ order[2] <= cells[1]
    BY DEF CourierInv, ListInv
  <2>3. cells[1] \in Nat /\ coPictures \in Nat /\ cells[1] <= coPictures + 1
    BY DEF CourierInv, CourierTypes
  <2>4. ASSUME NEW k \in Helper!Helpers, k = session, NEW s \in Helper!Slots, coFilled'[k][s]
        PROVE  cells[1] <= coContent'[k][s]
    <3>1. coFilled[k][s] => cells[1] <= coContent[k][s]
      BY <2>4 DEF CourierInv, ListInv
    <3>2. CASE k = h
      BY <2>3, <2>4, <3>1, <3>2
    <3>3. CASE k # h
      BY <2>4, <3>1, <3>3 DEF Kept
    <3> QED  BY <3>2, <3>3
  <2> QED  BY <2>1, <2>2, <2>4
<1>3. FlagInv'
  <2>1. \A k \in Helper!Helpers : worker'[k] = "copied" => worker[k] = "copied" /\ reading'[k] = reading[k]
    BY DEF Kept
  <2> QED  BY <2>1 DEF CourierInv, FlagInv
<1> QED  BY <1>1, <1>2, <1>3 DEF CourierInv

LEMMA MainKeeps ==
    ASSUME CourierInv, NEW h \in Helper!Helpers, Helper!Begin(h) \/ Helper!Look(h) \/ Helper!LeaveLoop(h)
       \/ Helper!Exit(h)
    PROVE  CourierInv'
<1>1. /\ UNCHANGED <<cells, session, order, coLower, coUpper, coSeen, coDriver, coPictures, reading,
                     coContent, reader, writer, coFilled>>
      /\ alone' = alone /\ flag' = flag
  BY Zenon DEF Helper!Begin, Helper!Look, Helper!LeaveLoop, Helper!Exit, Helper!device, Helper!shared,
               Helper!work, Helper!ring
<1>2. /\ main[h] \in {"starting", "loop", "ending"}
      /\ \/ main[h] = "starting" /\ main' = [main EXCEPT ![h] = "loop"]
           /\ worker' = [worker EXCEPT ![h] = "wait"]
            /\ capturing' = [capturing EXCEPT ![h] = TRUE]
         \/ main[h] = "starting" /\ main' = [main EXCEPT ![h] = "gone"] /\ UNCHANGED <<capturing, worker>>
         \/ main[h] = "loop" /\ UNCHANGED <<main, worker>> /\ DOMAIN capturing' = DOMAIN capturing
            /\ \A k \in DOMAIN capturing : k # h => capturing'[k] = capturing[k]
         \/ main[h] = "loop" /\ main' = [main EXCEPT ![h] = "ending"] /\ worker' = worker
            /\ capturing' = [capturing EXCEPT ![h] = FALSE]
         \/ main[h] = "ending" /\ worker[h] = "gone" /\ main' = [main EXCEPT ![h] = "gone"]
            /\ UNCHANGED <<worker, capturing>>
  <2>1. CASE Helper!Begin(h)
    BY <2>1, Zenon DEF Helper!Begin
  <2>2. CASE Helper!Look(h)
    BY <2>2 DEF Helper!Look, Helper!work
  <2>3. CASE Helper!LeaveLoop(h)
    BY <2>3, Zenon DEF Helper!LeaveLoop, Helper!work
  <2>4. CASE Helper!Exit(h)
    BY <2>4, Zenon DEF Helper!Exit, Helper!work
  <2> QED  BY <2>1, <2>2, <2>3, <2>4
<1>3. DOMAIN main = Helper!Helpers /\ DOMAIN worker = Helper!Helpers /\ DOMAIN capturing = Helper!Helpers
         /\ HelperInv(h)
  BY DEF CourierInv, CourierTypes
<1>4. CourierTypes'
  BY <1>1, <1>2 DEF CourierInv, CourierTypes
<1>5. \A k \in Helper!Helpers : k # h => Kept(k)
  BY <1>1, <1>2, <1>3 DEF Kept
<1>6. HelperInv(h)'
  <2>1. /\ RingOf(coFilled'[h], coContent'[h], reader'[h], writer'[h], coPictures')
        /\ worker'[h] \in Busy => worker'[h] = worker[h]
    BY <1>1, <1>2, <1>3 DEF HelperInv, Busy
  <2>2. /\ capturing'[h] => main'[h] = "loop"
        /\ main'[h] \in {"none", "starting"} => worker'[h] = "none"
        /\ main'[h] = "gone" => worker'[h] \in {"none", "gone"}
    BY <1>2, <1>3 DEF HelperInv
  <2>3. ~(h > session)
    BY <1>2, <1>3 DEF HelperInv
  <2> QED  BY <1>1, <1>3, <2>1, <2>2, <2>3 DEF HelperInv
<1>7. (main[h] = "gone" => main'[h] = "gone") /\ (worker'[h] = "copied" => worker[h] = "copied")
  BY <1>2, <1>3
<1> QED  BY <1>1, <1>4, <1>5, <1>6, <1>7, QuietHelper

\* The camera of a qt_cam puts a picture into the ring.
LEMMA NewFrameKeeps == ASSUME CourierInv, NEW h \in Helper!Helpers, Helper!NewFrame(h) PROVE CourierInv'
<1>1. /\ UNCHANGED <<cells, session, order, coLower, coUpper, coSeen, coDriver, main, worker, reading,
                     capturing, reader>>
      /\ alone' = alone /\ flag' = flag /\ capturing[h] /\ coPictures' = coPictures + 1
      /\ \/ UNCHANGED <<coFilled, coContent, writer>>
         \/ /\ ~coFilled[h][writer[h]] /\ coFilled' = [coFilled EXCEPT ![h][writer[h]] = TRUE]
            /\ coContent' = [coContent EXCEPT ![h][writer[h]] = coPictures']
            /\ writer' = [writer EXCEPT ![h] = (@ + 1) % CoBuffers]
  BY Zenon DEF Helper!NewFrame, Helper!device, Helper!shared, Helper!thread, Helper!ring
<1>2. CourierTypes /\ HelperInv(h) /\ coPictures \in Nat /\ ~(h > session)
  BY <1>1 DEF CourierInv, CourierTypes, HelperInv
<1>3. \A k \in Helper!Helpers : k # h => Kept(k)
  BY <1>1, <1>2 DEF CourierTypes, Kept
<1>4. CourierTypes'
  BY <1>1, <1>2 DEF CourierTypes
<1>5. \/ UNCHANGED <<coFilled, coContent, writer>>
      \/ /\ ~coFilled[h][writer[h]] /\ coFilled'[h] = [coFilled[h] EXCEPT ![writer[h]] = TRUE]
         /\ coContent'[h] = [coContent[h] EXCEPT ![writer[h]] = coPictures + 1]
         /\ writer'[h] = After(writer[h])
  BY <1>1, <1>2, Turns DEF CourierTypes, HelperInv, RingOf
<1>6. RingOf(coFilled'[h], coContent'[h], reader'[h], writer'[h], coPictures')
  BY <1>1, <1>2, <1>5, RingFill, RingMore DEF HelperInv
<1>7. \A s \in Helper!Slots : coFilled'[h][s] => \/ coFilled[h][s] /\ coContent'[h][s] = coContent[h][s]
                                        \/ coContent'[h][s] = coPictures + 1
  BY <1>2, <1>5 DEF HelperInv, RingOf
<1>8. \A s \in Helper!Slots : coFilled[h][s] => coFilled'[h][s] /\ coContent'[h][s] = coContent[h][s]
  BY <1>2, <1>5 DEF HelperInv, RingOf
<1>9. HelperInv(h)'
  <2>1. worker'[h] \in Busy => coFilled'[h][reader'[h]] /\ reading'[h] = coContent'[h][reader'[h]]
    BY <1>1, <1>2, <1>8 DEF HelperInv, RingOf
  <2> QED  BY <1>1, <1>2, <1>6, <2>1 DEF HelperInv
<1> QED  BY <1>1, <1>3, <1>4, <1>7, <1>9, QuietHelper

\* The worker's steps that tell nothing of the picture.
LEMMA WorkerKeeps ==
    ASSUME CourierInv, NEW h \in Helper!Helpers, Helper!Wake(h) \/ Helper!SetRest(h) \/ Helper!KeepPicture(h)
       \/ Helper!BufferRead(h)
    PROVE  CourierInv'
<1>1. /\ UNCHANGED <<session, order, coLower, coUpper, coSeen, coDriver, coPictures, main, capturing,
                     coContent, writer>>
      /\ alone' = alone /\ flag' = flag
  BY Zenon DEF Helper!Wake, Helper!SetRest, Helper!KeepPicture, Helper!BufferRead, Helper!device,
               Helper!shared, Helper!thread, Helper!ring
<1>2. /\ worker[h] \in {"wait", "blobs", "told", "done"}
      /\ \/ /\ worker[h] = "wait" /\ coFilled[h][reader[h]] /\ UNCHANGED <<cells, coFilled, reader>>
            /\ reading' = [reading EXCEPT ![h] = coContent[h][reader[h]]]
            /\ worker' = [worker EXCEPT ![h] = "found"]
         \/ /\ worker[h] = "wait" /\ UNCHANGED <<cells, coFilled, reader, reading>>
            /\ worker' = [worker EXCEPT ![h] = IF main[h] = "ending" THEN "gone" ELSE "wait"]
         \/ /\ worker[h] = "blobs" /\ worker' = [worker EXCEPT ![h] = "told"]
            /\ cells' = cells \/ cells' = [cells EXCEPT ![2] = reading[h]]
            /\ UNCHANGED <<coFilled, reader, reading>>
         \/ worker[h] = "told" /\ worker' = [worker EXCEPT ![h] = "done"]
              /\ UNCHANGED <<cells, coFilled, reader, reading>>
         \/ /\ worker[h] = "done" /\ UNCHANGED <<cells, reading>>
            /\ worker' = [worker EXCEPT ![h] = IF main[h] = "ending" THEN "gone" ELSE "wait"]
            /\ coFilled' = [coFilled EXCEPT ![h][reader[h]] = FALSE]
            /\ reader' = [reader EXCEPT ![h] = (@ + 1) % CoBuffers]
  <2>1. CASE Helper!Wake(h)
    BY <2>1, Zenon DEF Helper!Wake, Helper!shared, Helper!ring
  <2>2. CASE Helper!SetRest(h)
    BY <2>2, Zenon DEF Helper!SetRest, Helper!ring
  <2>3. CASE Helper!KeepPicture(h)
    BY <2>3, Zenon DEF Helper!KeepPicture, Helper!shared, Helper!ring
  <2>4. CASE Helper!BufferRead(h)
    BY <2>4, Zenon DEF Helper!BufferRead, Helper!shared
  <2> QED  BY <2>1, <2>2, <2>3, <2>4
<1>3. CourierTypes /\ HelperInv(h) /\ coPictures \in Nat /\ ~(h > session)
  BY <1>2 DEF CourierInv, CourierTypes, HelperInv
<1>4. reader[h] \in Helper!Slots /\ worker[h] # "none" /\ main[h] \notin {"none", "starting", "gone"}
      /\ (worker[h] # "wait" => coFilled[h][reader[h]] /\ reading[h] = coContent[h][reader[h]])
  BY <1>2, <1>3 DEF HelperInv, RingOf, Busy
<1>5. \A k \in Helper!Helpers : k # h => Kept(k)
  BY <1>1, <1>2, <1>3 DEF CourierTypes, Kept
<1>6. reading[h] \in Nat \/ worker[h] = "wait"
  BY <1>3, <1>4 DEF HelperInv, RingOf
<1>7. CourierTypes' /\ cells'[1] = cells[1]
  BY <1>1, <1>2, <1>3, <1>6 DEF CourierTypes
<1>8. \/ UNCHANGED <<coFilled, reader>>
      \/ /\ worker[h] = "done" /\ reader'[h] = After(reader[h])
         /\ coFilled'[h] = [coFilled[h] EXCEPT ![reader[h]] = FALSE]
  BY <1>2, <1>3, <1>4, Turns DEF CourierTypes
<1>9. RingOf(coFilled'[h], coContent'[h], reader'[h], writer'[h], coPictures')
  BY <1>1, <1>3, <1>4, <1>8, RingFree DEF HelperInv
<1>10. \A s \in Helper!Slots : coFilled'[h][s] => coFilled[h][s] /\ coContent'[h][s] = coContent[h][s]
  BY <1>1, <1>3, <1>4, <1>8 DEF HelperInv, RingOf
<1>11. \/ worker'[h] = "found" /\ coFilled'[h] = coFilled[h] /\ reader'[h] = reader[h]
            /\ reading'[h] = coContent[h][reader[h]]
          /\ coFilled[h][reader[h]]
       \/ worker'[h] \in {"wait", "gone"}
       \/ worker[h] # "wait" /\ worker'[h] \in {"told", "done"} /\ coFilled'[h] = coFilled[h]
            /\ reader'[h] = reader[h]
          /\ reading'[h] = reading[h]
  BY <1>2, <1>3 DEF CourierTypes
<1>12. HelperInv(h)'
  <2>1. worker'[h] \in Busy => coFilled'[h][reader'[h]] /\ reading'[h] = coContent'[h][reader'[h]]
    BY <1>1, <1>4, <1>11 DEF Busy
  <2>2. main'[h] \notin {"none", "starting", "gone"} /\ session' = session
    BY <1>1, <1>4
  <2>3. capturing'[h] => main'[h] = "loop"
    BY <1>1, <1>3 DEF HelperInv
  <2> QED  BY <1>3, <1>9, <2>1, <2>2, <2>3 DEF HelperInv
<1>13. worker'[h] # "copied" /\ (main[h] = "gone" => main'[h] = "gone")
  BY <1>1, <1>11
<1> QED  BY <1>1, <1>5, <1>7, <1>10, <1>12, <1>13, QuietHelper

\* The worker's steps that tell of the picture.
LEMMA TellingKeeps ==
    ASSUME CourierInv, NEW h \in Helper!Helpers, Helper!SetFirst(h) \/ Helper!CopyFirst(h)
       \/ Helper!CopyRest(h)
    PROVE  CourierInv'
<1>1. /\ UNCHANGED <<session, order, coSeen, coDriver, coPictures, main, reading, capturing, coFilled,
                     coContent, reader, writer>>
      /\ alone' = alone
  BY Zenon DEF Helper!SetFirst, Helper!CopyFirst, Helper!CopyRest, Helper!device, Helper!thread, Helper!ring
<1>2. \/ /\ worker[h] = "found" /\ worker' = [worker EXCEPT ![h] = "blobs"]
         /\ cells' = [cells EXCEPT ![1] = reading[h]] /\ UNCHANGED <<coLower, coUpper>> /\ flag' = flag
      \/ /\ worker[h] = "told" /\ worker' = [worker EXCEPT ![h] = "copied"] /\ UNCHANGED <<cells, coUpper>>
         /\ ~flag /\ flag' = flag /\ coLower' = reading[h]
      \/ /\ worker[h] = "copied" /\ worker' = [worker EXCEPT ![h] = "done"] /\ UNCHANGED <<cells, coLower>>
         /\ coUpper' = reading[h] /\ flag' = TRUE
  BY Zenon DEF Helper!SetFirst, Helper!CopyFirst, Helper!CopyRest
<1>3. CourierTypes /\ HelperInv(h) /\ coPictures \in Nat /\ worker[h] \in Busy
  BY <1>2 DEF CourierInv, CourierTypes, Busy
<1>4. alone => h = session
  BY <1>3, InTurn
<1>5. /\ reading[h] \in Nat /\ reading[h] <= coPictures
      /\ \A s \in Helper!Slots : coFilled[h][s] => reading[h] <= coContent[h][s]
  BY <1>3, RingOldest DEF HelperInv
<1>6. CourierTypes'
  BY <1>1, <1>2, <1>3, <1>5 DEF CourierTypes
<1>7. ASSUME NEW k \in Helper!Helpers PROVE HelperInv(k)'
  <2>1. CASE k = h
    <3>1. worker'[h] \in Busy \ {"none"} /\ worker[h] \notin {"none", "gone"}
      BY <1>2, <1>3 DEF CourierTypes, Busy
    <3>2. main[h] \notin {"none", "starting", "gone"}
      BY <1>3, <3>1 DEF HelperInv
    <3> QED  BY <1>1, <1>3, <2>1, <3>1, <3>2 DEF HelperInv, RingOf
  <2>2. CASE k # h
    <3>1. Kept(k)
      BY <1>1, <1>2, <1>3, <2>2 DEF CourierTypes, Kept
    <3> QED  BY <1>1, <1>3, <3>1, KeptHelper DEF CourierInv
  <2> QED  BY <2>1, <2>2
<1>8. ListInv'
  <2> SUFFICES ASSUME alone PROVE
          /\ \A k \in Helper!Helpers : k < session => main[k] = "gone"
          /\ order[1] <= order[2] /\ order[2] <= cells'[1]
          /\ \A k \in Helper!Helpers : k = session => \A s \in Helper!Slots : coFilled[k][s]
               => cells'[1] <= coContent[k][s]
    BY <1>1 DEF ListInv
  <2>1. /\ \A k \in Helper!Helpers : k < session => main[k] = "gone"
        /\ order[1] <= order[2] /\ order[2] <= cells[1] /\ cells[1] \in Nat /\ order[2] \in Nat
        /\ \A s \in Helper!Slots : coFilled[h][s] => cells[1] <= coContent[h][s]
    BY <1>4 DEF CourierInv, CourierTypes, ListInv
  <2>2. coFilled[h][reader[h]] /\ reading[h] = coContent[h][reader[h]] /\ reader[h] \in Helper!Slots
    BY <1>3 DEF HelperInv, RingOf
  <2>3. cells'[1] = cells[1] \/ cells'[1] = reading[h]
    BY <1>2 DEF CourierInv, CourierTypes
  <2>4. order[2] <= cells'[1]
    BY <1>5, <2>1, <2>2, <2>3
  <2> QED  BY <1>4, <1>5, <2>1, <2>3, <2>4
<1>9. FlagInv'
  <2> SUFFICES ASSUME alone PROVE
          /\ coDriver # "init" /\ flag' => coLower' = coUpper'
          /\ coDriver = "copying" => flag' /\ coSeen[1] = coLower'
          /\ coSeen[2] # Helper!Free => coSeen[1] = coSeen[2]
          /\ \A k \in Helper!Helpers : k = session /\ worker'[k] = "copied" => ~flag' /\ coLower' = reading[k]
    BY <1>1 DEF FlagInv
  <2>1. /\ coDriver # "init" /\ flag => coLower = coUpper
        /\ coDriver = "copying" => flag /\ coSeen[1] = coLower
        /\ coSeen[2] # Helper!Free => coSeen[1] = coSeen[2]
        /\ worker[h] = "copied" => ~flag /\ coLower = reading[h]
    BY <1>4 DEF CourierInv, FlagInv
  <2>2. worker'[h] = "copied" => ~flag' /\ coLower' = reading[h]
    BY <1>2, <1>3 DEF CourierTypes
  <2>3. /\ coDriver # "init" /\ flag' => coLower' = coUpper'
        /\ coDriver = "copying" => flag' /\ coSeen[1] = coLower'
    BY <1>2, <2>1
  <2> QED  BY <1>4, <2>1, <2>2, <2>3
<1> QED  BY <1>6, <1>7, <1>8, <1>9 DEF CourierInv

\* A session begins.
LEMMA StartKeeps == ASSUME CourierInv, Helper!Start PROVE CourierInv'
<1>1. /\ UNCHANGED <<worker, reading, coFilled, coContent, reader, writer, capturing, cells, coPictures,
                     coLower, coUpper>>
      /\ session < CoSessions /\ session' = session + 1 /\ main' = [main EXCEPT ![session + 1] = "starting"]
      /\ coDriver' = "init" /\ order' = <<Helper!Free, Helper!Free>>
      /\ coSeen' = <<Helper!Free, Helper!Free>> /\ flag' = flag
  BY Zenon DEF Helper!Start, Helper!work, Helper!ring
<1>2. alone' => \A h \in 1 .. session : main[h] = "gone"
  BY Zenon DEF Helper!Start
<1>3. CourierTypes /\ session + 1 \in Helper!Helpers /\ (\A h \in Helper!Helpers : HelperInv(h))
  BY <1>1, HelperAssumption DEF CourierInv, CourierTypes, Helper!Helpers
<1>4. CourierTypes'
  BY <1>1, <1>3 DEF CourierTypes, Helper!Free
<1>5. ASSUME NEW k \in Helper!Helpers PROVE HelperInv(k)'
  <2>1. main'[k] = IF k = session + 1 THEN "starting" ELSE main[k]
    BY <1>1, <1>3 DEF CourierTypes
  <2>2. k = session + 1 => main[k] = "none"
    BY <1>3 DEF CourierTypes, HelperInv
  <2>3. k > session' => k > session /\ k # session + 1
    BY <1>1, <1>3 DEF CourierTypes, Helper!Helpers
  <2> QED  BY <1>1, <1>3, <2>1, <2>2, <2>3 DEF HelperInv, RingOf
<1>6. ListInv'
  <2>1. \A k \in Helper!Helpers : k < session' => k \in 1 .. session /\ k # session + 1
    BY <1>1, <1>3 DEF CourierTypes, Helper!Helpers
  <2>2. alone' => \A k \in Helper!Helpers : k < session' => main'[k] = "gone"
    BY <1>1, <1>2, <1>3, <2>1 DEF CourierTypes
  <2>3. order'[1] <= order'[2] /\ order'[2] <= cells'[1]
    BY <1>1, <1>3 DEF CourierTypes, Helper!Free
  <2>4. session' > session
    BY <1>1, <1>3 DEF CourierTypes
  <2>5. \A k \in Helper!Helpers : k = session' => \A s \in Helper!Slots : ~coFilled'[k][s]
    BY <1>1, <1>3, <2>4 DEF HelperInv
  <2> QED  BY <2>2, <2>3, <2>5 DEF ListInv
<1>7. FlagInv'
  <2>1. session' > session
    BY <1>1, <1>3 DEF CourierTypes
  <2>2. \A k \in Helper!Helpers : k = session' => worker[k] = "none"
    BY <1>3, <2>1 DEF HelperInv
  <2> QED  BY <1>1, <2>2 DEF FlagInv, Helper!Free
<1> QED  BY <1>4, <1>5, <1>6, <1>7 DEF CourierInv

LEMMA CourierKeeps == CourierInv /\ (Helper!Next \/ UNCHANGED courierVars) => CourierInv'
<1> SUFFICES ASSUME CourierInv, Helper!Next \/ UNCHANGED courierVars PROVE CourierInv'
  OBVIOUS
<1>1. CASE Helper!DriverNext \/ UNCHANGED courierVars
  BY <1>1, DriverKeeps, StartKeeps DEF Helper!DriverNext
<1>2. ASSUME NEW h \in Helper!Helpers, Helper!HelperNext(h) PROVE CourierInv'
  BY <1>2, MainKeeps, NewFrameKeeps, WorkerKeeps, TellingKeeps DEF Helper!HelperNext
<1> QED  BY <1>1, <1>2 DEF Helper!Next

LEMMA CourierSound == CourierInv => Helper!WholePictures
<1> SUFFICES ASSUME CourierInv PROVE Helper!WholePictures
  OBVIOUS
<1>1. \A h \in Helper!Helpers : worker[h] \in Busy => coContent[h][reader[h]] = reading[h]
  BY DEF CourierInv, HelperInv
<1> QED  BY <1>1 DEF CourierInv, ListInv, FlagInv, Helper!WholePictures, Busy

\* The values of the driver's and the threads' states.
CoDrivers == {"closed", "init", "running", "copying", "blobs", "paused", "closing", "waiting"}
Mains == {"none", "starting", "loop", "ending", "gone"}
Workers == {"none", "wait", "found", "blobs", "told", "copied", "done", "gone"}
Lists == 0 .. Helper!MaxSent
Holders == Helper!Helpers \cup {Helper!Free, Helper!Driver}

\* What the shared file and the threads hold.
HelperTypes ==
    /\ coCommand \in Helper!Commands /\ lock \in Holders /\ alone \in BOOLEAN
    /\ coDriver \in CoDrivers /\ room \in Lists /\ count \in Lists
    /\ main \in [Helper!Helpers -> Mains] /\ coOld \in [Helper!Helpers -> Helper!Commands]
    /\ worker \in [Helper!Helpers -> Workers]

\* No qt_cam runs yet.
LEMMA HelperTypesBegin == Helper!Init => HelperTypes
<1> SUFFICES ASSUME Helper!Init PROVE HelperTypes
  OBVIOUS
<1>1. /\ "STOP" \in Helper!Commands /\ "WAKEUP" \in Helper!Commands /\ Helper!Free \in Holders /\ "closed" \in CoDrivers
      /\ "none" \in Mains /\ "none" \in Workers
  BY Zenon DEF Helper!Commands, Holders, CoDrivers, Mains, Workers
<1>2. Helper!MaxSent \in Lists /\ 0 \in Lists
  BY DEF Lists, Helper!MaxSent
<1>3. /\ coCommand = "STOP" /\ lock = Helper!Free /\ coDriver = "closed" /\ room = Helper!MaxSent /\ count = 0
      /\ alone \in BOOLEAN /\ main = [h \in Helper!Helpers |-> "none"] /\ coOld = [h \in Helper!Helpers |-> "WAKEUP"]
      /\ worker = [h \in Helper!Helpers |-> "none"]
  BY Zenon DEF Helper!Init
<1> QED  BY <1>1, <1>2, <1>3, Zenon DEF HelperTypes

\* What a step of the driver may leave.
LEMMA DriverStaysTyped == ASSUME HelperTypes, Helper!DriverNext PROVE HelperTypes'
<1>0. /\ "STOP" \in Helper!Commands /\ "WAKEUP" \in Helper!Commands /\ "SLEEP" \in Helper!Commands
      /\ Helper!Free \in Holders
      /\ \A d \in {"closed", "init", "running", "copying", "blobs", "paused", "closing", "waiting"} : d \in CoDrivers
  BY Zenon DEF Helper!Commands, Holders, CoDrivers
<1>s. "starting" \in Mains /\ Helper!MaxSent \in Lists
  BY DEF Mains, Lists, Helper!MaxSent
<1>1. CASE Helper!Start
  <2>1. /\ coCommand' = "WAKEUP" /\ lock' = Helper!Free /\ coDriver' = "init" /\ room' = Helper!MaxSent
        /\ UNCHANGED <<count, coOld, worker>>
        /\ main' = [main EXCEPT ![session + 1] = "starting"]
    BY <1>1, Zenon DEF Helper!Start, Helper!Command, Helper!Released, Helper!work
  <2>2. alone' \in BOOLEAN
    <3>1. alone' = \A h \in 1 .. session : main[h] = "gone"
      BY <1>1, Zenon DEF Helper!Start
    <3> QED  BY <3>1, Zenon
  <2>3. main' \in [Helper!Helpers -> Mains]
    BY <1>s, <2>1 DEF HelperTypes
  <2> QED  BY <1>0, <1>s, <2>1, <2>2, <2>3, Zenon DEF HelperTypes
<1>2. CASE Helper!ResetFlag \/ Helper!CopyLower \/ Helper!CopyUpper \/ Helper!NoPicture \/ Helper!NothingNew \/ Helper!Closed
  <2>1. /\ coDriver' \in CoDrivers
        /\ UNCHANGED <<coCommand, lock, alone, room, count, main, coOld, worker>>
    BY <1>0, <1>2, Zenon DEF Helper!ResetFlag, Helper!CopyLower, Helper!CopyUpper, Helper!NoPicture, Helper!NothingNew,
           Helper!Closed, Helper!shared, Helper!thread, Helper!work
  <2> QED  BY <2>1, Zenon DEF HelperTypes
<1>3. CASE Helper!GetBlobs
  <2>1. /\ coDriver' = "running" /\ lock' = Helper!Free /\ room' = count
        /\ UNCHANGED <<coCommand, alone, count, main, coOld, worker>>
    BY <1>3, Zenon DEF Helper!GetBlobs, Helper!Released, Helper!thread, Helper!work
  <2> QED  BY <1>0, <2>1, Zenon DEF HelperTypes
<1>4. CASE Helper!Pause \/ Helper!Resume \/ Helper!Stop
  <2>1. /\ coDriver' \in CoDrivers /\ lock' = Helper!Free /\ coCommand' \in Helper!Commands
        /\ UNCHANGED <<alone, room, count, main, coOld, worker>>
    BY <1>0, <1>4, Zenon DEF Helper!Pause, Helper!Resume, Helper!Stop, Helper!Command, Helper!Released, Helper!thread, Helper!work
  <2> QED  BY <1>0, <2>1, Zenon DEF HelperTypes
<1> QED  BY <1>1, <1>2, <1>3, <1>4, Zenon DEF Helper!DriverNext

\* ... and of a qt_cam: the blobs of a picture have room in the list.
LEMMA HelperStaysTyped ==
    ASSUME CourierInv, HelperTypes, NEW h \in Helper!Helpers, Helper!HelperNext(h)
    PROVE  HelperTypes'
<1>0. /\ "WAKEUP" \in Helper!Commands /\ Helper!Free \in Holders /\ h \in Holders
      /\ \A m \in {"loop", "gone", "ending"} : m \in Mains
      /\ \A w \in {"wait", "found", "blobs", "told", "copied", "done", "gone"} : w \in Workers
  BY Zenon DEF Helper!Commands, Holders, Mains, Workers
<1>e. \A S : \A f \in [Helper!Helpers -> S] : \A v \in S : [f EXCEPT ![h] = v] \in [Helper!Helpers -> S]
  OBVIOUS
<1>1. CASE Helper!Begin(h)
  <2>1. /\ coCommand' = "WAKEUP" /\ lock' = Helper!Free
        /\ UNCHANGED <<alone, coDriver, room, count, coOld>>
    BY <1>1, Zenon DEF Helper!Begin, Helper!Released, Helper!device
  <2>2. /\ main' = [main EXCEPT ![h] = "loop"] \/ main' = [main EXCEPT ![h] = "gone"]
        /\ worker' = [worker EXCEPT ![h] = "wait"] \/ worker' = worker
    BY <1>1, Zenon DEF Helper!Begin
  <2>3. main' \in [Helper!Helpers -> Mains] /\ worker' \in [Helper!Helpers -> Workers]
    BY <1>0, <1>e, <2>2, Zenon DEF HelperTypes
  <2> QED  BY <1>0, <2>1, <2>3, Zenon DEF HelperTypes
<1>2. CASE Helper!Look(h)
  <2>1. /\ coOld' = [coOld EXCEPT ![h] = coCommand] /\ lock' = Helper!Free
        /\ UNCHANGED <<coCommand, alone, coDriver, room, count, main, worker>>
    BY <1>2, Zenon DEF Helper!Look, Helper!Released, Helper!device, Helper!work
  <2>2. coOld' \in [Helper!Helpers -> Helper!Commands]
    BY <1>e, <2>1, Zenon DEF HelperTypes
  <2> QED  BY <1>0, <2>1, <2>2, Zenon DEF HelperTypes
<1>3. CASE Helper!LeaveLoop(h) \/ Helper!Exit(h)
  <2>1. /\ main' = [main EXCEPT ![h] = "ending"] \/ main' = [main EXCEPT ![h] = "gone"]
        /\ lock' = Helper!Free \/ lock' = lock
        /\ UNCHANGED <<coCommand, alone, coDriver, room, count, coOld, worker>>
    BY <1>3, Zenon DEF Helper!LeaveLoop, Helper!Exit, Helper!Released, Helper!shared, Helper!device, Helper!work
  <2>2. main' \in [Helper!Helpers -> Mains]
    BY <1>0, <1>e, <2>1, Zenon DEF HelperTypes
  <2> QED  BY <1>0, <2>1, <2>2, Zenon DEF HelperTypes
<1>4. CASE Helper!NewFrame(h)
  <2>1. UNCHANGED <<coCommand, lock, alone, coDriver, room, count, main, coOld, worker>>
    BY <1>4, Zenon DEF Helper!NewFrame, Helper!shared, Helper!device, Helper!thread
  <2> QED  BY <2>1, Zenon DEF HelperTypes
<1>5. CASE Helper!Wake(h) \/ Helper!CopyFirst(h) \/ Helper!CopyRest(h) \/ Helper!KeepPicture(h) \/ Helper!BufferRead(h)
  <2>1. UNCHANGED <<coCommand, lock, alone, coDriver, room, count, main, coOld>>
    BY <1>5, Zenon DEF Helper!Wake, Helper!CopyFirst, Helper!CopyRest, Helper!KeepPicture, Helper!BufferRead,
           Helper!shared, Helper!device, Helper!thread
  <2>2. \E w \in Workers : worker' = [worker EXCEPT ![h] = w]
    BY <1>0, <1>5, Zenon DEF Helper!Wake, Helper!CopyFirst, Helper!CopyRest, Helper!KeepPicture, Helper!BufferRead
  <2>3. worker' \in [Helper!Helpers -> Workers]
    BY <1>e, <2>2, Zenon DEF HelperTypes
  <2> QED  BY <2>1, <2>3, Zenon DEF HelperTypes
<1>6. CASE Helper!SetFirst(h)
  <2>1. /\ lock' = h /\ worker' = [worker EXCEPT ![h] = "blobs"]
        /\ UNCHANGED <<coCommand, alone, coDriver, room, count, main, coOld>>
    BY <1>6, Zenon DEF Helper!SetFirst, Helper!device, Helper!thread
  <2>2. worker' \in [Helper!Helpers -> Workers]
    BY <1>0, <1>e, <2>1, Zenon DEF HelperTypes
  <2> QED  BY <1>0, <2>1, <2>2, Zenon DEF HelperTypes
<1>7. CASE Helper!SetRest(h)
  <2>1. /\ lock' = Helper!Free \/ lock' = lock
        /\ worker[h] = "blobs" /\ worker' = [worker EXCEPT ![h] = "told"] /\ count' = Helper!BlobsOf(reading[h])
        /\ UNCHANGED <<coCommand, alone, coDriver, room, main, coOld>>
    BY <1>7, Zenon DEF Helper!SetRest, Helper!device, Helper!thread
  <2>2. worker' \in [Helper!Helpers -> Workers]
    BY <1>0, <1>e, <2>1, Zenon DEF HelperTypes
  <2>3. reading[h] \in Nat
    <3>1. /\ reading[h] = coContent[h][reader[h]] /\ reader[h] \in Helper!Slots
          /\ coContent[h] \in [Helper!Slots -> Nat]
      BY <2>1 DEF CourierInv, HelperInv, RingOf, Busy
    <3> QED  BY <3>1
  <2>4. count' \in Lists
    BY <2>1, <2>3 DEF Lists, Helper!MaxSent, Helper!BlobsOf
  <2> QED  BY <1>0, <2>1, <2>2, <2>4, Zenon DEF HelperTypes
<1> QED  BY <1>1, <1>2, <1>3, <1>4, <1>5, <1>6, <1>7, Zenon DEF Helper!HelperNext

\* Every step keeps the types.
LEMMA CourierStaysTyped ==
    ASSUME CourierInv, HelperTypes, Helper!Next \/ UNCHANGED courierVars
    PROVE  HelperTypes'
<1>1. CASE UNCHANGED courierVars
  <2>1. UNCHANGED <<coCommand, lock, alone, coDriver, room, count, main, coOld, worker>>
    BY <1>1, Zenon DEF courierVars
  <2> QED  BY <2>1, Zenon DEF HelperTypes
<1> QED  BY <1>1, DriverStaysTyped, HelperStaysTyped, Zenon DEF Helper!Next

\* The Mac camera's variables keep their types.
LEMMA CourierTyped == CourierInv /\ HelperTypes => Helper!TypeOK
<1> SUFFICES ASSUME CourierInv, HelperTypes PROVE Helper!TypeOK
  OBVIOUS
<1>1. \A h \in Helper!Helpers : reader[h] \in Helper!Slots /\ writer[h] \in Helper!Slots
  BY Zenon DEF CourierInv, HelperInv, RingOf
<1>2. \A h \in Helper!Helpers : main[h] \in Mains /\ coOld[h] \in Helper!Commands /\ worker[h] \in Workers
  BY Zenon DEF HelperTypes
<1> QED  BY <1>1, <1>2, Zenon DEF HelperTypes, CoDrivers, Mains, Workers, Lists, Holders, Helper!TypeOK

-----------------------------------------------------------------------
(* The Wiimote *)

CONSTANTS Indications, WiConnects, WiRequests, WiServers

VARIABLES wiDriver, dStep, asks, wiCommand, indication, window, state, wiSignals, timer,
          wiOld, read, wiPc, exit, idle, wii, wiMode, leds, error, data, connects,
          wiRequests, servers

wiiVars == <<wiDriver, dStep, asks, wiCommand, indication, window, state, wiSignals, timer, wiOld,
             read, wiPc, exit, idle, wii, wiMode, leds, error, data, connects, wiRequests, servers>>

Remote == INSTANCE WiiServer WITH
      MaxConnects <- WiConnects, MaxRequests <- WiRequests, MaxServers <- WiServers,
      driver <- wiDriver, command <- wiCommand, signals <- wiSignals, old <- wiOld, pc <- wiPc,
      mode <- wiMode, requests <- wiRequests

\* What the thread tells the window, and where the thread is.
WiiStates == {"DISCONNECTED", "CONNECTING", "CONNECTED"}
WiiPcs == {"none", "started", "opening", "loop", "blink", "closed", "ended"}

\* The thread lives as long as the window.
ThreadInv == wiPc \in WiiPcs /\ (wiPc # "none" => window)

\* A window that knows no Wiimote polls nothing and has forgotten the last command.
ForgottenInv == window /\ state = "DISCONNECTED" => ~timer /\ wiOld = "STOP" /\ read = ""

\* From the button to the Wiimote that answers nothing but CONNECTING is on its way.
OpeningInv ==
    wiPc \in {"started", "opening"} =>
        /\ ~timer /\ wiOld = "STOP" /\ read = ""
        /\ \A i \in DOMAIN wiSignals : wiSignals[i] = "CONNECTING"

\* While it is open what it reports is what was asked last, and no loss is on its way.
OpenInv ==
    wiPc \in {"loop", "blink"} =>
        /\ wii = "open" /\ (wiMode = "IR" <=> wiOld = "WAKEUP")
        /\ \A i \in DOMAIN wiSignals : wiSignals[i] # "DISCONNECTED"

\* The inductive invariant of the Wiimote.
RemoteInv ==
    wiSignals \in Seq(WiiStates) /\ ThreadInv /\ ForgottenInv /\ OpeningInv /\ OpenInv

\* The driver's steps and the library's leave what the invariant looks at.
LEMMA RemoteKept ==
    ASSUME RemoteInv,
           UNCHANGED <<wiSignals, wiPc, window, state, timer, wiOld, read, wii, wiMode>>
    PROVE  RemoteInv'
BY DEF RemoteInv, ThreadInv, ForgottenInv, OpeningInv, OpenInv

\* The driver goes through the shared memory only; the Wiimote sends or breaks.
LEMMA DriverRemoteInv ==
    ASSUME RemoteInv, Remote!DriverNext \/ Remote!IrData \/ Remote!Breaks
    PROVE  RemoteInv'
<1>1. UNCHANGED <<wiSignals, wiPc, window, state, timer, wiOld, read, wii, wiMode>>
  BY DEF Remote!DriverNext, Remote!DriverInit, Remote!DriverPause, Remote!DriverResume, Remote!Ask,
         Remote!SendCommand, Remote!DriverClose, Remote!TakeData, Remote!IrData, Remote!Breaks,
         Remote!gui, Remote!thread, Remote!remote
<1> QED  BY <1>1, RemoteKept

\* With no signal on its way.
LEMMA NoneWaits == ASSUME NEW s, s = <<>> PROVE DOMAIN s = {} /\ s \in Seq(WiiStates)
OBVIOUS

\* A window is opened, closed, or a button of it pressed.
LEMMA ButtonsInv ==
    ASSUME RemoteInv,
           Remote!OpenWindow \/ Remote!CloseWindow \/ Remote!PressConnect \/ Remote!PressDisconnect
    PROVE  RemoteInv'
<1> USE DEF Remote!gui, Remote!thread, Remote!remote, RemoteInv, ThreadInv, ForgottenInv, OpeningInv, OpenInv,
            WiiPcs
<1>1. CASE Remote!OpenWindow
  <2>1. ~timer'
    BY <1>1, Zenon DEF Remote!OpenWindow
  <2>2. wiPc' = "none" /\ wiPc = "none" /\ wiSignals' = <<>> /\ wiOld' = "STOP" /\ read' = ""
    BY <1>1 DEF Remote!OpenWindow
  <2>3. wiSignals' \in Seq(WiiStates)
    BY <2>2, NoneWaits
  <2> QED  BY <2>1, <2>2, <2>3
<1>2. CASE Remote!CloseWindow
  BY <1>2 DEF Remote!CloseWindow
<1>3. CASE Remote!PressConnect
  <2>1. /\ window /\ wiSignals = <<>> /\ state = "DISCONNECTED" /\ wiPc' = "started"
        /\ UNCHANGED <<wiSignals, window, state, timer, wiOld, read>>
    BY <1>3 DEF Remote!PressConnect
  <2>2. DOMAIN wiSignals = {}
    BY <2>1, NoneWaits
  <2>3. ~timer /\ wiOld = "STOP" /\ read = ""
    BY <2>1
  <2> QED  BY <2>1, <2>2, <2>3
<1>4. CASE Remote!PressDisconnect
  BY <1>4 DEF Remote!PressDisconnect
<1> QED  BY <1>1, <1>2, <1>3, <1>4

\* A signal is delivered.
LEMMA UpdateStateInv == ASSUME RemoteInv, Remote!UpdateState PROVE RemoteInv'
<1>1. /\ wiSignals' \in Seq(WiiStates) /\ state' \in WiiStates
      /\ state' = wiSignals[1] /\ 1 \in DOMAIN wiSignals
      /\ \A i \in DOMAIN wiSignals' : i + 1 \in DOMAIN wiSignals /\ wiSignals'[i] = wiSignals[i + 1]
  <2>1. wiSignals # <<>> /\ wiSignals' = Tail(wiSignals) /\ state' = Head(wiSignals)
           /\ wiSignals \in Seq(WiiStates)
    BY DEF Remote!UpdateState, RemoteInv
  <2>2. Len(wiSignals) \in Nat \ {0} /\ DOMAIN wiSignals = 1 .. Len(wiSignals) /\ wiSignals[1] \in WiiStates
    BY <2>1
  <2>3. Tail(wiSignals) \in Seq(WiiStates) /\ DOMAIN Tail(wiSignals) = 1 .. Len(wiSignals) - 1
        /\ \A i \in 1 .. Len(wiSignals) - 1 : Tail(wiSignals)[i] = wiSignals[i + 1]
    BY <2>1, <2>2
  <2> QED  BY <2>1, <2>2, <2>3
<1>2. /\ window /\ read = ""
      /\ state' = "DISCONNECTED" => ~timer' /\ wiOld' = "STOP"
      /\ state' = "CONNECTING" => (timer' <=> timer) /\ wiOld' = wiOld
      /\ state' = "CONNECTED" => wiOld' = wiOld
  BY Zenon DEF Remote!UpdateState
<1>3. UNCHANGED <<wiPc, window, read, wii, wiMode>>
  BY DEF Remote!UpdateState, Remote!thread, Remote!remote
<1>4. OpeningInv'
  BY <1>1, <1>2, <1>3 DEF RemoteInv, OpeningInv
<1>5. OpenInv'
  <2>1. CASE wiPc \in {"loop", "blink"}
    <3>1. \A i \in DOMAIN wiSignals : wiSignals[i] # "DISCONNECTED"
      BY <2>1 DEF RemoteInv, OpenInv
    <3>2. state' # "DISCONNECTED" /\ \A i \in DOMAIN wiSignals' : wiSignals'[i] # "DISCONNECTED"
      BY <1>1, <3>1
    <3>3. wiOld' = wiOld
      BY <1>1, <1>2, <3>2 DEF WiiStates
    <3> QED  BY <1>3, <2>1, <3>2, <3>3 DEF RemoteInv, OpenInv
  <2> QED  BY <1>3, <2>1 DEF OpenInv
<1>6. ThreadInv' /\ ForgottenInv'
  BY <1>2, <1>3 DEF RemoteInv, ThreadInv, ForgottenInv
<1> QED  BY <1>1, <1>4, <1>5, <1>6 DEF RemoteInv

\* The window polls the driver's commands.
LEMMA PollsInv == ASSUME RemoteInv, Remote!PollIndication \/ Remote!PollCommand PROVE RemoteInv'
<1> USE DEF RemoteInv, ThreadInv, ForgottenInv, OpeningInv, OpenInv, WiiPcs
<1>1. CASE Remote!PollIndication
  BY <1>1 DEF Remote!PollIndication, Remote!thread, Remote!remote
<1>2. CASE Remote!PollCommand
  BY <1>2 DEF Remote!PollCommand, Remote!SetMode
<1> QED  BY <1>1, <1>2

\* The thread tells the window.
LEMMA TellInv ==
    ASSUME RemoteInv, NEW s \in WiiStates, Remote!Tell(s)
    PROVE  /\ wiSignals' \in Seq(WiiStates) /\ UNCHANGED <<window, state, timer, wiOld, read>>
           /\ \A i \in DOMAIN wiSignals' : wiSignals'[i] = s
                \/ (i \in DOMAIN wiSignals /\ wiSignals'[i] = wiSignals[i])
BY DEF Remote!Tell, RemoteInv

\* The thread connects, blinks and gives up, and tells the window of each.
LEMMA ThreadRemoteInv == ASSUME RemoteInv, Remote!ThreadNext PROVE RemoteInv'
<1> USE DEF ThreadInv, ForgottenInv, OpeningInv, OpenInv, WiiPcs
<1>0. RemoteInv /\ "CONNECTING" \in WiiStates /\ "CONNECTED" \in WiiStates /\ "DISCONNECTED" \in WiiStates
  BY DEF WiiStates
<1>1. CASE Remote!Connecting
  <2>1. Remote!Tell("CONNECTING")  BY <1>1 DEF Remote!Connecting
  <2> QED  BY <1>0, <1>1, <2>1, TellInv DEF Remote!Connecting, Remote!remote, RemoteInv
<1>2. CASE Remote!Open
  <2>1. Remote!Tell("CONNECTED")  BY <1>2 DEF Remote!Open
  <2> QED  BY <1>0, <1>2, <2>1, TellInv DEF Remote!Open, RemoteInv
<1>3. CASE Remote!NotFound
  <2>1. Remote!Tell("DISCONNECTED")  BY <1>3 DEF Remote!NotFound
  <2> QED  BY <1>0, <1>3, <2>1, TellInv DEF Remote!NotFound, Remote!remote, RemoteInv
<1>4. CASE Remote!Idle \/ Remote!Blink \/ Remote!Close \/ Remote!Ended
  <2>1. /\ UNCHANGED <<wiSignals, window, state, timer, wiOld, read, wiMode>>
        /\ \/ wiPc = "loop" /\ wiPc' = "blink" /\ wii' = wii
           \/ wiPc = "blink" /\ wiPc' = "loop" /\ wii' = wii
           \/ wiPc' \in {"closed", "none"} /\ wiPc # "none"
    BY <1>4 DEF Remote!Idle, Remote!Blink, Remote!Close, Remote!Ended, Remote!gui, Remote!remote
  <2> QED  BY <1>0, <2>1 DEF RemoteInv
<1>5. CASE Remote!Clear
  <2>1. Remote!Tell("DISCONNECTED")  BY <1>5 DEF Remote!Clear
  <2> QED  BY <1>0, <1>5, <2>1, TellInv DEF Remote!Clear, RemoteInv
<1> QED  BY <1>1, <1>2, <1>3, <1>4, <1>5 DEF Remote!ThreadNext

\* Every step of the Wiimote keeps its invariant.
LEMMA RemoteKeeps == RemoteInv /\ (Remote!Next \/ UNCHANGED wiiVars) => RemoteInv'
<1> SUFFICES ASSUME RemoteInv, Remote!Next \/ UNCHANGED wiiVars PROVE RemoteInv'
  OBVIOUS
<1>1. CASE UNCHANGED wiiVars
  BY <1>1, RemoteKept DEF wiiVars
<1>2. CASE Remote!Next
  BY <1>2, DriverRemoteInv, ButtonsInv, UpdateStateInv, PollsInv, ThreadRemoteInv DEF Remote!Next,
         Remote!WindowNext
<1> QED  BY <1>1, <1>2

\* No window is there yet.
LEMMA RemoteBegins == Remote!Init => RemoteInv
<1> SUFFICES ASSUME Remote!Init PROVE RemoteInv
  OBVIOUS
<1>1. ~window
  BY Zenon DEF Remote!Init
<1>2. wiPc = "none" /\ wiSignals = <<>>
  BY DEF Remote!Init
<1>3. wiSignals \in Seq(WiiStates)
  BY <1>2
<1> QED  BY <1>1, <1>2, <1>3 DEF RemoteInv, ThreadInv, ForgottenInv, OpeningInv, OpenInv, WiiPcs

\* From the invariant the Wiimote's part of the property follows.
LEMMA RemoteSound == RemoteInv => Remote!ModeIsOld
<1> SUFFICES ASSUME RemoteInv, window, timer, wiPc \in {"loop", "blink"}
             PROVE  (wiMode = "IR") = (wiOld = "WAKEUP")
  BY DEF Remote!ModeIsOld
<1> QED  BY DEF RemoteInv, OpenInv

\* The values of commands, lights and states.
WiiCommands == {"STOP", "SLEEP", "WAKEUP"}
Lights == Indications \cup {Remote!Dark, Remote!Blinking}
Steps == {"", "command"}
WiiDrivers == {"closed", "running", "paused"}
Holds == {"none", "open", "closed"}
Modes == {"STATUS", "IR"}

\* What the driver and the window have told each other, and what the Wiimote shows.
RemoteTypes ==
    /\ wiCommand \in WiiCommands /\ wiOld \in WiiCommands
    /\ wiDriver \in WiiDrivers /\ dStep \in Steps
    /\ state \in WiiStates /\ wii \in Holds /\ wiMode \in Modes
    /\ leds \in Lights /\ indication \in Lights /\ (read # "" => read \in Lights)

\* All is off.
LEMMA RemoteTypesBegin == Remote!Init => RemoteTypes
<1> SUFFICES ASSUME Remote!Init PROVE RemoteTypes
  OBVIOUS
<1>1. "STOP" \in WiiCommands /\ "closed" \in WiiDrivers /\ "" \in Steps /\ "DISCONNECTED" \in WiiStates
      /\ "none" \in Holds /\ "STATUS" \in Modes /\ Remote!Dark \in Lights
  BY Zenon DEF WiiCommands, WiiDrivers, Steps, WiiStates, Holds, Modes, Lights
<1> QED  BY <1>1, Zenon DEF RemoteTypes, Remote!Init

\* Commands, lights and states are handed on as they are.
LEMMA RemoteStaysTyped ==
    ASSUME RemoteInv, RemoteTypes, Remote!Next \/ UNCHANGED wiiVars
    PROVE  RemoteTypes'
<1>0. /\ "STOP" \in WiiCommands /\ "SLEEP" \in WiiCommands /\ "WAKEUP" \in WiiCommands
      /\ "" \in Steps /\ "command" \in Steps
      /\ "closed" \in WiiDrivers /\ "running" \in WiiDrivers /\ "paused" \in WiiDrivers
      /\ "DISCONNECTED" \in WiiStates /\ "none" \in Holds /\ "open" \in Holds /\ "closed" \in Holds
      /\ "STATUS" \in Modes /\ "IR" \in Modes /\ Remote!Dark \in Lights /\ Remote!Blinking \in Lights
      /\ \A i \in Indications : i \in Lights
  BY Zenon DEF WiiCommands, WiiDrivers, Steps, WiiStates, Holds, Modes, Lights
<1> USE DEF RemoteTypes
<1>1. CASE Remote!DriverInit \/ Remote!DriverPause \/ Remote!DriverResume
  BY <1>0, <1>1, Zenon DEF Remote!DriverInit, Remote!DriverPause, Remote!DriverResume, Remote!Ask, Remote!gui, Remote!remote
<1>2. CASE Remote!SendCommand \/ Remote!DriverClose
  BY <1>0, <1>2, Zenon DEF Remote!SendCommand, Remote!DriverClose, Remote!gui, Remote!remote
<1>3. CASE Remote!TakeData \/ Remote!IrData \/ Remote!Breaks \/ UNCHANGED wiiVars
  <2>1. UNCHANGED <<wiCommand, wiOld, wiDriver, dStep, state, wii, wiMode, leds, indication, read>>
    BY <1>3, Zenon DEF Remote!TakeData, Remote!IrData, Remote!Breaks, Remote!comm, Remote!device, Remote!gui, Remote!remote, wiiVars
  <2> QED  BY <2>1, Zenon
<1>4. CASE Remote!OpenWindow
  BY <1>0, <1>4, Zenon DEF Remote!OpenWindow, Remote!comm, Remote!device, Remote!remote
<1>5. CASE Remote!CloseWindow
  BY <1>0, <1>5, Zenon DEF Remote!CloseWindow, Remote!device
<1>6. CASE Remote!PressConnect \/ Remote!PressDisconnect
  BY <1>0, <1>6, Zenon DEF Remote!PressConnect, Remote!PressDisconnect, Remote!comm, Remote!device, Remote!gui, Remote!remote
<1>7. CASE Remote!UpdateState
  <2>1. state' = Head(wiSignals) /\ wiSignals # <<>> /\ wiSignals \in Seq(WiiStates)
    BY <1>7 DEF Remote!UpdateState, RemoteInv
  <2>2. state' \in WiiStates
    BY <2>1, SeqTail, Zenon
  <2>3. wiOld' \in WiiCommands
    BY <1>0, <1>7, Zenon DEF Remote!UpdateState
  <2>4. UNCHANGED <<wiCommand, wiDriver, dStep, wii, wiMode, leds, indication, read>>
    BY <1>7, Zenon DEF Remote!UpdateState, Remote!comm, Remote!device, Remote!remote
  <2> QED  BY <2>2, <2>3, <2>4, Zenon
<1>8. CASE Remote!PollIndication
  BY <1>0, <1>8, Zenon DEF Remote!PollIndication, Remote!comm, Remote!device, Remote!remote
<1>9. CASE Remote!PollCommand
  <2>1. read' = "" /\ wiOld' = wiCommand /\ wiMode' \in Modes /\ leds' \in {leds, read} /\ read # ""
    BY <1>0, <1>9, Zenon DEF Remote!PollCommand, Remote!SetMode
  <2>2. UNCHANGED <<wiCommand, wiDriver, dStep, state, wii, indication>>
    BY <1>9, Zenon DEF Remote!PollCommand, Remote!comm, Remote!device
  <2> QED  BY <2>1, <2>2, Zenon
<1>10. CASE Remote!Connecting \/ Remote!NotFound \/ Remote!Clear
  BY <1>0, <1>10, Zenon DEF Remote!Connecting, Remote!NotFound, Remote!Clear, Remote!Tell, Remote!comm, Remote!device, Remote!remote
<1>11. CASE Remote!Open
  BY <1>0, <1>11, Zenon DEF Remote!Open, Remote!Tell, Remote!comm, Remote!device
<1>12. CASE Remote!Idle \/ Remote!Blink \/ Remote!Close \/ Remote!Ended
  BY <1>0, <1>12, Zenon DEF Remote!Idle, Remote!Blink, Remote!Close, Remote!Ended, Remote!comm, Remote!device, Remote!gui, Remote!remote
<1> QED
  BY <1>1, <1>2, <1>3, <1>4, <1>5, <1>6, <1>7, <1>8, <1>9, <1>10, <1>11, <1>12, Zenon
  DEF Remote!Next, Remote!DriverNext, Remote!WindowNext, Remote!ThreadNext

\* The Wiimote's variables keep their types.
LEMMA RemoteTyped == RemoteInv /\ RemoteTypes => Remote!TypeOK
BY Zenon DEF RemoteInv, ThreadInv, RemoteTypes, WiiCommands, WiiDrivers, Steps, WiiStates, WiiPcs, Holds, Modes, Lights, Remote!TypeOK

-----------------------------------------------------------------------
(* The joystick *)

CONSTANTS Codes, Coordinates, Lowest, Highest, Scale,   \* the axes, and the pose's
          KernelBuffer, Batch, JsMoves, JsSessions, JsAssigns

\* Coordinates are in an order, and events come by the number.
ASSUME AxesAssumption == Coordinates \in Seq(STRING) /\ Batch \in Nat

VARIABLES position, present, jsFd, queue, dropped, moved, assigned, jsOld, pose, handed,
          jsPhase, moves, jsSessions, assigns

joyVars == <<position, present, jsFd, queue, dropped, moved, assigned, jsOld, pose, handed,
             jsPhase, moves, jsSessions, assigns>>

Stick == INSTANCE Joy WITH
      MaxMoves <- JsMoves, MaxSessions <- JsSessions, MaxAssigns <- JsAssigns, fd <- jsFd, old <- jsOld,
      phase <- jsPhase, sessions <- jsSessions

\* What the kernel tells, where a coordinate can be, and what the user may assign.
Event == [code : Codes, value : Int]
Poses == {0} \cup {Stick!Normalize(c, v) : c \in Codes, v \in Int}
Assignments == [DOMAIN Coordinates -> Codes \cup {Stick!Unused}]

\* MapAxis moves the first coordinate the axis is assigned to, and no other.
LEMMA AxisMapped ==
    ASSUME NEW p \in [DOMAIN Coordinates -> Poses], NEW e \in Event, assigned \in Assignments
    PROVE  /\ Stick!MapAxis(p, e) \in [DOMAIN Coordinates -> Poses]
           /\ \A i \in DOMAIN Coordinates : Stick!First(i) =>
                 Stick!MapAxis(p, e)[i] =
                    IF assigned[i] = e.code THEN Stick!Normalize(e.code, e.value) ELSE p[i]
<1>1. DOMAIN Coordinates = 1 .. Len(Coordinates) /\ Len(Coordinates) \in Nat
  BY AxesAssumption DEF AxesAssumption
<1>2. Stick!Normalize(e.code, e.value) \in Poses
  BY DEF Poses, Event
<1>3. Stick!MapAxis(p, e) \in [DOMAIN Coordinates -> Poses]
  BY <1>2 DEF Stick!MapAxis
<1>4. ASSUME NEW i \in DOMAIN Coordinates, Stick!First(i)
      PROVE  Stick!MapAxis(p, e)[i] = IF assigned[i] = e.code THEN Stick!Normalize(e.code, e.value) ELSE p[i]
  <2>1. assigned[i] = e.code => \A j \in 1 .. i - 1 : assigned[j] # e.code
    BY <1>4 DEF Stick!First
  <2> QED  BY <2>1 DEF Stick!MapAxis
<1> QED  BY <1>3, <1>4

\* What n events of es have made of the pose: a coordinate is where the last event of
\* its axis put it, or where it was.
Moved(p, es, n) ==
    /\ p \in [DOMAIN Coordinates -> Poses]
    /\ \A i \in DOMAIN Coordinates : Stick!First(i) =>
          /\ (\A k \in 1 .. n : es[k].code # assigned[i]) => p[i] = pose[i]
          /\ \A k \in 1 .. n :
                es[k].code = assigned[i] /\ (\A l \in k + 1 .. n : es[l].code # assigned[i]) =>
                    p[i] = Stick!Normalize(assigned[i], es[k].value)

\* One event more.
LEMMA MovedOn ==
    ASSUME NEW es \in Seq(Event), NEW n \in 0 .. Len(es) - 1, NEW p, Moved(p, es, n), assigned \in Assignments
    PROVE  Moved(Stick!MapAxis(p, es[n + 1]), es, n + 1)
<1> DEFINE e == es[n + 1]
           q == Stick!MapAxis(p, e)
<1>1. Len(es) \in Nat /\ n \in Nat /\ e \in Event /\ p \in [DOMAIN Coordinates -> Poses]
  BY DEF Moved
<1>2. /\ q \in [DOMAIN Coordinates -> Poses]
      /\ \A i \in DOMAIN Coordinates : Stick!First(i) =>
            q[i] = IF assigned[i] = e.code THEN Stick!Normalize(e.code, e.value) ELSE p[i]
  BY <1>1, AxisMapped
<1> HIDE DEF q
<1>3. ASSUME NEW i \in DOMAIN Coordinates, Stick!First(i), \A k \in 1 .. n + 1 : es[k].code # assigned[i]
      PROVE  q[i] = pose[i]
  <2>1. e.code # assigned[i] /\ \A k \in 1 .. n : es[k].code # assigned[i]
    BY <1>1, <1>3
  <2>2. p[i] = pose[i]
    BY <1>3, <2>1 DEF Moved
  <2> QED  BY <1>2, <1>3, <2>1, <2>2
<1>4. ASSUME NEW i \in DOMAIN Coordinates, Stick!First(i), NEW k \in 1 .. n + 1,
             es[k].code = assigned[i], \A l \in k + 1 .. n + 1 : es[l].code # assigned[i]
      PROVE  q[i] = Stick!Normalize(assigned[i], es[k].value)
  <2>1. CASE k = n + 1
    <3>1. assigned[i] = e.code /\ e.value = es[k].value
      BY <1>4, <2>1
    <3> QED  BY <1>2, <1>4, <3>1
  <2>2. CASE k # n + 1
    <3>1. k \in 1 .. n /\ n + 1 \in k + 1 .. n + 1
      BY <1>1, <2>2
    <3>2. e.code # assigned[i] /\ \A l \in k + 1 .. n : es[l].code # assigned[i]
      BY <1>1, <1>4, <3>1
    <3>3. p[i] = Stick!Normalize(assigned[i], es[k].value)
      BY <1>4, <3>1, <3>2 DEF Moved
    <3> QED  BY <1>2, <1>4, <3>2, <3>3
  <2> QED  BY <2>1, <2>2
<1>5. Moved(q, es, n + 1)
  BY <1>2, <1>3, <1>4 DEF Moved
<1> QED  BY <1>5 DEF q

\* The recursive function of MapAll exists.
LEMMA MapsExist ==
    ASSUME NEW es, Len(es) \in Nat
    PROVE  \E f : /\ f = [i \in 0 .. Len(es) |-> IF i = 0 THEN pose ELSE Stick!MapAxis(f[i - 1], es[i])]
                  /\ Stick!MapAll(es) = f[Len(es)]
<1> DEFINE T == {n \in Nat : \E f : f = [i \in 0 .. n |-> IF i = 0 THEN pose ELSE Stick!MapAxis(f[i - 1],
       es[i])]}
<1>1. 0 \in T
  <2> DEFINE f == [i \in 0 .. 0 |-> pose]
  <2>1. f = [i \in 0 .. 0 |-> IF i = 0 THEN pose ELSE Stick!MapAxis(f[i - 1], es[i])]
    OBVIOUS
  <2> QED  BY <2>1
<1>2. ASSUME NEW n \in Nat, n \in T PROVE n + 1 \in T
  <2>1. PICK f : f = [i \in 0 .. n |-> IF i = 0 THEN pose ELSE Stick!MapAxis(f[i - 1], es[i])]
    BY <1>2
  <2> DEFINE g == [i \in 0 .. n + 1 |-> IF i = n + 1 THEN Stick!MapAxis(f[n], es[n + 1]) ELSE f[i]]
  <2>2. ASSUME NEW i \in 0 .. n + 1
        PROVE  g[i] = IF i = 0 THEN pose ELSE Stick!MapAxis(g[i - 1], es[i])
    <3>1. CASE i = n + 1
      <4>1. g[i - 1] = f[n]  BY <3>1
      <4> QED  BY <3>1, <4>1
    <3>2. CASE i \in 1 .. n
      <4>1. g[i] = f[i] /\ g[i - 1] = f[i - 1]  BY <3>2
      <4>2. f[i] = Stick!MapAxis(f[i - 1], es[i])  BY <2>1, <3>2
      <4> QED  BY <3>2, <4>1, <4>2
    <3>3. CASE i = 0
      <4>1. g[i] = f[i] /\ f[i] = pose  BY <2>1, <3>3
      <4> QED  BY <3>3, <4>1
    <3> QED  BY <3>1, <3>2, <3>3
  <2>3. g = [i \in 0 .. n + 1 |-> IF i = 0 THEN pose ELSE Stick!MapAxis(g[i - 1], es[i])]
    BY <2>2
  <2> HIDE DEF g
  <2>4. n + 1 \in Nat
    OBVIOUS
  <2> QED  BY <2>3, <2>4
<1>3. Len(es) \in T
  <2> HIDE DEF T
  <2> QED  BY <1>1, <1>2, SetInduction
<1>4. PICK f : f = [i \in 0 .. Len(es) |-> IF i = 0 THEN pose ELSE Stick!MapAxis(f[i - 1], es[i])]
  BY <1>3
<1> DEFINE h == CHOOSE g : g = [i \in 0 .. Len(es) |-> IF i = 0 THEN pose ELSE Stick!MapAxis(g[i - 1], es[i])]
<1>5. h = [i \in 0 .. Len(es) |-> IF i = 0 THEN pose ELSE Stick!MapAxis(h[i - 1], es[i])]
  BY <1>4
<1>6. Stick!MapAll(es) = h[Len(es)]
  BY DEF Stick!MapAll
<1> QED  BY <1>5, <1>6

\* A batch of events of any length.
LEMMA AllMoved ==
    ASSUME NEW es \in Seq(Event), pose \in [DOMAIN Coordinates -> Poses], assigned \in Assignments
    PROVE  Moved(Stick!MapAll(es), es, Len(es))
<1>0. Len(es) \in Nat
  OBVIOUS
<1>1. PICK f : /\ f = [i \in 0 .. Len(es) |-> IF i = 0 THEN pose ELSE Stick!MapAxis(f[i - 1], es[i])]
               /\ Stick!MapAll(es) = f[Len(es)]
  BY <1>0, MapsExist
<1> DEFINE T == {n \in Nat : n <= Len(es) => Moved(f[n], es, n)}
<1>2. 0 \in T
  <2>1. f[0] = pose
    BY <1>0, <1>1
  <2>2. Moved(pose, es, 0)
    BY DEF Moved
  <2> QED  BY <2>1, <2>2
<1>3. ASSUME NEW n \in Nat, n \in T PROVE n + 1 \in T
  <2>1. CASE n + 1 <= Len(es)
    <3>1. f[n + 1] = Stick!MapAxis(f[n], es[n + 1])
      BY <1>0, <1>1, <2>1
    <3>2. n \in 0 .. Len(es) - 1 /\ Moved(f[n], es, n)
      BY <1>0, <1>3, <2>1
    <3>3. Moved(f[n + 1], es, n + 1)
      BY <3>1, <3>2, MovedOn
    <3> QED  BY <3>3
  <2>2. CASE ~(n + 1 <= Len(es))
    BY <2>2
  <2> QED  BY <2>1, <2>2
<1>4. Len(es) \in T
  <2> HIDE DEF T
  <2> QED  BY <1>0, <1>2, <1>3, SetInduction
<1> QED  BY <1>0, <1>1, <1>4

\* Where an axis can be.
Places == Int \cup {Lowest[c] : c \in Codes}

\* What the joystick's variables hold.
StickTypes ==
    /\ position \in [Codes -> Places] /\ queue \in Seq(Event)
    /\ pose \in [DOMAIN Coordinates -> Poses] /\ assigned \in Assignments

\* The device is there and open while events wait, and open while it is read.
ReadyInv == (queue # <<>> => jsFd /\ present) /\ (jsPhase = "running" => jsFd)

\* Of the events of an axis the last one tells where it is.
LastInv ==
    \A k \in 1 .. Len(queue) :
        (\A l \in k + 1 .. Len(queue) : queue[l].code # queue[k].code) =>
            queue[k].value = position[queue[k].code]

\* A coordinate is where its axis is, unless events of that axis wait.
Waits(c) == \E k \in 1 .. Len(queue) : queue[k].code = c
PoseInv ==
    jsPhase = "running" /\ present /\ ~dropped =>
        \A i \in DOMAIN Coordinates :
            Stick!First(i) /\ i \notin jsOld /\ assigned[i] \in moved /\ ~Waits(assigned[i]) =>
                pose[i] = Stick!Normalize(assigned[i], position[assigned[i]])

\* The inductive invariant of the joystick.
StickInv == StickTypes /\ ReadyInv /\ LastInv /\ PoseInv

\* With nothing on its way the last event cannot be wrong.
LEMMA NothingLast == queue' = <<>> => LastInv'
<1> SUFFICES ASSUME queue' = <<>> PROVE LastInv'
  OBVIOUS
<1>1. Len(queue') = 0
  OBVIOUS
<1> QED  BY <1>1 DEF LastInv

\* The buffer when it is empty.
LEMMA NoEvents == <<>> \in Seq(Event)
OBVIOUS

\* The driver is opened and closed, and the device is taken away.
LEMMA StickEndsInv ==
    ASSUME StickInv, Stick!Open \/ Stick!Close \/ Stick!ReadFails \/ Stick!Unplug
    PROVE  StickInv'
<1> USE DEF Stick!device, Stick!driver
<1>1. CASE Stick!Open /\ present
  <2>1. queue' = <<>> /\ moved' = {} /\ position' = position /\ assigned' = assigned /\ pose' = Stick!Rest
    BY <1>1, Zenon DEF Stick!Open
  <2>2. ReadyInv'
    BY <1>1, Zenon DEF Stick!Open, ReadyInv
  <2>3. StickTypes'
    BY <2>1, NoEvents DEF StickInv, StickTypes, Stick!Rest, Poses
  <2>4. PoseInv'
    BY <2>1 DEF PoseInv
  <2> QED  BY <2>1, <2>2, <2>3, <2>4, NothingLast DEF StickInv
<1>2. CASE Stick!Open /\ ~present
  <2>1. UNCHANGED <<queue, position, assigned, pose>> /\ jsPhase' = "failed"
    BY <1>2, Zenon DEF Stick!Open
  <2>2. ReadyInv'
    BY <1>2, Zenon DEF Stick!Open, StickInv, ReadyInv
  <2>3. PoseInv'
    BY <2>1 DEF PoseInv
  <2> QED  BY <2>1, <2>2, <2>3 DEF StickInv, StickTypes, LastInv
<1>3. CASE Stick!Close \/ Stick!Unplug
  <2>1. queue' = <<>> /\ UNCHANGED <<position, assigned, pose>>
    BY <1>3 DEF Stick!Close, Stick!Unplug
  <2>2. ReadyInv'
    BY <1>3, Zenon DEF Stick!Close, Stick!Unplug, StickInv, ReadyInv
  <2>3. PoseInv'
    <3>1. jsPhase' = "closed" \/ ~present'
      BY <1>3, Zenon DEF Stick!Close, Stick!Unplug
    <3> QED  BY <3>1 DEF PoseInv
  <2> QED  BY <2>1, <2>2, <2>3, NoEvents, NothingLast DEF StickInv, StickTypes
<1>4. CASE Stick!ReadFails
  <2>1. UNCHANGED <<queue, position, assigned, pose, jsFd, present>> /\ jsPhase' = "ending"
    BY <1>4 DEF Stick!ReadFails
  <2> QED  BY <2>1 DEF StickInv, StickTypes, ReadyInv, LastInv, PoseInv
<1> QED  BY <1>1, <1>2, <1>3, <1>4

\* A poll that times out, and a step of another driver.
LEMMA TimeoutInv == ASSUME StickInv, Stick!Timeout \/ UNCHANGED joyVars PROVE StickInv'
<1>1. UNCHANGED <<queue, position, assigned, pose, jsFd, present, jsPhase, dropped, jsOld, moved>>
  BY DEF Stick!Timeout, Stick!device, joyVars
<1>2. StickTypes' /\ LastInv'
  BY <1>1 DEF StickInv, StickTypes, LastInv
<1>3. ReadyInv'
  BY <1>1 DEF StickInv, ReadyInv
<1>4. PoseInv'
  BY <1>1 DEF StickInv, PoseInv, Waits, Stick!First
<1> QED  BY <1>2, <1>3, <1>4 DEF StickInv

\* An axis moves, and its event is the last one.
LEMMA MoveInv == ASSUME StickInv, Stick!Move PROVE StickInv'
<1>a. PICK c \in Codes : \E w \in Lowest[c] .. Highest[c] :
         /\ position' = [position EXCEPT ![c] = w]
         /\ IF ~jsFd THEN UNCHANGED <<queue, dropped, moved>>
            ELSE /\ moved' = moved \cup {c}
                 /\ IF Len(queue) = KernelBuffer
                      THEN queue' = <<[code |-> c, value |-> w]>> /\ dropped' = TRUE
                      ELSE queue' = Append(queue, [code |-> c, value |-> w]) /\ UNCHANGED dropped
  BY Zenon DEF Stick!Move
<1>b. PICK v \in Lowest[c] .. Highest[c] :
         /\ position' = [position EXCEPT ![c] = v]
         /\ IF ~jsFd THEN UNCHANGED <<queue, dropped, moved>>
            ELSE /\ moved' = moved \cup {c}
                 /\ IF Len(queue) = KernelBuffer
                      THEN queue' = <<[code |-> c, value |-> v]>> /\ dropped' = TRUE
                      ELSE queue' = Append(queue, [code |-> c, value |-> v]) /\ UNCHANGED dropped
  BY <1>a
<1>1. v \in Int
  OBVIOUS
<1>2. UNCHANGED <<present, jsFd, pose, jsPhase, assigned, jsOld>>
  BY DEF Stick!Move, Stick!driver
<1>p. present
  BY DEF Stick!Move
<1> DEFINE e == [code |-> c, value |-> v]
<1>3. e \in Event /\ e.code = c /\ e.value = v
  BY <1>1 DEF Event
<1>4. queue \in Seq(Event) /\ Len(queue) \in Nat /\ position' \in [Codes -> Places]
      /\ position'[c] = v /\ \A d \in Codes \ {c} : position'[d] = position[d]
  BY <1>1, <1>b DEF StickInv, StickTypes, Places
<1> HIDE DEF e
<1>5. CASE ~jsFd
  <2>1. queue = <<>> /\ jsPhase # "running"
    BY <1>5 DEF StickInv, ReadyInv
  <2>2. queue' = <<>>
    BY <1>b, <1>5, <2>1
  <2>3. ReadyInv' /\ PoseInv'
    BY <1>2, <2>1, <2>2 DEF ReadyInv, PoseInv
  <2> QED  BY <1>2, <1>4, <2>2, <2>3, NoEvents, NothingLast DEF StickInv, StickTypes
<1>6. CASE jsFd /\ Len(queue) = KernelBuffer
  <2>1. queue' = <<e>>
    BY <1>b, <1>6 DEF e
  <2>d. dropped'
    BY <1>b, <1>6
  <2>2. queue' \in Seq(Event) /\ Len(queue') = 1 /\ queue'[1] = e
    BY <1>3, <2>1
  <2>3. LastInv'
    BY <1>3, <1>4, <2>2 DEF LastInv
  <2>4. ReadyInv'
    BY <1>2, <1>6, <1>p DEF ReadyInv
  <2> QED  BY <1>2, <1>4, <2>2, <2>d, <2>3, <2>4 DEF StickInv, StickTypes, PoseInv
<1>7. CASE jsFd /\ Len(queue) # KernelBuffer
  <2>1. queue' = Append(queue, e) /\ moved' = moved \cup {c}
    BY <1>b, <1>7 DEF e
  <2>d. dropped' = dropped
    BY <1>b, <1>7
  <2>2. /\ queue' \in Seq(Event) /\ Len(queue') = Len(queue) + 1 /\ queue'[Len(queue) + 1] = e
        /\ \A k \in 1 .. Len(queue) : queue'[k] = queue[k] /\ queue[k] \in Event
    BY <1>3, <1>4, <2>1
  <2>3. LastInv'
    <3> SUFFICES ASSUME NEW k \in 1 .. Len(queue) + 1,
                        \A l \in k + 1 .. Len(queue) + 1 : queue'[l].code # queue'[k].code
                 PROVE  queue'[k].value = position'[queue'[k].code]
      BY <2>2 DEF LastInv
    <3>1. CASE k = Len(queue) + 1
      BY <1>3, <1>4, <2>2, <3>1
    <3>2. CASE k \in 1 .. Len(queue)
      <4>1. queue'[k] = queue[k] /\ queue[k].code \in Codes /\ queue[k].code # c
        <5>1. queue'[k] = queue[k] /\ queue[k] \in Event
          BY <2>2, <3>2
        <5>2. Len(queue) + 1 \in k + 1 .. Len(queue) + 1
          BY <1>4, <3>2
        <5> QED  BY <1>3, <2>2, <5>1, <5>2 DEF Event
      <4>2. \A l \in k + 1 .. Len(queue) : queue[l].code # queue[k].code
        BY <1>4, <2>2, <3>2
      <4>3. queue[k].value = position[queue[k].code]
        BY <3>2, <4>2 DEF StickInv, LastInv
      <4> QED  BY <1>4, <4>1, <4>3
    <3> QED  BY <1>4, <3>1, <3>2
  <2>4. PoseInv'
    <3> SUFFICES ASSUME jsPhase = "running", ~dropped, NEW i \in DOMAIN Coordinates,
                        Stick!First(i), i \notin jsOld, assigned[i] \in moved \cup {c}, ~Waits(assigned[i])'
                 PROVE  pose[i] = Stick!Normalize(assigned[i], position'[assigned[i]])
      BY <1>2, <2>1, <2>d DEF PoseInv, Stick!First
    <3>1. assigned[i] # c /\ ~Waits(assigned[i])
      BY <1>2, <1>3, <1>4, <2>2 DEF Waits
    <3>2. pose[i] = Stick!Normalize(assigned[i], position[assigned[i]])
      BY <1>p, <3>1 DEF StickInv, PoseInv
    <3>3. assigned[i] \in Codes
      BY DEF StickInv, StickTypes, Assignments, Stick!First
    <3> QED  BY <1>4, <3>1, <3>2, <3>3
  <2>5. ReadyInv'
    BY <1>2, <1>7, <1>p DEF ReadyInv
  <2> QED  BY <1>2, <1>4, <2>2, <2>3, <2>4, <2>5 DEF StickInv, StickTypes
<1> QED  BY <1>5, <1>6, <1>7

\* The user assigns an axis: what may change is marked.
LEMMA AssignInv == ASSUME StickInv, Stick!Assign PROVE StickInv'
<1>1. PICK i \in DOMAIN Coordinates, c \in Codes \cup {Stick!Unused} :
         /\ assigned' = [assigned EXCEPT ![i] = c]
         /\ jsOld' = jsOld \cup {j \in DOMAIN Coordinates : j >= i}
  BY DEF Stick!Assign
<1>2. UNCHANGED <<queue, position, pose, jsFd, present, jsPhase, dropped, moved>>
  BY DEF Stick!Assign, Stick!device, Stick!driver
<1>3. StickTypes' /\ LastInv'
  BY <1>1, <1>2 DEF StickInv, StickTypes, LastInv, Assignments
<1>4. ReadyInv'
  BY <1>2 DEF StickInv, ReadyInv
<1>5. PoseInv'
  <2> SUFFICES ASSUME jsPhase = "running", present, ~dropped, NEW j \in DOMAIN Coordinates,
                      Stick!First(j)', j \notin jsOld', assigned'[j] \in moved, ~Waits(assigned'[j])
               PROVE  pose[j] = Stick!Normalize(assigned'[j], position[assigned'[j]])
    BY <1>2 DEF PoseInv, Waits
  <2>1. DOMAIN Coordinates = 1 .. Len(Coordinates) /\ Len(Coordinates) \in Nat
    BY AxesAssumption DEF AxesAssumption
  <2>2. j < i /\ j \notin jsOld
    BY <1>1, <2>1
  <2>3. \A h \in 1 .. j : assigned'[h] = assigned[h]
    BY <1>1, <2>1, <2>2 DEF StickInv, StickTypes, Assignments
  <2>4. assigned'[j] = assigned[j] /\ Stick!First(j)
    BY <2>1, <2>2, <2>3 DEF Stick!First
  <2> QED  BY <2>2, <2>4 DEF StickInv, PoseInv
<1> QED  BY <1>3, <1>4, <1>5 DEF StickInv

\* A batch is read: the pose is where its last events put it.
LEMMA ReadEventsInv == ASSUME StickInv, Stick!ReadEvents PROVE StickInv'
<1>1. PICK n \in Nat : n <= Len(queue) /\ n = IF Len(queue) < Batch THEN Len(queue) ELSE Batch
  <2>1. Len(queue) \in Nat /\ Batch \in Nat
    BY AxesAssumption DEF AxesAssumption, StickInv, StickTypes
  <2> QED  BY <2>1
<1> DEFINE es == SubSeq(queue, 1, n)
           p == Stick!MapAll(es)
<1>2. /\ jsPhase = "running" /\ present /\ queue # <<>>
      /\ pose' = p /\ queue' = SubSeq(queue, n + 1, Len(queue))
      /\ jsOld' = jsOld \ {i \in DOMAIN Coordinates : \E k \in DOMAIN es : es[k].code = assigned[i]}
      /\ UNCHANGED <<position, present, dropped, moved, jsFd, jsPhase, assigned>>
  BY <1>1, Zenon DEF Stick!ReadEvents
<1>3. queue \in Seq(Event) /\ Len(queue) \in Nat
  BY DEF StickInv, StickTypes
<1>4. /\ es \in Seq(Event) /\ Len(es) = n /\ DOMAIN es = 1 .. n
      /\ \A k \in 1 .. n : es[k] = queue[k]
  BY <1>1, <1>3
<1>5. /\ queue' \in Seq(Event) /\ Len(queue') = Len(queue) - n
      /\ \A k \in 1 .. Len(queue) - n : queue'[k] = queue[n + k]
  BY <1>1, <1>2, <1>3
<1>6. Moved(p, es, n)
  BY <1>4, AllMoved DEF StickInv, StickTypes
<1> HIDE DEF p, es
<1>7. StickTypes'
  BY <1>2, <1>5, <1>6 DEF StickInv, StickTypes, Moved
<1>8. ReadyInv'
  BY <1>2 DEF StickInv, ReadyInv
<1>9. LastInv'
  <2> SUFFICES ASSUME NEW k \in 1 .. Len(queue) - n,
                      \A l \in k + 1 .. Len(queue) - n : queue'[l].code # queue'[k].code
               PROVE  queue'[k].value = position[queue'[k].code]
    BY <1>2, <1>5 DEF LastInv
  <2>1. n + k \in 1 .. Len(queue) /\ queue'[k] = queue[n + k]
    <3>1. n + k \in 1 .. Len(queue)
      BY <1>1, <1>3
    <3> QED  BY <1>5, <3>1
  <2>2. ASSUME NEW l \in n + k + 1 .. Len(queue) PROVE queue[l].code # queue[n + k].code
    <3>1. l - n \in k + 1 .. Len(queue) - n /\ l - n \in 1 .. Len(queue) - n /\ n + (l - n) = l
      BY <1>1, <1>3
    <3> QED  BY <1>5, <2>1, <3>1
  <2> QED  BY <2>1, <2>2 DEF StickInv, LastInv
<1>10. PoseInv'
  <2> SUFFICES ASSUME ~dropped, NEW i \in DOMAIN Coordinates, Stick!First(i), i \notin jsOld',
                      assigned[i] \in moved, ~Waits(assigned[i])'
               PROVE  p[i] = Stick!Normalize(assigned[i], position[assigned[i]])
    BY <1>2 DEF PoseInv, Waits, Stick!First
  <2>1. ASSUME NEW l \in n + 1 .. Len(queue) PROVE queue[l].code # assigned[i]
    <3>1. l - n \in 1 .. Len(queue) - n /\ n + (l - n) = l
      BY <1>1, <1>3
    <3>2. l - n \in 1 .. Len(queue') /\ queue'[l - n] = queue[l]
      BY <1>5, <3>1
    <3>3. queue'[l - n].code # assigned'[i]
      BY <3>2 DEF Waits
    <3> QED  BY <1>2, <3>2, <3>3
  <2>2. CASE \A k \in 1 .. n : es[k].code # assigned[i]
    <3>1. p[i] = pose[i]
      BY <1>6, <2>2 DEF Moved
    <3>2. i \notin jsOld
      BY <1>2, <1>4, <2>2
    <3>3. ~Waits(assigned[i])
      <4> SUFFICES ASSUME NEW k \in 1 .. Len(queue) PROVE queue[k].code # assigned[i]
        BY DEF Waits
      <4>1. CASE k \in 1 .. n
        BY <1>4, <2>2, <4>1
      <4>2. CASE k \in n + 1 .. Len(queue)
        BY <2>1, <4>2
      <4> QED  BY <1>1, <1>3, <4>1, <4>2
    <3> QED  BY <1>2, <3>1, <3>2, <3>3 DEF StickInv, PoseInv
  <2>3. CASE \E k \in 1 .. n : es[k].code = assigned[i]
    <3> DEFINE T == {n - k : k \in {h \in 1 .. n : es[h].code = assigned[i]}}
    <3>1. T \subseteq Nat /\ T # {}
      <4>1. PICK k \in 1 .. n : es[k].code = assigned[i]
        BY <2>3
      <4>2. n - k \in T
        BY <4>1
      <4>3. \A h \in 1 .. n : n - h \in Nat
        BY <1>1
      <4> QED  BY <4>2, <4>3
    <3>2. PICK d \in T : \A h \in T : d <= h
      BY <3>1, Least
    <3>3. PICK k \in 1 .. n : es[k].code = assigned[i] /\ d = n - k
      BY <3>2
    <3>4. ASSUME NEW l \in k + 1 .. n PROVE es[l].code # assigned[i]
      <4>1. SUFFICES ASSUME es[l].code = assigned[i] PROVE FALSE
        OBVIOUS
      <4>2. l \in 1 .. n /\ n - l \in T
        BY <1>1, <3>3, <4>1
      <4>3. d <= n - l
        BY <3>2, <4>2
      <4> QED  BY <1>1, <3>3, <4>3
    <3>5. p[i] = Stick!Normalize(assigned[i], es[k].value)
      BY <1>6, <3>3, <3>4 DEF Moved
    <3>6. k \in 1 .. Len(queue) /\ es[k] = queue[k]
      BY <1>1, <1>3, <1>4, <3>3
    <3>7. ASSUME NEW l \in k + 1 .. Len(queue) PROVE queue[l].code # queue[k].code
      <4>1. CASE l \in k + 1 .. n
        <5>1. l \in 1 .. n
          BY <1>1, <3>3, <4>1
        <5> QED  BY <1>4, <3>3, <3>4, <3>6, <4>1, <5>1
      <4>2. CASE l \in n + 1 .. Len(queue)
        BY <2>1, <3>3, <3>6, <4>2
      <4> QED  BY <1>1, <1>3, <3>3, <4>1, <4>2
    <3>8. queue[k].value = position[queue[k].code]
      BY <3>6, <3>7 DEF StickInv, LastInv
    <3> QED  BY <3>3, <3>5, <3>6, <3>8
  <2> QED  BY <2>2, <2>3
<1> QED  BY <1>7, <1>8, <1>9, <1>10 DEF StickInv

\* Every step of the joystick keeps its invariant.
LEMMA StickKeeps == StickInv /\ (Stick!Next \/ UNCHANGED joyVars) => StickInv'
<1> SUFFICES ASSUME StickInv, Stick!Next \/ UNCHANGED joyVars PROVE StickInv'
  OBVIOUS
<1> QED  BY StickEndsInv, ReadEventsInv, TimeoutInv, MoveInv, AssignInv DEF Stick!Next

\* No event waits for a driver that is not opened yet.
LEMMA StickBegins == Stick!Init => StickInv
<1> SUFFICES ASSUME Stick!Init PROVE StickInv
  OBVIOUS
<1>1. /\ position = [c \in Codes |-> Lowest[c]] /\ queue = <<>> /\ jsPhase = "closed"
      /\ assigned \in Assignments /\ pose = Stick!Rest
  BY Zenon DEF Stick!Init, Assignments
<1>2. Len(queue) = 0 /\ queue \in Seq(Event)
  BY <1>1
<1>3. StickTypes
  BY <1>1, <1>2 DEF StickTypes, Places, Poses, Stick!Rest
<1>4. ReadyInv /\ LastInv /\ PoseInv
  BY <1>1, <1>2 DEF ReadyInv, LastInv, PoseInv
<1> QED  BY <1>3, <1>4 DEF StickInv

\* When no event waits the joystick's part of the property follows.
LEMMA StickSound == StickInv => Stick!PoseOfAxes
<1> SUFFICES ASSUME StickInv, jsPhase = "running", queue = <<>>, present, ~dropped,
       NEW i \in DOMAIN Coordinates,
                    Stick!First(i), i \notin jsOld, assigned[i] \in moved
             PROVE  pose[i] = Stick!Normalize(assigned[i], position[assigned[i]])
  BY DEF Stick!PoseOfAxes
<1>1. Len(queue) = 0
  OBVIOUS
<1>2. ~Waits(assigned[i])
  BY <1>1 DEF Waits
<1> QED  BY <1>2 DEF StickInv, PoseInv

\* A buffer of the kernel holds an event, and an axis has a range, which normalize
\* divides by (joy.c:53-55).
ASSUME RangesAssumption ==
    /\ Scale \in Nat /\ KernelBuffer \in Nat \ {0}
    /\ \A c \in Codes : Lowest[c] \in Int /\ Highest[c] \in Int /\ Lowest[c] < Highest[c]

\* Division of natural numbers.
LEMMA Quotient ==
    ASSUME NEW d \in Nat \ {0}, NEW a \in Nat, NEW m \in Nat, a <= m * d
    PROVE  a \div d \in 0 .. m
<1>1. a \div d \in Int /\ a % d \in 0 .. d - 1 /\ a = d * (a \div d) + (a % d)
  OBVIOUS
<1> DEFINE q == a \div d
<1>2. q \in Int
  BY <1>1
<1>3. d * q <= a /\ a < d * (q + 1)
  BY <1>1
<1> HIDE DEF q
<1>4. q <= m
  <2> SUFFICES ASSUME m + 1 <= q PROVE FALSE
    BY <1>2
  <2>1. d * (m + 1) <= d * q
    BY <1>2
  <2> QED  BY <1>2, <1>3, <2>1
<1>5. q >= 0
  <2> SUFFICES ASSUME q + 1 <= 0 PROVE FALSE
    BY <1>2
  <2>1. d * (q + 1) <= 0
    BY <1>2
  <2> QED  BY <1>2, <1>3, <2>1
<1> QED  BY <1>2, <1>4, <1>5 DEF q

\* A product is no larger than that of the largest factor.
LEMMA Times ==
    ASSUME NEW m \in Nat, NEW n \in Int, NEW d \in Nat, -d <= n, n <= d
    PROVE  m * n <= m * d /\ -(m * n) <= m * d /\ m * n \in Int
<1>1. m * n <= m * d
 OBVIOUS
<1>2. m * (-n) <= m * d
 OBVIOUS
<1>3. m * (-n) = -(m * n)
 OBVIOUS
<1> QED BY <1>1, <1>2, <1>3

\* Division towards zero keeps a product of n in -d .. d within the other factor.
LEMMA InReach ==
    ASSUME NEW d \in Nat \ {0}, NEW m \in Nat, NEW n \in Int, -d <= n, n <= d
    PROVE  Stick!Truncate(m * n, d) \in -m .. m
<1> DEFINE a == m * n
<1>1. a \in Int /\ a <= m * d /\ -a <= m * d
  BY Times
<1> HIDE DEF a
<1>2. CASE a >= 0
  <2>1. a \div d \in 0 .. m
    BY <1>1, <1>2, Quotient
  <2>2. Stick!Truncate(a, d) = a \div d
    BY <1>2 DEF Stick!Truncate
  <2> QED  BY <2>1, <2>2 DEF a
<1>3. CASE ~(a >= 0)
  <2>1. -a \in Nat
    BY <1>1, <1>3
  <2>2. (-a) \div d \in 0 .. m
    BY <1>1, <2>1, Quotient
  <2>3. Stick!Truncate(a, d) = -((-a) \div d)
    BY <1>3 DEF Stick!Truncate
  <2> QED  BY <2>2, <2>3 DEF a
<1> QED  BY <1>2, <1>3

\* What an event tells is in the range of its axis, and what normalize makes of it
\* is in the range of a coordinate.
ToldAxis == {e \in Event : e.value \in Lowest[e.code] .. Highest[e.code]}
Span == -Scale .. Scale

LEMMA Normalized == ASSUME NEW e \in ToldAxis PROVE Stick!Normalize(e.code, e.value) \in Span
<1> DEFINE c == e.code
           d == Highest[c] - Lowest[c]
           n == 2 * (e.value - Lowest[c]) - (Highest[c] - Lowest[c])
<1>1. c \in Codes /\ e.value \in Lowest[c] .. Highest[c]
  BY DEF ToldAxis, Event
<1>2. Lowest[c] \in Int /\ Highest[c] \in Int /\ Lowest[c] < Highest[c] /\ Scale \in Nat
  BY <1>1, RangesAssumption
<1>3. d \in Nat \ {0} /\ n \in Int /\ -d <= n /\ n <= d
  BY <1>1, <1>2
<1>4. Stick!Normalize(e.code, e.value) = Stick!Truncate(Scale * n, d)
  BY Zenon DEF Stick!Normalize
<1> HIDE DEF n, d
<1> QED  BY <1>2, <1>3, <1>4, InReach DEF Span

\* MapAll leaves a coordinate where it was or where an event puts it.
LEMMA AllInSpan ==
    ASSUME NEW es \in Seq(ToldAxis), pose \in [DOMAIN Coordinates -> Span]
    PROVE  Stick!MapAll(es) \in [DOMAIN Coordinates -> Span]
<1>0. Len(es) \in Nat
  OBVIOUS
<1>1. PICK f : /\ f = [i \in 0 .. Len(es) |-> IF i = 0 THEN pose ELSE Stick!MapAxis(f[i - 1], es[i])]
               /\ Stick!MapAll(es) = f[Len(es)]
  BY <1>0, MapsExist
<1> DEFINE T == {n \in Nat : n <= Len(es) => f[n] \in [DOMAIN Coordinates -> Span]}
<1>2. 0 \in T
  <2>1. f[0] = pose
    BY <1>0, <1>1
  <2> QED  BY <2>1
<1>3. ASSUME NEW n \in Nat, n \in T PROVE n + 1 \in T
  <2>1. CASE n + 1 <= Len(es)
    <3>1. f[n + 1] = Stick!MapAxis(f[n], es[n + 1])
      BY <1>0, <1>1, <2>1
    <3>2. f[n] \in [DOMAIN Coordinates -> Span] /\ es[n + 1] \in ToldAxis
      BY <1>0, <1>3, <2>1
    <3>3. Stick!Normalize(es[n + 1].code, es[n + 1].value) \in Span
      BY <3>2, Normalized
    <3>4. f[n + 1] \in [DOMAIN Coordinates -> Span]
      BY <3>1, <3>2, <3>3 DEF Stick!MapAxis
    <3> QED  BY <3>4
  <2>2. CASE ~(n + 1 <= Len(es))
    BY <2>2
  <2> QED  BY <2>1, <2>2
<1>4. Len(es) \in T
  <2> HIDE DEF T
  <2> QED  BY <1>0, <1>2, <1>3, SetInduction
<1> QED  BY <1>0, <1>1, <1>4

StickPhases == {"closed", "running", "ending", "failed"}

\* The buffer holds what it has room for, of axes in their ranges, and the poses
\* are in theirs.
SpanInv ==
    /\ jsPhase \in StickPhases
    /\ queue \in Seq(ToldAxis) /\ Len(queue) <= KernelBuffer
    /\ pose \in [DOMAIN Coordinates -> Span] /\ handed \in [DOMAIN Coordinates -> Span]

\* The buffer when it is empty.
LEMMA EmptyFits == <<>> \in Seq(ToldAxis) /\ Len(<<>>) <= KernelBuffer
<1>1. Len(<<>>) = 0
  OBVIOUS
<1> QED  BY <1>1, RangesAssumption

\* The pose before any event.
LEMMA AtRest == Stick!Rest \in [DOMAIN Coordinates -> Span]
<1>1. 0 \in Span
  BY RangesAssumption DEF Span
<1> QED  BY <1>1 DEF Stick!Rest

\* No event waits yet.
LEMMA SpanBegins == Stick!Init => SpanInv
<1> SUFFICES ASSUME Stick!Init PROVE SpanInv
  OBVIOUS
<1>1. jsPhase = "closed" /\ queue = <<>> /\ pose = Stick!Rest /\ handed = Stick!Rest
  BY Zenon DEF Stick!Init
<1> QED  BY <1>1, EmptyFits, AtRest, Zenon DEF SpanInv, StickPhases

\* A batch takes events away and leaves the pose in its range; a full buffer is emptied.
LEMMA SpanKeeps ==
    ASSUME SpanInv, Stick!Next \/ UNCHANGED joyVars
    PROVE  SpanInv'
<1>1. CASE Stick!Open \/ Stick!Close \/ Stick!ReadFails \/ Stick!Unplug
  <2>1. /\ jsPhase' \in {jsPhase, "running", "failed", "closed", "ending"}
        /\ queue' \in {queue, <<>>} /\ pose' \in {pose, Stick!Rest} /\ handed' = handed
    BY <1>1, Zenon DEF Stick!Open, Stick!Close, Stick!ReadFails, Stick!Unplug, Stick!device, Stick!driver
  <2>2. queue' = queue \/ queue' = <<>>
    BY <2>1, Zenon
  <2>3. queue' \in Seq(ToldAxis) /\ Len(queue') <= KernelBuffer
    BY <2>2, EmptyFits, Zenon DEF SpanInv
  <2> QED  BY <2>1, <2>3, AtRest, Zenon DEF SpanInv, StickPhases
<1>2. CASE Stick!Timeout \/ Stick!Assign \/ UNCHANGED joyVars
  <2>1. UNCHANGED <<jsPhase, queue, pose>> /\ handed' \in {handed, pose}
    BY <1>2, Zenon DEF Stick!Timeout, Stick!Assign, Stick!device, Stick!driver, joyVars
  <2> QED  BY <2>1, Zenon DEF SpanInv
<1>3. CASE Stick!ReadEvents
  <2>1. PICK n : /\ n = IF Len(queue) < Batch THEN Len(queue) ELSE Batch
                 /\ pose' = Stick!MapAll(SubSeq(queue, 1, n)) /\ handed' = pose'
                 /\ queue' = SubSeq(queue, n + 1, Len(queue))
    BY <1>3, Zenon DEF Stick!ReadEvents
  <2>2. queue \in Seq(ToldAxis) /\ Len(queue) \in Nat /\ n \in Nat /\ n <= Len(queue) /\ Len(queue) <= KernelBuffer
    BY <2>1, AxesAssumption DEF SpanInv
  <2>3. SubSeq(queue, 1, n) \in Seq(ToldAxis)
    BY <2>2
  <2>4. queue' \in Seq(ToldAxis) /\ Len(queue') = Len(queue) - n
    BY <2>1, <2>2
  <2>5. pose' \in [DOMAIN Coordinates -> Span]
    BY <2>1, <2>3, AllInSpan DEF SpanInv
  <2>6. Len(queue') <= KernelBuffer
    BY <2>2, <2>4, RangesAssumption
  <2>7. jsPhase' = jsPhase
    BY <1>3, Zenon DEF Stick!ReadEvents
  <2> QED  BY <2>1, <2>4, <2>5, <2>6, <2>7, Zenon DEF SpanInv
<1>4. CASE Stick!Move
  <2>1. PICK c \in Codes : \E v \in Lowest[c] .. Highest[c] :
           IF ~jsFd THEN UNCHANGED <<queue, dropped, moved>>
           ELSE /\ moved' = moved \cup {c}
                /\ IF Len(queue) = KernelBuffer
                     THEN queue' = <<[code |-> c, value |-> v]>> /\ dropped' = TRUE
                     ELSE queue' = Append(queue, [code |-> c, value |-> v]) /\ UNCHANGED dropped
    BY <1>4, Zenon DEF Stick!Move
  <2>2. PICK v \in Lowest[c] .. Highest[c] :
           IF ~jsFd THEN UNCHANGED <<queue, dropped, moved>>
           ELSE /\ moved' = moved \cup {c}
                /\ IF Len(queue) = KernelBuffer
                     THEN queue' = <<[code |-> c, value |-> v]>> /\ dropped' = TRUE
                     ELSE queue' = Append(queue, [code |-> c, value |-> v]) /\ UNCHANGED dropped
    BY <2>1
  <2> DEFINE e == [code |-> c, value |-> v]
  <2>3. e \in ToldAxis
    BY RangesAssumption DEF ToldAxis, Event
  <2>4. UNCHANGED <<jsPhase, pose, handed>>
    BY <1>4, Zenon DEF Stick!Move, Stick!driver
  <2>5. queue' = queue \/ queue' = <<e>> \/ (Len(queue) # KernelBuffer /\ queue' = Append(queue, e))
    BY <2>2, Zenon
  <2> HIDE DEF e
  <2>6. queue \in Seq(ToldAxis) /\ Len(queue) \in Nat /\ Len(queue) <= KernelBuffer
    BY DEF SpanInv
  <2>7. CASE queue' = queue
    BY <2>4, <2>7, Zenon DEF SpanInv
  <2>8. CASE queue' = <<e>>
    <3>1. queue' \in Seq(ToldAxis) /\ Len(queue') = 1
      BY <2>3, <2>8
    <3> QED  BY <2>4, <3>1, RangesAssumption DEF SpanInv
  <2>9. CASE Len(queue) # KernelBuffer /\ queue' = Append(queue, e)
    <3>1. queue' \in Seq(ToldAxis) /\ Len(queue') = Len(queue) + 1
      BY <2>3, <2>6, <2>9, SeqAppend
    <3> QED  BY <2>4, <2>6, <2>9, <3>1, RangesAssumption DEF SpanInv
  <2> QED  BY <2>5, <2>7, <2>8, <2>9
<1> QED  BY <1>1, <1>2, <1>3, <1>4, Zenon DEF Stick!Next

\* The joystick's variables keep their types.
LEMMA StickTyped == StickInv /\ SpanInv => Stick!TypeOK
<1> SUFFICES ASSUME StickInv, SpanInv PROVE Stick!TypeOK
  OBVIOUS
<1>1. \A i \in DOMAIN Coordinates : pose[i] \in -Scale .. Scale /\ handed[i] \in -Scale .. Scale
  BY DEF SpanInv, Span
<1> QED  BY <1>1, Zenon DEF StickInv, ReadyInv, SpanInv, StickPhases, Stick!TypeOK

-----------------------------------------------------------------------
(* The choice of a webcam's format *)

CONSTANTS WfWebcams, WfChoices, WfOpenings

WebcamSizes == [size : Nat, kind : {"discrete", "range", "other"}, intervals : Seq(Nat \X Nat)]
WebcamFormats == [fourcc : STRING, sizes : Seq(WebcamSizes)]

\* A webcam has each format once, and a range has ends.
ASSUME OffersAssumption ==
    \A cam \in WfWebcams :
        /\ cam \in Seq(WebcamFormats)
        /\ \A i, j \in 1 .. Len(cam) : cam[i].fourcc = cam[j].fourcc => i = j
        /\ \A i \in 1 .. Len(cam) : \A k \in 1 .. Len(cam[i].sizes) :
              cam[i].sizes[k].kind = "range" => cam[i].sizes[k].intervals # <<>>

VARIABLES webcam, dialog, fmt, res, prefs, wfAsked, chosen, choices, openings

formatVars == <<webcam, dialog, fmt, res, prefs, wfAsked, chosen, choices, openings>>

Formats == INSTANCE WebcamFormats WITH
      Webcams <- WfWebcams, MaxChoices <- WfChoices, MaxOpenings <- WfOpenings, asked <- wfAsked

\* Of a sequence put together from parts holds what holds of none and is kept by each part.
LEMMA FlattenInduction ==
    ASSUME NEW U, NEW parts \in Seq(Seq(U)), NEW T, <<0, <<>>>> \in T,
           \A n \in 1 .. Len(parts) : \A s \in Seq(U) : <<n - 1, s>> \in T => <<n, s \o parts[n]>> \in T
    PROVE  <<Len(parts), Formats!FlattenSeq(parts)>> \in T /\ Formats!FlattenSeq(parts) \in Seq(U)
<1>0. Len(parts) \in Nat /\ \A n \in 1 .. Len(parts) : parts[n] \in Seq(U)
  <2> DEFINE V == Seq(U)
  <2> HIDE DEF V
  <2>1. parts \in Seq(V) => Len(parts) \in Nat /\ \A n \in 1 .. Len(parts) : parts[n] \in V
    OBVIOUS
  <2> QED  BY <2>1 DEF V
<1>1. CASE Len(parts) = 0
  <2>1. Formats!FlattenSeq(parts) = parts /\ parts = <<>>
    BY <1>1 DEF Formats!FlattenSeq
  <2> QED  BY <1>1, <2>1
<1>2. CASE Len(parts) # 0
  <2> DEFINE Step(g, i) == IF i = 1 THEN parts[i] ELSE g[i - 1] \o parts[i]
             E == {k \in Nat : k = 0 \/ \E f : f = [i \in 1 .. k |-> Step(f, i)]}
  <2>1. 0 \in E
    OBVIOUS
  <2>2. ASSUME NEW k \in Nat, k \in E PROVE k + 1 \in E
    <3>1. CASE k = 0
      <4> DEFINE f == [i \in 1 .. 1 |-> parts[i]]
      <4>1. \A i \in 1 .. 1 : f[i] = Step(f, i)
        OBVIOUS
      <4>2. f = [i \in 1 .. 1 |-> f[i]]
        OBVIOUS
      <4> HIDE DEF f, Step
      <4>3. f = [i \in 1 .. 1 |-> Step(f, i)]
        BY <4>1, <4>2
      <4> QED  BY <3>1, <4>3
    <3>2. CASE k # 0
      <4>1. PICK f : f = [i \in 1 .. k |-> Step(f, i)]
        BY <2>2, <3>2
      <4> DEFINE g == [i \in 1 .. k + 1 |-> IF i = k + 1 THEN Step(f, k + 1) ELSE f[i]]
      <4>2. ASSUME NEW i \in 1 .. k + 1 PROVE g[i] = Step(g, i)
        <5>1. CASE i = k + 1
          <6>1. g[i] = Step(f, i) /\ i # 1 /\ g[i - 1] = f[i - 1]
            BY <3>2, <5>1
          <6> HIDE DEF g
          <6> QED  BY <6>1
        <5>2. CASE i \in 2 .. k
          <6>1. g[i] = f[i] /\ g[i - 1] = f[i - 1] /\ i # 1
            BY <5>2
          <6>2. f[i] = Step(f, i)
            <7> HIDE DEF Step
            <7>1. i \in 1 .. k
              BY <5>2
            <7> QED  BY <4>1, <7>1
          <6> HIDE DEF g
          <6> QED  BY <6>1, <6>2
        <5>3. CASE i = 1
          <6>1. g[1] = f[1]
            BY <3>2
          <6>2. f[1] = Step(f, 1)
            <7> HIDE DEF Step
            <7>1. 1 \in 1 .. k
              BY <3>2
            <7> QED  BY <4>1, <7>1
          <6> HIDE DEF g
          <6> QED  BY <5>3, <6>1, <6>2
        <5> QED  BY <5>1, <5>2, <5>3
      <4>3. g = [i \in 1 .. k + 1 |-> g[i]]
        OBVIOUS
      <4> HIDE DEF g, Step
      <4>4. g = [i \in 1 .. k + 1 |-> Step(g, i)]
        BY <4>2, <4>3
      <4> QED  BY <4>4
    <3> QED  BY <3>1, <3>2
  <2>3. Len(parts) \in E
    <3> HIDE DEF E
    <3> QED  BY <1>0, <2>1, <2>2, SetInduction
  <2>4. \E f : f = [i \in 1 .. Len(parts) |-> Step(f, i)]
    BY <1>2, <2>3
  <2> DEFINE h == CHOOSE f : f = [i \in 1 .. Len(parts) |-> Step(f, i)]
  <2>5. h = [i \in 1 .. Len(parts) |-> Step(h, i)]
    BY <2>4
  <2>6. Formats!FlattenSeq(parts) = h[Len(parts)]
    BY <1>2 DEF Formats!FlattenSeq
  <2> HIDE DEF h
  <2>7. \A i \in 1 .. Len(parts) : h[i] = IF i = 1 THEN parts[i] ELSE h[i - 1] \o parts[i]
    BY <2>5
  <2> HIDE DEF Step
  <2> DEFINE S == {k \in Nat : k = 0 \/ k > Len(parts) \/ (<<k, h[k]>> \in T /\ h[k] \in Seq(U))}
  <2>8. ASSUME NEW k \in Nat, k \in S PROVE k + 1 \in S
    <3> SUFFICES ASSUME k + 1 <= Len(parts) PROVE <<k + 1, h[k + 1]>> \in T /\ h[k + 1] \in Seq(U)
      BY <1>0
    <3>1. k + 1 \in 1 .. Len(parts) /\ parts[k + 1] \in Seq(U) /\ (k + 1) - 1 = k
      BY <1>0
    <3>2. CASE k = 0
      <4>1. h[k + 1] = parts[k + 1]
        BY <2>7, <3>1, <3>2, SMTT(30)
      <4>2. \A s \in Seq(U) : <<>> \o s = s
        OBVIOUS
      <4>3. <<>> \in Seq(U) /\ <<k, <<>>>> \in T
        BY <3>2
      <4>4. <<k + 1, <<>> \o parts[k + 1]>> \in T
        BY <3>1, <4>3
      <4> QED  BY <3>1, <4>1, <4>2, <4>4
    <3>3. CASE k # 0
      <4>1. <<k, h[k]>> \in T /\ h[k] \in Seq(U)
        BY <1>0, <2>8, <3>3
      <4>2. h[k + 1] = h[k] \o parts[k + 1]
        <5>1. k + 1 # 1
          BY <3>3
        <5>2. h[k + 1] = h[(k + 1) - 1] \o parts[k + 1]
          BY <2>7, <3>1, <5>1
        <5> QED  BY <3>1, <5>2
      <4>3. h[k] \o parts[k + 1] \in Seq(U)
        BY <3>1, <4>1
      <4> QED  BY <3>1, <4>1, <4>2, <4>3
    <3> QED  BY <3>2, <3>3
  <2>9. Len(parts) \in S
    <3>1. 0 \in S
      OBVIOUS
    <3> HIDE DEF S
    <3> QED  BY <1>0, <2>8, <3>1, SetInduction
  <2> QED  BY <1>0, <1>2, <2>6, <2>9
<1> QED  BY <1>1, <1>2

FormatEntry == [fourcc : STRING, size : Nat, interval : Nat \X Nat]

SameWebcam == webcam \in WfWebcams

LEMMA WebcamTyped ==
    ASSUME SameWebcam
    PROVE  /\ Len(webcam) \in Nat /\ DOMAIN webcam = 1 .. Len(webcam)
           /\ \A i \in 1 .. Len(webcam) :
                 /\ webcam[i].fourcc \in STRING /\ webcam[i].sizes \in Seq(WebcamSizes)
                 /\ Len(webcam[i].sizes) \in Nat /\ DOMAIN webcam[i].sizes = 1 .. Len(webcam[i].sizes)
                 /\ \A k \in 1 .. Len(webcam[i].sizes) : webcam[i].sizes[k] \in WebcamSizes
           /\ \A i, j \in 1 .. Len(webcam) : webcam[i].fourcc = webcam[j].fourcc => i = j
           /\ \A i \in 1 .. Len(webcam) : \A k \in 1 .. Len(webcam[i].sizes) :
                 webcam[i].sizes[k].kind = "range" => webcam[i].sizes[k].intervals # <<>>
<1>1. webcam \in Seq(WebcamFormats)
  BY OffersAssumption DEF SameWebcam
<1>2. /\ Len(webcam) \in Nat /\ DOMAIN webcam = 1 .. Len(webcam)
      /\ \A i \in 1 .. Len(webcam) : webcam[i] \in WebcamFormats
  BY <1>1
<1>3. \A f \in WebcamFormats : f.fourcc \in STRING /\ f.sizes \in Seq(WebcamSizes)
  BY DEF WebcamFormats
<1>4. \A s \in Seq(WebcamSizes) : /\ Len(s) \in Nat /\ DOMAIN s = 1 .. Len(s)
                                  /\ \A k \in 1 .. Len(s) : s[k] \in WebcamSizes
  OBVIOUS
<1>5. /\ \A i, j \in 1 .. Len(webcam) : webcam[i].fourcc = webcam[j].fourcc => i = j
      /\ \A i \in 1 .. Len(webcam) : \A k \in 1 .. Len(webcam[i].sizes) :
                 webcam[i].sizes[k].kind = "range" => webcam[i].sizes[k].intervals # <<>>
  BY OffersAssumption DEF SameWebcam
<1> QED  BY <1>2, <1>3, <1>4, <1>5

\* The intervals of a size are those it tells.
LEMMA SizeIntervals ==
    ASSUME NEW s \in WebcamSizes, s.kind = "range" => s.intervals # <<>>
    PROVE  /\ Formats!Intervals(s) \in Seq(Nat \X Nat)
           /\ s.intervals # <<>> =>
                 \A j \in DOMAIN Formats!Intervals(s) :
                    \E k \in DOMAIN s.intervals : Formats!Intervals(s)[j] = s.intervals[k]
<1> DEFINE told == s.intervals
           P == Nat \X Nat
<1>1. told \in Seq(P) /\ <<30, 1>> \in P
  BY DEF WebcamSizes
<1>2. Formats!Intervals(s) = IF s.kind = "range" THEN <<told[1], told[Len(told)]>>
                             ELSE IF told = <<>> THEN <<<<30, 1>>>> ELSE told
  BY DEF Formats!Intervals
<1> HIDE DEF told, P
<1>3. CASE s.kind = "range"
  <2>1. told # <<>>
    BY <1>3 DEF told
  <2>2. Len(told) \in Nat /\ 1 \in 1 .. Len(told) /\ Len(told) \in 1 .. Len(told) /\ DOMAIN told = 1 .. Len(told)
    BY <1>1, <2>1
  <2>3. told[1] \in P /\ told[Len(told)] \in P
    BY <1>1, <2>2
  <2> DEFINE both == <<told[1], told[Len(told)]>>
  <2>4. both \in Seq(P) /\ DOMAIN both = 1 .. 2 /\ both[1] = told[1] /\ both[2] = told[Len(told)]
    BY <2>3
  <2>5. Formats!Intervals(s) = both
    BY <1>2, <1>3
  <2> HIDE DEF both
  <2>6. \A j \in 1 .. 2 : \E k \in DOMAIN told : both[j] = told[k]
    <3>1. \A j \in 1 .. 2 : j = 1 \/ j = 2
      OBVIOUS
    <3> QED  BY <2>2, <2>4, <3>1
  <2> QED  BY <2>4, <2>5, <2>6 DEF told, P
<1>4. CASE s.kind # "range" /\ told = <<>>
  <2>1. Formats!Intervals(s) = <<<<30, 1>>>>
    BY <1>2, <1>4
  <2> QED  BY <1>1, <1>4, <2>1 DEF told, P
<1>5. CASE s.kind # "range" /\ told # <<>>
  <2>1. Formats!Intervals(s) = told
    BY <1>2, <1>5
  <2> QED  BY <1>1, <1>5, <2>1 DEF told, P
<1> QED  BY <1>3, <1>4, <1>5

\* A row's entry is one of a size that is not of an unknown kind.
EntryOf(e, f) ==
    \E k \in 1 .. Len(f.sizes) :
        /\ f.sizes[k].kind # "other"
        /\ \E j \in DOMAIN Formats!Intervals(f.sizes[k]) :
              e = Formats!Entry(f, f.sizes[k], Formats!Intervals(f.sizes[k])[j])

LEMMA EntriesTyped ==
    ASSUME SameWebcam, NEW i \in 1 .. Len(webcam)
    PROVE  /\ Formats!FormatEntries(webcam[i]) \in Seq(FormatEntry)
           /\ \A j \in 1 .. Len(Formats!FormatEntries(webcam[i])) :
                 EntryOf(Formats!FormatEntries(webcam[i])[j], webcam[i])
<1> DEFINE f == webcam[i]
           sizes == f.sizes
           parts == [k \in DOMAIN sizes |->
                       IF \E l \in 1 .. k : sizes[l].kind = "other" THEN <<>> ELSE Formats!SizeEntries(f, sizes[k])]
           T == {p \in Nat \X Seq(FormatEntry) : \A j \in 1 .. Len(p[2]) : EntryOf(p[2][j], f)}
<1>1. /\ f.fourcc \in STRING /\ Len(sizes) \in Nat /\ DOMAIN sizes = 1 .. Len(sizes)
      /\ \A k \in 1 .. Len(sizes) : /\ sizes[k] \in WebcamSizes
                                    /\ sizes[k].kind = "range" => sizes[k].intervals # <<>>
  BY WebcamTyped
<1>2. Formats!FormatEntries(f) = Formats!FlattenSeq(parts)
  BY DEF Formats!FormatEntries
<1> HIDE DEF f, sizes
<1>3. ASSUME NEW k \in 1 .. Len(sizes)
      PROVE  /\ parts[k] \in Seq(FormatEntry)
             /\ \A j \in 1 .. Len(parts[k]) : EntryOf(parts[k][j], f)
  <2>1. CASE \E l \in 1 .. k : sizes[l].kind = "other"
    <3>1. parts[k] = <<>>
      BY <1>1, <2>1
    <3> HIDE DEF parts
    <3> QED  BY <3>1
  <2>2. CASE ~\E l \in 1 .. k : sizes[l].kind = "other"
    <3> DEFINE v == Formats!Intervals(sizes[k])
               e(j) == Formats!Entry(f, sizes[k], v[j])
    <3>1. parts[k] = [j \in DOMAIN v |-> e(j)]
      BY <1>1, <2>2 DEF Formats!SizeEntries
    <3>2. sizes[k].kind # "other" /\ sizes[k].size \in Nat
      <4>1. k \in 1 .. k
        BY <1>1
      <4> QED  BY <1>1, <2>2, <4>1 DEF WebcamSizes
    <3>3. Len(v) \in Nat /\ DOMAIN v = 1 .. Len(v) /\ \A j \in 1 .. Len(v) : v[j] \in Nat \X Nat
      <4> DEFINE P == Nat \X Nat
      <4>1. v \in Seq(P)
        BY <1>1, SizeIntervals
      <4> HIDE DEF P, v
      <4>2. Len(v) \in Nat /\ DOMAIN v = 1 .. Len(v) /\ \A j \in 1 .. Len(v) : v[j] \in P
        BY <4>1
      <4> QED  BY <4>2 DEF P
    <3>4. \A j \in 1 .. Len(v) : e(j) \in FormatEntry /\ EntryOf(e(j), f)
      <4> SUFFICES ASSUME NEW j \in 1 .. Len(v) PROVE e(j) \in FormatEntry /\ EntryOf(e(j), f)
        OBVIOUS
      <4>1. e(j) = [fourcc |-> f.fourcc, size |-> sizes[k].size, interval |-> v[j]]
        BY DEF Formats!Entry
      <4>2. e(j) \in FormatEntry
        <5>1. v[j] \in Nat \X Nat
          BY <3>3
        <5> HIDE DEF v, e
        <5> QED  BY <1>1, <3>2, <4>1, <5>1 DEF FormatEntry
      <4>3. EntryOf(e(j), f)
        <5>1. j \in DOMAIN v
          BY <3>3
        <5> QED  BY <3>2, <5>1 DEF EntryOf, sizes
      <4> QED  BY <4>2, <4>3
    <3> HIDE DEF e, v, parts
    <3>5. parts[k] \in [1 .. Len(v) -> FormatEntry] /\ \A j \in 1 .. Len(v) : parts[k][j] = e(j)
      BY <3>1, <3>3, <3>4
    <3>6. parts[k] \in Seq(FormatEntry) /\ Len(parts[k]) = Len(v)
      <4> DEFINE m == Len(v)
                 g == parts[k]
      <4>1. m \in Nat /\ g \in [1 .. m -> FormatEntry]
        BY <3>3, <3>5
      <4> HIDE DEF m, g
      <4>2. g \in Seq(FormatEntry) /\ Len(g) = m
        BY <4>1
      <4> QED  BY <4>2 DEF m, g
    <3> QED  BY <3>4, <3>5, <3>6
  <2> QED  BY <2>1, <2>2
<1>4. parts \in Seq(Seq(FormatEntry)) /\ Len(parts) = Len(sizes)
  <2> DEFINE V == Seq(FormatEntry)
             c(k) == IF \E l \in 1 .. k : sizes[l].kind = "other" THEN <<>> ELSE Formats!SizeEntries(f, sizes[k])
  <2>1. parts = [k \in 1 .. Len(sizes) |-> c(k)]
    BY <1>1
  <2>2. \A k \in 1 .. Len(sizes) : parts[k] \in V
    BY <1>3
  <2> HIDE DEF parts, V, c
  <2>3. parts \in [1 .. Len(sizes) -> V]
    BY <2>1, <2>2
  <2>4. parts \in Seq(V) /\ Len(parts) = Len(sizes)
    BY <1>1, <2>3
  <2> QED  BY <2>4 DEF V
<1> HIDE DEF parts
<1>5. <<0, <<>>>> \in T
  <2>1. <<>> \in Seq(FormatEntry) /\ 1 .. Len(<<>>) = {}
    OBVIOUS
  <2> QED  BY <2>1
<1>6. ASSUME NEW n \in 1 .. Len(parts), NEW s \in Seq(FormatEntry), <<n - 1, s>> \in T
      PROVE  <<n, s \o parts[n]>> \in T
  <2> DEFINE t == parts[n]
             u == s \o t
  <2>1. t \in Seq(FormatEntry) /\ \A j \in 1 .. Len(t) : EntryOf(t[j], f)
    BY <1>3, <1>4
  <2>2. \A j \in 1 .. Len(s) : EntryOf(s[j], f)
    BY <1>6
  <2> HIDE DEF t
  <2>3. /\ Len(s) \in Nat /\ Len(t) \in Nat /\ u \in Seq(FormatEntry) /\ Len(u) = Len(s) + Len(t)
        /\ \A j \in 1 .. Len(s) : u[j] = s[j]
        /\ \A j \in Len(s) + 1 .. Len(u) : u[j] = t[j - Len(s)]
    BY <2>1
  <2> HIDE DEF u
  <2>4. ASSUME NEW j \in 1 .. Len(u) PROVE EntryOf(u[j], f)
    <3>1. CASE j \in 1 .. Len(s)
      BY <2>2, <2>3, <3>1
    <3>2. CASE j \notin 1 .. Len(s)
      <4>1. j \in Len(s) + 1 .. Len(u) /\ j - Len(s) \in 1 .. Len(t)
        BY <2>3, <3>2
      <4> QED  BY <2>1, <2>3, <4>1
    <3> QED  BY <3>1, <3>2
  <2>5. n \in Nat
    BY <1>1, <1>4
  <2>6. <<n, u>> \in T
    BY <2>3, <2>4, <2>5
  <2> QED  BY <2>6 DEF u, t
<1> HIDE DEF T
<1>7. <<Len(parts), Formats!FlattenSeq(parts)>> \in T /\ Formats!FlattenSeq(parts) \in Seq(FormatEntry)
  BY <1>4, <1>5, <1>6, FlattenInduction
<1>8. \A j \in 1 .. Len(Formats!FlattenSeq(parts)) : EntryOf(Formats!FlattenSeq(parts)[j], f)
  BY <1>7 DEF T
<1> QED  BY <1>2, <1>7, <1>8 DEF f

\* What Found has are places of webcam, none twice, of formats with entries.
LEMMA FoundPlaces ==
    ASSUME SameWebcam
    PROVE  /\ Formats!Found \in Seq(Nat)
           /\ \A i \in 1 .. Len(Formats!Found) :
                 /\ Formats!Found[i] \in 1 .. Len(webcam)
                 /\ Formats!FormatEntries(webcam[Formats!Found[i]]) # <<>>
           /\ \A i, j \in 1 .. Len(Formats!Found) : Formats!Found[i] = Formats!Found[j] => i = j
<1> DEFINE none(i) == Formats!FormatEntries(webcam[i]) = <<>>
           parts == [i \in DOMAIN webcam |-> IF none(i) THEN <<>> ELSE <<i>>]
           Sound(n, s) == /\ \A i \in 1 .. Len(s) : s[i] \in 1 .. n /\ s[i] <= Len(webcam) /\ ~none(s[i])
                          /\ \A i, j \in 1 .. Len(s) : s[i] = s[j] => i = j
           T == {p \in Nat \X Seq(Nat) : Sound(p[1], p[2])}
<1>1. Len(webcam) \in Nat /\ DOMAIN webcam = 1 .. Len(webcam)
  BY WebcamTyped
<1>2. Formats!Found = Formats!FlattenSeq(parts)
  BY DEF Formats!Found
<1> HIDE DEF none
<1>3. ASSUME NEW k \in 1 .. Len(webcam)
      PROVE  parts[k] = (IF none(k) THEN <<>> ELSE <<k>>) /\ parts[k] \in Seq(Nat)
  <2>1. parts[k] = (IF none(k) THEN <<>> ELSE <<k>>)
    BY <1>1
  <2>2. k \in Nat
    BY <1>1
  <2> HIDE DEF parts
  <2> QED  BY <2>1, <2>2
<1>4. parts \in Seq(Seq(Nat)) /\ Len(parts) = Len(webcam)
  <2> DEFINE V == Seq(Nat)
             c(i) == IF none(i) THEN <<>> ELSE <<i>>
             m == Len(webcam)
  <2>1. parts = [k \in 1 .. m |-> c(k)]
    BY <1>1
  <2>2. \A k \in 1 .. m : parts[k] \in V
    BY <1>3
  <2>3. m \in Nat
    BY <1>1
  <2> HIDE DEF parts, V, c, m
  <2>4. parts \in [1 .. m -> V]
    BY <2>1, <2>2
  <2>5. parts \in Seq(V) /\ Len(parts) = m
    BY <2>3, <2>4
  <2> QED  BY <2>5 DEF V, m
<1> HIDE DEF parts
<1>5. <<0, <<>>>> \in T
  <2>1. <<>> \in Seq(Nat) /\ 1 .. Len(<<>>) = {}
    OBVIOUS
  <2> QED  BY <2>1
<1>6. ASSUME NEW n \in 1 .. Len(parts), NEW s \in Seq(Nat), <<n - 1, s>> \in T
      PROVE  <<n, s \o parts[n]>> \in T
  <2>1. Sound(n - 1, s) /\ n \in Nat /\ n <= Len(webcam) /\ n \in 1 .. Len(webcam)
    BY <1>1, <1>4, <1>6
  <2>2. Len(s) \in Nat /\ \A i \in 1 .. Len(s) : s[i] \in Nat
    OBVIOUS
  <2>3. CASE none(n)
    <3>0. s \o <<>> = s
      OBVIOUS
    <3>1. parts[n] = <<>> /\ s \o <<>> = s
      BY <1>3, <2>1, <2>3, <3>0
    <3>2. Sound(n, s)
      BY <2>1, <2>2
    <3> HIDE DEF Sound
    <3>3. <<n, s>> \in T
      BY <2>1, <3>2
    <3> HIDE DEF T
    <3> QED  BY <3>1, <3>3
  <2>4. CASE ~none(n)
    <3> DEFINE u == Append(s, n)
    <3>0. parts[n] = <<n>>
      BY <1>3, <2>1, <2>4
    <3>1. parts[n] = <<n>> /\ s \o <<n>> = u
      BY <2>1, <3>0
    <3>2. /\ u \in Seq(Nat) /\ Len(u) = Len(s) + 1 /\ u[Len(s) + 1] = n
          /\ \A i \in 1 .. Len(s) : u[i] = s[i]
      BY <2>1, SeqAppend
    <3> HIDE DEF u
    <3>3. \A i \in 1 .. Len(u) : i \in 1 .. Len(s) \/ i = Len(s) + 1
      BY <2>2, <3>2
    <3>4. \A i \in 1 .. Len(u) : u[i] \in 1 .. n /\ u[i] <= Len(webcam) /\ ~none(u[i])
      <4> SUFFICES ASSUME NEW i \in 1 .. Len(u) PROVE u[i] \in 1 .. n /\ u[i] <= Len(webcam) /\ ~none(u[i])
        OBVIOUS
      <4>1. CASE i \in 1 .. Len(s)
        <5>1. u[i] = s[i] /\ s[i] \in 1 .. n - 1 /\ s[i] <= Len(webcam) /\ ~none(s[i])
          BY <2>1, <3>2, <4>1
        <5> QED  BY <2>1, <5>1
      <4>2. CASE i = Len(s) + 1
        BY <2>1, <2>4, <3>2, <4>2
      <4> QED  BY <3>3, <4>1, <4>2
    <3>5. \A i \in 1 .. Len(s) : s[i] # n
      BY <2>1
    <3>6. \A i, j \in 1 .. Len(u) : u[i] = u[j] => i = j
      BY <2>1, <3>2, <3>3, <3>5
    <3>7. Sound(n, u)
      BY <3>4, <3>6
    <3> HIDE DEF Sound
    <3>8. <<n, u>> \in T
      BY <2>1, <3>2, <3>7
    <3> HIDE DEF T
    <3> QED  BY <3>1, <3>8
  <2> QED  BY <2>3, <2>4
<1> HIDE DEF T, Sound
<1>7. <<Len(parts), Formats!FlattenSeq(parts)>> \in T /\ Formats!FlattenSeq(parts) \in Seq(Nat)
  BY <1>4, <1>5, <1>6, FlattenInduction
<1>8. Sound(Len(webcam), Formats!Found)
  BY <1>2, <1>4, <1>7 DEF T
<1> QED  BY <1>1, <1>2, <1>7, <1>8 DEF Sound, none

\* A row has entries, all of one format, and no two rows are of the same.
LEMMA RowsOfFormats ==
    ASSUME SameWebcam, Formats!Rows # <<Formats!Default>>
    PROVE  /\ 1 \in DOMAIN Formats!Rows /\ DOMAIN Formats!Rows \subseteq Nat
           /\ \A i \in DOMAIN Formats!Rows :
                 /\ Formats!Rows[i] \in Seq(FormatEntry) /\ 1 \in DOMAIN Formats!Rows[i]
                 /\ DOMAIN Formats!Rows[i] = 1 .. Len(Formats!Rows[i])
                 /\ \A j, k \in DOMAIN Formats!Rows[i] : Formats!Rows[i][j].fourcc = Formats!Rows[i][k].fourcc
                 /\ \E w \in 1 .. Len(webcam) :
                       \A j \in DOMAIN Formats!Rows[i] : EntryOf(Formats!Rows[i][j], webcam[w])
           /\ \A i, j \in DOMAIN Formats!Rows :
                 Formats!Rows[i][1].fourcc = Formats!Rows[j][1].fourcc => i = j
<1> DEFINE found == Formats!Found
           rows == Formats!Rows
           of(i) == Formats!FormatEntries(webcam[found[i]])
<1>1. /\ found \in Seq(Nat)
      /\ \A i \in 1 .. Len(found) : found[i] \in 1 .. Len(webcam) /\ of(i) # <<>>
      /\ \A i, j \in 1 .. Len(found) : found[i] = found[j] => i = j
  BY FoundPlaces
<1>2. found # <<>> /\ rows = [i \in DOMAIN found |-> of(i)]
  BY DEF Formats!Rows
<1>3. \A i \in 1 .. Len(found) : /\ of(i) \in Seq(FormatEntry)
                                 /\ \A j \in 1 .. Len(of(i)) : EntryOf(of(i)[j], webcam[found[i]])
  BY <1>1, EntriesTyped
<1> HIDE DEF found, rows, of
<1>4. Len(found) \in Nat /\ 1 \in 1 .. Len(found) /\ DOMAIN found = 1 .. Len(found)
  BY <1>1, <1>2
<1>5. DOMAIN rows = 1 .. Len(found) /\ \A i \in 1 .. Len(found) : rows[i] = of(i)
  BY <1>2, <1>4
<1>6. \A i \in 1 .. Len(found) :
         /\ rows[i] \in Seq(FormatEntry) /\ 1 \in DOMAIN rows[i] /\ DOMAIN rows[i] = 1 .. Len(rows[i])
         /\ \A j \in DOMAIN rows[i] : EntryOf(rows[i][j], webcam[found[i]])
  <2> SUFFICES ASSUME NEW i \in 1 .. Len(found)
               PROVE  /\ rows[i] \in Seq(FormatEntry) /\ 1 \in DOMAIN rows[i] /\ DOMAIN rows[i] = 1 .. Len(rows[i])
                      /\ \A j \in DOMAIN rows[i] : EntryOf(rows[i][j], webcam[found[i]])
    OBVIOUS
  <2> DEFINE r == rows[i]
  <2>1. r \in Seq(FormatEntry) /\ r # <<>> /\ \A j \in 1 .. Len(r) : EntryOf(r[j], webcam[found[i]])
    BY <1>1, <1>3, <1>5
  <2> HIDE DEF r
  <2>2. Len(r) \in Nat /\ DOMAIN r = 1 .. Len(r) /\ 1 \in 1 .. Len(r)
    BY <2>1
  <2> QED  BY <2>1, <2>2 DEF r
<1>7. \A f, e : EntryOf(e, f) => e.fourcc = f.fourcc
  BY DEF EntryOf, Formats!Entry
<1>8. \A i \in 1 .. Len(found) : \A j \in DOMAIN rows[i] : rows[i][j].fourcc = webcam[found[i]].fourcc
  BY <1>6, <1>7
<1>9. \A i, j \in 1 .. Len(found) : rows[i][1].fourcc = rows[j][1].fourcc => i = j
  <2> SUFFICES ASSUME NEW i \in 1 .. Len(found), NEW j \in 1 .. Len(found), rows[i][1].fourcc = rows[j][1].fourcc
               PROVE  i = j
    OBVIOUS
  <2>1. webcam[found[i]].fourcc = webcam[found[j]].fourcc
    BY <1>6, <1>8
  <2>2. found[i] = found[j]
    BY <1>1, <2>1, WebcamTyped
  <2> QED  BY <1>1, <2>2
<1>10. \A i \in 1 .. Len(found) : found[i] \in 1 .. Len(webcam)
  BY <1>1
<1>11. 1 .. Len(found) \subseteq Nat
  BY <1>4
<1>12. \A i \in 1 .. Len(found) : \E w \in 1 .. Len(webcam) : \A j \in DOMAIN rows[i] : EntryOf(rows[i][j], webcam[w])
  BY <1>6, <1>10
<1>13. \A i \in 1 .. Len(found) : \A j, k \in DOMAIN rows[i] : rows[i][j].fourcc = rows[i][k].fourcc
  BY <1>8
<1> QED  BY <1>4, <1>5, <1>6, <1>9, <1>11, <1>12, <1>13 DEF rows

LEMMA FirstFits ==
    ASSUME NEW S \in SUBSET Nat, S # {}
    PROVE  Formats!First(S) \in S
<1>1. \E i \in S : \A j \in S : i <= j
  BY Least
<1> QED  BY <1>1 DEF Formats!First

PrefsFor(i, j) ==
    [fourcc |-> Formats!Rows[i][1].fourcc, size |-> Formats!Rows[i][j].size,
     fps |-> Formats!UpsideDown(Formats!Rows[i][j].interval)]

IsEntry(i, j) == i \in DOMAIN Formats!Rows /\ j \in DOMAIN Formats!Rows[i]

\* What the preferences say is an entry of the rows, the one that was chosen and
\* is shown; the camera is asked for one.
FormatInv ==
    /\ SameWebcam
    /\ Formats!Rows # <<Formats!Default>> =>
          /\ prefs # Formats!NoPrefs =>
                \E i, j \in Nat : IsEntry(i, j) /\ prefs = PrefsFor(i, j) /\ chosen = Formats!Rows[i][j]
          /\ dialog => IsEntry(fmt, res) /\ prefs = PrefsFor(fmt, res) /\ chosen = Formats!Rows[fmt][res]
          /\ wfAsked # Formats!Nothing => \E i, j \in Nat : IsEntry(i, j) /\ wfAsked = Formats!Rows[i][j]

\* Upside down twice is as it was.
LEMMA TurnedTwice ==
    ASSUME NEW i, NEW j, SameWebcam, Formats!Rows # <<Formats!Default>>, IsEntry(i, j)
    PROVE  /\ Formats!Rows[i][j] \in FormatEntry /\ i \in Nat /\ j \in Nat
           /\ Formats!UpsideDown(Formats!UpsideDown(Formats!Rows[i][j].interval)) = Formats!Rows[i][j].interval
<1>1. Formats!Rows[i] \in Seq(FormatEntry) /\ j \in 1 .. Len(Formats!Rows[i]) /\ i \in Nat
  BY RowsOfFormats DEF IsEntry
<1>2. Formats!Rows[i][j] \in FormatEntry /\ j \in Nat
  BY <1>1
<1>3. Formats!Rows[i][j].interval \in Nat \X Nat
  BY <1>2 DEF FormatEntry
<1>4. \A p \in Nat \X Nat : Formats!UpsideDown(Formats!UpsideDown(p)) = p
  BY DEF Formats!UpsideDown
<1> QED  BY <1>1, <1>2, <1>3, <1>4

\* The row and the entry that are looked up are those that were written.
LEMMA FoundAgain ==
    ASSUME SameWebcam, Formats!Rows # <<Formats!Default>>,
           NEW i, NEW j, IsEntry(i, j), prefs = PrefsFor(i, j)
    PROVE  /\ Formats!FindFourcc = i
           /\ IsEntry(i, Formats!FindRes(i)) /\ Formats!Rows[i][Formats!FindRes(i)] = Formats!Rows[i][j]
<1> DEFINE rows == Formats!Rows
           same == {k \in DOMAIN rows : rows[k][1].fourcc = prefs.fourcc}
           fit == {k \in DOMAIN rows[i] : /\ rows[i][k].size = prefs.size /\ prefs.fps # <<>>
                                          /\ rows[i][k].interval = Formats!UpsideDown(prefs.fps)}
<1>1. /\ prefs.fourcc = rows[i][1].fourcc /\ prefs.size = rows[i][j].size
      /\ prefs.fps = Formats!UpsideDown(rows[i][j].interval)
  BY DEF PrefsFor
<1>2. Formats!UpsideDown(prefs.fps) = rows[i][j].interval /\ rows[i][j] \in FormatEntry
  BY <1>1, TurnedTwice
<1>3. prefs.fps # <<>>
  BY <1>1 DEF Formats!UpsideDown
<1>4. same = {i}
  BY <1>1, RowsOfFormats DEF IsEntry
<1>5. fit \in SUBSET Nat /\ j \in fit
  <2>1. DOMAIN rows[i] \subseteq Nat
    <3>1. rows[i] \in Seq(FormatEntry)
      BY RowsOfFormats DEF IsEntry
    <3> QED  BY <3>1
  <2> QED  BY <1>1, <1>2, <1>3, <2>1 DEF IsEntry
<1>6. Formats!FindFourcc = i
  <2>1. i \in Nat
    BY TurnedTwice
  <2>2. Formats!FindFourcc = Formats!First(same)
    BY DEF Formats!FindFourcc
  <2> HIDE DEF same
  <2>3. Formats!First(same) \in same
    BY <1>4, <2>1, FirstFits
  <2> QED  BY <1>4, <2>2, <2>3
<1>7. Formats!FindRes(i) \in fit
  <2>1. Formats!FindRes(i) = Formats!First(fit)
    BY DEF Formats!FindRes
  <2> HIDE DEF fit
  <2> QED  BY <1>5, <2>1, FirstFits
<1> DEFINE k == Formats!FindRes(i)
<1>8. /\ k \in DOMAIN rows[i] /\ rows[i][k].size = rows[i][j].size /\ rows[i][k].interval = rows[i][j].interval
      /\ rows[i][k].fourcc = rows[i][j].fourcc
  BY <1>1, <1>2, <1>7, RowsOfFormats DEF IsEntry
<1>9. IsEntry(i, k)
  BY <1>8 DEF IsEntry
<1>10. rows[i][k] \in FormatEntry
  BY <1>9, TurnedTwice
<1>11. rows[i][k] = rows[i][j]
  <2> DEFINE a == rows[i][k]
             b == rows[i][j]
  <2>1. a \in FormatEntry /\ b \in FormatEntry /\ a.fourcc = b.fourcc /\ a.size = b.size /\ a.interval = b.interval
    BY <1>2, <1>8, <1>10
  <2> HIDE DEF a, b
  <2>2. a = b
    BY <2>1 DEF FormatEntry
  <2> QED  BY <2>2 DEF a, b
<1> QED  BY <1>6, <1>9, <1>11

\* The row that is looked up is there.
LEMMA ResThere ==
    ASSUME SameWebcam, Formats!Rows # <<Formats!Default>>, NEW i \in DOMAIN Formats!Rows
    PROVE  IsEntry(i, Formats!FindRes(i))
<1> DEFINE fit == {k \in DOMAIN Formats!Rows[i] : /\ Formats!Rows[i][k].size = prefs.size /\ prefs.fps # <<>>
                                          /\ Formats!Rows[i][k].interval = Formats!UpsideDown(prefs.fps)}
<1>1. Formats!FindRes(i) = Formats!First(fit)
  BY DEF Formats!FindRes
<1>2. 1 \in DOMAIN Formats!Rows[i] /\ fit \in SUBSET (DOMAIN Formats!Rows[i]) /\ fit \in SUBSET Nat
  <2>1. Formats!Rows[i] \in Seq(FormatEntry)
    BY RowsOfFormats
  <2> QED  BY <2>1, RowsOfFormats
<1> HIDE DEF fit
<1>3. CASE fit = {}
  BY <1>1, <1>2, <1>3 DEF Formats!First, IsEntry
<1>4. CASE fit # {}
  BY <1>1, <1>2, <1>4, FirstFits DEF IsEntry
<1> QED  BY <1>3, <1>4

LEMMA Written ==
    ASSUME NEW i, NEW j, Formats!Write(i, j), IsEntry(i, j)
    PROVE  prefs' = PrefsFor(i, j)
BY DEF Formats!Write, IsEntry, PrefsFor

LEMMA FormatsBegin == Formats!Init => FormatInv
BY DEF Formats!Init, FormatInv, SameWebcam

LEMMA RowsStay == ASSUME webcam' = webcam PROVE Formats!Rows' = Formats!Rows /\ SameWebcam' = SameWebcam
BY DEF Formats!Rows, Formats!Found, SameWebcam

LEMMA FormatsKeep == FormatInv /\ (Formats!Next \/ UNCHANGED formatVars) => FormatInv'
<1> SUFFICES ASSUME FormatInv, Formats!Next \/ UNCHANGED formatVars PROVE FormatInv'
  OBVIOUS
<1> DEFINE rows == Formats!Rows
<1>1. webcam' = webcam
  BY DEF formatVars, Formats!Next, Formats!OpenDialog, Formats!ChooseFormat, Formats!ChooseResolution,
         Formats!CloseDialog, Formats!StartDriver
<1>2. Formats!Rows' = Formats!Rows /\ SameWebcam /\ SameWebcam'
  BY <1>1, RowsStay DEF FormatInv
<1>3. \A i, j : (IsEntry(i, j)' <=> IsEntry(i, j)) /\ PrefsFor(i, j)' = PrefsFor(i, j)
  BY <1>2 DEF IsEntry, PrefsFor
<1> SUFFICES ASSUME Formats!Rows # <<Formats!Default>>
             PROVE  /\ prefs' # Formats!NoPrefs =>
                          \E i, j \in Nat : IsEntry(i, j) /\ prefs' = PrefsFor(i, j) /\ chosen' = Formats!Rows[i][j]
                    /\ dialog' => IsEntry(fmt', res') /\ prefs' = PrefsFor(fmt', res') /\ chosen' = Formats!Rows[fmt'][res']
                    /\ wfAsked' # Formats!Nothing => \E i, j \in Nat : IsEntry(i, j) /\ wfAsked' = Formats!Rows[i][j]
  BY <1>2, <1>3 DEF FormatInv, Formats!NoPrefs, Formats!Nothing, Formats!Default
<1>4. ASSUME NEW i, NEW j, IsEntry(i, j), fmt' = i, res' = j, prefs' = PrefsFor(i, j), chosen' = Formats!Rows[i][j],
             wfAsked' = wfAsked
      PROVE  /\ prefs' # Formats!NoPrefs =>
                   \E k, l \in Nat : IsEntry(k, l) /\ prefs' = PrefsFor(k, l) /\ chosen' = Formats!Rows[k][l]
             /\ dialog' => IsEntry(fmt', res') /\ prefs' = PrefsFor(fmt', res') /\ chosen' = Formats!Rows[fmt'][res']
             /\ wfAsked' # Formats!Nothing => \E k, l \in Nat : IsEntry(k, l) /\ wfAsked' = Formats!Rows[k][l]
  BY <1>2, <1>4, TurnedTwice DEF FormatInv
<1>5. CASE Formats!OpenDialog
  <2>1. wfAsked' = wfAsked
    BY <1>5 DEF Formats!OpenDialog
  <2>2. CASE prefs = Formats!NoPrefs
    <3>1. IsEntry(1, 1)
      BY <1>2, RowsOfFormats DEF IsEntry
    <3>2. fmt' = 1 /\ res' = 1 /\ Formats!Write(1, 1) /\ chosen' = Formats!Rows[1][1]
      BY <1>5, <2>2 DEF Formats!OpenDialog
    <3> QED  BY <1>4, <2>1, <3>1, <3>2, Written
  <2>3. CASE prefs # Formats!NoPrefs
    <3>1. fmt' = Formats!FindFourcc /\ res' = Formats!FindRes(Formats!FindFourcc) /\ prefs' = prefs /\ chosen' = chosen
      BY <1>5, <2>3 DEF Formats!OpenDialog
    <3>2. PICK i \in Nat, j \in Nat : IsEntry(i, j) /\ prefs = PrefsFor(i, j) /\ chosen = Formats!Rows[i][j]
      BY <2>3 DEF FormatInv
    <3> DEFINE k == Formats!FindRes(i)
    <3>3. Formats!FindFourcc = i /\ IsEntry(i, k) /\ Formats!Rows[i][k] = Formats!Rows[i][j]
      BY <1>2, <3>2, FoundAgain
    <3>4. PrefsFor(i, k) = PrefsFor(i, j)
      BY <3>3 DEF PrefsFor
    <3> HIDE DEF k
    <3>5. fmt' = i /\ res' = k
      BY <3>1, <3>3 DEF k
    <3> QED  BY <1>4, <2>1, <3>1, <3>2, <3>3, <3>4, <3>5
  <2> QED  BY <2>2, <2>3
<1>6. CASE Formats!ChooseFormat
  <2>1. PICK i \in DOMAIN Formats!Rows :
           /\ fmt' = i /\ res' = Formats!FindRes(i) /\ Formats!Write(i, Formats!FindRes(i))
           /\ chosen' = Formats!Rows[i][Formats!FindRes(i)] /\ wfAsked' = wfAsked
    BY <1>6 DEF Formats!ChooseFormat
  <2>2. IsEntry(i, Formats!FindRes(i))
    BY <1>2, ResThere
  <2> QED  BY <1>4, <2>1, <2>2, Written
<1>7. CASE Formats!ChooseResolution
  <2>1. PICK j \in 1 .. Formats!Offered(fmt) :
           /\ res' = j /\ Formats!Write(fmt, j)
           /\ chosen' = IF j \in DOMAIN Formats!Rows[fmt] THEN Formats!Rows[fmt][j]
                        ELSE [Formats!Default[1] EXCEPT !.size = 320]
    BY <1>7 DEF Formats!ChooseResolution
  <2>2. dialog /\ fmt' = fmt /\ wfAsked' = wfAsked
    BY <1>7 DEF Formats!ChooseResolution
  <2>3. fmt \in DOMAIN Formats!Rows
    BY <2>2 DEF FormatInv, IsEntry
  <2>4. IsEntry(fmt, j)
    BY <1>2, <2>3, RowsOfFormats DEF IsEntry, Formats!Offered
  <2>5. chosen' = Formats!Rows[fmt][j]
    BY <2>1, <2>4 DEF IsEntry
  <2> QED  BY <1>4, <2>1, <2>2, <2>4, <2>5, Written
<1>8. CASE Formats!StartDriver
  <2>1. /\ prefs # Formats!NoPrefs
        /\ wfAsked' = [fourcc |-> prefs.fourcc, size |-> prefs.size, interval |-> Formats!UpsideDown(prefs.fps)]
        /\ UNCHANGED <<webcam, dialog, fmt, res, prefs, chosen>>
    BY <1>8 DEF Formats!StartDriver, Formats!StreamInterval
  <2>2. PICK i \in Nat, j \in Nat : IsEntry(i, j) /\ prefs = PrefsFor(i, j) /\ chosen = Formats!Rows[i][j]
    BY <2>1 DEF FormatInv
  <2> DEFINE e == Formats!Rows[i][j]
  <2>3. e \in FormatEntry /\ Formats!UpsideDown(Formats!UpsideDown(e.interval)) = e.interval
    BY <1>2, <2>2, TurnedTwice
  <2>4. prefs.fourcc = e.fourcc /\ prefs.size = e.size /\ prefs.fps = Formats!UpsideDown(e.interval)
    BY <1>2, <2>2, RowsOfFormats DEF PrefsFor, IsEntry
  <2> HIDE DEF e
  <2>5. wfAsked' = e
    BY <2>1, <2>3, <2>4 DEF FormatEntry
  <2>6. \E k, l \in Nat : IsEntry(k, l) /\ wfAsked' = Formats!Rows[k][l]
    BY <2>2, <2>5 DEF e
  <2> QED  BY <2>1, <2>6 DEF FormatInv
<1>9. CASE Formats!CloseDialog
  <2>1. UNCHANGED <<prefs, chosen, wfAsked>> /\ dialog' = FALSE
    BY <1>9 DEF Formats!CloseDialog
  <2> QED  BY <2>1 DEF FormatInv
<1>10. CASE UNCHANGED formatVars
  BY <1>10 DEF FormatInv, formatVars
<1> QED  BY <1>5, <1>6, <1>7, <1>8, <1>9, <1>10 DEF Formats!Next

\* A webcam is asked for what was chosen, which is something it offers
\* (webcam_driver.c:186-320, webcam_info.cpp:193-213).
FormatAsChosen == Formats!AsksForOffered /\ Formats!ChoiceShown

LEMMA FormatsSound == FormatInv => FormatAsChosen
<1> SUFFICES ASSUME FormatInv PROVE FormatAsChosen
  OBVIOUS
<1>1. Formats!ChoiceShown
  <2> SUFFICES ASSUME dialog, Formats!Rows # <<Formats!Default>>
               PROVE  /\ Formats!Rows[fmt][res] = chosen
                      /\ prefs.fps = Formats!UpsideDown(chosen.interval) /\ prefs.size = chosen.size
    BY DEF Formats!ChoiceShown
  <2>1. prefs = PrefsFor(fmt, res) /\ chosen = Formats!Rows[fmt][res]
    BY DEF FormatInv
  <2> QED  BY <2>1 DEF PrefsFor
<1>2. Formats!AsksForOffered
  <2> SUFFICES ASSUME wfAsked # Formats!Nothing, Formats!Rows # <<Formats!Default>>,
                      \A i \in DOMAIN webcam : \A k \in DOMAIN webcam[i].sizes : webcam[i].sizes[k].intervals # <<>>
               PROVE  \E i \in DOMAIN webcam : \E k \in DOMAIN webcam[i].sizes :
                         /\ webcam[i].fourcc = wfAsked.fourcc /\ webcam[i].sizes[k].size = wfAsked.size
                         /\ Formats!Offers(webcam[i], webcam[i].sizes[k], wfAsked.interval)
    BY DEF Formats!AsksForOffered
  <2>1. PICK i \in Nat, j \in Nat : IsEntry(i, j) /\ wfAsked = Formats!Rows[i][j]
    BY DEF FormatInv
  <2>2. PICK w \in 1 .. Len(webcam) : EntryOf(wfAsked, webcam[w])
    BY <2>1, RowsOfFormats DEF FormatInv, IsEntry
  <2> DEFINE f == webcam[w]
  <2>3. PICK k \in 1 .. Len(f.sizes) :
           /\ f.sizes[k].kind # "other"
           /\ \E v \in DOMAIN Formats!Intervals(f.sizes[k]) :
                 wfAsked = Formats!Entry(f, f.sizes[k], Formats!Intervals(f.sizes[k])[v])
    BY <2>2 DEF EntryOf
  <2>4. PICK v \in DOMAIN Formats!Intervals(f.sizes[k]) :
           wfAsked = Formats!Entry(f, f.sizes[k], Formats!Intervals(f.sizes[k])[v])
    BY <2>3
  <2>5. /\ w \in DOMAIN webcam /\ k \in DOMAIN f.sizes /\ f.sizes[k] \in WebcamSizes
        /\ f.sizes[k].kind = "range" => f.sizes[k].intervals # <<>>
    BY WebcamTyped DEF FormatInv
  <2>6. f.sizes[k].intervals # <<>>
    BY <2>5
  <2>7. \E l \in DOMAIN f.sizes[k].intervals : f.sizes[k].intervals[l] = Formats!Intervals(f.sizes[k])[v]
    BY <2>5, <2>6, SizeIntervals
  <2>8. /\ f.fourcc = wfAsked.fourcc /\ f.sizes[k].size = wfAsked.size
        /\ wfAsked.interval = Formats!Intervals(f.sizes[k])[v]
    BY <2>4 DEF Formats!Entry
  <2>9. Formats!Offers(f, f.sizes[k], wfAsked.interval)
    BY <2>3, <2>7, <2>8 DEF Formats!Offers
  <2> QED  BY <2>5, <2>8, <2>9
<1> QED  BY <1>1, <1>2 DEF FormatAsChosen

-----------------------------------------------------------------------
(* The drivers together *)

driverVars == <<webcamVars, eyeVars, courierVars, wiiVars, joyVars, formatVars>>

DriversInit == Camera!Init /\ Eye!Init /\ Helper!Init /\ Remote!Init /\ Stick!Init /\ Formats!Init

CameraStep == Camera!Next /\ UNCHANGED <<eyeVars, courierVars, wiiVars, joyVars, formatVars>>
EyeStep    == Eye!Next    /\ UNCHANGED <<webcamVars, courierVars, wiiVars, joyVars, formatVars>>
HelperStep == Helper!Next /\ UNCHANGED <<webcamVars, eyeVars, wiiVars, joyVars, formatVars>>
RemoteStep == Remote!Next /\ UNCHANGED <<webcamVars, eyeVars, courierVars, joyVars, formatVars>>
StickStep  == Stick!Next  /\ UNCHANGED <<webcamVars, eyeVars, courierVars, wiiVars, formatVars>>
FormatStep == Formats!Next /\ UNCHANGED <<webcamVars, eyeVars, courierVars, wiiVars, joyVars>>

DriversNext == CameraStep \/ EyeStep \/ HelperStep \/ RemoteStep \/ StickStep \/ FormatStep

DriversSpec == DriversInit /\ [][DriversNext]_driverVars

\* The pictures of a camera reach the run loop whole, in order and once, and its
\* buffers go round (webcam_driver.c:657-820, processing.c:36-183); the frames of a
\* PS3 Eye are whole, and the value of a control is not lost on its way unless the GUI
\* fills its page (ps3eye_driver.c:904-1100, ps3_prefs.c:84-126).
PicturesWhole ==
    /\ Camera!PicturesInOrder /\ Camera!BuffersGoRound /\ Helper!WholePictures
    /\ Eye!WholeFrames /\ Eye!ControlMarked

\* A remote device follows: the pose of a joystick is where its axes are, and a
\* Wiimote reports when its server was told so (joy.c:466-546,
\* wii_server.cpp:70-121).
RemoteFollows == Stick!PoseOfAxes /\ Remote!ModeIsOld

\* The modules keep their types: a running webcam has its file, its buffers and room
\* for its picture, no frame of a PS3 Eye has more parts than one, the ring of qt_cam
\* and the list of its blobs keep their bounds, and so do the events and the pose of a
\* joystick (webcam_driver.c:560-820, ps3eye_driver.c:904-1100, buffer.c:46-80,
\* joy.c:44-56).
DriversTypeOK ==
    /\ TypeOK /\ Camera!TypeOK /\ Eye!TypeOK /\ Stick!TypeOK /\ Helper!TypeOK /\ Remote!TypeOK

DriversInv == WebcamInv /\ FrameInv /\ MarkInv /\ CourierInv /\ RemoteInv /\ StickInv /\ FormatInv

LEMMA DriversBegin == DriversInit => DriversInv
BY WebcamBegins, EyeBegins, CourierBegins, RemoteBegins, StickBegins, FormatsBegin DEF DriversInit, DriversInv

LEMMA DriversKeep == DriversInv /\ [DriversNext]_driverVars => DriversInv'
<1> SUFFICES ASSUME DriversInv, [DriversNext]_driverVars PROVE DriversInv'
  OBVIOUS
<1>1. /\ Camera!Next \/ UNCHANGED webcamVars
      /\ Eye!Next \/ UNCHANGED eyeVars
      /\ Helper!Next \/ UNCHANGED courierVars
      /\ Remote!Next \/ UNCHANGED wiiVars
      /\ Stick!Next \/ UNCHANGED joyVars
      /\ Formats!Next \/ UNCHANGED formatVars
  BY Zenon DEF DriversNext, driverVars, CameraStep, EyeStep, HelperStep, RemoteStep, StickStep, FormatStep
<1> QED  BY <1>1, WebcamKeeps, FrameKeeps, MarkKeeps, CourierKeeps, RemoteKeeps, StickKeeps, FormatsKeep DEF DriversInv

LEMMA DriversInductive == DriversSpec => []DriversInv
BY DriversBegin, DriversKeep, PTL DEF DriversSpec

\* What the types of the variables need besides.
TypedInv == CameraInv /\ EyeInv /\ HelperTypes /\ RemoteTypes /\ SpanInv

LEMMA TypesBegin == DriversInit => TypedInv
BY CameraBegins, EyeTypesBegin, HelperTypesBegin, RemoteTypesBegin, SpanBegins, Zenon DEF DriversInit, TypedInv

LEMMA TypesKeep == DriversInv /\ TypedInv /\ [DriversNext]_driverVars => TypedInv'
<1> SUFFICES ASSUME DriversInv, TypedInv, [DriversNext]_driverVars PROVE TypedInv'
  OBVIOUS
<1>1. /\ Camera!Next \/ UNCHANGED webcamVars
      /\ Eye!Next \/ UNCHANGED eyeVars
      /\ Helper!Next \/ UNCHANGED courierVars
      /\ Remote!Next \/ UNCHANGED wiiVars
      /\ Stick!Next \/ UNCHANGED joyVars
  BY Zenon DEF DriversNext, driverVars, CameraStep, EyeStep, HelperStep, RemoteStep, StickStep, FormatStep
<1> QED
  BY <1>1, CameraStaysTyped, EyeStaysTyped, CourierStaysTyped, RemoteStaysTyped, SpanKeeps, Zenon
  DEF DriversInv, TypedInv

LEMMA TypesInductive == DriversSpec => []TypedInv
<1>1. DriversInv /\ TypedInv /\ [DriversNext]_driverVars => TypedInv'
  BY TypesKeep
<1> QED  BY <1>1, TypesBegin, DriversInductive, PTL DEF DriversSpec

\* Every picture a webcam's driver hands on is of one frame, later than those before, and
\* no buffer is lost (webcam_driver.c:657-820); what qt_cam's driver copies of a picture is
\* of one frame as long as no other qt_cam is left, and its blobs come in order
\* (processing.c:36-183, macwebcam_driver.c:60-140); a frame of a PS3 Eye is all of
\* one frame of the camera, whatever gets lost, and the value of a control is marked
\* until it is on its way, unless the GUI fills its page (ps3eye_driver.c:904-1100).
THEOREM PicturesAlwaysWhole == DriversSpec => []PicturesWhole
<1>1. DriversInv => PicturesWhole
  BY WebcamSound, EyeSound, CourierSound DEF DriversInv, PicturesWhole
<1> QED  BY <1>1, DriversInductive, PTL

\* A remote device follows: when all events of a joystick are read and none was dropped
\* its pose is where its axes are, and a Wiimote reports what its server last understood,
\* over losses and new connections (joy.c:463-546, wii_server.cpp:70-121).
THEOREM RemoteAlwaysFollows == DriversSpec => []RemoteFollows
<1>1. DriversInv => RemoteFollows
  BY RemoteSound, StickSound DEF DriversInv, RemoteFollows
<1> QED  BY <1>1, DriversInductive, PTL

\* Whatever is chosen in the dialog and however often it is opened, a webcam is asked for
\* a format, a size and a rate that it offers, and the rows shown as selected are those
\* last chosen (webcam_driver.c:186-320, webcam_info.cpp:76-213).
THEOREM FormatAlwaysAsChosen == DriversSpec => []FormatAsChosen
<1>1. DriversInv => FormatAsChosen
  BY FormatsSound DEF DriversInv
<1> QED  BY <1>1, DriversInductive, PTL

\* For every picture, of any size, the blobs told are its connected areas: none
\* missing, none twice and none in two parts (image_process.c:311-512).
THEOREM BlobsAlwaysAreas == Spec => []BlobsAreAreas
<1>1. BlobsInv => BlobsAreAreas
  BY DEF BlobsInv
<1> QED  BY <1>1, BlobsAlwaysInv, PTL

\* No range and no list entry points to a preblob that was merged away and freed,
\* none is merged, and a line has room for its ranges (image_process.c:338-363).
THEOREM BlobsAlwaysTyped == Spec => []TypeOK
<1>1. BlobsInv => TypeOK
  BY BlobsTyped
<1> QED  BY <1>1, BlobsAlwaysInv, PTL

\* The image processing and all drivers keep their types, for any number of buffers,
\* payloads and slots and any ranges of the axes: what runs has what it runs with, no
\* list and no buffer has more than it has room for, and no coordinate of a joystick
\* leaves the range of the pose (webcam_driver.c:560-820, ps3eye_driver.c:904-1100,
\* buffer.c:46-80, joy.c:44-56, image_process.c:338-363).
THEOREM DriversTyped == Spec /\ DriversSpec => []DriversTypeOK
<1>1. BlobsInv /\ DriversInv /\ TypedInv => DriversTypeOK
  BY BlobsTyped, CameraTyped, EyeTyped, CourierTyped, RemoteTyped, StickTyped, Zenon
  DEF DriversInv, TypedInv, DriversTypeOK
<1> QED  BY <1>1, BlobsAlwaysInv, DriversInductive, TypesInductive, PTL
=============================================================================
