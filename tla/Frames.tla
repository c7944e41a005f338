------------------------------ MODULE Frames ------------------------------
(***************************************************************************)
(* A picture from the camera to those who look at it: what a TrackIR is    *)
(* told (module TirHw) and sends (module TirPackets), the GUI thread that  *)
(* paints pictures (module Buffering) and the detector that looks for a    *)
(* face in them (module FaceDetect).  The four share no variable, so one   *)
(* run checks them all: a behaviour is one of one of them, as subject says,*)
(* and never leaves the initial state of the others.                       *)
(*                                                                         *)
(* The theorems hold for any number N >= 3 of buffers, any resolutions, any*)
(* number of frames and sessions; any lines and words of a TrackIR's       *)
(* packets, any transfers and requests; any cameras, openings, pauses and  *)
(* troubles.                                                               *)
(***************************************************************************)
EXTENDS Buffering, Sequences, WellFoundedInduction, TLAPS

CONSTANT MaxSessions     \* bound: times face tracking is started

ASSUME SessionsAssumption == MaxSessions \in Nat

VARIABLES run, frameStatus, shared, allocated, drvPc, captured, sessions, detPc, searched

faceVars == <<run, frameStatus, shared, allocated, drvPc, captured, sessions, detPc, searched>>

Face == INSTANCE FaceDetect WITH frame <- shared, status <- frameStatus

-----------------------------------------------------------------------
(* Induction and sequences *)

\* A set of numbers has a least one; the induction theorems of the library take a
\* predicate, these take a set.
LEMMA Least ==
    ASSUME NEW T, T \subseteq Nat, T # {}
    PROVE  \E m \in T : \A n \in T : m <= n
<1>1. PICK m \in T : \A n \in T : ~ (<<n, m>> \in OpToRel(<, Nat))
  BY NatLessThanWellFounded, WFMin, Zenon
<1>2. \A n \in T : ~(n < m)
  BY <1>1 DEF OpToRel
<1> QED  BY <1>2

\* What holds of 0, and of n + 1 when it does of n.
LEMMA SetInduction ==
    ASSUME NEW T, 0 \in T, \A n \in Nat : n \in T => n + 1 \in T
    PROVE  Nat \subseteq T
<1> SUFFICES ASSUME Nat \ T # {} PROVE FALSE
  OBVIOUS
<1>1. PICK m \in Nat \ T : \A n \in Nat \ T : m <= n
  BY Least
<1>2. m # 0 /\ m - 1 \in Nat /\ (m - 1) + 1 = m
  OBVIOUS
<1> QED  BY <1>1, <1>2

LEMMA SeqAppend ==
    ASSUME NEW S, NEW s \in Seq(S), NEW e \in S
    PROVE  /\ Len(s) \in Nat /\ Append(s, e) \in Seq(S) /\ Len(Append(s, e)) = Len(s) + 1
           /\ Append(s, e)[Len(s) + 1] = e
           /\ \A i \in 1 .. Len(s) : Append(s, e)[i] = s[i]
OBVIOUS

\* Joining is associative; the provers need a name they do not look into.
Join(s, t) == s \o t

LEMMA Regroup ==
    ASSUME NEW S, NEW s \in Seq(S), NEW t \in Seq(S), NEW u \in Seq(S)
    PROVE  Join(s, t) \in Seq(S) /\ Join(Join(s, t), u) = Join(s, Join(t, u))
BY SMTT(60) DEF Join

-----------------------------------------------------------------------
(* The packets of a TrackIR *)

CONSTANTS TpDevices, TpLines, TpWords, TpTransfers, TpRequests, TpCuts

\* An empty stripe is none of the lines, and a full packet holds some.
ASSUME TrackIrAssumption == TpLines \subseteq Nat \ {0} /\ TpWords \in Nat \ {0}

VARIABLES pkDevice, buf, pkSize, ptr, type, limit, full, line, stripes, pkMode, sent, frames, left,
          pkTold, transfers, pkRequests, cuts

packetVars == <<pkDevice, buf, pkSize, ptr, type, limit, full, line, stripes, pkMode, sent, frames,
                left, pkTold, transfers, pkRequests, cuts>>

Packets == INSTANCE TirPackets WITH
      Devices <- TpDevices, Lines <- TpLines, FullWords <- TpWords, MaxTransfers <- TpTransfers,
      MaxRequests <- TpRequests, MaxCuts <- TpCuts, device <- pkDevice, mode <- pkMode,
      size <- pkSize, told <- pkTold, requests <- pkRequests

(* Stripes and frames *)

PartOf == [done : Seq(Seq(Nat)), open : Seq(Nat), line : Nat]

LEMMA PartsExist ==
    ASSUME NEW s \in Seq(Nat)
    PROVE  Packets!Parts(s) = [n \in 0 .. Len(s) |->
              IF n = 0 THEN Packets!Opening ELSE Packets!Step(Packets!Parts(s)[n - 1], s[n])]
<1> DEFINE Turn(g, n) == IF n = 0 THEN Packets!Opening ELSE Packets!Step(g[n - 1], s[n])
           T == {k \in Nat : \E f : f = [n \in 0 .. k |-> Turn(f, n)]}
<1>1. 0 \in T
  <2> DEFINE f == [n \in 0 .. 0 |-> Packets!Opening]
  <2>1. f = [n \in 0 .. 0 |-> Turn(f, n)]
    OBVIOUS
  <2> QED  BY <2>1
<1>2. ASSUME NEW k \in Nat, k \in T PROVE k + 1 \in T
  <2>1. PICK f : f = [n \in 0 .. k |-> Turn(f, n)]
    BY <1>2
  <2> DEFINE g == [n \in 0 .. k + 1 |-> IF n = k + 1 THEN Turn(f, k + 1) ELSE f[n]]
  <2>2. ASSUME NEW n \in 0 .. k + 1 PROVE g[n] = Turn(g, n)
    <3>1. CASE n = k + 1
      <4>1. g[n] = Turn(f, n) /\ n # 0 /\ g[n - 1] = f[n - 1]
        BY <3>1
      <4> HIDE DEF g
      <4> QED  BY <4>1
    <3>2. CASE n \in 1 .. k
      <4>1. g[n] = f[n] /\ g[n - 1] = f[n - 1] /\ n # 0
        BY <3>2
      <4>2. f[n] = Turn(f, n)
        <5> HIDE DEF Turn
        <5>1. n \in 0 .. k
          BY <3>2
        <5> QED  BY <2>1, <5>1
      <4> HIDE DEF g
      <4> QED  BY <4>1, <4>2
    <3>3. CASE n = 0
      <4>1. g[n] = f[n] /\ f[n] = Packets!Opening
        BY <2>1, <3>3
      <4> QED  BY <3>3, <4>1
    <3> QED  BY <3>1, <3>2, <3>3
  <2>3. g = [n \in 0 .. k + 1 |-> Turn(g, n)]
    <3>1. g = [n \in 0 .. k + 1 |-> g[n]]
      OBVIOUS
    <3> HIDE DEF g, Turn
    <3> QED  BY <2>2, <3>1
  <2>4. \E e : e = [n \in 0 .. k + 1 |-> Turn(e, n)]
    <3> HIDE DEF g, Turn
    <3> QED  BY <2>3
  <2> HIDE DEF Turn
  <2> QED  BY <2>4
<1>3. Len(s) \in T
  <2>1. Len(s) \in Nat
    OBVIOUS
  <2> HIDE DEF T
  <2> QED  BY <1>1, <1>2, <2>1, SetInduction
<1>4. PICK e : e = [n \in 0 .. Len(s) |-> Turn(e, n)]
  BY <1>3
<1> DEFINE h == CHOOSE g : g = [n \in 0 .. Len(s) |-> Turn(g, n)]
<1>5. h = [n \in 0 .. Len(s) |-> Turn(h, n)]
  BY <1>4
<1>6. Packets!Parts(s) = h
  BY DEF Packets!Parts
<1> QED  BY <1>5, <1>6

\* One stripe more.
LEMMA StepTyped ==
    ASSUME NEW g \in PartOf, NEW n \in Nat
    PROVE  /\ Packets!Step(g, n) \in PartOf
           /\ Packets!Step(g, n) =
                 IF n = 0 THEN [done |-> Append(g.done, g.open), open |-> <<>>, line |-> 0]
                 ELSE IF n < g.line THEN [done |-> Append(g.done, g.open), open |-> <<n>>, line |-> n]
                 ELSE [done |-> g.done, open |-> Append(g.open, n), line |-> n]
<1>2. /\ g.done \in Seq(Seq(Nat)) /\ g.open \in Seq(Nat) /\ g.line \in Nat
  BY DEF PartOf
<1>3. Packets!Step(g, n) =
                 IF n = 0 THEN [done |-> Append(g.done, g.open), open |-> <<>>, line |-> 0]
                 ELSE IF n < g.line THEN [done |-> Append(g.done, g.open), open |-> <<n>>, line |-> n]
                 ELSE [done |-> g.done, open |-> Append(g.open, n), line |-> n]
  BY DEF Packets!Step, Packets!End
<1> DEFINE S == Seq(Nat)
<1>4. <<>> \in S /\ <<n>> \in S /\ Append(g.open, n) \in S
  BY <1>2
<1>5. g.open \in S /\ g.done \in Seq(S)
  BY <1>2
<1> HIDE DEF S
<1>6. Append(g.done, g.open) \in Seq(S)
  BY <1>5
<1>7. Packets!Step(g, n) \in [done : Seq(S), open : S, line : Nat]
  BY <1>2, <1>3, <1>4, <1>5, <1>6
<1> QED  BY <1>3, <1>7 DEF PartOf, S

LEMMA PartsStep ==
    ASSUME NEW s \in Seq(Nat)
    PROVE  /\ Packets!Parts(s)[0] = Packets!Opening
           /\ \A n \in 0 .. Len(s) - 1 : Packets!Parts(s)[n + 1] = Packets!Step(Packets!Parts(s)[n], s[n + 1])
           /\ \A n \in 0 .. Len(s) : Packets!Parts(s)[n] \in PartOf
<1> DEFINE g == Packets!Parts(s)
<1>1. g = [n \in 0 .. Len(s) |-> IF n = 0 THEN Packets!Opening ELSE Packets!Step(g[n - 1], s[n])]
  BY PartsExist
<1>2. Len(s) \in Nat /\ \A n \in 1 .. Len(s) : s[n] \in Nat
  OBVIOUS
<1> HIDE DEF g
<1>3. g[0] = Packets!Opening
  BY <1>1, <1>2
<1>4. ASSUME NEW n \in 0 .. Len(s) - 1 PROVE g[n + 1] = Packets!Step(g[n], s[n + 1])
  <2>1. n + 1 \in 0 .. Len(s) /\ n + 1 # 0 /\ (n + 1) - 1 = n
    BY <1>2
  <2> QED  BY <1>1, <2>1
<1> DEFINE T == {n \in Nat : n <= Len(s) => g[n] \in PartOf}
<1>5. 0 \in T
  <2> DEFINE S == Seq(Nat)
  <2>1. <<>> \in S /\ 0 \in Nat
    OBVIOUS
  <2> HIDE DEF S
  <2>2. [done |-> <<>>, open |-> <<>>, line |-> 0] \in [done : Seq(S), open : S, line : Nat]
    BY <2>1
  <2> QED  BY <1>3, <2>2 DEF Packets!Opening, PartOf, S
<1>6. ASSUME NEW n \in Nat, n \in T PROVE n + 1 \in T
  <2> SUFFICES ASSUME n + 1 <= Len(s) PROVE g[n + 1] \in PartOf
    OBVIOUS
  <2>1. n \in 0 .. Len(s) - 1 /\ g[n] \in PartOf /\ s[n + 1] \in Nat
    BY <1>2, <1>6
  <2> QED  BY <1>4, <2>1, StepTyped
<1>7. Nat \subseteq T
  <2> HIDE DEF T
  <2> QED  BY <1>5, <1>6, SetInduction
<1>8. \A n \in 0 .. Len(s) : g[n] \in PartOf
  BY <1>2, <1>7
<1> QED  BY <1>3, <1>4, <1>8 DEF g

\* What comes later changes nothing.
LEMMA PartsLonger ==
    ASSUME NEW s \in Seq(Nat), NEW t \in Seq(Nat), NEW c \in 0 .. Len(s)
    PROVE  Packets!Parts(s \o t)[c] = Packets!Parts(s)[c]
<1> DEFINE u == s \o t
<1>1. /\ u \in Seq(Nat) /\ Len(s) \in Nat /\ Len(u) >= Len(s) /\ Len(u) \in Nat
      /\ \A n \in 1 .. Len(s) : u[n] = s[n]
  OBVIOUS
<1> HIDE DEF u
<1> DEFINE T == {n \in Nat : n <= Len(s) => Packets!Parts(u)[n] = Packets!Parts(s)[n]}
<1>2. 0 \in T
  BY <1>1, PartsStep
<1>3. ASSUME NEW n \in Nat, n \in T PROVE n + 1 \in T
  <2> SUFFICES ASSUME n + 1 <= Len(s) PROVE Packets!Parts(u)[n + 1] = Packets!Parts(s)[n + 1]
    OBVIOUS
  <2>1. n \in 0 .. Len(s) - 1 /\ n \in 0 .. Len(u) - 1 /\ u[n + 1] = s[n + 1]
        /\ Packets!Parts(u)[n] = Packets!Parts(s)[n]
    BY <1>1, <1>3
  <2> QED  BY <1>1, <2>1, PartsStep
<1>4. Nat \subseteq T
  <2> HIDE DEF T
  <2> QED  BY <1>2, <1>3, SetInduction
<1> QED  BY <1>1, <1>4 DEF u

\* Frames that are complete stay, and the open one grows until it is complete.
Extends(a, b) == Len(a) <= Len(b) /\ \A i \in 1 .. Len(a) : a[i] = b[i]

Later(x, y) ==
    /\ Extends(x.done, y.done)
    /\ IF Len(y.done) = Len(x.done) THEN Extends(x.open, y.open) ELSE Extends(x.open, y.done[Len(x.done) + 1])

LEMMA StepLater ==
    ASSUME NEW x \in PartOf, NEW y \in PartOf, NEW n \in Nat, Later(x, y)
    PROVE  Later(x, Packets!Step(y, n))
<1>1. /\ x.done \in Seq(Seq(Nat)) /\ x.open \in Seq(Nat)
      /\ y.done \in Seq(Seq(Nat)) /\ y.open \in Seq(Nat) /\ y.line \in Nat
  BY DEF PartOf
<1> DEFINE S == Seq(Nat)
           more == Append(y.done, y.open)
           longer == Append(y.open, n)
<1>2. /\ Len(y.open) \in Nat /\ Len(longer) = Len(y.open) + 1 /\ Len(x.open) \in Nat
      /\ \A i \in 1 .. Len(y.open) : longer[i] = y.open[i]
  BY <1>1
<1>3. y.done \in Seq(S) /\ y.open \in S /\ x.done \in Seq(S)
  BY <1>1
<1> HIDE DEF S
<1>4. /\ Len(y.done) \in Nat /\ Len(x.done) \in Nat
      /\ Len(more) = Len(y.done) + 1 /\ more[Len(y.done) + 1] = y.open
      /\ \A i \in 1 .. Len(y.done) : more[i] = y.done[i]
  BY <1>3
<1> HIDE DEF more, longer
<1>5. ASSUME NEW o, NEW l PROVE Later(x, [done |-> more, open |-> o, line |-> l])
  <2> DEFINE r == [done |-> more, open |-> o, line |-> l]
  <2>1. r.done = more /\ r.open = o
    OBVIOUS
  <2> HIDE DEF r
  <2>2. Extends(x.done, more) /\ Len(more) # Len(x.done)
    BY <1>4 DEF Later, Extends
  <2>3. Extends(x.open, more[Len(x.done) + 1])
    <3>1. CASE Len(y.done) = Len(x.done)
      BY <1>4, <3>1 DEF Later
    <3>2. CASE Len(y.done) # Len(x.done)
      <4>1. Len(x.done) + 1 \in 1 .. Len(y.done)
        BY <1>4, <3>2 DEF Later, Extends
      <4> QED  BY <1>4, <3>2, <4>1 DEF Later
    <3> QED  BY <3>1, <3>2
  <2>4. Later(x, r)
    BY <2>1, <2>2, <2>3 DEF Later
  <2> QED  BY <2>4 DEF r
<1>6. Later(x, [done |-> y.done, open |-> longer, line |-> n])
  BY <1>2, <1>4 DEF Later, Extends
<1>7. CASE n = 0
  <2>1. Packets!Step(y, n) = [done |-> more, open |-> <<>>, line |-> 0]
    BY <1>7, StepTyped DEF more
  <2> QED  BY <1>5, <2>1
<1>8. CASE n # 0 /\ n < y.line
  <2>1. Packets!Step(y, n) = [done |-> more, open |-> <<n>>, line |-> n]
    BY <1>8, StepTyped DEF more
  <2> QED  BY <1>5, <2>1
<1>9. CASE n # 0 /\ ~(n < y.line)
  <2>1. Packets!Step(y, n) = [done |-> y.done, open |-> longer, line |-> n]
    BY <1>9, StepTyped DEF longer
  <2> QED  BY <1>6, <2>1
<1> QED  BY <1>7, <1>8, <1>9

LEMMA PartsLater ==
    ASSUME NEW s \in Seq(Nat), NEW c \in 0 .. Len(s)
    PROVE  Later(Packets!Parts(s)[c], Packets!Split(s))
<1> DEFINE g == Packets!Parts(s)
           T == {n \in Nat : c + n <= Len(s) => Later(g[c], g[c + n])}
<1>1. Len(s) \in Nat /\ \A n \in 1 .. Len(s) : s[n] \in Nat
  OBVIOUS
<1>2. \A n \in 0 .. Len(s) : g[n] \in PartOf
  BY PartsStep
<1>3. 0 \in T
  <2>1. c + 0 = c
    OBVIOUS
  <2>2. Later(g[c], g[c])
    <3>1. g[c] \in PartOf
      BY <1>2
    <3>2. \A p \in PartOf : Len(p.done) \in Nat /\ Len(p.open) \in Nat
      BY DEF PartOf
    <3> HIDE DEF g
    <3> QED  BY <3>1, <3>2 DEF Later, Extends
  <2> QED  BY <2>1, <2>2
<1>4. ASSUME NEW n \in Nat, n \in T PROVE n + 1 \in T
  <2> SUFFICES ASSUME c + (n + 1) <= Len(s) PROVE Later(g[c], g[c + (n + 1)])
    OBVIOUS
  <2>1. /\ c + n \in 0 .. Len(s) - 1 /\ c + n \in 0 .. Len(s) /\ c + (n + 1) = (c + n) + 1
        /\ Later(g[c], g[c + n]) /\ s[(c + n) + 1] \in Nat
    BY <1>1, <1>4
  <2>2. g[(c + n) + 1] = Packets!Step(g[c + n], s[(c + n) + 1])
    BY <2>1, PartsStep
  <2> HIDE DEF g
  <2>3. Later(g[c], Packets!Step(g[c + n], s[(c + n) + 1]))
    BY <1>2, <2>1, StepLater
  <2> QED  BY <2>1, <2>2, <2>3
<1>5. Nat \subseteq T
  <2> HIDE DEF T
  <2> QED  BY <1>3, <1>4, SetInduction
<1>6. Len(s) - c \in Nat /\ c + (Len(s) - c) = Len(s)
  BY <1>1
<1>7. Later(g[c], g[Len(s)])
  <2>1. Len(s) - c \in T
    BY <1>5, <1>6
  <2>2. Later(g[c], g[c + (Len(s) - c)])
    BY <1>1, <1>6, <2>1
  <2> QED  BY <1>6, <2>2
<1> QED  BY <1>7 DEF Packets!Split

(* The packets in the buffer *)

\* From b on there is a packet of the n stripes of s that come after the first k.
PacketAt(b, s, k, n) ==
    /\ n \in 1 .. TpWords /\ k + n <= Len(s)
    /\ buf[b + 1] = Packets!Header("stripes", 1 + 2 * n)
    /\ \A i \in 1 .. n : buf[b + 2 * i] = Packets!Stripe(s[k + i])

EndOf(b, n) == IF n = TpWords THEN b + 2 + 2 * n ELSE b + 1 + 2 * n

\* From b on there is at most one packet, which holds the rest of s.
RestAt(b, s, k) ==
    \/ b = pkSize /\ k = Len(s)
    \/ \E n \in 1 .. TpWords : PacketAt(b, s, k, n) /\ EndOf(b, n) = pkSize /\ k + n = Len(s)

\* Within a packet, j stripes before its end.
WithinAt(s, c, j) ==
    /\ j \in 1 .. TpWords /\ c + j <= Len(s) /\ limit = ptr + 2 * j
    /\ \A i \in 1 .. j : buf[ptr + 2 * i - 1] = Packets!Stripe(s[c + i])
    /\ \E e \in {IF full THEN limit + 1 ELSE limit} : RestAt(e, s, c + j)

\* The parser is at the end, at a packet, or in one, and c stripes of s are read.
Aligned(s, c) ==
    /\ ptr \in Nat /\ pkSize \in Nat
    /\ s \in Seq(TpLines \cup {0}) /\ c \in 0 .. Len(s)
    /\ \/ type = "none" /\ \E b \in {ptr} : RestAt(b, s, c)
       \/ /\ type = "none"
          /\ \E b \in {ptr}, n \in 1 .. TpWords : PacketAt(b, s, c, n) /\ RestAt(EndOf(b, n), s, c + n)
       \/ type = "none" /\ ptr = 0 /\ buf[1] = Packets!Header("status", 3) /\ RestAt(3, s, c)
       \/ type = "status" /\ limit = 3 /\ ptr = 1 /\ RestAt(3, s, c)
       \/ type = "stripes" /\ \E j \in 1 .. TpWords : WithinAt(s, c, j)

\* The frames so far are those of the stripes read, or the next stripe has just
\* been seen to begin a frame.
ReadSoFar(s, c) ==
    LET part == Packets!Parts(s)[c] IN
    \/ frames = part.done /\ stripes = part.open /\ line = part.line
    \/ /\ type = "stripes" /\ c < Len(s) /\ s[c + 1] \in 1 .. part.line - 1
       /\ frames = Append(part.done, part.open) /\ stripes = <<>> /\ line = s[c + 1]

StripesInv ==
    \E s \in Seq(TpLines \cup {0}) : \E c \in 0 .. Len(s) :
        Aligned(s, c) /\ (~left => s = sent /\ ReadSoFar(s, c))

\* A TrackIR 5's transfer holds a frame, or nothing of use.
WholeInv ==
    /\ ptr \in Nat /\ stripes = <<>> /\ sent \in Seq(Packets!Words)
    /\ \/ type = "none" /\ ptr = pkSize /\ (~left => frames = sent)
       \/ \E w \in Packets!Words, t \in {"good", "bad", "raw"} :
             /\ ptr = 0 /\ pkSize = 1 /\ buf = Packets!Whole(w, t)
             /\ type = "none" \/ (type = t /\ limit = 1)
             /\ ~left => frames \in Seq(Packets!Words) /\ sent = IF t = "good" THEN Append(frames, w) ELSE frames

PacketsInv ==
    cuts \in Nat /\ (cuts = 0 => IF pkDevice = "tir5" THEN WholeInv ELSE StripesInv)

LEMMA WordsAreLines ==
    ASSUME NEW w \in Packets!Words
    PROVE  /\ w \in Seq(TpLines \cup {0}) /\ Len(w) \in 1 .. TpWords /\ Len(w) \in Nat
           /\ \A i \in 1 .. Len(w) : w[i] \in TpLines \cup {0}
<1>1. PICK n \in 1 .. TpWords : w \in [1 .. n -> TpLines \cup {0}]
  BY DEF Packets!Words, Packets!End
<1>2. n \in Nat
  BY TrackIrAssumption
<1>3. Len(w) = n
  BY <1>1, <1>2
<1>4. w \in Seq(TpLines \cup {0})
  BY <1>1, <1>2
<1> QED  BY <1>1, <1>2, <1>3, <1>4

LEMMA LinesAreNumbers ==
    ASSUME NEW s \in Seq(TpLines \cup {0})
    PROVE  s \in Seq(Nat) /\ Len(s) \in Nat /\ \A i \in 1 .. Len(s) : s[i] \in TpLines \cup {0} /\ s[i] \in Nat
<1> DEFINE S == TpLines \cup {0}
<1>1. S \subseteq Nat
  BY TrackIrAssumption
<1>2. s \in Seq(S)
  OBVIOUS
<1> HIDE DEF S
<1>3. Len(s) \in Nat /\ s \in [1 .. Len(s) -> S]
  BY <1>2
<1>4. s \in [1 .. Len(s) -> Nat]
  BY <1>1, <1>3
<1>5. s \in Seq(Nat)
  BY <1>3, <1>4
<1>6. \A i \in 1 .. Len(s) : s[i] \in S /\ s[i] \in Nat
  BY <1>1, <1>3
<1> QED  BY <1>3, <1>5, <1>6 DEF S

LEMMA StartsEmpty == <<>> \in Seq(TpLines \cup {0}) /\ Len(<<>>) = 0 /\ 0 \in 0 .. Len(<<>>)
OBVIOUS

ListOf(p) == Len(p) \in Nat /\ p = [i \in 1 .. Len(p) |-> p[i]]

\* A packet as it comes.
LEMMA PacketCells ==
    ASSUME NEW w \in Packets!Words
    PROVE  LET p == Packets!StripePacket(w) IN
           /\ Len(p) = EndOf(0, Len(w)) /\ Len(p) \in Nat /\ ListOf(p)
           /\ p[1] = Packets!Header("stripes", 1 + 2 * Len(w))
           /\ \A i \in 1 .. Len(w) : p[2 * i] = Packets!Stripe(w[i])
<1> DEFINE many == 1 + 2 * Len(w)
           n == IF Len(w) = TpWords THEN many + 1 ELSE many
           p == Packets!StripePacket(w)
           Cell(i) == IF i = 1 THEN Packets!Header("stripes", many)
                      ELSE IF i % 2 = 0 /\ i <= many THEN Packets!Stripe(w[i \div 2]) ELSE Packets!Rest
<1>1. p = [i \in 1 .. n |-> Cell(i)]
  BY DEF Packets!StripePacket
<1>2. n \in Nat /\ Len(w) \in Nat /\ many = 1 + 2 * Len(w) /\ n >= many /\ Len(w) >= 1
  BY WordsAreLines, TrackIrAssumption
<1>3. n = EndOf(0, Len(w))
  BY <1>2 DEF EndOf
<1> HIDE DEF n
<1>4. Cell(1) = Packets!Header("stripes", 1 + 2 * Len(w))
  OBVIOUS
<1>5. ASSUME NEW i \in 1 .. Len(w) PROVE Cell(2 * i) = Packets!Stripe(w[i])
  <2>1. 2 * i # 1 /\ (2 * i) % 2 = 0 /\ 2 * i <= many /\ (2 * i) \div 2 = i
    BY <1>2
  <2> HIDE DEF many
  <2> QED  BY <2>1
<1> HIDE DEF p, Cell
<1>6. DOMAIN p = 1 .. n /\ Len(p) = n /\ p = [i \in 1 .. Len(p) |-> p[i]]
  BY <1>1, <1>2
<1>7. \A i \in 1 .. n : p[i] = Cell(i)
  BY <1>1
<1>8. p[1] = Packets!Header("stripes", 1 + 2 * Len(w))
  BY <1>2, <1>4, <1>7
<1>9. ASSUME NEW i \in 1 .. Len(w) PROVE p[2 * i] = Packets!Stripe(w[i])
  <2>1. 2 * i \in 1 .. n
    BY <1>2
  <2> QED  BY <1>5, <1>7, <2>1
<1> QED  BY <1>2, <1>3, <1>6, <1>8, <1>9 DEF p, ListOf

\* Two sequences one after the other.
LEMMA Joined ==
    ASSUME NEW p, NEW q, ListOf(p), ListOf(q)
    PROVE  /\ Len(p \o q) = Len(p) + Len(q)
           /\ \A i \in 1 .. Len(p) : (p \o q)[i] = p[i]
           /\ \A i \in 1 .. Len(q) : (p \o q)[Len(p) + i] = q[i]
           /\ ListOf(p \o q)
<1>0. /\ Len(p) \in Nat /\ p = [i \in 1 .. Len(p) |-> p[i]]
      /\ Len(q) \in Nat /\ q = [i \in 1 .. Len(q) |-> q[i]]
  BY DEF ListOf
<1> DEFINE S == {p[i] : i \in 1 .. Len(p)} \cup {q[i] : i \in 1 .. Len(q)}
<1>1. p \in Seq(S) /\ q \in Seq(S)
  <2>1. \A i \in 1 .. Len(p) : p[i] \in S
    OBVIOUS
  <2>2. \A i \in 1 .. Len(q) : q[i] \in S
    OBVIOUS
  <2> HIDE DEF S
  <2>3. p \in [1 .. Len(p) -> S] /\ q \in [1 .. Len(q) -> S]
    BY <1>0, <2>1, <2>2
  <2>4. \A n \in Nat : [1 .. n -> S] \subseteq Seq(S)
    OBVIOUS
  <2> QED  BY <1>0, <2>3, <2>4
<1> HIDE DEF S
<1>2. /\ Len(p \o q) = Len(p) + Len(q)
      /\ \A i \in 1 .. Len(p) : (p \o q)[i] = p[i]
  BY <1>1
<1>3. ASSUME NEW i \in 1 .. Len(q) PROVE (p \o q)[Len(p) + i] = q[i]
  BY <1>1
<1>4. p \o q \in Seq(S)
  BY <1>1
<1>5. p \o q \in [1 .. Len(p \o q) -> S]
  <2> DEFINE r == p \o q
  <2>1. r \in Seq(S)
    BY <1>4
  <2> HIDE DEF r
  <2>2. r \in [1 .. Len(r) -> S]
    BY <2>1
  <2> QED  BY <2>2 DEF r
<1>6. ListOf(p \o q)
  <2> DEFINE r == p \o q
  <2>1. r \in [1 .. Len(r) -> S] /\ Len(r) \in Nat
    BY <1>0, <1>2, <1>5
  <2> HIDE DEF r
  <2>2. r = [i \in 1 .. Len(r) |-> r[i]]
    BY <2>1
  <2> QED  BY <2>1, <2>2 DEF ListOf, r
<1> QED  BY <1>2, <1>3, <1>6

\* What is ahead is within the transfer.
LEMMA RestWithin ==
    ASSUME NEW b \in Nat, NEW s, NEW k, pkSize \in Nat, RestAt(b, s, k)
    PROVE  b <= pkSize /\ (b = pkSize => k = Len(s))
<1>1. CASE b = pkSize /\ k = Len(s)
  BY <1>1
<1>2. ASSUME NEW n \in 1 .. TpWords, EndOf(b, n) = pkSize PROVE b < pkSize
  BY <1>2, TrackIrAssumption DEF EndOf
<1> QED  BY <1>1, <1>2 DEF RestAt

LEMMA AlignedWithin ==
    ASSUME NEW s, NEW c, Aligned(s, c)
    PROVE  /\ ptr <= pkSize
           /\ ptr = pkSize => type = "none" /\ c = Len(s)
           /\ type # "none" => ptr < limit /\ limit <= pkSize
<1>0. ptr \in Nat /\ pkSize \in Nat /\ TpWords \in Nat
  BY TrackIrAssumption DEF Aligned
<1>1. CASE type = "none" /\ RestAt(ptr, s, c)
  BY <1>0, <1>1, RestWithin
<1>2. ASSUME NEW n \in 1 .. TpWords, type = "none", RestAt(EndOf(ptr, n), s, c + n) PROVE ptr < pkSize
  <2>1. EndOf(ptr, n) \in Nat /\ ptr < EndOf(ptr, n)
    BY <1>0 DEF EndOf
  <2>2. EndOf(ptr, n) <= pkSize
    BY <1>0, <1>2, <2>1, RestWithin
  <2> QED  BY <1>0, <2>1, <2>2
<1>4. ASSUME NEW j \in 1 .. TpWords, WithinAt(s, c, j) PROVE ptr < limit /\ limit <= pkSize
  <2>1. limit = ptr + 2 * j /\ RestAt(IF full THEN limit + 1 ELSE limit, s, c + j)
    BY <1>4 DEF WithinAt
  <2>2. limit \in Nat /\ limit > ptr
    BY <1>0, <2>1
  <2>3. limit + 1 <= pkSize \/ limit <= pkSize
    BY <1>0, <2>1, <2>2, RestWithin
  <2> QED  BY <1>0, <2>2, <2>3
<1>5. CASE type = "none" /\ \E n \in 1 .. TpWords : PacketAt(ptr, s, c, n) /\ RestAt(EndOf(ptr, n), s, c + n)
  BY <1>0, <1>2, <1>5
<1>6. CASE type = "none" /\ ptr = 0 /\ buf[1] = Packets!Header("status", 3) /\ RestAt(3, s, c)
  BY <1>0, <1>6, RestWithin
<1>7. CASE type = "status" /\ limit = 3 /\ ptr = 1 /\ RestAt(3, s, c)
  BY <1>0, <1>7, RestWithin
<1>8. CASE type = "stripes" /\ \E j \in 1 .. TpWords : WithinAt(s, c, j)
  <2>1. ptr < limit /\ limit <= pkSize
    BY <1>4, <1>8
  <2>2. limit \in Nat
    <3>1. PICK j \in 1 .. TpWords : limit = ptr + 2 * j
      BY <1>8 DEF WithinAt
    <3> QED  BY <1>0, <3>1
  <2> QED  BY <1>0, <1>8, <2>1, <2>2
<1> QED  BY <1>1, <1>5, <1>6, <1>7, <1>8 DEF Aligned

\* The buffer is not touched while it is read.
LEMMA BufferStays ==
    ASSUME buf' = buf, pkSize' = pkSize, NEW b, NEW s, NEW k
    PROVE  /\ RestAt(b, s, k)' <=> RestAt(b, s, k)
           /\ \A n : PacketAt(b, s, k, n)' <=> PacketAt(b, s, k, n)
BY DEF RestAt, PacketAt

(* A transfer that comes *)

LEMMA PacketPlaced ==
    ASSUME NEW b \in Nat, NEW k \in Nat, NEW t, NEW w \in Packets!Words, k + Len(w) <= Len(t),
           \A i \in 1 .. Len(Packets!StripePacket(w)) : buf'[b + i] = Packets!StripePacket(w)[i],
           \A i \in 1 .. Len(w) : t[k + i] = w[i]
    PROVE  PacketAt(b, t, k, Len(w))'
<1> DEFINE p == Packets!StripePacket(w)
<1>1. /\ Len(p) = EndOf(0, Len(w)) /\ Len(p) \in Nat /\ p[1] = Packets!Header("stripes", 1 + 2 * Len(w))
      /\ \A i \in 1 .. Len(w) : p[2 * i] = Packets!Stripe(w[i])
  BY PacketCells
<1>2. Len(w) \in 1 .. TpWords /\ Len(w) \in Nat /\ Len(p) >= 1 + 2 * Len(w)
  BY <1>1, WordsAreLines DEF EndOf
<1> HIDE DEF p
<1>3. buf'[b + 1] = Packets!Header("stripes", 1 + 2 * Len(w))
  <2>1. 1 \in 1 .. Len(p)
    BY <1>1, <1>2
  <2> QED  BY <1>1, <2>1 DEF p
<1>4. ASSUME NEW i \in 1 .. Len(w) PROVE buf'[b + 2 * i] = Packets!Stripe(t[k + i])
  <2>1. 2 * i \in 1 .. Len(p)
    BY <1>1, <1>2
  <2>2. p[2 * i] = Packets!Stripe(w[i])
    BY <1>1
  <2> QED  BY <2>1, <2>2 DEF p
<1> QED  BY <1>2, <1>3, <1>4 DEF PacketAt

LEMMA LastPlaced ==
    ASSUME NEW b \in Nat, NEW k \in Nat, NEW t, NEW w \in Packets!Words, k + Len(w) = Len(t),
           \A i \in 1 .. Len(Packets!StripePacket(w)) : buf'[b + i] = Packets!StripePacket(w)[i],
           \A i \in 1 .. Len(w) : t[k + i] = w[i],
           pkSize' = b + Len(Packets!StripePacket(w))
    PROVE  RestAt(b, t, k)'
<1>1. Len(w) \in 1 .. TpWords /\ Len(w) \in Nat
  BY WordsAreLines
<1>2. PacketAt(b, t, k, Len(w))'
  BY <1>1, PacketPlaced
<1>3. Len(Packets!StripePacket(w)) = EndOf(0, Len(w))
  BY PacketCells
<1>4. EndOf(b, Len(w)) = pkSize'
  BY <1>1, <1>3 DEF EndOf
<1> QED  BY <1>1, <1>2, <1>4 DEF RestAt

LEMMA StripesReceive ==
    ASSUME StripesInv, pkDevice # "tir5", cuts' = 0, cuts = 0, Packets!Receive
    PROVE  StripesInv'
<1>1. PICK s \in Seq(TpLines \cup {0}), c \in Nat : c \in 0 .. Len(s) /\ Aligned(s, c) /\ (~left => s = sent /\ ReadSoFar(s, c))
  BY DEF StripesInv
<1>2. ptr \in Nat /\ pkSize \in Nat /\ ptr >= pkSize /\ ptr <= pkSize
  BY <1>1, AlignedWithin DEF Aligned, Packets!Receive
<1>3. type = "none" /\ c = Len(s) /\ Len(s) \in Nat /\ s \in Seq(Nat)
  BY <1>1, <1>2, AlignedWithin, LinesAreNumbers
<1>4. ptr' = 0 /\ type' = type /\ frames' = frames /\ stripes' = stripes /\ line' = line /\ left' = left
  BY DEF Packets!Receive
<1>5. ASSUME NEW said \in Seq(TpLines \cup {0}), sent' = sent \o said, pkSize' \in Nat,
             RestAt(0, s \o said, c)'
             \/ (\E n \in 1 .. TpWords : PacketAt(0, s \o said, c, n)' /\ RestAt(EndOf(0, n), s \o said, c + n)')
             \/ (buf'[1] = Packets!Header("status", 3) /\ RestAt(3, s \o said, c)')
      PROVE  StripesInv'
  <2> DEFINE t == s \o said
  <2>1. t \in Seq(TpLines \cup {0}) /\ c \in 0 .. Len(t)
    BY <1>3
  <2>2. Aligned(t, c)'
    BY <1>3, <1>4, <1>5, <2>1 DEF Aligned
  <2>3. ~left' => t = sent'
    BY <1>1, <1>4, <1>5
  <2>4. ~left' => ReadSoFar(t, c)'
    <3>1. Packets!Parts(t)[c] = Packets!Parts(s)[c]
      BY <1>3, LinesAreNumbers, PartsLonger
    <3> QED  BY <1>1, <1>3, <1>4, <3>1 DEF ReadSoFar
  <2> HIDE DEF t
  <2> QED  BY <2>1, <2>2, <2>3, <2>4 DEF StripesInv
<1>6. CASE buf' = <<>> /\ pkSize' = 0 /\ sent' = sent
  <2>1. RestAt(0, s, c)'
    BY <1>3, <1>6 DEF RestAt
  <2>2. Aligned(s, c)'
    BY <1>1, <1>3, <1>4, <1>6, <2>1 DEF Aligned
  <2>3. ~left' => s = sent' /\ ReadSoFar(s, c)'
    BY <1>1, <1>3, <1>4, <1>6 DEF ReadSoFar
  <2> QED  BY <1>1, <2>2, <2>3 DEF StripesInv
<1>7. ASSUME NEW w \in Packets!Words, Packets!Transfer(Packets!StripePacket(w), w) PROVE StripesInv'
  <2> DEFINE p == Packets!StripePacket(w)
  <2>1. buf' = p /\ sent' = sent \o w /\ pkSize' = Len(p)
    BY <1>7 DEF Packets!Transfer
  <2>2. w \in Seq(TpLines \cup {0}) /\ Len(w) \in Nat /\ Len(p) \in Nat
    BY WordsAreLines, PacketCells
  <2>3. c + Len(w) = Len(s \o w) /\ \A i \in 1 .. Len(w) : (s \o w)[c + i] = w[i]
    BY <1>3, <2>2
  <2>4. RestAt(0, s \o w, c)'
    <3>1. (\A i \in 1 .. Len(p) : buf'[0 + i] = p[i]) /\ pkSize' = 0 + Len(p)
      BY <2>1, <2>2
    <3> QED  BY <1>3, <2>3, <3>1, LastPlaced
  <2> QED  BY <1>5, <2>1, <2>2, <2>4
<1>8. ASSUME NEW v \in Packets!Words, NEW w \in Packets!Words,
             Packets!Transfer(Packets!StripePacket(v) \o Packets!StripePacket(w), v \o w)
      PROVE  StripesInv'
  <2> DEFINE p == Packets!StripePacket(v)
             q == Packets!StripePacket(w)
             said == v \o w
             t == s \o said
  <2>1. buf' = p \o q /\ sent' = sent \o said /\ pkSize' = Len(p \o q)
    BY <1>8 DEF Packets!Transfer
  <2>2. /\ v \in Seq(TpLines \cup {0}) /\ w \in Seq(TpLines \cup {0})
        /\ Len(v) \in 1 .. TpWords /\ Len(v) \in Nat /\ Len(w) \in Nat
    BY WordsAreLines
  <2>3. said \in Seq(TpLines \cup {0}) /\ Len(said) = Len(v) + Len(w)
        /\ (\A i \in 1 .. Len(v) : said[i] = v[i]) /\ (\A i \in 1 .. Len(w) : said[Len(v) + i] = w[i])
    BY <2>2
  <2>31. s \in Seq(Nat) /\ said \in Seq(Nat)
    BY <2>3, LinesAreNumbers
  <2> HIDE DEF said
  <2>4. Len(t) = c + Len(said) /\ \A i \in 1 .. Len(said) : t[c + i] = said[i]
    BY <1>3, <2>31
  <2>5. /\ Len(p) \in Nat /\ Len(q) \in Nat /\ Len(p) = EndOf(0, Len(v))
        /\ ListOf(p) /\ ListOf(q)
    BY PacketCells
  <2>6. /\ Len(p \o q) = Len(p) + Len(q)
        /\ \A i \in 1 .. Len(p) : (p \o q)[i] = p[i]
        /\ \A i \in 1 .. Len(q) : (p \o q)[Len(p) + i] = q[i]
    BY <2>5, Joined
  <2> HIDE DEF t
  <2>7. PacketAt(0, t, c, Len(v))'
    <3>1. \A i \in 1 .. Len(v) : t[c + i] = v[i]
      BY <2>2, <2>3, <2>4
    <3>2. \A i \in 1 .. Len(p) : buf'[0 + i] = p[i]
      BY <2>1, <2>6
    <3>3. c + Len(v) <= Len(t)
      BY <1>3, <2>2, <2>3, <2>4
    <3> QED  BY <1>3, <3>1, <3>2, <3>3, PacketPlaced
  <2>8. RestAt(EndOf(0, Len(v)), t, c + Len(v))'
    <3>1. ASSUME NEW i \in 1 .. Len(w) PROVE t[(c + Len(v)) + i] = w[i]
      <4>1. Len(v) + i \in 1 .. Len(said) /\ (c + Len(v)) + i = c + (Len(v) + i)
        BY <1>3, <2>2, <2>3
      <4> QED  BY <2>3, <2>4, <4>1
    <3>2. \A i \in 1 .. Len(q) : buf'[Len(p) + i] = q[i]
      BY <2>1, <2>6
    <3>3. (c + Len(v)) + Len(w) = Len(t) /\ pkSize' = Len(p) + Len(q) /\ c + Len(v) \in Nat
      BY <1>3, <2>1, <2>2, <2>3, <2>4, <2>6
    <3>4. RestAt(Len(p), t, c + Len(v))'
      BY <2>5, <3>1, <3>2, <3>3, LastPlaced
    <3> QED  BY <2>5, <3>4
  <2>9. pkSize' \in Nat
    BY <2>1, <2>5, <2>6
  <2>10. \E n \in 1 .. TpWords : PacketAt(0, t, c, n)' /\ RestAt(EndOf(0, n), t, c + n)'
    BY <2>2, <2>7, <2>8
  <2> QED  BY <1>5, <2>1, <2>3, <2>9, <2>10 DEF t
<1>9. ASSUME NEW w \in Packets!Words, Packets!Transfer(Packets!Status \o Packets!StripePacket(w), w)
      PROVE  StripesInv'
  <2> DEFINE p == Packets!Status
             q == Packets!StripePacket(w)
             t == s \o w
  <2>1. buf' = p \o q /\ sent' = sent \o w /\ pkSize' = Len(p \o q)
    BY <1>9 DEF Packets!Transfer
  <2>2. w \in Seq(TpLines \cup {0}) /\ Len(w) \in Nat
    BY WordsAreLines
  <2>3. Len(t) = c + Len(w) /\ \A i \in 1 .. Len(w) : t[c + i] = w[i]
    BY <1>3, <2>2
  <2>4. Len(p) = 3 /\ ListOf(p) /\ p[1] = Packets!Header("status", 3)
    BY DEF Packets!Status, ListOf
  <2>5. Len(q) \in Nat /\ ListOf(q)
    BY PacketCells
  <2> HIDE DEF p, q, t
  <2>6. /\ Len(p \o q) = Len(p) + Len(q)
        /\ \A i \in 1 .. Len(p) : (p \o q)[i] = p[i]
        /\ \A i \in 1 .. Len(q) : (p \o q)[Len(p) + i] = q[i]
    <3>1. ListOf(p) /\ ListOf(q)
      BY <2>4, <2>5
    <3> QED  BY <3>1, Joined
  <2>7. buf'[1] = Packets!Header("status", 3)
    BY <2>1, <2>4, <2>6
  <2>8. RestAt(3, t, c)'
    <3>1. \A i \in 1 .. Len(q) : buf'[3 + i] = q[i]
      BY <2>1, <2>4, <2>6
    <3>2. pkSize' = 3 + Len(q)
      BY <2>1, <2>4, <2>6
    <3> QED  BY <1>3, <2>3, <3>1, <3>2, LastPlaced DEF q
  <2>9. pkSize' \in Nat
    BY <2>1, <2>4, <2>5, <2>6
  <2> QED  BY <1>5, <2>1, <2>2, <2>7, <2>8, <2>9 DEF t
<1> QED  BY <1>6, <1>7, <1>8, <1>9 DEF Packets!Receive

(* A transfer that is read *)

LEMMA HeaderRead ==
    ASSUME NEW s, NEW c, Aligned(s, c), Packets!ReadHeader
    PROVE  Aligned(s, c)'
<1>1. /\ ptr \in Nat /\ pkSize \in Nat /\ ptr < pkSize /\ type = "none" /\ TpWords \in Nat
      /\ buf' = buf /\ pkSize' = pkSize /\ c \in Nat
  BY TrackIrAssumption DEF Aligned, Packets!ReadHeader, Packets!Parsing, Packets!NoType
<1>2. ASSUME NEW n \in 1 .. TpWords, PacketAt(ptr, s, c, n), RestAt(EndOf(ptr, n), s, c + n)
      PROVE  Aligned(s, c)'
  <2>1. Packets!Here = Packets!Header("stripes", 1 + 2 * n)
    BY <1>2 DEF PacketAt, Packets!Here
  <2>2. Packets!Here.type = "stripes" /\ Packets!Here.size = 1 + 2 * n
    BY <2>1 DEF Packets!Header
  <2>3. /\ type' = "stripes" /\ ptr' = ptr + 1 /\ limit' = ptr + (1 + 2 * n)
        /\ full' = (1 + 2 * n = 1 + 2 * TpWords)
    BY <2>2 DEF Packets!ReadHeader
  <2>5. PICK e \in {EndOf(ptr, n)} : RestAt(e, s, c + n)'
    BY <1>1, <1>2, BufferStays
  <2>51. e = IF full' THEN limit' + 1 ELSE limit'
    <3>1. (1 + 2 * n = 1 + 2 * TpWords) <=> n = TpWords
      BY <1>1
    <3>2. full' <=> n = TpWords
      BY <2>3, <3>1, Zenon
    <3>3. e = IF n = TpWords THEN (ptr + (1 + 2 * n)) + 1 ELSE ptr + (1 + 2 * n)
      BY <1>1, <2>5 DEF EndOf
    <3>4. (IF full' THEN limit' + 1 ELSE limit') = IF n = TpWords THEN limit' + 1 ELSE limit'
      BY <3>2, Zenon
    <3> QED  BY <2>3, <3>3, <3>4
  <2>6. ASSUME NEW i \in 1 .. n PROVE buf'[ptr' + 2 * i - 1] = Packets!Stripe(s[c + i])
    <3>1. ptr' + 2 * i - 1 = ptr + 2 * i
      BY <1>1, <2>3
    <3> QED  BY <1>1, <1>2, <3>1 DEF PacketAt
  <2>7. c + n <= Len(s) /\ limit' = ptr' + 2 * n /\ ptr' \in Nat
    BY <1>1, <1>2, <2>3 DEF PacketAt
  <2>8. WithinAt(s, c, n)'
    BY <2>5, <2>51, <2>6, <2>7 DEF WithinAt
  <2> QED  BY <1>1, <2>3, <2>7, <2>8 DEF Aligned
<1>3. CASE RestAt(ptr, s, c)
  <2>1. PICK n \in 1 .. TpWords : PacketAt(ptr, s, c, n) /\ EndOf(ptr, n) = pkSize /\ c + n = Len(s)
    BY <1>1, <1>3 DEF RestAt
  <2>2. RestAt(EndOf(ptr, n), s, c + n)
    BY <2>1 DEF RestAt
  <2> QED  BY <1>2, <2>1, <2>2
<1>4. CASE ptr = 0 /\ buf[1] = Packets!Header("status", 3) /\ RestAt(3, s, c)
  <2>1. Packets!Here.type = "status" /\ Packets!Here.size = 3
    BY <1>4 DEF Packets!Here, Packets!Header
  <2>2. type' = "status" /\ ptr' = 1 /\ limit' = 3
    BY <1>4, <2>1 DEF Packets!ReadHeader
  <2>3. RestAt(3, s, c)'
    BY <1>1, <1>4, BufferStays
  <2> QED  BY <1>1, <2>2, <2>3 DEF Aligned
<1> QED  BY <1>1, <1>2, <1>3, <1>4 DEF Aligned

LEMMA HeaderThere ==
    ASSUME NEW s, NEW c, Aligned(s, c), type = "none", ptr < pkSize
    PROVE  Packets!Here.kind = "header"
<1>1. ASSUME NEW n, PacketAt(ptr, s, c, n) PROVE Packets!Here.kind = "header"
  BY <1>1 DEF PacketAt, Packets!Here, Packets!Header
<1>2. CASE ptr = 0 /\ buf[1] = Packets!Header("status", 3)
  BY <1>2 DEF Packets!Here, Packets!Header
<1>3. CASE RestAt(ptr, s, c)
  <2>1. ptr \in Nat /\ pkSize \in Nat
    BY DEF Aligned
  <2> QED  BY <1>1, <1>3, <2>1 DEF RestAt
<1> QED  BY <1>1, <1>2, <1>3 DEF Aligned

LEMMA MoveOn ==
    ASSUME NEW s, NEW c, Aligned(s, c), type = "stripes"
    PROVE  /\ c \in Nat /\ c + 1 \in 0 .. Len(s) /\ Packets!Here = Packets!Stripe(s[c + 1])
           /\ Packets!Move(ptr + 2) /\ UNCHANGED <<buf, pkSize, limit, full>> => Aligned(s, c + 1)'
<1>1. ptr \in Nat /\ pkSize \in Nat /\ c \in Nat /\ TpWords \in Nat /\ Len(s) \in Nat /\ s \in Seq(TpLines \cup {0})
  BY TrackIrAssumption DEF Aligned
<1>2. PICK j \in 1 .. TpWords : WithinAt(s, c, j)
  BY DEF Aligned
<1>3. j \in Nat /\ j >= 1 /\ limit = ptr + 2 * j /\ c + j <= Len(s) /\ limit \in Nat
  BY <1>1, <1>2 DEF WithinAt
<1>4. Packets!Here = Packets!Stripe(s[c + 1])
  <2>1. 1 \in 1 .. j /\ ptr + 2 * 1 - 1 = ptr + 1
    BY <1>1, <1>3
  <2> QED  BY <1>2, <2>1 DEF WithinAt, Packets!Here
<1>5. ASSUME Packets!Move(ptr + 2), UNCHANGED <<buf, pkSize, limit, full>> PROVE Aligned(s, c + 1)'
  <2>1. CASE j = 1
    <3>1. type' = "none" /\ ptr' = IF full THEN limit + 1 ELSE limit
      BY <1>1, <1>3, <1>5, <2>1 DEF Packets!Move, Packets!NoType
    <3>2. PICK e \in {IF full THEN limit + 1 ELSE limit} : RestAt(e, s, c + 1)
      BY <1>2, <2>1 DEF WithinAt
    <3>3. RestAt(e, s, c + 1)' /\ e = ptr'
      BY <1>5, <3>1, <3>2, BufferStays
    <3>4. ptr' \in Nat
      BY <1>3, <3>1
    <3> QED  BY <1>1, <1>3, <1>5, <3>1, <3>3, <3>4 DEF Aligned
  <2>2. CASE j # 1
    <3>1. type' = "stripes" /\ ptr' = ptr + 2
      BY <1>1, <1>3, <1>5, <2>2 DEF Packets!Move
    <3>2. ASSUME NEW i \in 1 .. j - 1 PROVE buf'[ptr' + 2 * i - 1] = Packets!Stripe(s[(c + 1) + i])
      <4>1. i + 1 \in 1 .. j /\ ptr' + 2 * i - 1 = ptr + 2 * (i + 1) - 1 /\ (c + 1) + i = c + (i + 1)
        BY <1>1, <1>3, <3>1
      <4> QED  BY <1>2, <1>5, <4>1 DEF WithinAt
    <3>3. PICK e \in {IF full THEN limit + 1 ELSE limit} : RestAt(e, s, (c + 1) + (j - 1))'
      <4>1. (c + 1) + (j - 1) = c + j
        BY <1>1, <1>3
      <4>2. PICK e \in {IF full THEN limit + 1 ELSE limit} : RestAt(e, s, c + j)
        BY <1>2 DEF WithinAt
      <4>3. RestAt(e, s, c + j)'
        BY <1>5, <4>2, BufferStays
      <4> QED  BY <4>1, <4>3
    <3>31. e = IF full' THEN limit' + 1 ELSE limit'
      BY <1>5, <3>3
    <3>4. j - 1 \in 1 .. TpWords /\ (c + 1) + (j - 1) <= Len(s) /\ limit' = ptr' + 2 * (j - 1) /\ ptr' \in Nat
      BY <1>1, <1>2, <1>3, <1>5, <2>2, <3>1
    <3>5. WithinAt(s, c + 1, j - 1)'
      BY <3>2, <3>3, <3>31, <3>4 DEF WithinAt
    <3> QED  BY <1>1, <1>3, <1>5, <3>1, <3>4, <3>5 DEF Aligned
  <2> QED  BY <2>1, <2>2
<1> QED  BY <1>1, <1>3, <1>4, <1>5

LEMMA StripesRead ==
    ASSUME StripesInv, Packets!Read
    PROVE  StripesInv'
<1>1. PICK s \in Seq(TpLines \cup {0}), c \in Nat : c \in 0 .. Len(s) /\ Aligned(s, c) /\ (~left => s = sent /\ ReadSoFar(s, c))
  BY DEF StripesInv
<1>2. /\ buf' = buf /\ pkSize' = pkSize /\ sent' = sent /\ left' = left /\ ptr < pkSize
      /\ s \in Seq(Nat) /\ Len(s) \in Nat /\ \A i \in 1 .. Len(s) : s[i] \in Nat
  BY LinesAreNumbers DEF Packets!Read, Packets!ReadHeader, Packets!UnknownType, Packets!EndStripe, Packets!NextFrame,
         Packets!AddStripe, Packets!WholePacket, Packets!Parsing, Packets!InPacket
<1> DEFINE part == Packets!Parts(s)[c]
           n == s[c + 1]
<1>3. part \in PartOf
  BY <1>1, <1>2, PartsStep
<1>4. CASE Packets!ReadHeader
  <2>1. Aligned(s, c)'
    BY <1>1, <1>4, HeaderRead
  <2>2. type = "none" /\ frames' = frames /\ stripes' = stripes /\ line' = line
    BY <1>4 DEF Packets!ReadHeader, Packets!NoType
  <2>3. ReadSoFar(s, c) => ReadSoFar(s, c)'
    BY <2>2 DEF ReadSoFar
  <2> QED  BY <1>1, <1>2, <2>1, <2>3 DEF StripesInv
<1>5. CASE Packets!UnknownType
  BY <1>1, <1>2, <1>5, HeaderThere DEF Packets!UnknownType, Packets!NoType
<1>6. ASSUME type = "stripes"
      PROVE  /\ c + 1 \in 0 .. Len(s) /\ n \in Nat /\ Packets!Here.line = n
             /\ Packets!Parts(s)[c + 1] = Packets!Step(part, n)
             /\ Packets!Move(ptr + 2) /\ UNCHANGED <<buf, pkSize, limit, full>> => Aligned(s, c + 1)'
             /\ Packets!Step(part, n) =
                   IF n = 0 THEN [done |-> Append(part.done, part.open), open |-> <<>>, line |-> 0]
                   ELSE IF n < part.line THEN [done |-> Append(part.done, part.open), open |-> <<n>>, line |-> n]
                   ELSE [done |-> part.done, open |-> Append(part.open, n), line |-> n]
  <2>1. c + 1 \in 0 .. Len(s) /\ Packets!Here = Packets!Stripe(n)
    BY <1>1, <1>6, MoveOn
  <2>2. n \in Nat /\ c \in 0 .. Len(s) - 1
    BY <1>2, <2>1
  <2>3. Packets!Parts(s)[c + 1] = Packets!Step(part, n)
    BY <1>2, <2>2, PartsStep
  <2>4. Packets!Here.line = n
    BY <2>1 DEF Packets!Stripe
  <2>5. Packets!Move(ptr + 2) /\ UNCHANGED <<buf, pkSize, limit, full>> => Aligned(s, c + 1)'
    BY <1>1, <1>6, MoveOn
  <2> HIDE DEF part, n
  <2> QED  BY <1>3, <2>1, <2>2, <2>3, <2>4, <2>5, StepTyped
<1>7. ASSUME c + 1 \in 0 .. Len(s), Aligned(s, c + 1)', ~left => ReadSoFar(s, c + 1)'
      PROVE  StripesInv'
  BY <1>1, <1>2, <1>7 DEF StripesInv
<1>8. CASE Packets!EndStripe
  <2>1. type = "stripes" /\ Packets!Here.line = 0 /\ Packets!Move(ptr + 2) /\ UNCHANGED <<buf, pkSize, limit, full>>
        /\ frames' = Append(frames, stripes) /\ stripes' = <<>> /\ line' = 0
    BY <1>8 DEF Packets!EndStripe, Packets!InPacket, Packets!End, Packets!Frame
  <2>2. n = 0 /\ Packets!Parts(s)[c + 1] = [done |-> Append(part.done, part.open), open |-> <<>>, line |-> 0]
    BY <1>6, <2>1
  <2>3. ReadSoFar(s, c) => frames = part.done /\ stripes = part.open
    BY <2>2 DEF ReadSoFar
  <2> HIDE DEF part
  <2>4. ReadSoFar(s, c) => ReadSoFar(s, c + 1)'
    BY <2>1, <2>2, <2>3 DEF ReadSoFar
  <2> QED  BY <1>1, <1>6, <1>7, <2>1, <2>4
<1>9. CASE Packets!NextFrame
  <2>1. type = "stripes" /\ Packets!Here.line \in 1 .. line - 1 /\ UNCHANGED <<buf, pkSize, ptr, type, limit, full>>
        /\ frames' = Append(frames, stripes) /\ stripes' = <<>> /\ line' = Packets!Here.line
    BY <1>9 DEF Packets!NextFrame, Packets!InPacket, Packets!Frame
  <2>2. n \in 1 .. line - 1 /\ c < Len(s) /\ line' = n
    BY <1>1, <1>2, <1>6, <2>1
  <2>3. Aligned(s, c)'
    BY <1>1, <2>1 DEF Aligned, RestAt, PacketAt, WithinAt
  <2>4. ReadSoFar(s, c) => ReadSoFar(s, c)'
    <3> HIDE DEF n
    <3>1. ASSUME ReadSoFar(s, c) PROVE frames = part.done /\ stripes = part.open /\ line = part.line
      <4>1. ~(line = n)
        BY <1>6, <2>1, <2>2
      <4> QED  BY <3>1, <4>1 DEF ReadSoFar, n
    <3> QED  BY <2>1, <2>2, <3>1 DEF ReadSoFar, n
  <2> QED  BY <1>1, <1>2, <2>3, <2>4 DEF StripesInv
<1>10. CASE Packets!AddStripe
  <2>1. type = "stripes" /\ Packets!Here.line # 0 /\ Packets!Here.line >= line
        /\ Packets!Move(ptr + 2) /\ UNCHANGED <<buf, pkSize, limit, full>>
        /\ frames' = frames /\ stripes' = Append(stripes, Packets!Here.line) /\ line' = Packets!Here.line
    BY <1>10 DEF Packets!AddStripe, Packets!InPacket, Packets!End
  <2>2. n \in Nat /\ n # 0 /\ n >= line /\ line' = n /\ stripes' = Append(stripes, n)
        /\ Packets!Parts(s)[c + 1] =
              IF n < part.line THEN [done |-> Append(part.done, part.open), open |-> <<n>>, line |-> n]
              ELSE [done |-> part.done, open |-> Append(part.open, n), line |-> n]
    BY <1>6, <2>1
  <2>3. part.line \in Nat
    BY <1>3 DEF PartOf
  <2>4. ASSUME ReadSoFar(s, c) PROVE ReadSoFar(s, c + 1)'
    <3>1. CASE frames = part.done /\ stripes = part.open /\ line = part.line
      <4>1. ~(n < part.line)
        BY <2>2, <2>3, <3>1
      <4>2. Packets!Parts(s)[c + 1] = [done |-> part.done, open |-> Append(part.open, n), line |-> n]
        BY <2>2, <4>1
      <4> HIDE DEF n, part
      <4> QED  BY <2>1, <2>2, <3>1, <4>2 DEF ReadSoFar
    <3>2. CASE n \in 1 .. part.line - 1 /\ frames = Append(part.done, part.open) /\ stripes = <<>>
      <4>1. n < part.line
        BY <2>2, <2>3, <3>2
      <4>2. Packets!Parts(s)[c + 1] = [done |-> Append(part.done, part.open), open |-> <<n>>, line |-> n]
        BY <2>2, <4>1
      <4>3. Append(<<>>, n) = <<n>>
        OBVIOUS
      <4> HIDE DEF n, part
      <4> QED  BY <2>1, <2>2, <3>2, <4>2, <4>3 DEF ReadSoFar
    <3> QED  BY <2>4, <3>1, <3>2 DEF ReadSoFar
  <2> QED  BY <1>1, <1>6, <1>7, <2>1, <2>4
<1>11. CASE Packets!WholePacket
  <2>1. type = "status" /\ limit = 3 /\ RestAt(3, s, c)
    BY <1>1, <1>11 DEF Aligned, Packets!WholePacket
  <2>2. ptr' = 3 /\ type' = "none" /\ frames' = frames /\ stripes' = stripes /\ line' = line
    BY <1>11, <2>1 DEF Packets!WholePacket, Packets!NoType
  <2>3. RestAt(3, s, c)'
    BY <1>2, <2>1, BufferStays
  <2>4. Aligned(s, c)'
    BY <1>1, <1>2, <2>2, <2>3 DEF Aligned
  <2>5. ReadSoFar(s, c) => ReadSoFar(s, c)'
    BY <2>1, <2>2 DEF ReadSoFar
  <2> QED  BY <1>1, <1>2, <2>4, <2>5 DEF StripesInv
<1> QED  BY <1>4, <1>5, <1>8, <1>9, <1>10, <1>11 DEF Packets!Read

(* The whole of it *)

LEMMA PrefixesExtend ==
    ASSUME NEW S, NEW a \in Seq(S), NEW b \in Seq(S), Extends(a, b)
    PROVE  Packets!IsPrefix(a, b)
<1>1. Len(a) \in Nat /\ Len(b) \in Nat /\ Len(a) <= Len(b)
  BY DEF Extends
<1>2. \A i \in 1 .. Len(a) : a[i] = b[i]
  BY DEF Extends
<1>3. SubSeq(a, 1, Len(a)) = SubSeq(b, 1, Len(a))
  BY <1>1, <1>2
<1> QED  BY <1>1, <1>3 DEF Packets!IsPrefix

LEMMA StripesExact ==
    ASSUME StripesInv, ~left
    PROVE  LET all == Packets!Split(sent).done \o <<Packets!Split(sent).open>> IN
           /\ Packets!IsPrefix(frames, Packets!Split(sent).done)
           /\ Packets!IsPrefix(stripes, all[Len(frames) + 1])
           /\ ptr >= pkSize => frames = Packets!Split(sent).done /\ stripes = Packets!Split(sent).open
<1>1. PICK c \in Nat : /\ c \in 0 .. Len(sent) /\ Aligned(sent, c) /\ ReadSoFar(sent, c)
                       /\ sent \in Seq(TpLines \cup {0})
  BY LinesAreNumbers DEF StripesInv
<1>2. sent \in Seq(Nat) /\ Len(sent) \in Nat /\ \A i \in 1 .. Len(sent) : sent[i] \in Nat
  BY <1>1, LinesAreNumbers
<1> DEFINE x == Packets!Parts(sent)[c]
           y == Packets!Split(sent)
           z == Packets!Parts(sent)[c + 1]
           S == Seq(Nat)
           all == y.done \o <<y.open>>
<1>3. x \in PartOf /\ y \in PartOf
  BY <1>1, <1>2, PartsStep DEF Packets!Split
<1>4. Later(x, y)
  BY <1>1, <1>2, PartsLater
<1> HIDE DEF y
<1>5. /\ x.done \in Seq(S) /\ x.open \in S /\ y.done \in Seq(S) /\ y.open \in S
      /\ x.line \in Nat
  BY <1>3 DEF PartOf
<1> HIDE DEF x
<1>6. /\ Len(y.done) \in Nat /\ Len(x.done) \in Nat /\ all \in Seq(S) /\ Len(all) = Len(y.done) + 1
      /\ all[Len(y.done) + 1] = y.open /\ \A i \in 1 .. Len(y.done) : all[i] = y.done[i]
  <2> HIDE DEF S
  <2> QED  BY <1>5
<1> HIDE DEF all
<1>7. CASE frames = x.done /\ stripes = x.open
  <2>1. Packets!IsPrefix(frames, y.done)
    <3> HIDE DEF S
    <3> QED  BY <1>4, <1>5, <1>7, PrefixesExtend DEF Later
  <2>2. Extends(x.open, all[Len(x.done) + 1]) /\ Len(x.done) + 1 \in 1 .. Len(all)
    <3>1. Len(x.done) <= Len(y.done)
      BY <1>4 DEF Later, Extends
    <3>2. CASE Len(x.done) = Len(y.done)
      BY <1>4, <1>6, <3>2 DEF Later
    <3>3. CASE Len(x.done) # Len(y.done)
      <4>1. Len(x.done) + 1 \in 1 .. Len(y.done) /\ Len(x.done) + 1 \in 1 .. Len(all)
        <5>1. Len(x.done) \in Nat /\ Len(y.done) \in Nat /\ Len(all) = Len(y.done) + 1
          BY <1>6
        <5> QED  BY <3>1, <3>3, <5>1
      <4>2. all[Len(x.done) + 1] = y.done[Len(x.done) + 1]
        BY <1>6, <4>1
      <4> QED  BY <1>4, <3>3, <4>1, <4>2 DEF Later
    <3> QED  BY <3>2, <3>3
  <2>3. all[Len(x.done) + 1] \in S
    <3> HIDE DEF S
    <3> QED  BY <1>6, <2>2
  <2>4. Packets!IsPrefix(stripes, all[Len(frames) + 1])
    BY <1>5, <1>7, <2>2, <2>3, PrefixesExtend
  <2>5. ASSUME ptr >= pkSize PROVE frames = y.done /\ stripes = y.open
    <3>1. c = Len(sent)
      <4>1. ptr \in Nat /\ pkSize \in Nat
        BY <1>1 DEF Aligned
      <4> QED  BY <1>1, <2>5, <4>1, AlignedWithin
    <3> QED  BY <1>7, <3>1 DEF x, y, Packets!Split
  <2> QED  BY <2>1, <2>4, <2>5 DEF all, y
<1>8. CASE /\ type = "stripes" /\ c < Len(sent) /\ sent[c + 1] \in 1 .. x.line - 1
           /\ frames = Append(x.done, x.open) /\ stripes = <<>>
  <2>1. c \in 0 .. Len(sent) - 1 /\ c + 1 \in 0 .. Len(sent) /\ sent[c + 1] \in Nat /\ sent[c + 1] # 0
        /\ sent[c + 1] < x.line
    BY <1>1, <1>2, <1>5, <1>8, SMTT(30)
  <2>2. z = Packets!Step(x, sent[c + 1])
    BY <1>2, <2>1, PartsStep DEF x
  <2>3. z.done = frames
    <3> DEFINE n == sent[c + 1]
               d == Append(x.done, x.open)
    <3>1. n \in Nat /\ n # 0 /\ n < x.line
      BY <2>1
    <3> HIDE DEF n
    <3>2. Packets!Step(x, n) = [done |-> d, open |-> <<n>>, line |-> n]
      BY <1>3, <3>1, StepTyped
    <3> HIDE DEF d
    <3>3. Packets!Step(x, n).done = d
      BY <3>2
    <3> QED  BY <1>8, <2>2, <3>3 DEF n, d
  <2>4. Later(z, y)
    BY <1>2, <2>1, PartsLater DEF y
  <2>5. frames \in Seq(S)
    <3> HIDE DEF S
    <3> QED  BY <1>5, <1>8
  <2> HIDE DEF z
  <2>6. Packets!IsPrefix(frames, y.done) /\ Extends(frames, y.done)
    <3> HIDE DEF S
    <3> QED  BY <1>5, <2>3, <2>4, <2>5, PrefixesExtend DEF Later
  <2>7. Packets!IsPrefix(stripes, all[Len(frames) + 1])
    <3>1. Len(frames) \in Nat /\ Len(frames) + 1 \in 1 .. Len(all)
      BY <1>6, <2>5, <2>6 DEF Extends
    <3>2. all[Len(frames) + 1] \in S
      <4> HIDE DEF S
      <4> QED  BY <1>6, <3>1
    <3>3. <<>> \in S /\ Len(<<>>) = 0 /\ \A t \in S : Extends(<<>>, t)
      BY DEF Extends
    <3> QED  BY <1>8, <3>2, <3>3, PrefixesExtend
  <2>8. ~(ptr >= pkSize)
    <3>1. ptr \in Nat /\ pkSize \in Nat
      BY <1>1 DEF Aligned
    <3> QED  BY <1>1, <1>8, <3>1, AlignedWithin
  <2> QED  BY <2>6, <2>7, <2>8 DEF all, y
<1> QED  BY <1>1, <1>7, <1>8 DEF ReadSoFar, x

LEMMA PacketsSound == PacketsInv => Packets!FramesExact
<1> SUFFICES ASSUME PacketsInv, cuts = 0, ~left
             PROVE  IF pkDevice = "tir5" THEN Packets!IsPrefix(frames, sent)
                    ELSE LET all == Packets!Split(sent).done \o <<Packets!Split(sent).open>> IN
                         /\ Packets!IsPrefix(frames, Packets!Split(sent).done)
                         /\ Packets!IsPrefix(stripes, all[Len(frames) + 1])
                         /\ ptr >= pkSize => frames = Packets!Split(sent).done
                                           /\ stripes = Packets!Split(sent).open
  BY DEF Packets!FramesExact
<1>1. CASE pkDevice # "tir5"
  <2>1. StripesInv
    BY <1>1 DEF PacketsInv
  <2> QED  BY <1>1, <2>1, StripesExact
<1>2. CASE pkDevice = "tir5"
  <2>1. WholeInv
    BY <1>2 DEF PacketsInv
  <2> DEFINE S == Packets!Words
  <2>2. frames \in Seq(S) /\ sent \in Seq(S) /\ Extends(frames, sent)
    <3>1. sent \in Seq(S)
      BY <2>1 DEF WholeInv
    <3>2. CASE frames = sent
      <4> HIDE DEF S
      <4> QED  BY <3>1, <3>2 DEF Extends
    <3>3. ASSUME NEW w \in S, frames \in Seq(S), sent = Append(frames, w) PROVE Extends(frames, sent)
      <4> HIDE DEF S
      <4> QED  BY <3>3 DEF Extends
    <3>4. CASE \E w \in S, t \in {"good", "bad", "raw"} :
                  frames \in Seq(S) /\ sent = IF t = "good" THEN Append(frames, w) ELSE frames
      <4>1. PICK w \in S, t \in {"good", "bad", "raw"} :
                  frames \in Seq(S) /\ sent = IF t = "good" THEN Append(frames, w) ELSE frames
        BY <3>4
      <4> HIDE DEF S
      <4> QED  BY <3>1, <3>2, <3>3, <4>1
    <3> QED  BY <2>1, <3>1, <3>2, <3>4 DEF WholeInv
  <2>3. Packets!IsPrefix(frames, sent)
    <3> HIDE DEF S
    <3> QED  BY <2>2, PrefixesExtend
  <2> QED  BY <1>2, <2>3
<1> QED  BY <1>1, <1>2

LEMMA NothingRead == Packets!Parts(<<>>)[0] = [done |-> <<>>, open |-> <<>>, line |-> 0]
<1>1. <<>> \in Seq(Nat)
  OBVIOUS
<1>2. Packets!Parts(<<>>)[0] = Packets!Opening
  BY <1>1, PartsStep
<1> QED  BY <1>2 DEF Packets!Opening

LEMMA PacketsBegin == Packets!Init => PacketsInv
<1> SUFFICES ASSUME Packets!Init PROVE PacketsInv
  OBVIOUS
<1>1. /\ pkSize = 0 /\ ptr = 0 /\ type = "none" /\ stripes = <<>> /\ sent = <<>> /\ frames = <<>>
      /\ line = 0 /\ cuts = 0
  BY DEF Packets!Init, Packets!NoType
<1>2. WholeInv
  <2>1. <<>> \in Seq(Packets!Words)
    OBVIOUS
  <2> QED  BY <1>1, <2>1 DEF WholeInv
<1>3. Aligned(<<>>, 0)
  <2>1. RestAt(0, <<>>, 0)
    BY <1>1, StartsEmpty DEF RestAt
  <2> QED  BY <1>1, <2>1, StartsEmpty DEF Aligned
<1>4. ReadSoFar(<<>>, 0)
  BY <1>1, NothingRead DEF ReadSoFar
<1>5. StripesInv
  BY <1>1, <1>3, <1>4, StartsEmpty DEF StripesInv
<1> QED  BY <1>1, <1>2, <1>5 DEF PacketsInv

LEMMA WholeReceive ==
    ASSUME WholeInv, pkDevice = "tir5", cuts' = 0, cuts = 0, Packets!Receive
    PROVE  WholeInv'
<1>1. ptr >= pkSize /\ ptr' = 0 /\ type' = type /\ frames' = frames /\ stripes' = stripes /\ left' = left
  BY DEF Packets!Receive
<1>2. type = "none" /\ (~left => frames = sent) /\ stripes = <<>> /\ sent \in Seq(Packets!Words)
  <2>1. ~(ptr = 0 /\ pkSize = 1)
    BY <1>1
  <2> QED  BY <2>1 DEF WholeInv
<1>3. CASE pkSize' = 0 /\ sent' = sent
  BY <1>1, <1>2, <1>3 DEF WholeInv
<1>4. ASSUME NEW w \in Packets!Words, NEW t \in {"good", "bad", "raw"},
             Packets!Transfer(Packets!Whole(w, t), IF t = "good" THEN <<w>> ELSE <<>>)
      PROVE  WholeInv'
  <2> DEFINE S == Packets!Words
  <2>1. Len(Packets!Whole(w, t)) = 1
    BY DEF Packets!Whole
  <2>2. buf' = Packets!Whole(w, t) /\ pkSize' = 1 /\ sent' = sent \o (IF t = "good" THEN <<w>> ELSE <<>>)
    BY <1>4, <2>1 DEF Packets!Transfer
  <2>3. sent' = IF t = "good" THEN Append(sent, w) ELSE sent
    <3> HIDE DEF S
    <3>1. sent \in Seq(S) /\ w \in S
      BY <1>2 DEF S
    <3>2. sent \o <<w>> = Append(sent, w) /\ sent \o <<>> = sent
      BY <3>1
    <3> QED  BY <2>2, <3>2
  <2>4. sent' \in Seq(S)
    <3> HIDE DEF S
    <3>1. sent \in Seq(S) /\ w \in S
      BY <1>2 DEF S
    <3> QED  BY <2>3, <3>1
  <2> QED  BY <1>1, <1>2, <2>2, <2>3, <2>4 DEF WholeInv
<1> QED  BY <1>3, <1>4 DEF Packets!Receive

LEMMA WholeRead ==
    ASSUME WholeInv, Packets!Read
    PROVE  WholeInv'
<1>1. /\ ptr < pkSize /\ buf' = buf /\ pkSize' = pkSize /\ sent' = sent /\ left' = left
      /\ type # "stripes" => type \in {"none", "status", "good", "bad", "raw"}
  BY DEF WholeInv, Packets!Read, Packets!ReadHeader, Packets!UnknownType, Packets!EndStripe,
         Packets!NextFrame, Packets!AddStripe, Packets!WholePacket, Packets!Parsing, Packets!InPacket
<1>2. /\ stripes = <<>> /\ sent \in Seq(Packets!Words)
      /\ \E w \in Packets!Words, t \in {"good", "bad", "raw"} :
             /\ ptr = 0 /\ pkSize = 1 /\ buf = Packets!Whole(w, t)
             /\ type = "none" \/ (type = t /\ limit = 1)
             /\ ~left => frames \in Seq(Packets!Words)
                         /\ sent = IF t = "good" THEN Append(frames, w) ELSE frames
  <2>1. ~(ptr = pkSize)
    BY <1>1 DEF WholeInv
  <2> QED  BY <2>1 DEF WholeInv
<1>3. PICK w \in Packets!Words, t \in {"good", "bad", "raw"} :
             /\ ptr = 0 /\ pkSize = 1 /\ buf = Packets!Whole(w, t)
             /\ type = "none" \/ (type = t /\ limit = 1)
             /\ ~left => frames \in Seq(Packets!Words)
                         /\ sent = IF t = "good" THEN Append(frames, w) ELSE frames
  BY <1>2
<1>4. Packets!Here = [kind |-> "header", type |-> t, frame |-> w, size |-> 1]
  BY <1>3 DEF Packets!Here, Packets!Whole
<1>5. Packets!Here.kind = "header" /\ Packets!Here.type = t /\ Packets!Here.size = 1 /\ Packets!Here.frame = w
  BY <1>4
<1>6. CASE Packets!ReadHeader
  <2>1. ptr' = 0 /\ type' = t /\ limit' = 1 /\ frames' = frames /\ stripes' = stripes
    BY <1>3, <1>5, <1>6 DEF Packets!ReadHeader
  <2> QED  BY <1>1, <1>2, <1>3, <2>1 DEF WholeInv
<1>7. CASE Packets!WholePacket
  <2>1. ptr' = 1 /\ type' = "none" /\ type = t
    BY <1>3, <1>7 DEF Packets!WholePacket, Packets!NoType
  <2>2. w \in Seq(TpLines \cup {0})
    BY WordsAreLines
  <2>3. <<>> \o w = w
    BY <2>2
  <2>4. (IF t = "good" THEN frames' = Append(frames, w) ELSE frames' = frames) /\ stripes' = <<>>
    BY <1>2, <1>5, <1>7, <2>1, <2>3 DEF Packets!WholePacket, Packets!Frame
  <2> QED  BY <1>1, <1>2, <1>3, <2>1, <2>4 DEF WholeInv
<1>8. ~Packets!UnknownType /\ type # "stripes"
  BY <1>3, <1>5 DEF Packets!UnknownType
<1> QED  BY <1>6, <1>7, <1>8 DEF Packets!Read, Packets!EndStripe, Packets!NextFrame, Packets!AddStripe, Packets!InPacket

LEMMA PacketsStill ==
    ASSUME UNCHANGED <<buf, pkSize, ptr, type, limit, full, line, stripes, sent, frames, left>>
    PROVE  (WholeInv => WholeInv') /\ (StripesInv => StripesInv')
<1>1. WholeInv => WholeInv'
  BY DEF WholeInv
<1>2. \A s, c : Aligned(s, c) => Aligned(s, c)'
  BY DEF Aligned, RestAt, PacketAt, WithinAt
<1>3. \A s, c : ReadSoFar(s, c) => ReadSoFar(s, c)'
  BY DEF ReadSoFar
<1> QED  BY <1>1, <1>2, <1>3 DEF StripesInv

LEMMA PacketsRestart ==
    ASSUME Packets!Restart
    PROVE  (WholeInv => WholeInv') /\ (StripesInv => StripesInv')
<1>1. /\ UNCHANGED <<buf, pkSize, ptr, type, limit, full, line, stripes>>
      /\ sent' = <<>> /\ frames' = <<>> /\ (~left' => stripes = <<>> /\ ~(ptr < pkSize) /\ line = 0)
  BY DEF Packets!Restart, Packets!statics
<1>2. ASSUME WholeInv PROVE WholeInv'
  <2>1. <<>> \in Seq(Packets!Words)
    OBVIOUS
  <2> QED  BY <1>1, <1>2, <2>1 DEF WholeInv
<1>3. ASSUME StripesInv PROVE StripesInv'
  <2>1. PICK s \in Seq(TpLines \cup {0}), c \in Nat : c \in 0 .. Len(s) /\ Aligned(s, c)
    BY <1>3, LinesAreNumbers DEF StripesInv
  <2>2. CASE left'
    <3>1. Aligned(s, c)'
      BY <1>1, <2>1 DEF Aligned, RestAt, PacketAt, WithinAt
    <3> QED  BY <2>1, <2>2, <3>1 DEF StripesInv
  <2>3. CASE ~left'
    <3>1. ptr = pkSize /\ type = "none" /\ ptr \in Nat
      <4>1. ptr \in Nat /\ pkSize \in Nat
        BY <2>1 DEF Aligned
      <4> QED  BY <1>1, <2>1, <2>3, <4>1, AlignedWithin
    <3>2. Aligned(<<>>, 0)'
      <4>1. \E b \in {ptr'} : RestAt(b, <<>>, 0)'
        BY <1>1, <3>1, StartsEmpty DEF RestAt
      <4> QED  BY <1>1, <3>1, <4>1, StartsEmpty DEF Aligned
    <3>3. ReadSoFar(<<>>, 0)'
      BY <1>1, <2>3, NothingRead DEF ReadSoFar
    <3> QED  BY <1>1, <3>2, <3>3, StartsEmpty DEF StripesInv
  <2> QED  BY <2>2, <2>3
<1> QED  BY <1>2, <1>3

LEMMA PacketsKeep == PacketsInv /\ (Packets!Next \/ UNCHANGED packetVars) => PacketsInv'
<1> SUFFICES ASSUME PacketsInv, Packets!Next \/ UNCHANGED packetVars PROVE PacketsInv'
  OBVIOUS
<1>1. pkDevice' = pkDevice /\ (cuts' = cuts \/ cuts' = cuts + 1)
  BY DEF Packets!Next, Packets!Receive, Packets!Transfer, Packets!Read, Packets!ReadHeader, Packets!UnknownType,
         Packets!EndStripe, Packets!NextFrame, Packets!AddStripe, Packets!WholePacket, Packets!Interrupted,
         Packets!AskedBetween, Packets!GoOn, Packets!Restart, Packets!counters, packetVars
<1>2. cuts \in Nat
  BY DEF PacketsInv
<1>3. SUFFICES ASSUME cuts = 0, cuts' = 0 PROVE IF pkDevice = "tir5" THEN WholeInv' ELSE StripesInv'
  BY <1>1, <1>2 DEF PacketsInv
<1>4. CASE Packets!Receive
  BY <1>3, <1>4, StripesReceive, WholeReceive DEF PacketsInv
<1>5. CASE Packets!Read
  BY <1>3, <1>5, StripesRead, WholeRead DEF PacketsInv
<1>6. CASE Packets!Restart
  BY <1>3, <1>6, PacketsRestart DEF PacketsInv
<1>7. CASE Packets!Interrupted \/ Packets!AskedBetween \/ Packets!GoOn \/ UNCHANGED packetVars
  <2>1. UNCHANGED <<buf, pkSize, ptr, type, limit, full, line, stripes, sent, frames, left>>
    BY <1>7 DEF Packets!Interrupted, Packets!AskedBetween, Packets!GoOn, Packets!statics, packetVars
  <2> QED  BY <1>3, <2>1, PacketsStill DEF PacketsInv
<1> QED  BY <1>4, <1>5, <1>6, <1>7 DEF Packets!Next

(* Types of a transfer *)

CellTyped(c) ==
    /\ c.kind = "header" => /\ c.type \in {"stripes", "status", "good", "bad", "raw"} /\ c.size \in Nat
                            /\ c.type = "stripes" => \E n \in Nat \ {0} : c.size = 1 + 2 * n
    /\ c.kind = "stripe" => c.line \in TpLines \cup {0}

\* A transfer, or none; it starts with a header.
TransferTyped(b) ==
    /\ Len(b) \in Nat /\ \A i \in 1 .. Len(b) : CellTyped(b[i])
    /\ Len(b) > 0 => b[1].kind = "header"

\* Within a packet of stripes whole stripes are left; a transfer that timed out half
\* way leaves the limit of another one behind.
LimitInv ==
    type = "stripes" => (ptr = 0 /\ limit > 0) \/ \E n \in Nat \ {0} : limit = ptr + 2 * n

PacketsTyped ==
    /\ TransferTyped(buf) /\ pkSize \in 0 .. Len(buf) /\ ptr \in 0 .. pkSize + 1 /\ limit \in Nat
    /\ type \in {"none", "stripes", "status", "good", "bad", "raw"}
    /\ line \in TpLines \cup {0} /\ pkMode \in {"entered", "reading", "asked"}
    /\ pkTold \in {"frame", "again", "garbage"} /\ left \in BOOLEAN
    /\ LimitInv

LEMMA PacketsBeginTyped == Packets!Init => PacketsTyped
<1> SUFFICES ASSUME Packets!Init PROVE PacketsTyped
  OBVIOUS
<1>1. buf = <<>> /\ Len(<<>>) = 0 /\ pkSize = 0 /\ ptr = 0 /\ limit = 0 /\ type = "none" /\ line = 0
  BY DEF Packets!Init, Packets!NoType
<1>2. TransferTyped(buf)
  BY <1>1 DEF TransferTyped
<1>3. pkMode = "entered" /\ pkTold = "garbage"
  BY DEF Packets!Init
<1>4. left \in BOOLEAN
  BY Zenon DEF Packets!Init
<1>5. LimitInv
  BY <1>1 DEF LimitInv
<1> QED  BY <1>1, <1>2, <1>3, <1>4, <1>5 DEF PacketsTyped

LEMMA StripesTyped ==
    ASSUME NEW w \in Packets!Words
    PROVE  LET p == Packets!StripePacket(w) IN TransferTyped(p) /\ ListOf(p) /\ Len(p) > 1
<1> DEFINE many == 1 + 2 * Len(w)
           n == IF Len(w) = TpWords THEN many + 1 ELSE many
           p == Packets!StripePacket(w)
           Cell(i) == IF i = 1 THEN Packets!Header("stripes", many)
                      ELSE IF i % 2 = 0 /\ i <= many THEN Packets!Stripe(w[i \div 2]) ELSE Packets!Rest
<1>1. p = [i \in 1 .. n |-> Cell(i)]
  BY DEF Packets!StripePacket
<1>2. n \in Nat /\ Len(w) \in Nat /\ many = 1 + 2 * Len(w) /\ n >= many /\ Len(w) >= 1
  BY WordsAreLines, TrackIrAssumption
<1>3. ASSUME NEW i \in 1 .. n PROVE CellTyped(Cell(i))
  <2>1. CASE i = 1
    <3>1. Cell(i) = [kind |-> "header", type |-> "stripes", size |-> many]
      BY <2>1 DEF Packets!Header
    <3>2. Len(w) \in Nat \ {0} /\ many \in Nat /\ many = 1 + 2 * Len(w)
      BY <1>2
    <3> HIDE DEF Cell, many
    <3> QED  BY <3>1, <3>2 DEF CellTyped
  <2>2. CASE i # 1 /\ i % 2 = 0 /\ i <= many
    <3>1. Cell(i) = [kind |-> "stripe", line |-> w[i \div 2]]
      BY <2>2 DEF Packets!Stripe
    <3>2. i \div 2 \in 1 .. Len(w)
      BY <1>2, <2>2
    <3>3. w[i \div 2] \in TpLines \cup {0}
      BY <3>2, WordsAreLines
    <3> HIDE DEF Cell, many
    <3> QED  BY <3>1, <3>3 DEF CellTyped
  <2>3. CASE i # 1 /\ ~(i % 2 = 0 /\ i <= many)
    <3>1. Cell(i) = [kind |-> "rest"]
      BY <2>3 DEF Packets!Rest
    <3> HIDE DEF Cell, many
    <3> QED  BY <3>1 DEF CellTyped
  <2> QED  BY <2>1, <2>2, <2>3
<1>4. Cell(1).kind = "header"
  BY DEF Packets!Header
<1> HIDE DEF Cell, n, many
<1>5. Len(p) = n
  BY <1>1, <1>2
<1>6. \A i \in 1 .. n : p[i] = Cell(i)
  BY <1>1
<1>7. n > 1
  BY <1>2
<1> HIDE DEF p
<1>8. TransferTyped(p) /\ Len(p) > 1
  BY <1>2, <1>3, <1>4, <1>5, <1>6, <1>7 DEF TransferTyped
<1> QED  BY <1>8, PacketCells DEF p

LEMMA JoinedTyped ==
    ASSUME NEW p, NEW q, TransferTyped(p), TransferTyped(q), ListOf(p), ListOf(q), Len(p) > 1
    PROVE  TransferTyped(p \o q) /\ Len(p \o q) > 1
<1>1. /\ Len(p \o q) = Len(p) + Len(q) /\ Len(p) \in Nat /\ Len(q) \in Nat
      /\ \A i \in 1 .. Len(p) : (p \o q)[i] = p[i]
      /\ \A i \in 1 .. Len(q) : (p \o q)[Len(p) + i] = q[i]
  BY Joined DEF ListOf
<1> DEFINE u == p \o q
<1> HIDE DEF u
<1>2. ASSUME NEW i \in 1 .. Len(u) PROVE CellTyped(u[i])
  <2>1. CASE i \in 1 .. Len(p)
    BY <1>1, <2>1 DEF TransferTyped, u
  <2>2. CASE i > Len(p)
    <3>1. i - Len(p) \in 1 .. Len(q) /\ Len(p) + (i - Len(p)) = i
      BY <1>1, <1>2, <2>2 DEF u
    <3>2. u[i] = q[i - Len(p)]
      BY <1>1, <3>1 DEF u
    <3> QED  BY <3>1, <3>2 DEF TransferTyped
  <2> QED  BY <1>1, <2>1, <2>2 DEF u
<1>3. u[1] = p[1] /\ Len(u) \in Nat /\ Len(u) > 1
  BY <1>1 DEF u
<1>4. TransferTyped(u)
  BY <1>2, <1>3 DEF TransferTyped
<1> QED  BY <1>3, <1>4 DEF u

\* Whatever comes in is typed, whole or cut short.
LEMMA ReceiveTyped ==
    ASSUME PacketsTyped, Packets!Receive
    PROVE  PacketsTyped'
<1>1. /\ ptr' = 0 /\ ptr >= pkSize /\ pkMode' = "reading"
      /\ UNCHANGED <<type, limit, line, left, pkTold>>
  BY DEF Packets!Receive
<1>2. LimitInv'
  BY <1>1 DEF PacketsTyped, LimitInv
<1>3. ASSUME NEW b, buf' = b, TransferTyped(b), pkSize' \in 0 .. Len(b) PROVE PacketsTyped'
  <2>1. TransferTyped(buf)'
    BY <1>3 DEF TransferTyped, CellTyped
  <2>2. left' \in BOOLEAN
    BY <1>1, Zenon DEF PacketsTyped
  <2>3. pkSize' \in Nat /\ ptr' \in 0 .. pkSize' + 1
    <3>1. Len(b) \in Nat
      BY <1>3 DEF TransferTyped
    <3>2. pkSize' \in Nat
      BY <1>3, <3>1
    <3>3. \A n \in Nat : 0 \in 0 .. n + 1
      OBVIOUS
    <3> QED  BY <1>1, <3>2, <3>3, Zenon
  <2> QED  BY <1>1, <1>2, <1>3, <2>1, <2>2, <2>3 DEF PacketsTyped
<1>4. ASSUME NEW b, NEW said, TransferTyped(b), Len(b) > 0, Packets!Transfer(b, said) PROVE PacketsTyped'
  <2>1. buf' = b /\ pkSize' \in 0 .. Len(b)
    BY <1>4 DEF Packets!Transfer, TransferTyped
  <2> QED  BY <1>3, <1>4, <2>1
<1>5. CASE buf' = <<>> /\ pkSize' = 0
  <2>1. Len(<<>>) = 0
    OBVIOUS
  <2>2. TransferTyped(<<>>)
    BY <2>1 DEF TransferTyped
  <2> QED  BY <1>3, <1>5, <2>1, <2>2
<1>6. ASSUME NEW w \in Packets!Words, Packets!Transfer(Packets!StripePacket(w), w) PROVE PacketsTyped'
  <2>1. TransferTyped(Packets!StripePacket(w)) /\ Len(Packets!StripePacket(w)) > 0
    BY StripesTyped DEF TransferTyped
  <2> QED  BY <1>4, <1>6, <2>1
<1>7. ASSUME NEW v \in Packets!Words, NEW w \in Packets!Words,
             Packets!Transfer(Packets!StripePacket(v) \o Packets!StripePacket(w), v \o w)
      PROVE  PacketsTyped'
  <2> DEFINE p == Packets!StripePacket(v)
             q == Packets!StripePacket(w)
  <2>1. TransferTyped(p) /\ ListOf(p) /\ Len(p) > 1 /\ TransferTyped(q) /\ ListOf(q)
    BY StripesTyped
  <2> HIDE DEF p, q
  <2>2. TransferTyped(p \o q) /\ Len(p \o q) > 1
    BY <2>1, JoinedTyped
  <2>3. Len(p \o q) > 0
    BY <2>2 DEF TransferTyped
  <2> QED  BY <1>4, <1>7, <2>2, <2>3 DEF p, q
<1>8. ASSUME NEW w \in Packets!Words, Packets!Transfer(Packets!Status \o Packets!StripePacket(w), w)
      PROVE  PacketsTyped'
  <2> DEFINE p == Packets!Status
             q == Packets!StripePacket(w)
  <2>1. Len(p) = 3 /\ ListOf(p) /\ p[1] = [kind |-> "header", type |-> "status", size |-> 3]
        /\ p[2] = [kind |-> "rest"] /\ p[3] = [kind |-> "rest"]
    BY DEF Packets!Status, ListOf, Packets!Header, Packets!Rest
  <2>2. TransferTyped(q) /\ ListOf(q)
    BY StripesTyped
  <2> HIDE DEF p, q
  <2>3. \A i \in 1 .. 3 : CellTyped(p[i])
    BY <2>1 DEF CellTyped
  <2>4. TransferTyped(p)
    BY <2>1, <2>3 DEF TransferTyped
  <2>41. ListOf(p) /\ Len(p) > 1
    BY <2>1
  <2>5. TransferTyped(p \o q) /\ Len(p \o q) > 1
    BY <2>2, <2>4, <2>41, JoinedTyped
  <2>6. Len(p \o q) > 0
    BY <2>5 DEF TransferTyped
  <2> QED  BY <1>4, <1>8, <2>5, <2>6 DEF p, q
<1>9. ASSUME NEW w \in Packets!Words, NEW t \in {"good", "bad", "raw"}, NEW said, Packets!Transfer(Packets!Whole(w, t), said)
      PROVE  PacketsTyped'
  <2> DEFINE p == Packets!Whole(w, t)
  <2>1. Len(p) = 1 /\ p[1] = [kind |-> "header", type |-> t, frame |-> w, size |-> 1]
    BY DEF Packets!Whole
  <2> HIDE DEF p
  <2>2. CellTyped(p[1])
    BY <2>1 DEF CellTyped
  <2>3. TransferTyped(p) /\ Len(p) > 0
    BY <2>1, <2>2 DEF TransferTyped
  <2> QED  BY <1>4, <1>9, <2>3 DEF p
<1> QED  BY <1>5, <1>6, <1>7, <1>8, <1>9 DEF Packets!Receive

LEMMA ReadTyped ==
    ASSUME PacketsTyped, Packets!Read
    PROVE  PacketsTyped'
<1>1. /\ TransferTyped(buf) /\ Len(buf) \in Nat /\ pkSize \in 0 .. Len(buf) /\ ptr \in 0 .. pkSize + 1 /\ limit \in Nat
      /\ pkSize \in Nat /\ ptr \in Nat /\ LimitInv
  BY DEF PacketsTyped, TransferTyped
<1>2. /\ ptr < pkSize /\ ptr + 1 \in 1 .. Len(buf) /\ Len(buf) > 0
      /\ UNCHANGED <<buf, pkSize, left>>
  BY <1>1 DEF Packets!Read, Packets!ReadHeader, Packets!UnknownType, Packets!EndStripe, Packets!NextFrame,
              Packets!AddStripe, Packets!WholePacket, Packets!InPacket, Packets!Parsing
<1>3. CellTyped(Packets!Here) /\ buf[1].kind = "header"
  BY <1>1, <1>2 DEF TransferTyped, Packets!Here
<1>4. TransferTyped(buf)' /\ left' \in BOOLEAN /\ pkSize' \in 0 .. Len(buf')
  <2>1. TransferTyped(buf) => TransferTyped(buf)'
    BY <1>2 DEF TransferTyped, CellTyped
  <2>2. left \in BOOLEAN
    BY DEF PacketsTyped
  <2>3. left' \in BOOLEAN
    BY <1>2, <2>2, Zenon
  <2> QED  BY <1>1, <1>2, <2>1, <2>3
<1>5. CASE Packets!ReadHeader
  <2>1. /\ Packets!Here.kind = "header" /\ type' = Packets!Here.type /\ limit' = ptr + Packets!Here.size
        /\ ptr' = IF Packets!Here.type \in {"stripes", "status"} THEN ptr + 1 ELSE ptr
        /\ UNCHANGED <<line, pkMode, pkTold>>
    BY <1>5 DEF Packets!ReadHeader
  <2>2. /\ type' \in {"stripes", "status", "good", "bad", "raw"} /\ Packets!Here.size \in Nat
        /\ type' = "stripes" => \E n \in Nat \ {0} : Packets!Here.size = 1 + 2 * n
    BY <1>3, <2>1 DEF CellTyped
  <2>3. ptr' \in 0 .. pkSize + 1 /\ limit' \in Nat
    BY <1>1, <1>2, <2>1, <2>2
  <2>4. LimitInv'
    <3> SUFFICES ASSUME type' = "stripes" PROVE \E n \in Nat \ {0} : limit' = ptr' + 2 * n
      BY DEF LimitInv
    <3>1. PICK n \in Nat \ {0} : Packets!Here.size = 1 + 2 * n
      BY <2>2
    <3> QED  BY <1>1, <2>1, <3>1
  <2> QED  BY <1>2, <1>4, <2>1, <2>2, <2>3, <2>4 DEF PacketsTyped
<1>6. CASE Packets!UnknownType
  <2>1. ptr' = pkSize /\ pkMode' = "reading" /\ type = "none" /\ UNCHANGED <<type, limit, line, pkTold>>
    BY <1>6 DEF Packets!UnknownType, Packets!NoType
  <2> QED  BY <1>1, <1>2, <1>4, <2>1 DEF PacketsTyped, LimitInv
<1>7. ASSUME Packets!InPacket
      PROVE  /\ type = "stripes" /\ limit <= pkSize /\ Packets!Here.line \in TpLines \cup {0}
             /\ \E n \in Nat \ {0} : limit = ptr + 2 * n
  <2>1. type = "stripes" /\ limit <= pkSize /\ Packets!Here.kind = "stripe"
    BY <1>7 DEF Packets!InPacket
  <2>2. ptr # 0
    BY <1>3, <2>1 DEF Packets!Here
  <2> QED  BY <1>1, <1>3, <2>1, <2>2 DEF LimitInv, CellTyped
<1>8. ASSUME Packets!InPacket, Packets!Move(ptr + 2), limit' = limit, line' \in TpLines \cup {0},
             pkMode' \in {"entered", "reading", "asked"}, pkTold' \in {"frame", "again", "garbage"}
      PROVE  PacketsTyped'
  <2>1. PICK n \in Nat \ {0} : limit = ptr + 2 * n
    BY <1>7, <1>8
  <2>2. limit <= pkSize /\ type = "stripes"
    BY <1>7, <1>8
  <2>3. CASE ptr + 2 >= limit
    <3>1. type' = "none" /\ ptr' \in {ptr + 2, (ptr + 2) + 1}
      BY <1>8, <2>3 DEF Packets!Move, Packets!NoType
    <3>2. ptr' \in 0 .. pkSize + 1
      BY <1>1, <2>1, <2>2, <2>3, <3>1
    <3> QED  BY <1>1, <1>2, <1>4, <1>8, <3>1, <3>2 DEF PacketsTyped, LimitInv
  <2>4. CASE ~(ptr + 2 >= limit)
    <3>1. type' = "stripes" /\ ptr' = ptr + 2
      BY <1>8, <2>2, <2>4 DEF Packets!Move
    <3>2. ptr' \in 0 .. pkSize + 1
      BY <1>1, <2>1, <2>2, <2>4, <3>1
    <3>3. n - 1 \in Nat \ {0} /\ limit' = ptr' + 2 * (n - 1)
      BY <1>1, <1>8, <2>1, <2>4, <3>1
    <3>4. LimitInv'
      BY <3>3 DEF LimitInv
    <3> QED  BY <1>1, <1>2, <1>4, <1>8, <3>1, <3>2, <3>4 DEF PacketsTyped
  <2> QED  BY <2>3, <2>4
<1>9. CASE Packets!EndStripe
  BY <1>8, <1>9 DEF Packets!EndStripe, Packets!Frame
<1>10. CASE Packets!NextFrame
  <2>1. /\ Packets!InPacket /\ line' = Packets!Here.line /\ pkMode' = "entered" /\ pkTold' = "frame"
        /\ UNCHANGED <<ptr, type, limit>>
    BY <1>10 DEF Packets!NextFrame, Packets!Frame
  <2>2. LimitInv'
    BY <1>1, <2>1 DEF LimitInv
  <2> QED  BY <1>1, <1>2, <1>4, <1>7, <2>1, <2>2 DEF PacketsTyped
<1>11. CASE Packets!AddStripe
  <2>1. Packets!InPacket /\ line' = Packets!Here.line /\ Packets!Move(ptr + 2) /\ pkMode' = "reading"
        /\ limit' = limit /\ pkTold' = pkTold
    BY <1>11 DEF Packets!AddStripe
  <2> QED  BY <1>7, <1>8, <2>1 DEF PacketsTyped
<1>12. CASE Packets!WholePacket
  <2>1. /\ limit <= pkSize /\ ptr' = limit /\ type' = "none" /\ UNCHANGED <<limit, line>>
        /\ pkMode' \in {"entered", "reading"} /\ pkTold' \in {"frame", pkTold}
    BY <1>12 DEF Packets!WholePacket, Packets!Frame, Packets!NoType
  <2> QED  BY <1>1, <1>2, <1>4, <2>1 DEF PacketsTyped, LimitInv
<1> QED  BY <1>5, <1>6, <1>9, <1>10, <1>11, <1>12 DEF Packets!Read

LEMMA PacketsKeepTyped ==
    ASSUME PacketsTyped, Packets!Next \/ UNCHANGED packetVars
    PROVE  PacketsTyped'
<1>1. ASSUME UNCHANGED <<buf, pkSize, ptr, type, limit, line>>, left' \in BOOLEAN,
             pkMode' \in {"entered", "reading", "asked"}, pkTold' \in {"frame", "again", "garbage"}
      PROVE  PacketsTyped'
  BY <1>1 DEF PacketsTyped, TransferTyped, CellTyped, LimitInv
<1>2. CASE Packets!Interrupted \/ Packets!AskedBetween \/ Packets!GoOn \/ UNCHANGED packetVars
  <2>1. UNCHANGED <<buf, pkSize, ptr, type, limit, line, left>> /\ pkMode' \in {"entered", "asked", pkMode}
        /\ pkTold' \in {"garbage", "again", pkTold}
    BY <1>2 DEF Packets!Interrupted, Packets!AskedBetween, Packets!GoOn, packetVars, Packets!statics
  <2>2. left' \in BOOLEAN
    BY <2>1, Zenon DEF PacketsTyped
  <2> QED  BY <1>1, <2>1, <2>2 DEF PacketsTyped
<1>3. CASE Packets!Restart
  <2>1. UNCHANGED <<buf, pkSize, ptr, type, limit, line, pkTold>> /\ pkMode' = "entered"
    BY <1>3 DEF Packets!Restart, Packets!statics
  <2>2. left' \in BOOLEAN
    BY <1>3, Zenon DEF Packets!Restart
  <2> QED  BY <1>1, <2>1, <2>2 DEF PacketsTyped
<1> QED  BY <1>2, <1>3, ReceiveTyped, ReadTyped DEF Packets!Next

LEMMA PacketsAreTyped == PacketsTyped => Packets!TypeOK
<1> SUFFICES ASSUME PacketsTyped PROVE Packets!TypeOK
  OBVIOUS
<1>1. type = "stripes" => ptr < limit
  BY DEF PacketsTyped, LimitInv, TransferTyped
<1> QED  BY <1>1 DEF PacketsTyped, Packets!TypeOK, Packets!NoType

-----------------------------------------------------------------------
(* The camera of a TrackIR *)

CONSTANTS HwKinds, HwOpens, HwPauses, HwTroubles

ASSUME HardwareAssumption == HwKinds \subseteq {"tir2", "tir3", "tir4", "tir5", "tir5v3", "sn3", "sn4"}

VARIABLES kind, plugged, dev, todo, hwPhase, irOn, hwSignals, status, handle, owner, claimed, trouble,
          opens, hwPauses

hardwareVars == <<kind, plugged, dev, todo, hwPhase, irOn, hwSignals, status, handle, owner,
                  claimed, trouble, opens, hwPauses>>

Hardware == INSTANCE TirHw WITH
      Kinds <- HwKinds, MaxOpens <- HwOpens, MaxPauses <- HwPauses, Troubles <- HwTroubles,
      phase <- hwPhase, signals <- hwSignals, pauses <- hwPauses

(* Packets and registers *)

On(led) == <<"led", led, TRUE>>
Off(led) == <<"led", led, FALSE>>
VideoOn == <<"video", TRUE>>
VideoOff == <<"video", FALSE>>
Halt == <<"camera stop">>
Step(n) == <<"mode", n>>

Leds == {"ir", "level", "red", "green", "blue"}

Plain ==
    {On(led) : led \in Leds} \cup {Off(led) : led \in Leds}
    \cup {VideoOn, VideoOff, Halt} \cup {Step(n) : n \in 0 .. 6}

\* The checks, and the packets for the firmware.
Inner ==
    {<<"check", what>> : what \in {"rom", "status", "file", "upload", "sum", "configured", "wait"}}
    \cup {<<"fpga init">>, <<"firmware">>, <<"cfg reload">>}

Registers == {"ir", "level", "video", "camera", "mode"}

Writes(p, r) ==
    CASE r \in {"ir", "level"} -> p[1] = "led" /\ p[2] = r
      [] r = "video" -> p[1] = "video"
      [] r = "camera" -> p[1] = "camera stop" \/ (p[1] = "video" /\ p[2])
      [] r = "mode" -> p[1] = "mode"

Wrote(p, r) ==
    CASE r \in {"ir", "level"} -> IF p[3] THEN "on" ELSE "off"
      [] r = "video" -> IF p[2] THEN "on" ELSE "off"
      [] r = "camera" -> IF p[1] = "video" THEN "on" ELSE "off"
      [] r = "mode" -> IF p[2] = 4 THEN "on" ELSE "off"

Register(d, r) ==
    CASE r \in {"ir", "level"} -> IF r \in d.leds THEN "on" ELSE "off"
      [] r = "video" -> IF d.video THEN "on" ELSE "off"
      [] r = "camera" -> IF d.camera THEN "on" ELSE "off"
      [] r = "mode" -> IF d.mode = 4 THEN "on" ELSE "off"

Effect(p, r, x) == IF Writes(p, r) THEN Wrote(p, r) ELSE x

\* When t is done, the register r that is x now will be v.
Brings(t, r, x, v) ==
    \/ v = x /\ \A i \in 1 .. Len(t) : ~Writes(t[i], r)
    \/ \E i \in 1 .. Len(t) : /\ Writes(t[i], r) /\ Wrote(t[i], r) = v
                              /\ \A j \in i + 1 .. Len(t) : ~Writes(t[j], r)

Packet == Plain \cup Inner \cup {<<"init">>, <<"start">>, <<"finish">>}

\* What the packets of a sequence do one after the other.
After2(a, b, r, x) == Effect(b, r, Effect(a, r, x))
After3(a, b, c, r, x) == Effect(c, r, After2(a, b, r, x))
After4(a, b, c, d, r, x) == Effect(d, r, After3(a, b, c, r, x))
After5(a, b, c, d, e, r, x) == Effect(e, r, After4(a, b, c, d, r, x))
After6(a, b, c, d, e, f, r, x) == Effect(f, r, After5(a, b, c, d, e, r, x))
After7(a, b, c, d, e, f, g, r, x) == Effect(g, r, After6(a, b, c, d, e, f, r, x))

LEMMA BringsOne ==
    ASSUME NEW p, NEW r, NEW x
    PROVE  Brings(<<p>>, r, x, Effect(p, r, x))
<1>1. Len(<<p>>) = 1 /\ <<p>>[1] = p
  OBVIOUS
<1> QED  BY <1>1 DEF Brings, Effect

LEMMA BringsNone == ASSUME NEW S, NEW r, NEW x PROVE <<>> \in Seq(S) /\ Brings(<<>>, r, x, x)
<1>1. Len(<<>>) = 0 /\ <<>> \in Seq(S)
  OBVIOUS
<1> QED  BY <1>1 DEF Brings

LEMMA BringsBoth ==
    ASSUME NEW S, NEW s \in Seq(S), NEW t \in Seq(S), NEW r, NEW x, NEW y, NEW z,
           Brings(s, r, x, y), Brings(t, r, y, z)
    PROVE  Brings(s \o t, r, x, z)
<1> DEFINE u == s \o t
<1>1. /\ Len(s) \in Nat /\ Len(t) \in Nat /\ Len(u) = Len(s) + Len(t)
      /\ \A i \in 1 .. Len(s) : u[i] = s[i]
      /\ \A i \in 1 .. Len(t) : u[Len(s) + i] = t[i]
  <2>1. Len(s) \in Nat /\ Len(t) \in Nat /\ Len(u) = Len(s) + Len(t)
    OBVIOUS
  <2>2. \A i \in 1 .. Len(s) : u[i] = s[i]
    OBVIOUS
  <2>3. \A i \in 1 .. Len(t) : u[Len(s) + i] = t[i]
    OBVIOUS
  <2> QED  BY <2>1, <2>2, <2>3
<1> HIDE DEF u
<1>2. ASSUME NEW i \in 1 .. Len(t), Writes(t[i], r), Wrote(t[i], r) = z,
             \A j \in i + 1 .. Len(t) : ~Writes(t[j], r)
      PROVE  Brings(u, r, x, z)
  <2>1. Len(s) + i \in 1 .. Len(u) /\ u[Len(s) + i] = t[i]
    BY <1>1
  <2>2. ASSUME NEW j \in Len(s) + i + 1 .. Len(u) PROVE ~Writes(u[j], r)
    <3>1. j - Len(s) \in i + 1 .. Len(t) /\ j - Len(s) \in 1 .. Len(t) /\ j = Len(s) + (j - Len(s))
      BY <1>1
    <3> QED  BY <1>1, <1>2, <3>1
  <2> QED  BY <1>2, <2>1, <2>2 DEF Brings
<1>3. CASE z = y /\ \A i \in 1 .. Len(t) : ~Writes(t[i], r)
  <2>1. ASSUME NEW j \in 1 .. Len(u), j > Len(s) PROVE ~Writes(u[j], r)
    <3>1. j - Len(s) \in 1 .. Len(t) /\ j = Len(s) + (j - Len(s))
      BY <1>1, <2>1
    <3> QED  BY <1>1, <1>3, <3>1
  <2>2. CASE y = x /\ \A i \in 1 .. Len(s) : ~Writes(s[i], r)
    <3>1. ASSUME NEW j \in 1 .. Len(u) PROVE ~Writes(u[j], r)
      BY <1>1, <2>1, <2>2
    <3> QED  BY <1>3, <2>2, <3>1 DEF Brings
  <2>3. CASE \E i \in 1 .. Len(s) : /\ Writes(s[i], r) /\ Wrote(s[i], r) = y
                                    /\ \A j \in i + 1 .. Len(s) : ~Writes(s[j], r)
    <3>0. PICK i \in 1 .. Len(s) : /\ Writes(s[i], r) /\ Wrote(s[i], r) = y
                                  /\ \A j \in i + 1 .. Len(s) : ~Writes(s[j], r)
      BY <2>3
    <3>1. i \in 1 .. Len(u) /\ u[i] = s[i]
      BY <1>1
    <3>2. ASSUME NEW j \in i + 1 .. Len(u) PROVE ~Writes(u[j], r)
      <4>1. CASE j > Len(s)
        <5>1. j \in 1 .. Len(u)
          BY <1>1
        <5> QED  BY <2>1, <4>1, <5>1
      <4>2. CASE ~(j > Len(s))
        <5>1. j \in i + 1 .. Len(s) /\ j \in 1 .. Len(s)
          BY <1>1, <4>2
        <5> QED  BY <1>1, <3>0, <5>1
      <4> QED  BY <4>1, <4>2
    <3> QED  BY <1>3, <3>0, <3>1, <3>2, SMTT(30) DEF Brings
  <2> QED  BY <2>2, <2>3 DEF Brings
<1> QED  BY <1>2, <1>3 DEF Brings, u

LEMMA PlainBoth ==
    ASSUME NEW s \in Seq(Plain), NEW t \in Seq(Plain), NEW r, NEW x, NEW y, NEW z,
           Brings(s, r, x, y), Brings(t, r, y, z)
    PROVE  s \o t \in Seq(Plain) /\ Brings(s \o t, r, x, z)
<1>1. s \o t \in Seq(Plain)
  OBVIOUS
<1> QED  BY <1>1, BringsBoth

LEMMA BringsRest ==
    ASSUME NEW S, NEW t \in Seq(S), t # <<>>, NEW r, NEW x, NEW z, Brings(t, r, x, z)
    PROVE  Brings(Tail(t), r, Effect(Head(t), r, x), z)
<1> DEFINE u == Tail(t)
<1>1. /\ Len(t) \in Nat \ {0} /\ Len(u) = Len(t) - 1 /\ Head(t) = t[1]
      /\ \A i \in 1 .. Len(u) : u[i] = t[i + 1]
  OBVIOUS
<1> HIDE DEF u
<1>2. CASE z = x /\ \A i \in 1 .. Len(t) : ~Writes(t[i], r)
  <2>1. Effect(Head(t), r, x) = x
    BY <1>1, <1>2 DEF Effect
  <2>2. \A i \in 1 .. Len(u) : ~Writes(u[i], r)
    BY <1>1, <1>2
  <2> QED  BY <1>2, <2>1, <2>2 DEF Brings, u
<1>3. ASSUME NEW i \in 1 .. Len(t), Writes(t[i], r), Wrote(t[i], r) = z,
             \A j \in i + 1 .. Len(t) : ~Writes(t[j], r)
      PROVE  Brings(u, r, Effect(Head(t), r, x), z)
  <2>1. \A j \in i .. Len(u) : ~Writes(u[j], r)
    BY <1>1, <1>3
  <2>2. CASE i = 1
    <3>1. Effect(Head(t), r, x) = z
      BY <1>1, <1>3, <2>2 DEF Effect
    <3> QED  BY <2>1, <2>2, <3>1 DEF Brings
  <2>3. CASE i # 1
    <3>1. i - 1 \in 1 .. Len(u) /\ u[i - 1] = t[i] /\ (i - 1) + 1 = i
      BY <1>1, <2>3
    <3> QED  BY <1>3, <2>1, <3>1 DEF Brings
  <2> QED  BY <2>2, <2>3
<1> QED  BY <1>2, <1>3 DEF Brings, u

LEMMA Brings1 ==
    ASSUME NEW r, NEW x, NEW a \in Plain
    PROVE  <<a>> \in Seq(Plain) /\ Brings(<<a>>, r, x, Effect(a, r, x))
<1>1. <<a>> \in Seq(Plain)
  OBVIOUS
<1> QED  BY <1>1, BringsOne

LEMMA Brings2 ==
    ASSUME NEW r, NEW x, NEW a \in Plain, NEW b \in Plain
    PROVE  <<a, b>> \in Seq(Plain) /\ Brings(<<a, b>>, r, x, After2(a, b, r, x))
<1>1. <<a, b>> \in Seq(Plain)
  OBVIOUS
<1>2. <<a, b>> = <<a>> \o <<b>>
  <2> DEFINE u == <<a>> \o <<b>>
  <2>1. u \in Seq(Plain) /\ Len(u) = 2 /\ u[1] = a /\ u[2] = b
    BY Brings1
  <2> HIDE DEF u
  <2>2. <<a, b>> = u
    BY <1>1, <2>1
  <2> QED  BY <2>2 DEF u
<1>3. Brings(<<a>>, r, x, Effect(a, r, x)) /\ <<a>> \in Seq(Plain)
  BY Brings1
<1>4. Brings(<<b>>, r, Effect(a, r, x), After2(a, b, r, x)) /\ <<b>> \in Seq(Plain)
  BY BringsOne DEF After2
<1> QED  BY <1>1, <1>2, <1>3, <1>4, BringsBoth

LEMMA Brings3 ==
    ASSUME NEW r, NEW x, NEW a \in Plain, NEW b \in Plain, NEW c \in Plain
    PROVE  <<a, b, c>> \in Seq(Plain) /\ Brings(<<a, b, c>>, r, x, After3(a, b, c, r, x))
<1>1. <<a, b, c>> \in Seq(Plain)
  OBVIOUS
<1>2. <<a, b, c>> = <<a, b>> \o <<c>>
  OBVIOUS
<1>3. Brings(<<a, b>>, r, x, After2(a, b, r, x)) /\ <<a, b>> \in Seq(Plain)
  BY Brings2
<1>4. Brings(<<c>>, r, After2(a, b, r, x), After3(a, b, c, r, x)) /\ <<c>> \in Seq(Plain)
  BY BringsOne DEF After3
<1> QED  BY <1>1, <1>2, <1>3, <1>4, BringsBoth

LEMMA Brings4 ==
    ASSUME NEW r, NEW x, NEW a \in Plain, NEW b \in Plain, NEW c \in Plain, NEW d \in Plain
    PROVE  <<a, b, c, d>> \in Seq(Plain) /\ Brings(<<a, b, c, d>>, r, x, After4(a, b, c, d, r, x))
<1>1. <<a, b, c, d>> \in Seq(Plain)
  OBVIOUS
<1>2. <<a, b, c, d>> = <<a, b, c>> \o <<d>>
  OBVIOUS
<1>3. Brings(<<a, b, c>>, r, x, After3(a, b, c, r, x)) /\ <<a, b, c>> \in Seq(Plain)
  BY Brings3
<1>4. Brings(<<d>>, r, After3(a, b, c, r, x), After4(a, b, c, d, r, x)) /\ <<d>> \in Seq(Plain)
  BY BringsOne DEF After4
<1> QED  BY <1>1, <1>2, <1>3, <1>4, BringsBoth

LEMMA Brings5 ==
    ASSUME NEW r, NEW x, NEW a \in Plain, NEW b \in Plain, NEW c \in Plain, NEW d \in Plain, NEW e \in Plain
    PROVE  <<a, b, c, d, e>> \in Seq(Plain) /\ Brings(<<a, b, c, d, e>>, r, x, After5(a, b, c, d, e, r, x))
<1>1. <<a, b, c, d, e>> \in Seq(Plain)
  OBVIOUS
<1>2. <<a, b, c, d, e>> = <<a, b, c, d>> \o <<e>>
  OBVIOUS
<1>3. Brings(<<a, b, c, d>>, r, x, After4(a, b, c, d, r, x)) /\ <<a, b, c, d>> \in Seq(Plain)
  BY Brings4
<1>4. Brings(<<e>>, r, After4(a, b, c, d, r, x), After5(a, b, c, d, e, r, x)) /\ <<e>> \in Seq(Plain)
  BY BringsOne DEF After5
<1> QED  BY <1>1, <1>2, <1>3, <1>4, BringsBoth

LEMMA Brings6 ==
    ASSUME NEW r, NEW x, NEW a \in Plain, NEW b \in Plain, NEW c \in Plain, NEW d \in Plain, NEW e \in Plain, NEW f \in Plain
    PROVE  <<a, b, c, d, e, f>> \in Seq(Plain) /\ Brings(<<a, b, c, d, e, f>>, r, x, After6(a, b, c, d, e, f, r, x))
<1>1. <<a, b, c, d, e, f>> \in Seq(Plain)
  OBVIOUS
<1>2. <<a, b, c, d, e, f>> = <<a, b, c, d, e>> \o <<f>>
  OBVIOUS
<1>3. Brings(<<a, b, c, d, e>>, r, x, After5(a, b, c, d, e, r, x)) /\ <<a, b, c, d, e>> \in Seq(Plain)
  BY Brings5
<1>4. Brings(<<f>>, r, After5(a, b, c, d, e, r, x), After6(a, b, c, d, e, f, r, x)) /\ <<f>> \in Seq(Plain)
  BY BringsOne DEF After6
<1> QED  BY <1>1, <1>2, <1>3, <1>4, BringsBoth

LEMMA Brings7 ==
    ASSUME NEW r, NEW x, NEW a \in Plain, NEW b \in Plain, NEW c \in Plain, NEW d \in Plain, NEW e \in Plain, NEW f \in Plain, NEW g \in Plain
    PROVE  <<a, b, c, d, e, f, g>> \in Seq(Plain) /\ Brings(<<a, b, c, d, e, f, g>>, r, x, After7(a, b, c, d, e, f, g, r, x))
<1>1. <<a, b, c, d, e, f, g>> \in Seq(Plain)
  OBVIOUS
<1>2. <<a, b, c, d, e, f, g>> = <<a, b, c, d, e, f>> \o <<g>>
  OBVIOUS
<1>3. Brings(<<a, b, c, d, e, f>>, r, x, After6(a, b, c, d, e, f, r, x)) /\ <<a, b, c, d, e, f>> \in Seq(Plain)
  BY Brings6
<1>4. Brings(<<g>>, r, After6(a, b, c, d, e, f, r, x), After7(a, b, c, d, e, f, g, r, x)) /\ <<g>> \in Seq(Plain)
  BY BringsOne DEF After7
<1> QED  BY <1>1, <1>2, <1>3, <1>4, BringsBoth

LEMMA OtherEffect ==
    ASSUME NEW p \in Inner \cup {<<"init">>, <<"start">>, <<"finish">>}, NEW r \in Registers
    PROVE  ~Writes(p, r) /\ p[1] \in {"check", "fpga init", "firmware", "cfg reload", "init", "start", "finish"}
<1>1. p[1] \in {"check", "fpga init", "firmware", "cfg reload", "init", "start", "finish"}
  <2>1. ASSUME NEW what, p = <<"check", what>> PROVE p[1] = "check"
    BY <2>1
  <2>2. CASE p \in {<<"check", what>> : what \in {"rom", "status", "file", "upload", "sum", "configured", "wait"}}
    BY <2>1, <2>2
  <2>3. CASE p \in {<<"fpga init">>, <<"firmware">>, <<"cfg reload">>, <<"init">>, <<"start">>, <<"finish">>}
    <3>1. ASSUME NEW what, p = <<what>> PROVE p[1] = what
      BY <3>1
    <3> QED  BY <2>3, <3>1
  <2> QED  BY <2>2, <2>3 DEF Inner
<1>2. ~Writes(p, r)
  BY <1>1 DEF Writes, Registers
<1> QED  BY <1>1, <1>2

(* The sequences for each kind of camera *)

AllKinds == {"tir2", "tir3", "tir4", "tir5", "tir5v3", "sn3", "sn4"}

\* They are dark when they are initialized, and not before they start.
DarkFirst == {"tir2", "tir3", "sn3", "sn4"}

Ir == IF irOn THEN "on" ELSE "off"

LEMMA LedEffects ==
    ASSUME NEW r \in Registers, NEW x, NEW led \in Leds
    PROVE  /\ On(led) \in Packet /\ Effect(On(led), r, x) = IF r = led THEN "on" ELSE x
           /\ Off(led) \in Packet /\ Effect(Off(led), r, x) = IF r = led THEN "off" ELSE x
<1>1. On(led)[1] = "led" /\ On(led)[2] = led /\ On(led)[3]
  BY DEF On
<1>2. Off(led)[1] = "led" /\ Off(led)[2] = led /\ ~Off(led)[3]
  BY DEF Off
<1>3. On(led) \in Packet /\ Off(led) \in Packet
  BY DEF Packet, Plain
<1> HIDE DEF On, Off
<1>4. CASE r \in {"ir", "level"}
  <2>1. /\ Writes(On(led), r) <=> led = r
        /\ Writes(Off(led), r) <=> led = r
    BY <1>1, <1>2, <1>4 DEF Writes
  <2>2. Wrote(On(led), r) = "on" /\ Wrote(Off(led), r) = "off"
    BY <1>1, <1>2, <1>4 DEF Wrote
  <2> QED  BY <1>3, <2>1, <2>2 DEF Effect
<1>5. CASE r \notin {"ir", "level"}
  <2>1. r \in {"video", "camera", "mode"} /\ r # led
    BY <1>5 DEF Registers, Leds
  <2>2. ~Writes(On(led), r) /\ ~Writes(Off(led), r)
    BY <1>1, <1>2, <2>1 DEF Writes
  <2> QED  BY <1>3, <2>1, <2>2 DEF Effect
<1> QED  BY <1>4, <1>5

\* A light alone brings its own register on or off.
LEMMA LightEffects ==
    ASSUME NEW r \in Registers, NEW x
    PROVE  /\ Effect(On("red"), r, x) = x /\ Effect(Off("red"), r, x) = x
           /\ Effect(On("green"), r, x) = x /\ Effect(Off("green"), r, x) = x
           /\ Effect(On("blue"), r, x) = x /\ Effect(Off("blue"), r, x) = x
           /\ Effect(On("ir"), r, x) = IF r = "ir" THEN "on" ELSE x
           /\ Effect(Off("ir"), r, x) = IF r = "ir" THEN "off" ELSE x
           /\ Effect(On("level"), r, x) = IF r = "level" THEN "on" ELSE x
           /\ Effect(Off("level"), r, x) = IF r = "level" THEN "off" ELSE x
<1>1. r # "red" /\ r # "green" /\ r # "blue"
  BY DEF Registers
<1>2. ASSUME NEW led \in {"red", "green", "blue"} PROVE Effect(On(led), r, x) = x /\ Effect(Off(led), r, x) = x
  <2>1. led \in Leds /\ r # led
    BY <1>1 DEF Leds
  <2> QED  BY <2>1, LedEffects
<1>3. /\ Effect(On("ir"), r, x) = IF r = "ir" THEN "on" ELSE x
      /\ Effect(Off("ir"), r, x) = IF r = "ir" THEN "off" ELSE x
  <2>1. "ir" \in Leds
    BY DEF Leds
  <2> QED  BY <2>1, LedEffects
<1>4. /\ Effect(On("level"), r, x) = IF r = "level" THEN "on" ELSE x
      /\ Effect(Off("level"), r, x) = IF r = "level" THEN "off" ELSE x
  <2>1. "level" \in Leds
    BY DEF Leds
  <2> QED  BY <2>1, LedEffects
<1> QED  BY <1>2, <1>3, <1>4

LEMMA VideoEffects ==
    ASSUME NEW r \in Registers, NEW x
    PROVE  /\ VideoOn \in Packet /\ Effect(VideoOn, r, x) = IF r \in {"video", "camera"} THEN "on" ELSE x
           /\ VideoOff \in Packet /\ Effect(VideoOff, r, x) = IF r = "video" THEN "off" ELSE x
           /\ Halt \in Packet /\ Effect(Halt, r, x) = IF r = "camera" THEN "off" ELSE x
<1>1. VideoOn[1] = "video" /\ VideoOn[2]
  BY DEF VideoOn
<1>2. VideoOff[1] = "video" /\ ~VideoOff[2]
  BY DEF VideoOff
<1>3. Halt[1] = "camera stop"
  BY DEF Halt
<1>4. VideoOn \in Packet /\ VideoOff \in Packet /\ Halt \in Packet
  BY DEF Packet, Plain
<1>5. Effect(VideoOn, r, x) = IF r \in {"video", "camera"} THEN "on" ELSE x
  BY <1>1 DEF Effect, Writes, Wrote, Registers
<1>6. Effect(VideoOff, r, x) = IF r = "video" THEN "off" ELSE x
  BY <1>2 DEF Effect, Writes, Wrote, Registers
<1>7. Effect(Halt, r, x) = IF r = "camera" THEN "off" ELSE x
  BY <1>3 DEF Effect, Writes, Wrote, Registers
<1> QED  BY <1>4, <1>5, <1>6, <1>7

LEMMA ModeEffects ==
    ASSUME NEW r \in Registers, NEW x, NEW n \in 0 .. 6
    PROVE  Step(n) \in Packet /\ Effect(Step(n), r, x) = IF r # "mode" THEN x ELSE IF n = 4 THEN "on" ELSE "off"
<1>1. Step(n)[1] = "mode" /\ Step(n)[2] = n
  BY DEF Step
<1>2. Step(n) \in Packet
  BY DEF Packet, Plain
<1>3. Effect(Step(n), r, x) = IF r # "mode" THEN x ELSE IF n = 4 THEN "on" ELSE "off"
  BY <1>1 DEF Effect, Writes, Wrote, Registers
<1> QED  BY <1>2, <1>3

\* The commands of the code by these names.
LitLeds == Hardware!SetStatusLed(TRUE)
UnlitLeds == Hardware!SetStatusLed(FALSE)
IrAs == IF irOn THEN On("level") ELSE Off("level")

LEMMA Spelled ==
    /\ Hardware!StopTir2 = <<Off("red"), Off("green"), Off("blue"), Off("ir"), Halt, Off("ir")>>
    /\ Hardware!StopTir3 = <<VideoOff, VideoOff, Off("ir"), Halt, Off("red"), Off("green"), Off("blue")>>
    /\ Hardware!StopTir4 = <<VideoOff>> \o Hardware!AllOff \o <<Halt>>
    /\ Hardware!StopTir5 = <<Off("level"), VideoOff, Halt, Off("level"), Off("ir")>>
    /\ Hardware!StopTir5v3 = <<Step(5), Off("level"), Step(6), Halt>>
    /\ Hardware!StopSn3 = <<VideoOff, Off("green"), Off("ir"), Off("red"), Off("blue"), Halt>>
    /\ Hardware!AllOff = <<Off("ir"), Off("red"), Off("green"), Off("blue")>>
    /\ Hardware!StopSn4 = Hardware!StopTir4
BY DEF Hardware!StopTir2, Hardware!StopTir3, Hardware!StopTir4, Hardware!StopTir5, Hardware!StopTir5v3, Hardware!StopSn3,
       Hardware!StopSn4, Hardware!AllOff,
       Hardware!Led, Hardware!Video, Hardware!CameraStop, Hardware!Register, Hardware!Mode,
       On, Off, VideoOn, VideoOff, Halt, Step

LEMMA StartSpelled ==
    ASSUME irOn \in BOOLEAN
    PROVE
    /\ Hardware!IrIfWanted = IF irOn THEN <<On("ir")>> ELSE <<>>
    /\ Hardware!StartTir2 = <<VideoOn>> \o Hardware!IrIfWanted \o LitLeds \o Hardware!IrIfWanted
    /\ Hardware!StartTir3 = <<Halt>> \o Hardware!IrIfWanted \o <<VideoOn>> \o LitLeds
    /\ Hardware!StartTir4 = Hardware!StopTir4 \o <<VideoOn>> \o Hardware!IrIfWanted \o LitLeds
    /\ Hardware!StartTir5 = Hardware!StopTir5 \o <<VideoOn, IrAs>>
    /\ Hardware!StartTir5v3 = <<IrAs, Step(4), IrAs>>
    /\ Hardware!StartSn3 = <<VideoOn, On("green")>> \o Hardware!IrIfWanted \o <<On("blue")>>
    /\ Hardware!StartSn4 = <<VideoOn>> \o Hardware!IrIfWanted \o LitLeds
<1>1. Hardware!Register(irOn) = IrAs
  BY DEF Hardware!Register, IrAs, On, Off
<1> QED
  BY <1>1 DEF Hardware!IrIfWanted, Hardware!When, Hardware!StartTir2, Hardware!StartTir3, Hardware!StartTir4,
     Hardware!StartTir5, Hardware!StartTir5v3, Hardware!StartSn3, Hardware!StartSn4, LitLeds,
     Hardware!Led, Hardware!Video, Hardware!CameraStop, Hardware!Mode, On, VideoOn, Halt, Step

LEMMA StatusLeds ==
    ASSUME kind \in AllKinds, hwSignals \in BOOLEAN
    PROVE  /\ LitLeds \in {<<>>, <<Off("red"), On("green")>>, <<On("green")>>}
           /\ UnlitLeds \in {<<>>, <<Off("green"), On("red")>>, <<Off("green")>>}
BY DEF AllKinds, LitLeds, UnlitLeds, Hardware!SetStatusLed, Hardware!RedGreen, Hardware!When, Hardware!Led, On, Off

LEMMA StatusLedsBring ==
    ASSUME kind \in AllKinds, hwSignals \in BOOLEAN, NEW r \in Registers, NEW x
    PROVE  /\ LitLeds \in Seq(Plain) /\ Brings(LitLeds, r, x, x)
           /\ UnlitLeds \in Seq(Plain) /\ Brings(UnlitLeds, r, x, x)
<1>1. /\ On("green") \in Plain /\ Off("green") \in Plain /\ On("red") \in Plain /\ Off("red") \in Plain
      /\ \A y : /\ Effect(On("green"), r, y) = y /\ Effect(Off("green"), r, y) = y
                /\ Effect(On("red"), r, y) = y /\ Effect(Off("red"), r, y) = y
  <2>1. /\ On("green") \in Plain /\ Off("green") \in Plain /\ On("red") \in Plain /\ Off("red") \in Plain
    BY DEF Plain, Leds
  <2> QED  BY <2>1, LightEffects
<1>2. After2(Off("red"), On("green"), r, x) = x /\ After2(Off("green"), On("red"), r, x) = x
  BY <1>1 DEF After2
<1>3. <<>> \in Seq(Plain) /\ Brings(<<>>, r, x, x)
  BY BringsNone
<1>4. <<On("green")>> \in Seq(Plain) /\ Brings(<<On("green")>>, r, x, x)
  BY <1>1, Brings1
<1>5. <<Off("green")>> \in Seq(Plain) /\ Brings(<<Off("green")>>, r, x, x)
  BY <1>1, Brings1
<1>6. <<Off("red"), On("green")>> \in Seq(Plain) /\ Brings(<<Off("red"), On("green")>>, r, x, x)
  BY <1>1, <1>2, Brings2
<1>7. <<Off("green"), On("red")>> \in Seq(Plain) /\ Brings(<<Off("green"), On("red")>>, r, x, x)
  BY <1>1, <1>2, Brings2
<1> QED  BY <1>3, <1>4, <1>5, <1>6, <1>7, StatusLeds

LEMMA StopsBring ==
    ASSUME NEW r \in Registers, NEW x
    PROVE  /\ Hardware!StopTir2 \in Seq(Plain)
           /\ Brings(Hardware!StopTir2, r, x, IF r \in {"ir", "camera"} THEN "off" ELSE x)
           /\ Hardware!StopTir3 \in Seq(Plain)
           /\ Brings(Hardware!StopTir3, r, x, IF r \in {"ir", "camera", "video"} THEN "off" ELSE x)
           /\ Hardware!AllOff \in Seq(Plain)
           /\ Brings(Hardware!AllOff, r, x, IF r = "ir" THEN "off" ELSE x)
           /\ Hardware!StopTir4 \in Seq(Plain)
           /\ Brings(Hardware!StopTir4, r, x, IF r \in {"ir", "camera", "video"} THEN "off" ELSE x)
           /\ Hardware!StopTir5 \in Seq(Plain)
           /\ Brings(Hardware!StopTir5, r, x, IF r \in {"ir", "level", "camera", "video"} THEN "off" ELSE x)
           /\ Hardware!StopTir5v3 \in Seq(Plain)
           /\ Brings(Hardware!StopTir5v3, r, x, IF r \in {"level", "camera", "mode"} THEN "off" ELSE x)
           /\ Hardware!StopSn3 \in Seq(Plain)
           /\ Brings(Hardware!StopSn3, r, x, IF r \in {"ir", "camera", "video"} THEN "off" ELSE x)
<1> DEFINE R == Off("red")  G == Off("green")  B == Off("blue")  I == Off("ir")  E == Off("level")
<1>1. /\ R \in Plain /\ G \in Plain /\ B \in Plain /\ I \in Plain /\ E \in Plain /\ VideoOff \in Plain /\ Halt \in Plain
      /\ Step(5) \in Plain /\ Step(6) \in Plain
  BY DEF Plain, Leds
<1>2. \A y : /\ Effect(R, r, y) = y /\ Effect(G, r, y) = y /\ Effect(B, r, y) = y
             /\ Effect(I, r, y) = IF r = "ir" THEN "off" ELSE y
             /\ Effect(E, r, y) = IF r = "level" THEN "off" ELSE y
  BY LightEffects
<1>3. \A y : /\ Effect(VideoOff, r, y) = IF r = "video" THEN "off" ELSE y
             /\ Effect(Halt, r, y) = IF r = "camera" THEN "off" ELSE y
  BY VideoEffects
<1>4. \A y : /\ Effect(Step(5), r, y) = IF r = "mode" THEN "off" ELSE y
             /\ Effect(Step(6), r, y) = IF r = "mode" THEN "off" ELSE y
  BY ModeEffects
<1> HIDE DEF R, G, B, I, E
<1> USE DEF After2, After3, After4, After5, After6, After7
<1>5. After6(R, G, B, I, Halt, I, r, x) = IF r \in {"ir", "camera"} THEN "off" ELSE x
  BY <1>2, <1>3
<1>6. After7(VideoOff, VideoOff, I, Halt, R, G, B, r, x) = IF r \in {"ir", "camera", "video"} THEN "off" ELSE x
  BY <1>2, <1>3
<1>7. After4(I, R, G, B, r, x) = IF r = "ir" THEN "off" ELSE x
  BY <1>2, <1>3
<1>8. After5(E, VideoOff, Halt, E, I, r, x) = IF r \in {"ir", "level", "camera", "video"} THEN "off" ELSE x
  BY <1>2, <1>3
<1>9. After4(Step(5), E, Step(6), Halt, r, x) = IF r \in {"level", "camera", "mode"} THEN "off" ELSE x
  BY <1>2, <1>3, <1>4
<1>10. After6(VideoOff, G, I, R, B, Halt, r, x) = IF r \in {"ir", "camera", "video"} THEN "off" ELSE x
  BY <1>2, <1>3
<1> HIDE DEF After2, After3, After4, After5, After6, After7
<1>11. /\ Hardware!StopTir2 \in Seq(Plain)
       /\ Brings(Hardware!StopTir2, r, x, IF r \in {"ir", "camera"} THEN "off" ELSE x)
  BY <1>1, <1>5, Spelled, Brings6 DEF R, G, B, I
<1>12. /\ Hardware!StopTir3 \in Seq(Plain)
       /\ Brings(Hardware!StopTir3, r, x, IF r \in {"ir", "camera", "video"} THEN "off" ELSE x)
  BY <1>1, <1>6, Spelled, Brings7 DEF R, G, B, I
<1>13. ASSUME NEW y
       PROVE  Hardware!AllOff \in Seq(Plain) /\ Brings(Hardware!AllOff, r, y, IF r = "ir" THEN "off" ELSE y)
  <2>1. After4(I, R, G, B, r, y) = IF r = "ir" THEN "off" ELSE y
    BY <1>2, <1>3 DEF After2, After3, After4
  <2> QED  BY <1>1, <2>1, Spelled, Brings4 DEF R, G, B, I
<1>14. /\ Hardware!StopTir4 \in Seq(Plain)
       /\ Brings(Hardware!StopTir4, r, x, IF r \in {"ir", "camera", "video"} THEN "off" ELSE x)
  <2> DEFINE V == <<VideoOff>> \o Hardware!AllOff
             y == IF r = "video" THEN "off" ELSE x
             z == IF r = "ir" THEN "off" ELSE y
  <2>1. <<VideoOff>> \in Seq(Plain) /\ Brings(<<VideoOff>>, r, x, y)
    BY <1>1, <1>3, Brings1
  <2>2. V \in Seq(Plain) /\ Brings(V, r, x, z)
    BY <1>13, <2>1, PlainBoth
  <2>3. <<Halt>> \in Seq(Plain) /\ Brings(<<Halt>>, r, z, IF r = "camera" THEN "off" ELSE z)
    BY <1>1, <1>3, Brings1
  <2>4. V \o <<Halt>> \in Seq(Plain) /\ Brings(V \o <<Halt>>, r, x, IF r = "camera" THEN "off" ELSE z)
    <3> HIDE DEF V, z
    <3> QED  BY <2>2, <2>3, PlainBoth
  <2>5. (IF r = "camera" THEN "off" ELSE z) = IF r \in {"ir", "camera", "video"} THEN "off" ELSE x
    OBVIOUS
  <2> QED  BY <2>4, <2>5, Spelled
<1>15. /\ Hardware!StopTir5 \in Seq(Plain)
       /\ Brings(Hardware!StopTir5, r, x, IF r \in {"ir", "level", "camera", "video"} THEN "off" ELSE x)
  BY <1>1, <1>8, Spelled, Brings5 DEF I, E
<1>16. /\ Hardware!StopTir5v3 \in Seq(Plain)
       /\ Brings(Hardware!StopTir5v3, r, x, IF r \in {"level", "camera", "mode"} THEN "off" ELSE x)
  BY <1>1, <1>9, Spelled, Brings4 DEF E
<1>17. /\ Hardware!StopSn3 \in Seq(Plain)
       /\ Brings(Hardware!StopSn3, r, x, IF r \in {"ir", "camera", "video"} THEN "off" ELSE x)
  BY <1>1, <1>10, Spelled, Brings6 DEF R, G, B, I
<1> QED  BY <1>11, <1>12, <1>13, <1>14, <1>15, <1>16, <1>17

\* What says whether data come.
Source == IF kind = "tir5v3" THEN "mode" ELSE "camera"

LEMMA LampRegisters ==
    /\ Hardware!Lights \in Registers /\ Hardware!Doused \in Registers
    /\ Hardware!Lights \in {"ir", "level"} /\ Hardware!Doused \in {"ir", "level"}
    /\ kind \in {"tir5", "tir5v3"} => Hardware!Lights = "level"
    /\ kind \notin {"tir5", "tir5v3"} => Hardware!Lights = "ir"
    /\ kind = "tir5v3" => Hardware!Doused = "level"
    /\ kind # "tir5v3" => Hardware!Doused = "ir"
BY DEF Hardware!Lights, Hardware!Doused, Registers

LEMMA StopBrings ==
    ASSUME kind \in AllKinds, NEW x
    PROVE  /\ Hardware!Stop \in Seq(Plain)
           /\ Brings(Hardware!Stop, Hardware!Lights, x, "off") /\ Brings(Hardware!Stop, Hardware!Doused, x, "off")
           /\ Brings(Hardware!Stop, Source, x, "off")
<1>1. "ir" \in Registers /\ "level" \in Registers /\ Source \in Registers /\ Source \in {"camera", "mode"}
  BY DEF Registers, Source
<1>2. Hardware!StopSn4 = Hardware!StopTir4
  BY Spelled
<1>3. Hardware!Stop \in Seq(Plain)
  BY <1>1, <1>2, StopsBring DEF AllKinds, Hardware!Stop
<1>4. CASE kind = "tir5v3"
  BY <1>1, <1>3, <1>4, StopsBring, LampRegisters DEF Hardware!Stop, Source
<1>5. CASE kind = "tir5"
  BY <1>1, <1>3, <1>5, StopsBring, LampRegisters DEF Hardware!Stop, Source
<1>6. CASE kind \notin {"tir5", "tir5v3"}
  BY <1>1, <1>2, <1>3, <1>6, StopsBring, LampRegisters DEF AllKinds, Hardware!Stop, Source
<1> QED  BY <1>4, <1>5, <1>6

LEMMA WantedBrings ==
    ASSUME irOn \in BOOLEAN, NEW r \in Registers, NEW x
    PROVE  /\ Hardware!IrIfWanted \in Seq(Plain)
           /\ Brings(Hardware!IrIfWanted, r, x, IF irOn /\ r = "ir" THEN "on" ELSE x)
<1>1. CASE irOn
  <2>1. Hardware!IrIfWanted = <<On("ir")>>
    BY <1>1, StartSpelled
  <2>2. On("ir") \in Plain
    BY DEF Plain, Leds
  <2>3. Effect(On("ir"), r, x) = IF r = "ir" THEN "on" ELSE x
    BY LedEffects DEF Leds
  <2>4. <<On("ir")>> \in Seq(Plain) /\ Brings(<<On("ir")>>, r, x, Effect(On("ir"), r, x))
    BY <2>2, Brings1
  <2> QED  BY <1>1, <2>1, <2>3, <2>4
<1>2. CASE ~irOn
  BY <1>2, BringsNone, StartSpelled
<1> QED  BY <1>1, <1>2

\* A sequence that starts a camera and lights it if it shall be lit.
Started(r, x) == IF r \in {"video", "camera"} THEN "on" ELSE IF irOn /\ r = "ir" THEN "on" ELSE x

Levelled(r, x) == IF r \in {"video", "camera"} THEN "on" ELSE IF irOn /\ r = "level" THEN "on" ELSE x

LEMMA StartsBring ==
    ASSUME kind \in AllKinds, irOn \in BOOLEAN, hwSignals \in BOOLEAN, NEW r \in Registers, NEW x
    PROVE  /\ Hardware!StartTir2 \in Seq(Plain) /\ Brings(Hardware!StartTir2, r, x, Started(r, x))
           /\ Hardware!StartTir3 \in Seq(Plain) /\ Brings(Hardware!StartTir3, r, x, Started(r, x))
           /\ Hardware!StartTir4 \in Seq(Plain)
           /\ Brings(Hardware!StartTir4, r, x, Started(r, IF r \in {"ir", "camera", "video"} THEN "off" ELSE x))
           /\ Hardware!StartTir5 \in Seq(Plain)
           /\ Brings(Hardware!StartTir5, r, x, Levelled(r, IF r \in {"ir", "level", "camera", "video"} THEN "off" ELSE x))
           /\ Hardware!StartTir5v3 \in Seq(Plain)
           /\ Brings(Hardware!StartTir5v3, r, x, IF r = "mode" THEN "on" ELSE IF r # "level" THEN x ELSE IF irOn THEN "on" ELSE "off")
           /\ Hardware!StartSn3 \in Seq(Plain) /\ Brings(Hardware!StartSn3, r, x, Started(r, x))
           /\ Hardware!StartSn4 \in Seq(Plain) /\ Brings(Hardware!StartSn4, r, x, Started(r, x))
<1> DEFINE W == Hardware!IrIfWanted
           Lit(y) == IF irOn /\ r = "ir" THEN "on" ELSE y
           Shown(y) == IF r \in {"video", "camera"} THEN "on" ELSE y
<1>1. \A y : W \in Seq(Plain) /\ Brings(W, r, y, Lit(y))
  BY WantedBrings
<1>2. \A y : LitLeds \in Seq(Plain) /\ Brings(LitLeds, r, y, y)
  BY StatusLedsBring
<1>3. /\ VideoOn \in Plain /\ Halt \in Plain /\ On("green") \in Plain /\ On("blue") \in Plain /\ Step(4) \in Plain
      /\ IrAs \in Plain
  BY DEF Plain, Leds, IrAs
<1>4. ASSUME NEW y
      PROVE  /\ Effect(VideoOn, r, y) = Shown(y) /\ Effect(Halt, r, y) = IF r = "camera" THEN "off" ELSE y
             /\ Effect(On("green"), r, y) = y /\ Effect(On("blue"), r, y) = y
             /\ Effect(Step(4), r, y) = IF r = "mode" THEN "on" ELSE y
             /\ Effect(IrAs, r, y) = IF r # "level" THEN y ELSE IF irOn THEN "on" ELSE "off"
  <2>1. Effect(IrAs, r, y) = IF r # "level" THEN y ELSE IF irOn THEN "on" ELSE "off"
    BY LightEffects DEF IrAs
  <2>2. Effect(Step(4), r, y) = IF r = "mode" THEN "on" ELSE y
    BY ModeEffects
  <2>3. Effect(VideoOn, r, y) = Shown(y) /\ Effect(Halt, r, y) = IF r = "camera" THEN "off" ELSE y
    BY VideoEffects
  <2> QED  BY <2>1, <2>2, <2>3, LightEffects
<1>5. \A y : /\ <<VideoOn>> \in Seq(Plain) /\ Brings(<<VideoOn>>, r, y, Shown(y))
             /\ <<Halt>> \in Seq(Plain) /\ Brings(<<Halt>>, r, y, IF r = "camera" THEN "off" ELSE y)
             /\ <<On("blue")>> \in Seq(Plain) /\ Brings(<<On("blue")>>, r, y, y)
  BY <1>3, <1>4, Brings1
<1>6. <<VideoOn, On("green")>> \in Seq(Plain) /\ Brings(<<VideoOn, On("green")>>, r, x, Shown(x))
  <2>1. After2(VideoOn, On("green"), r, x) = Shown(x)
    BY <1>4 DEF After2
  <2> QED  BY <1>3, <2>1, Brings2
<1>7. \A y : <<VideoOn, IrAs>> \in Seq(Plain) /\ Brings(<<VideoOn, IrAs>>, r, y, Effect(IrAs, r, Shown(y)))
  BY <1>3, <1>4, Brings2 DEF After2
<1>8. \A y : Lit(Shown(y)) = Started(r, y) /\ Shown(Lit(y)) = Started(r, y) /\ Lit(Started(r, y)) = Started(r, y)
  BY DEF Started
<1> HIDE DEF W, Lit, Shown
<1>9. \A y : <<VideoOn>> \o W \in Seq(Plain) /\ Brings(<<VideoOn>> \o W, r, y, Started(r, y))
  <2> TAKE y
  <2>1. <<VideoOn>> \in Seq(Plain) /\ Brings(<<VideoOn>>, r, y, Shown(y)) /\ W \in Seq(Plain)
        /\ Brings(W, r, Shown(y), Started(r, y))
    BY <1>1, <1>5, <1>8
  <2> QED  BY <2>1, PlainBoth
<1>10. \A y : <<VideoOn>> \o W \o LitLeds \in Seq(Plain) /\ Brings(<<VideoOn>> \o W \o LitLeds, r, y, Started(r, y))
  BY <1>2, <1>9, PlainBoth
<1>11. Hardware!StartTir2 \in Seq(Plain) /\ Brings(Hardware!StartTir2, r, x, Started(r, x))
  <2>1. /\ <<VideoOn>> \o W \o LitLeds \o W \in Seq(Plain)
        /\ Brings(<<VideoOn>> \o W \o LitLeds \o W, r, x, Lit(Started(r, x)))
    BY <1>1, <1>10, PlainBoth
  <2> QED  BY <1>8, <2>1, StartSpelled DEF W
<1>12. Hardware!StartSn4 \in Seq(Plain) /\ Brings(Hardware!StartSn4, r, x, Started(r, x))
  BY <1>10, StartSpelled DEF W
<1>13. Hardware!StartTir3 \in Seq(Plain) /\ Brings(Hardware!StartTir3, r, x, Started(r, x))
  <2> DEFINE y == IF r = "camera" THEN "off" ELSE x
  <2>1. <<Halt>> \o W \in Seq(Plain) /\ Brings(<<Halt>> \o W, r, x, Lit(y))
    <3>1. Brings(<<Halt>>, r, x, y)
      BY <1>5
    <3> HIDE DEF y
    <3> QED  BY <1>1, <1>5, <3>1, PlainBoth
  <2>2. <<Halt>> \o W \o <<VideoOn>> \in Seq(Plain) /\ Brings(<<Halt>> \o W \o <<VideoOn>>, r, x, Shown(Lit(y)))
    <3> HIDE DEF y
    <3> QED  BY <1>5, <2>1, PlainBoth
  <2>3. /\ <<Halt>> \o W \o <<VideoOn>> \o LitLeds \in Seq(Plain)
        /\ Brings(<<Halt>> \o W \o <<VideoOn>> \o LitLeds, r, x, Shown(Lit(y)))
    BY <1>2, <2>2, PlainBoth
  <2>4. Shown(Lit(y)) = Started(r, x)
    BY <1>8 DEF Started
  <2> QED  BY <2>3, <2>4, StartSpelled DEF W
<1>14. /\ Hardware!StartTir4 \in Seq(Plain)
       /\ Brings(Hardware!StartTir4, r, x, Started(r, IF r \in {"ir", "camera", "video"} THEN "off" ELSE x))
  <2> DEFINE y == IF r \in {"ir", "camera", "video"} THEN "off" ELSE x
             S == Hardware!StopTir4
  <2>1. S \in Seq(Plain) /\ Brings(S, r, x, y)
    BY StopsBring
  <2> HIDE DEF y
  <2>2. S \o <<VideoOn>> \in Seq(Plain) /\ Brings(S \o <<VideoOn>>, r, x, Shown(y))
    BY <1>5, <2>1, PlainBoth
  <2>3. S \o <<VideoOn>> \o W \in Seq(Plain) /\ Brings(S \o <<VideoOn>> \o W, r, x, Lit(Shown(y)))
    BY <1>1, <2>2, PlainBoth
  <2>4. S \o <<VideoOn>> \o W \o LitLeds \in Seq(Plain) /\ Brings(S \o <<VideoOn>> \o W \o LitLeds, r, x, Lit(Shown(y)))
    BY <1>2, <2>3, PlainBoth
  <2> QED  BY <1>8, <2>4, StartSpelled DEF W, y
<1>15. /\ Hardware!StartTir5 \in Seq(Plain)
       /\ Brings(Hardware!StartTir5, r, x, Levelled(r, IF r \in {"ir", "level", "camera", "video"} THEN "off" ELSE x))
  <2> DEFINE y == IF r \in {"ir", "level", "camera", "video"} THEN "off" ELSE x
             S == Hardware!StopTir5
  <2>1. S \in Seq(Plain) /\ Brings(S, r, x, y)
    BY StopsBring
  <2>2. Effect(IrAs, r, Shown(y)) = Levelled(r, y)
    BY <1>4 DEF Levelled, Shown
  <2> HIDE DEF y
  <2>3. S \o <<VideoOn, IrAs>> \in Seq(Plain) /\ Brings(S \o <<VideoOn, IrAs>>, r, x, Levelled(r, y))
    BY <1>7, <2>1, <2>2, PlainBoth
  <2> QED  BY <2>3, StartSpelled DEF y
<1>16. /\ Hardware!StartTir5v3 \in Seq(Plain)
       /\ Brings(Hardware!StartTir5v3, r, x, IF r = "mode" THEN "on" ELSE IF r # "level" THEN x ELSE IF irOn THEN "on" ELSE "off")
  <2>1. After3(IrAs, Step(4), IrAs, r, x) = IF r = "mode" THEN "on" ELSE IF r # "level" THEN x ELSE IF irOn THEN "on" ELSE "off"
    BY <1>4 DEF After2, After3
  <2>2. Hardware!StartTir5v3 = <<IrAs, Step(4), IrAs>>
    BY StartSpelled
  <2>3. /\ <<IrAs, Step(4), IrAs>> \in Seq(Plain)
        /\ Brings(<<IrAs, Step(4), IrAs>>, r, x, After3(IrAs, Step(4), IrAs, r, x))
    BY <1>3, Brings3
  <2> QED  BY <2>1, <2>2, <2>3, Zenon
<1>17. Hardware!StartSn3 \in Seq(Plain) /\ Brings(Hardware!StartSn3, r, x, Started(r, x))
  <2>1. <<VideoOn, On("green")>> \o W \in Seq(Plain) /\ Brings(<<VideoOn, On("green")>> \o W, r, x, Started(r, x))
    BY <1>1, <1>6, <1>8, PlainBoth
  <2>2. /\ <<VideoOn, On("green")>> \o W \o <<On("blue")>> \in Seq(Plain)
        /\ Brings(<<VideoOn, On("green")>> \o W \o <<On("blue")>>, r, x, Started(r, x))
    BY <1>5, <2>1, PlainBoth
  <2> QED  BY <2>2, StartSpelled DEF W
<1> QED  BY <1>11, <1>12, <1>13, <1>14, <1>15, <1>16, <1>17

\* What a camera that runs has, and one that is stopped has not.
LEMMA StartBrings ==
    ASSUME kind \in AllKinds, irOn \in BOOLEAN, hwSignals \in BOOLEAN, NEW x
    PROVE  /\ Hardware!Start \in Seq(Plain)
           /\ kind = "tir5v3" => Brings(Hardware!Start, "mode", x, "on")
           /\ kind # "tir5v3" => Brings(Hardware!Start, "video", x, "on") /\ Brings(Hardware!Start, "camera", x, "on")
           /\ x = "off" \/ kind \notin DarkFirst => Brings(Hardware!Start, Hardware!Lights, x, IF irOn THEN "on" ELSE "off")
<1>1. "ir" \in Registers /\ "level" \in Registers /\ "video" \in Registers /\ "camera" \in Registers /\ "mode" \in Registers
  BY DEF Registers
<1>2. Hardware!Start \in Seq(Plain)
  BY <1>1, StartsBring DEF AllKinds, Hardware!Start
<1>3. kind = "tir5v3" => Brings(Hardware!Start, "mode", x, "on")
  BY <1>1, StartsBring DEF Hardware!Start
<1>4. ASSUME kind # "tir5v3", NEW r \in {"video", "camera"} PROVE Brings(Hardware!Start, r, x, "on")
  <2>1. r \in Registers /\ \A y : Started(r, y) = "on" /\ Levelled(r, y) = "on"
    BY <1>1 DEF Started, Levelled
  <2> QED  BY <1>4, <2>1, StartsBring DEF AllKinds, Hardware!Start
<1>5. Started("ir", x) = IF irOn THEN "on" ELSE x
  BY DEF Started
<1>6. ASSUME x = "off" \/ kind \notin DarkFirst PROVE Brings(Hardware!Start, Hardware!Lights, x, IF irOn THEN "on" ELSE "off")
  <2>1. CASE kind \in {"tir2", "tir3", "sn3", "sn4"}
    <3>1. Started("ir", x) = IF irOn THEN "on" ELSE "off"
      BY <1>5, <1>6, <2>1 DEF DarkFirst
    <3> QED  BY <1>1, <2>1, <3>1, StartsBring, LampRegisters DEF Hardware!Start
  <2>2. CASE kind = "tir4"
    <3>1. Started("ir", "off") = IF irOn THEN "on" ELSE "off"
      BY DEF Started
    <3> QED  BY <1>1, <2>2, <3>1, StartsBring, LampRegisters DEF Hardware!Start
  <2>3. CASE kind = "tir5"
    <3>1. Levelled("level", "off") = IF irOn THEN "on" ELSE "off"
      BY DEF Levelled
    <3> QED  BY <1>1, <2>3, <3>1, StartsBring, LampRegisters DEF Hardware!Start
  <2>4. CASE kind = "tir5v3"
    BY <1>1, <2>4, StartsBring, LampRegisters DEF Hardware!Start
  <2> QED  BY <2>1, <2>2, <2>3, <2>4 DEF AllKinds
<1> QED  BY <1>2, <1>3, <1>4, <1>6

(* The camera *)

Device ==
    [video : BOOLEAN, camera : BOOLEAN, leds : SUBSET Leds, fw : {"none", "old", "good"},
     active : BOOLEAN, mode : 0 .. 6]

LEMMA Heads ==
    ASSUME NEW led \in Leds, NEW n \in 0 .. 6
    PROVE  /\ On(led)[1] = "led" /\ On(led)[2] = led /\ On(led)[3]
           /\ Off(led)[1] = "led" /\ Off(led)[2] = led /\ ~Off(led)[3]
           /\ VideoOn[1] = "video" /\ VideoOn[2] /\ VideoOff[1] = "video" /\ ~VideoOff[2]
           /\ Halt[1] = "camera stop" /\ Step(n)[1] = "mode" /\ Step(n)[2] = n
BY DEF On, Off, VideoOn, VideoOff, Halt, Step

LEMMA ObeyLed ==
    ASSUME NEW d \in Device, NEW led \in Leds, NEW p, p = On(led) \/ p = Off(led)
    PROVE  /\ Hardware!Obey(d, p) \in Device
           /\ Hardware!Obey(d, p).fw = d.fw /\ Hardware!Obey(d, p).active = d.active
           /\ Hardware!Obey(d, p).video = d.video /\ Hardware!Obey(d, p).camera = d.camera
           /\ Hardware!Obey(d, p).mode = d.mode
           /\ p = On(led) => Hardware!Obey(d, p).leds = d.leds \cup {led}
           /\ p # On(led) => Hardware!Obey(d, p).leds = d.leds \ {led}
<1>1. 0 \in 0 .. 6
  OBVIOUS
<1>2. p[1] = "led" /\ p[2] = led /\ (p[3] <=> p = On(led))
  <2>1. /\ On(led)[1] = "led" /\ On(led)[2] = led /\ On(led)[3]
        /\ Off(led)[1] = "led" /\ Off(led)[2] = led /\ ~Off(led)[3]
    BY <1>1, Heads
  <2>2. CASE p = On(led)
    BY <2>1, <2>2
  <2>3. CASE p = Off(led)
    <3>1. On(led) # Off(led)
      BY <2>1, Zenon
    <3> QED  BY <2>1, <2>3, <3>1
  <2> QED  BY <2>2, <2>3
<1>3. d.leds \cup {led} \in SUBSET Leds /\ d.leds \ {led} \in SUBSET Leds
  BY DEF Device
<1> DEFINE more == IF p[3] THEN d.leds \cup {p[2]} ELSE d.leds \ {p[2]}
<1>4. more \in SUBSET Leds /\ more = IF p = On(led) THEN d.leds \cup {led} ELSE d.leds \ {led}
  BY <1>2, <1>3
<1>5. Hardware!Obey(d, p) = [d EXCEPT !.leds = more]
  BY <1>2 DEF Hardware!Obey
<1> HIDE DEF more
<1>6. /\ [d EXCEPT !.leds = more] \in Device
      /\ [d EXCEPT !.leds = more].fw = d.fw /\ [d EXCEPT !.leds = more].active = d.active
      /\ [d EXCEPT !.leds = more].video = d.video /\ [d EXCEPT !.leds = more].camera = d.camera
      /\ [d EXCEPT !.leds = more].mode = d.mode /\ [d EXCEPT !.leds = more].leds = more
  BY <1>4 DEF Device
<1> QED  BY <1>4, <1>5, <1>6

LEMMA ObeyOther ==
    ASSUME NEW d \in Device, NEW n \in 0 .. 6
    PROVE  /\ Hardware!Obey(d, VideoOn) = [d EXCEPT !.video = TRUE, !.camera = TRUE]
           /\ Hardware!Obey(d, VideoOff) = [d EXCEPT !.video = FALSE]
           /\ Hardware!Obey(d, Halt) = [d EXCEPT !.camera = FALSE]
           /\ Hardware!Obey(d, Step(n)) = [d EXCEPT !.mode = n]
           /\ Hardware!Obey(d, <<"fpga init">>) = [d EXCEPT !.fw = "none", !.active = FALSE]
           /\ Hardware!Obey(d, <<"cfg reload">>) = [d EXCEPT !.active = TRUE]
BY DEF Hardware!Obey, VideoOn, VideoOff, Halt, Step, Device

\* A packet of those the camera always obeys.
LEMMA ObeyPlain ==
    ASSUME NEW d \in Device, NEW p \in Plain
    PROVE  /\ Hardware!Obey(d, p) \in Device
           /\ Hardware!Obey(d, p).fw = d.fw /\ Hardware!Obey(d, p).active = d.active
           /\ \A r \in Registers : Register(Hardware!Obey(d, p), r) = Effect(p, r, Register(d, r))
<1> DEFINE o == Hardware!Obey(d, p)
<1>0. 0 \in 0 .. 6
  OBVIOUS
<1>1. ASSUME NEW led \in Leds, p = On(led) \/ p = Off(led)
      PROVE  \A r \in Registers : Register(o, r) = Effect(p, r, Register(d, r))
  <2>1. /\ o.video = d.video /\ o.camera = d.camera /\ o.mode = d.mode
        /\ p = On(led) => o.leds = d.leds \cup {led}
        /\ p # On(led) => o.leds = d.leds \ {led}
    BY <1>1, ObeyLed
  <2> HIDE DEF o
  <2>2. CASE p = On(led)
    <3>1. \A r \in Registers : Effect(p, r, Register(d, r)) = IF r = led THEN "on" ELSE Register(d, r)
      BY <2>2, LedEffects
    <3>2. \A r \in {"ir", "level"} : r \in o.leds <=> led = r \/ r \in d.leds
      BY <2>1, <2>2
    <3>3. \A r \in {"ir", "level"} : Register(o, r) = Effect(p, r, Register(d, r))
      BY <3>1, <3>2 DEF Register, Registers
    <3>4. \A r \in {"video", "camera", "mode"} : Register(o, r) = Effect(p, r, Register(d, r))
      <4>1. \A r \in {"video", "camera", "mode"} : r \in Registers /\ r # led
        BY DEF Registers, Leds
      <4>2. \A r \in {"video", "camera", "mode"} : Effect(p, r, Register(d, r)) = Register(d, r)
        BY <3>1, <4>1
      <4>3. \A r \in {"video", "camera", "mode"} : Register(o, r) = Register(d, r)
        BY <2>1 DEF Register
      <4> QED  BY <4>2, <4>3
    <3> QED  BY <3>3, <3>4 DEF Registers
  <2>3. CASE p # On(led)
    <3>1. \A r \in Registers : Effect(p, r, Register(d, r)) = IF r = led THEN "off" ELSE Register(d, r)
      BY <1>1, <2>3, LedEffects
    <3>2. \A r \in {"ir", "level"} : r \in o.leds <=> led # r /\ r \in d.leds
      BY <2>1, <2>3
    <3>3. \A r \in {"ir", "level"} : Register(o, r) = Effect(p, r, Register(d, r))
      BY <3>1, <3>2 DEF Register, Registers
    <3>4. \A r \in {"video", "camera", "mode"} : Register(o, r) = Effect(p, r, Register(d, r))
      <4>1. \A r \in {"video", "camera", "mode"} : r \in Registers /\ r # led
        BY DEF Registers, Leds
      <4>2. \A r \in {"video", "camera", "mode"} : Effect(p, r, Register(d, r)) = Register(d, r)
        BY <3>1, <4>1
      <4>3. \A r \in {"video", "camera", "mode"} : Register(o, r) = Register(d, r)
        BY <2>1 DEF Register
      <4> QED  BY <4>2, <4>3
    <3> QED  BY <3>3, <3>4 DEF Registers
  <2> QED  BY <2>2, <2>3
<1>2. CASE \E led \in Leds : p = On(led) \/ p = Off(led)
  BY <1>1, <1>2, ObeyLed
<1>3. CASE p = VideoOn
  <2>0. o = [d EXCEPT !.video = TRUE, !.camera = TRUE]
    BY <1>3, <1>0, ObeyOther
  <2> HIDE DEF o
  <2>1. /\ o \in Device /\ o.video = TRUE /\ o.camera = TRUE /\ o.leds = d.leds /\ o.fw = d.fw
        /\ o.active = d.active /\ o.mode = d.mode
    BY <2>0 DEF Device
  <2>2. \A r \in Registers : Register(o, r) = Effect(p, r, Register(d, r))
    BY <1>3, <2>1, VideoEffects DEF Register, Registers
  <2> QED  BY <2>1, <2>2 DEF o
<1>4. CASE p = VideoOff
  <2>0. o = [d EXCEPT !.video = FALSE]
    BY <1>4, <1>0, ObeyOther
  <2> HIDE DEF o
  <2>1. /\ o \in Device /\ o.video = FALSE /\ o.camera = d.camera /\ o.leds = d.leds /\ o.fw = d.fw
        /\ o.active = d.active /\ o.mode = d.mode
    BY <2>0 DEF Device
  <2>2. \A r \in Registers : Register(o, r) = Effect(p, r, Register(d, r))
    BY <1>4, <2>1, VideoEffects DEF Register, Registers
  <2> QED  BY <2>1, <2>2 DEF o
<1>5. CASE p = Halt
  <2>0. o = [d EXCEPT !.camera = FALSE]
    BY <1>5, <1>0, ObeyOther
  <2> HIDE DEF o
  <2>1. /\ o \in Device /\ o.video = d.video /\ o.camera = FALSE /\ o.leds = d.leds /\ o.fw = d.fw
        /\ o.active = d.active /\ o.mode = d.mode
    BY <2>0 DEF Device
  <2>2. \A r \in Registers : Register(o, r) = Effect(p, r, Register(d, r))
    BY <1>5, <2>1, VideoEffects DEF Register, Registers
  <2> QED  BY <2>1, <2>2 DEF o
<1>6. ASSUME NEW n \in 0 .. 6, p = Step(n)
      PROVE  /\ o \in Device /\ o.fw = d.fw /\ o.active = d.active
             /\ \A r \in Registers : Register(o, r) = Effect(p, r, Register(d, r))
  <2>0. o = [d EXCEPT !.mode = n]
    BY <1>6, <1>0, ObeyOther
  <2> HIDE DEF o
  <2>1. /\ o \in Device /\ o.video = d.video /\ o.camera = d.camera /\ o.leds = d.leds /\ o.fw = d.fw
        /\ o.active = d.active /\ o.mode = n
    BY <2>0 DEF Device
  <2>2. \A r \in Registers : Register(o, r) = Effect(p, r, Register(d, r))
    BY <1>6, <2>1, ModeEffects DEF Register, Registers
  <2> QED  BY <2>1, <2>2
<1>7. CASE \E n \in 0 .. 6 : p = Step(n)
  BY <1>6, <1>7
<1> QED  BY <1>2, <1>3, <1>4, <1>5, <1>7 DEF Plain

\* A packet for the firmware.
LEMMA ObeyFirmware ==
    ASSUME NEW d \in Device
    PROVE  /\ \A p \in {<<"fpga init">>, <<"cfg reload">>} :
                  /\ Hardware!Obey(d, p) \in Device
                  /\ \A r \in Registers : Register(Hardware!Obey(d, p), r) = Register(d, r)
           /\ Hardware!Obey(d, <<"cfg reload">>).fw = d.fw /\ Hardware!Obey(d, <<"cfg reload">>).active
           /\ [d EXCEPT !.fw = "good"] \in Device /\ [d EXCEPT !.fw = "good"].fw = "good"
           /\ \A r \in Registers : Register([d EXCEPT !.fw = "good"], r) = Register(d, r)
<1> DEFINE same(o) == o.video = d.video /\ o.camera = d.camera /\ o.leds = d.leds /\ o.mode = d.mode
<1>0. 0 \in 0 .. 6
  OBVIOUS
<1>1. ASSUME NEW o, same(o) PROVE \A r \in Registers : Register(o, r) = Register(d, r)
  BY <1>1 DEF Register, Registers
<1>2. /\ [d EXCEPT !.fw = "none", !.active = FALSE] \in Device /\ same([d EXCEPT !.fw = "none", !.active = FALSE])
  BY DEF Device
<1>3. /\ [d EXCEPT !.active = TRUE] \in Device /\ same([d EXCEPT !.active = TRUE])
      /\ [d EXCEPT !.active = TRUE].fw = d.fw /\ [d EXCEPT !.active = TRUE].active
  BY DEF Device
<1>4. /\ [d EXCEPT !.fw = "good"] \in Device /\ same([d EXCEPT !.fw = "good"]) /\ [d EXCEPT !.fw = "good"].fw = "good"
  BY DEF Device
<1>5. /\ Hardware!Obey(d, <<"fpga init">>) = [d EXCEPT !.fw = "none", !.active = FALSE]
      /\ Hardware!Obey(d, <<"cfg reload">>) = [d EXCEPT !.active = TRUE]
  BY <1>0, ObeyOther
<1> HIDE DEF same
<1>6. /\ Hardware!Obey(d, <<"fpga init">>) \in Device
      /\ \A r \in Registers : Register(Hardware!Obey(d, <<"fpga init">>), r) = Register(d, r)
  BY <1>1, <1>2, <1>5
<1>7. /\ Hardware!Obey(d, <<"cfg reload">>) \in Device
      /\ \A r \in Registers : Register(Hardware!Obey(d, <<"cfg reload">>), r) = Register(d, r)
      /\ Hardware!Obey(d, <<"cfg reload">>).fw = d.fw /\ Hardware!Obey(d, <<"cfg reload">>).active
  BY <1>1, <1>3, <1>5
<1> QED  BY <1>1, <1>4, <1>6, <1>7

Work == Plain \cup Inner

LEMMA PlainWorks == ASSUME NEW t \in Seq(Plain) PROVE t \in Seq(Work)
BY DEF Work

LEMMA InnerBrings ==
    ASSUME NEW t \in Seq(Inner), NEW r \in Registers, NEW x
    PROVE  t \in Seq(Work) /\ Brings(t, r, x, x)
<1>1. t \in Seq(Work)
  BY DEF Work
<1>2. \A i \in 1 .. Len(t) : t[i] \in Inner
  OBVIOUS
<1>3. \A i \in 1 .. Len(t) : ~Writes(t[i], r)
  BY <1>2, OtherEffect
<1> QED  BY <1>1, <1>3 DEF Brings

LEMMA WorkBoth ==
    ASSUME NEW s \in Seq(Work), NEW t \in Seq(Work), NEW r, NEW x, NEW y, NEW z,
           Brings(s, r, x, y), Brings(t, r, y, z)
    PROVE  s \o t \in Seq(Work) /\ Brings(s \o t, r, x, z)
<1>1. s \o t \in Seq(Work)
  OBVIOUS
<1> QED  BY <1>1, BringsBoth

(* The checks by their names. *)

Rom == <<"check", "rom">>
Status == <<"check", "status">>
File == <<"check", "file">>
Uploaded == <<"check", "upload">>
Sum == <<"check", "sum">>
Configured == <<"check", "configured">>
Wait == <<"check", "wait">>
Fpga == <<"fpga init">>
Bytes == <<"firmware">>
Reload == <<"cfg reload">>

LEMMA InnerNames ==
    /\ Rom \in Inner /\ Status \in Inner /\ File \in Inner /\ Uploaded \in Inner /\ Sum \in Inner
    /\ Configured \in Inner /\ Wait \in Inner /\ Fpga \in Inner /\ Bytes \in Inner /\ Reload \in Inner
BY DEF Inner, Rom, Status, File, Uploaded, Sum, Configured, Wait, Fpga, Bytes, Reload

\* A TrackIR 4 and a SmartNav 4 are told to go on with these.
Confirm == <<Status, Sum, Configured>>
Checks == <<Rom, Status, File, Uploaded>>

LEMMA InitSpelled ==
    /\ Hardware!InitTir2 = Hardware!AllOff \o <<VideoOff>> \o Hardware!AllOff \o <<Rom>>
    /\ Hardware!InitTir3 = Hardware!StopTir3 \o <<Rom>>
    /\ Hardware!InitTir4 = Hardware!StopTir4 \o (Checks \o Confirm)
    /\ Hardware!InitTir5 = Hardware!StopTir5 \o
           <<On("level"), File, Fpga, Bytes, Halt, Reload, On("level"), On("level"), Halt, On("level"), VideoOn>>
    /\ Hardware!InitTir5v3 = <<Step(0), Halt, Step(1), Step(2), Step(3), On("level")>>
    /\ Hardware!InitSn3 = Hardware!StopSn3 \o <<Rom>>
    /\ Hardware!InitSn4 = Hardware!StopTir4 \o Checks
<1>1. Hardware!InitTir4 = Hardware!StopTir4 \o (Checks \o Confirm)
  <2>1. Checks \o Confirm = <<Rom, Status, File, Uploaded, Status, Sum, Configured>>
    <3>1. ASSUME NEW a \in Inner, NEW b \in Inner, NEW c \in Inner, NEW d \in Inner, NEW e \in Inner,
                 NEW f \in Inner, NEW g \in Inner
          PROVE  <<a, b, c, d>> \o <<e, f, g>> = <<a, b, c, d, e, f, g>>
      <4>1. <<a, b, c, d, e>> = <<a, b, c, d>> \o <<e>>
        OBVIOUS
      <4>2. <<a, b, c, d, e, f>> = <<a, b, c, d, e>> \o <<f>>
        OBVIOUS
      <4>3. <<a, b, c, d, e, f, g>> = <<a, b, c, d, e, f>> \o <<g>>
        OBVIOUS
      <4>4. <<e, f, g>> = <<e>> \o <<f>> \o <<g>>
        <5>1. <<e, f, g>> = <<e, f>> \o <<g>>
          OBVIOUS
        <5> DEFINE u == <<e>> \o <<f>>
        <5>2. u \in Seq(Inner) /\ Len(u) = 2 /\ u[1] = e /\ u[2] = f
          OBVIOUS
        <5>3. <<e, f>> = u
          <6> HIDE DEF u
          <6>1. <<e, f>> \in Seq(Inner)
            OBVIOUS
          <6> QED  BY <5>2, <6>1
        <5> QED  BY <5>1, <5>3
      <4>5. ASSUME NEW s \in Seq(Inner), NEW t \in Seq(Inner), NEW u \in Seq(Inner), NEW v \in Seq(Inner)
            PROVE  s \o ((t \o u) \o v) = ((s \o t) \o u) \o v
        <5>1. Join(t, u) \in Seq(Inner) /\ Join(Join(s, t), u) = Join(s, Join(t, u))
          BY Regroup
        <5>2. Join(Join(s, Join(t, u)), v) = Join(s, Join(Join(t, u), v))
          BY <5>1, Regroup
        <5> QED  BY <5>1, <5>2, Zenon DEF Join
      <4>6. /\ <<a, b, c, d>> \in Seq(Inner) /\ <<e>> \in Seq(Inner) /\ <<f>> \in Seq(Inner) /\ <<g>> \in Seq(Inner)
        OBVIOUS
      <4>7. <<a, b, c, d>> \o (<<e>> \o <<f>> \o <<g>>) = <<a, b, c, d>> \o <<e>> \o <<f>> \o <<g>>
        BY <4>5, <4>6
      <4> QED  BY <4>1, <4>2, <4>3, <4>4, <4>7, Zenon
    <3> QED  BY <3>1, InnerNames DEF Checks, Confirm
  <2> QED
    BY <2>1 DEF Hardware!InitTir4, Hardware!Check, Rom, Status, File, Uploaded, Sum, Configured
<1>2. /\ Hardware!InitTir2 = Hardware!AllOff \o <<VideoOff>> \o Hardware!AllOff \o <<Rom>>
      /\ Hardware!InitTir3 = Hardware!StopTir3 \o <<Rom>>
      /\ Hardware!InitTir5v3 = <<Step(0), Halt, Step(1), Step(2), Step(3), On("level")>>
      /\ Hardware!InitSn3 = Hardware!StopSn3 \o <<Rom>>
  BY DEF Hardware!InitTir2, Hardware!InitTir3, Hardware!InitTir5v3, Hardware!InitSn3, Hardware!Check, Hardware!Video,
         Hardware!Mode, Hardware!CameraStop, Hardware!Register, Rom, VideoOff, Step, Halt, On
<1>3. Hardware!InitSn4 = Hardware!StopTir4 \o Checks
  <2>1. Hardware!StopSn4 = Hardware!StopTir4
    BY Spelled
  <2> QED  BY <2>1 DEF Hardware!InitSn4, Hardware!Check, Checks, Rom, Status, File, Uploaded
<1>4. Hardware!InitTir5 = Hardware!StopTir5 \o
           <<On("level"), File, Fpga, Bytes, Halt, Reload, On("level"), On("level"), Halt, On("level"), VideoOn>>
  BY DEF Hardware!InitTir5, Hardware!Check, Hardware!Video, Hardware!CameraStop, Hardware!Register, Hardware!FpgaInit,
         Hardware!CfgReload, File, Fpga, Bytes, Reload, VideoOn, Halt, On
<1> QED  BY <1>1, <1>2, <1>3, <1>4

LEMMA InitBrings ==
    ASSUME kind \in AllKinds, NEW x
    PROVE  /\ Hardware!InitCamera \in Seq(Work)
           /\ kind \in DarkFirst => Brings(Hardware!InitCamera, "ir", x, "off")
<1>1. "ir" \in Registers
  BY DEF Registers
<1>2. /\ <<Rom>> \in Seq(Inner) /\ Checks \in Seq(Inner) /\ Checks \o Confirm \in Seq(Inner)
  <2>1. Checks \in Seq(Inner) /\ Confirm \in Seq(Inner) /\ <<Rom>> \in Seq(Inner)
    BY InnerNames DEF Checks, Confirm
  <2> QED  BY <2>1
<1>3. \A y : /\ <<Rom>> \in Seq(Work) /\ Brings(<<Rom>>, "ir", y, y)
             /\ Checks \in Seq(Work) /\ Brings(Checks, "ir", y, y)
             /\ Checks \o Confirm \in Seq(Work)
  BY <1>1, <1>2, InnerBrings
<1>4. ASSUME NEW y
      PROVE  /\ Hardware!StopTir3 \in Seq(Work) /\ Brings(Hardware!StopTir3, "ir", y, "off")
             /\ Hardware!StopTir4 \in Seq(Work) /\ Brings(Hardware!StopTir4, "ir", y, "off")
             /\ Hardware!StopTir5 \in Seq(Work)
             /\ Hardware!StopSn3 \in Seq(Work) /\ Brings(Hardware!StopSn3, "ir", y, "off")
             /\ Hardware!AllOff \in Seq(Plain) /\ Brings(Hardware!AllOff, "ir", y, "off")
  BY <1>1, StopsBring, PlainWorks
<1>5. CASE kind = "tir2"
  <2>1. \A y : <<VideoOff>> \in Seq(Plain) /\ Brings(<<VideoOff>>, "ir", y, y)
    <3>1. VideoOff \in Plain /\ \A y : Effect(VideoOff, "ir", y) = y
      BY <1>1, VideoEffects DEF Plain
    <3> QED  BY <3>1, Brings1
  <2>2. Hardware!AllOff \o <<VideoOff>> \in Seq(Plain) /\ Brings(Hardware!AllOff \o <<VideoOff>>, "ir", x, "off")
    BY <1>4, <2>1, PlainBoth
  <2>3. /\ Hardware!AllOff \o <<VideoOff>> \o Hardware!AllOff \in Seq(Work)
        /\ Brings(Hardware!AllOff \o <<VideoOff>> \o Hardware!AllOff, "ir", x, "off")
    BY <1>4, <2>2, PlainBoth, PlainWorks
  <2>4. Hardware!InitTir2 \in Seq(Work) /\ Brings(Hardware!InitTir2, "ir", x, "off")
    BY <1>3, <2>3, WorkBoth, InitSpelled
  <2> QED  BY <1>5, <2>4 DEF Hardware!InitCamera
<1>6. CASE kind = "tir3"
  <2>1. Hardware!InitTir3 \in Seq(Work) /\ Brings(Hardware!InitTir3, "ir", x, "off")
    BY <1>3, <1>4, WorkBoth, InitSpelled
  <2> QED  BY <1>6, <2>1 DEF Hardware!InitCamera
<1>7. CASE kind = "sn3"
  <2>1. Hardware!InitSn3 \in Seq(Work) /\ Brings(Hardware!InitSn3, "ir", x, "off")
    BY <1>3, <1>4, WorkBoth, InitSpelled
  <2> QED  BY <1>7, <2>1 DEF Hardware!InitCamera
<1>8. CASE kind = "sn4"
  <2>1. Hardware!InitSn4 \in Seq(Work) /\ Brings(Hardware!InitSn4, "ir", x, "off")
    BY <1>3, <1>4, WorkBoth, InitSpelled
  <2> QED  BY <1>8, <2>1 DEF Hardware!InitCamera
<1>9. CASE kind = "tir4"
  <2>1. Hardware!InitTir4 \in Seq(Work)
    <3>1. ASSUME NEW s \in Seq(Work), NEW t \in Seq(Work) PROVE s \o t \in Seq(Work)
      OBVIOUS
    <3> QED  BY <1>3, <1>4, <3>1, InitSpelled
  <2> QED  BY <1>9, <2>1 DEF Hardware!InitCamera, DarkFirst
<1>10. CASE kind = "tir5"
  <2>1. <<On("level"), File, Fpga, Bytes, Halt, Reload, On("level"), On("level"), Halt, On("level"), VideoOn>> \in Seq(Work)
    <3>1. On("level") \in Work /\ Halt \in Work /\ VideoOn \in Work
      BY DEF Work, Plain, Leds
    <3>2. File \in Work /\ Fpga \in Work /\ Bytes \in Work /\ Reload \in Work
      BY InnerNames DEF Work
    <3> QED  BY <3>1, <3>2
  <2>2. Hardware!InitTir5 \in Seq(Work)
    BY <1>4, <2>1, InitSpelled
  <2> QED  BY <1>10, <2>2 DEF Hardware!InitCamera, DarkFirst
<1>11. CASE kind = "tir5v3"
  <2>1. Hardware!InitTir5v3 \in Seq(Work)
    <3>1. On("level") \in Plain /\ Halt \in Plain /\ Step(0) \in Plain /\ Step(1) \in Plain /\ Step(2) \in Plain /\ Step(3) \in Plain
      BY DEF Plain, Leds
    <3>2. <<Step(0), Halt, Step(1), Step(2), Step(3), On("level")>> \in Seq(Plain)
      BY <3>1
    <3> QED  BY <3>2, PlainWorks, InitSpelled
  <2> QED  BY <1>11, <2>1 DEF Hardware!InitCamera, DarkFirst
<1> QED  BY <1>5, <1>6, <1>7, <1>8, <1>9, <1>10, <1>11 DEF AllKinds

\* What is done before the camera is released.
Closure ==
    CASE kind \in {"tir2", "tir3"} -> Hardware!Stop \o Hardware!AllOff [] kind = "tir5" -> Hardware!CloseTir5
      [] kind = "tir5v3" -> Hardware!CloseTir5v3 [] kind \in {"tir4", "sn3", "sn4"} -> Hardware!Stop

LEMMA CloseBrings ==
    ASSUME kind \in AllKinds, NEW x
    PROVE  /\ Hardware!CloseCamera = Closure \o <<<<"finish">>>> /\ Closure \in Seq(Work)
           /\ Brings(Closure, Hardware!Doused, x, "off") /\ Brings(Closure, Source, x, "off")
<1>1. /\ "ir" \in Registers /\ "level" \in Registers /\ Source \in Registers
      /\ Source # "ir" /\ Source # "level" /\ Source # "video"
  BY DEF Registers, Source
<1>2. Hardware!CloseCamera = Closure \o <<<<"finish">>>>
  BY DEF Hardware!CloseCamera, Closure
<1>3. /\ Hardware!Stop \in Seq(Plain)
      /\ Brings(Hardware!Stop, Hardware!Doused, x, "off") /\ Brings(Hardware!Stop, Source, x, "off")
  BY StopBrings
<1>4. CASE kind \in {"tir4", "sn3", "sn4"}
  <2>1. Closure = Hardware!Stop
    BY <1>4 DEF Closure
  <2> QED  BY <1>2, <1>3, <2>1, PlainWorks
<1>5. CASE kind \in {"tir2", "tir3"}
  <2>1. \A y : /\ Hardware!AllOff \in Seq(Plain) /\ Brings(Hardware!AllOff, Hardware!Doused, y, "off")
               /\ Brings(Hardware!AllOff, Source, y, y)
    BY <1>1, <1>5, StopsBring, LampRegisters
  <2>2. /\ Hardware!Stop \o Hardware!AllOff \in Seq(Work)
        /\ Brings(Hardware!Stop \o Hardware!AllOff, Hardware!Doused, x, "off")
        /\ Brings(Hardware!Stop \o Hardware!AllOff, Source, x, "off")
    BY <1>3, <2>1, PlainBoth, PlainWorks
  <2>3. Closure = Hardware!Stop \o Hardware!AllOff
    BY <1>5 DEF Closure
  <2> QED  BY <1>2, <2>2, <2>3
<1>6. /\ On("level") \in Plain /\ Off("level") \in Plain /\ Off("ir") \in Plain /\ Step(6) \in Plain
      /\ Step(0) \in Plain /\ Halt \in Plain
  BY DEF Plain, Leds
<1>7. /\ \A y : Effect(Off("level"), "level", y) = "off" /\ Effect(On("level"), "level", y) = "on"
      /\ \A y : Effect(Off("ir"), "ir", y) = "off" /\ Effect(On("level"), "ir", y) = y
      /\ \A y : /\ Effect(Off("ir"), Source, y) = y /\ Effect(On("level"), Source, y) = y
                /\ Effect(Off("level"), Source, y) = y
  BY <1>1, LedEffects DEF Leds
<1>8. CASE kind = "tir5"
  <2> DEFINE L == <<On("level"), Off("ir")>>
  <2>0. Hardware!Doused = "ir"
    BY <1>8, LampRegisters
  <2>1. /\ L \in Seq(Plain) /\ Brings(L, Hardware!Doused, "off", "off") /\ Brings(L, Source, "off", "off")
    <3>1. After2(On("level"), Off("ir"), "ir", "off") = "off" /\ After2(On("level"), Off("ir"), Source, "off") = "off"
      BY <1>7 DEF After2
    <3> QED  BY <1>6, <2>0, <3>1, Brings2
  <2>2. <<Fpga>> \in Seq(Work) /\ Brings(<<Fpga>>, Hardware!Doused, "off", "off") /\ Brings(<<Fpga>>, Source, "off", "off")
    <3>1. <<Fpga>> \in Seq(Inner)
      BY InnerNames
    <3> QED  BY <1>1, <2>0, <3>1, InnerBrings
  <2>3. Hardware!CloseTir5 = (Hardware!Stop \o L) \o <<Fpga>>
    <3>1. Hardware!Stop = Hardware!StopTir5
      BY <1>8 DEF Hardware!Stop
    <3>2. Hardware!CloseTir5 = Hardware!Stop \o <<On("level"), Off("ir"), Fpga>>
      BY <3>1 DEF Hardware!CloseTir5, Hardware!Register, Hardware!Led, Hardware!FpgaInit, On, Off, Fpga
    <3>3. <<On("level"), Off("ir"), Fpga>> = L \o <<Fpga>>
      OBVIOUS
    <3> HIDE DEF L
    <3>4. Hardware!Stop \o (L \o <<Fpga>>) = (Hardware!Stop \o L) \o <<Fpga>>
      BY <1>3, <2>1, <2>2, PlainWorks
    <3> QED  BY <3>2, <3>3, <3>4
  <2> HIDE DEF L
  <2>4. /\ Hardware!Stop \o L \in Seq(Work)
        /\ Brings(Hardware!Stop \o L, Hardware!Doused, x, "off") /\ Brings(Hardware!Stop \o L, Source, x, "off")
    BY <1>3, <2>1, PlainBoth, PlainWorks
  <2>5. /\ Hardware!CloseTir5 \in Seq(Work) /\ Brings(Hardware!CloseTir5, Hardware!Doused, x, "off")
        /\ Brings(Hardware!CloseTir5, Source, x, "off")
    BY <2>2, <2>3, <2>4, WorkBoth
  <2>6. Closure = Hardware!CloseTir5
    BY <1>8 DEF Closure
  <2> QED  BY <1>2, <2>5, <2>6
<1>9. CASE kind = "tir5v3"
  <2>1. Source = "mode" /\ Hardware!Doused = "level"
    BY <1>9, LampRegisters DEF Source
  <2>2. \A y : /\ Effect(Step(6), "level", y) = y /\ Effect(Step(6), "mode", y) = "off"
               /\ Effect(Step(0), "level", y) = y /\ Effect(Step(0), "mode", y) = "off"
               /\ Effect(Halt, "level", y) = y /\ Effect(Halt, "mode", y) = y
    BY <1>1, <2>1, ModeEffects, VideoEffects
  <2> DEFINE L == <<On("level"), Off("level"), Step(6), Halt, Step(0)>>
  <2>3. L \in Seq(Plain) /\ Brings(L, "level", "off", "off") /\ Brings(L, Source, "off", "off")
    <3>1. /\ After5(On("level"), Off("level"), Step(6), Halt, Step(0), "level", "off") = "off"
          /\ After5(On("level"), Off("level"), Step(6), Halt, Step(0), "mode", "off") = "off"
      BY <1>7, <2>2 DEF After2, After3, After4, After5
    <3> QED  BY <1>6, <2>1, <3>1, Brings5
  <2>4. Hardware!CloseTir5v3 = Hardware!Stop \o L
    BY <1>9 DEF Hardware!CloseTir5v3, Hardware!Stop, Hardware!Register, Hardware!Mode, Hardware!CameraStop, On, Off, Step, Halt
  <2> HIDE DEF L
  <2>5. /\ Hardware!CloseTir5v3 \in Seq(Work) /\ Brings(Hardware!CloseTir5v3, Hardware!Doused, x, "off")
        /\ Brings(Hardware!CloseTir5v3, Source, x, "off")
    BY <1>3, <2>1, <2>3, <2>4, PlainBoth, PlainWorks
  <2>6. Closure = Hardware!CloseTir5v3
    BY <1>9 DEF Closure
  <2> QED  BY <1>2, <2>5, <2>6
<1> QED  BY <1>2, <1>4, <1>5, <1>8, <1>9 DEF AllKinds

(* The invariant *)

\* When what is left has been done, the register will be this.
Will(r, v) == Brings(todo, r, Register(dev, r), v)

\* A sequence that ends with this packet.
EndsWith(s, p) == \E t \in Seq(Work) : s = t \o <<p>>

\* The last part of the initialization of a TrackIR 4, and of the opening.
Rest == IF kind = "tir4" THEN Confirm \o <<<<"start">>>> ELSE <<<<"start">>>>

Good == dev.fw = "good"

\* A camera with firmware is on its way to it, or has it.
Chain ==
    \/ \E t \in Seq(Plain) : todo = t \o (Checks \o Rest)
    \/ todo = <<Status, File, Uploaded>> \o Rest
    \/ todo = <<File, Uploaded>> \o Rest /\ status.fw = dev.fw
    \/ todo = <<Uploaded>> \o Rest /\ status.fw = dev.fw
    \/ todo = <<Fpga, Bytes, Status, Sum, Configured, <<"start">>>>
    \/ todo = <<Bytes, Status, Sum, Configured, <<"start">>>>
    \/ todo = <<Status, Sum, Configured, <<"start">>>>
    \/ todo = <<Sum, Configured, <<"start">>>> /\ status.fw = dev.fw /\ (status.cfg = 2 => dev.active)
    \/ todo = <<Configured, <<"start">>>> /\ Good /\ (status.cfg = 2 => dev.active)
    \/ todo = <<Reload, Status, Wait, <<"start">>>> /\ Good
    \/ todo = <<Status, Wait, <<"start">>>> /\ Good /\ dev.active
    \/ todo = <<Wait, <<"start">>>> /\ Good /\ dev.active
    \/ todo = <<<<"start">>>> /\ Good /\ (kind = "tir4" => dev.active)

\* The status was not taken from another packet.
Told == trouble # "silence"

Initializing ==
    /\ EndsWith(todo, <<"start">>)
    /\ kind \in DarkFirst => Will("ir", "off")
    /\ Told /\ kind \in {"tir4", "sn4"} => Chain

Loaded ==
    Told => /\ kind = "tir4" => Good /\ dev.active
            /\ kind = "sn4" => Good

Starting ==
    /\ todo \in Seq(Plain) /\ Will(Hardware!Lights, Ir) /\ Loaded
    /\ kind = "tir5v3" => Will("mode", "on")
    /\ kind # "tir5v3" => Will("video", "on") /\ Will("camera", "on")

\* Silent, with this register of the lights off.
Quiet(lamp) == Will(lamp, "off") /\ Will(Source, "off")

Stopping == todo \in Seq(Plain) /\ Quiet(Hardware!Lights) /\ Loaded

Closing == EndsWith(todo, <<"finish">>) /\ Quiet(Hardware!Doused)

Steady == hwPhase \in {"new", "failed", "undefined", "running", "paused", "released"} => todo = <<>>

PhaseInv ==
    /\ Steady
    /\ hwPhase = "opening" => todo = <<<<"init">>>> \/ Initializing \/ Starting
    /\ hwPhase \in {"resuming", "running"} => Starting
    /\ hwPhase \in {"pausing", "paused"} => Stopping
    /\ hwPhase = "closing" => Closing
    /\ hwPhase = "released" => Quiet(Hardware!Doused)

Phases == {"new", "opening", "running", "pausing", "paused", "resuming", "closing", "released", "failed", "undefined"}

Statuses == [fw : {"none", "old", "good"}, cfg : 0 .. 2]

HardwareType ==
    /\ kind \in AllKinds /\ plugged \in BOOLEAN /\ irOn \in BOOLEAN /\ hwSignals \in BOOLEAN
    /\ dev \in Device /\ status \in Statuses /\ hwPhase \in Phases

HardwareInv ==
    /\ HardwareType
    /\ ~plugged => dev = Hardware!Fresh
    /\ hwPhase = "released" => owner = "none" /\ ~claimed
    /\ plugged => PhaseInv

(* Steps of a sequence *)

LEMMA PlainHead == ASSUME NEW p \in Plain PROVE p[1] \in {"led", "video", "camera stop", "mode"}
<1>1. 0 \in 0 .. 6
  OBVIOUS
<1>2. CASE \E led \in Leds : p = On(led) \/ p = Off(led)
  <2>1. PICK led \in Leds : p = On(led) \/ p = Off(led)
    BY <1>2
  <2>2. On(led)[1] = "led" /\ Off(led)[1] = "led"
    BY <1>1, Heads
  <2> QED  BY <2>1, <2>2
<1>3. CASE p \in {VideoOn, VideoOff, Halt}
  <2>1. VideoOn[1] = "video" /\ VideoOff[1] = "video" /\ Halt[1] = "camera stop"
    BY DEF VideoOn, VideoOff, Halt
  <2> QED  BY <1>3, <2>1
<1>4. CASE \E n \in 0 .. 6 : p = Step(n)
  <2>1. PICK n \in 0 .. 6 : p = Step(n)
    BY <1>4
  <2> QED  BY <2>1 DEF Step
<1> QED  BY <1>2, <1>3, <1>4 DEF Plain

LEMMA NamesApart ==
    /\ <<"init">> \notin Work /\ <<"start">> \notin Work /\ <<"finish">> \notin Work
    /\ \A p \in Inner : p \notin Plain /\ p # <<"start">> /\ p # <<"finish">> /\ p # <<"init">>
<1>1. /\ <<"init">>[1] = "init" /\ <<"start">>[1] = "start" /\ <<"finish">>[1] = "finish"
  OBVIOUS
<1>2. "ir" \in Registers
  BY DEF Registers
<1>3. \A p \in Inner : p[1] \in {"check", "fpga init", "firmware", "cfg reload", "init", "start", "finish"}
  BY <1>2, OtherEffect
<1>4. ASSUME NEW p \in Inner
      PROVE  p[1] \in {"check", "fpga init", "firmware", "cfg reload"}
  <2>1. CASE p \in {<<"check", what>> : what \in {"rom", "status", "file", "upload", "sum", "configured", "wait"}}
    <3>1. ASSUME NEW what, p = <<"check", what>> PROVE p[1] = "check"
      BY <3>1
    <3> QED  BY <2>1, <3>1
  <2>2. CASE p \in {<<"fpga init">>, <<"firmware">>, <<"cfg reload">>}
    <3>1. ASSUME NEW what, p = <<what>> PROVE p[1] = what
      BY <3>1
    <3> QED  BY <2>2, <3>1
  <2> QED  BY <2>1, <2>2 DEF Inner
<1>5. /\ \A p \in Inner : p # <<"start">> /\ p # <<"finish">> /\ p # <<"init">> /\ p \notin Plain
  BY <1>1, <1>4, PlainHead
<1>6. <<"init">> \notin Plain /\ <<"start">> \notin Plain /\ <<"finish">> \notin Plain
  BY <1>1, PlainHead
<1> QED  BY <1>5, <1>6 DEF Work

LEMMA EndsHead ==
    ASSUME NEW s, NEW p \in {<<"start">>, <<"finish">>}, EndsWith(s, p)
    PROVE  /\ s \in Seq(Packet) /\ s # <<>> /\ p \notin Work
           /\ s = <<p>> \/ (Head(s) \in Work /\ EndsWith(Tail(s), p))
<1>1. PICK t \in Seq(Work) : s = t \o <<p>>
  BY DEF EndsWith
<1>2. p \notin Work
  BY NamesApart
<1>3. t \in Seq(Packet) /\ <<p>> \in Seq(Packet)
  BY DEF Packet, Work
<1>4. s \in Seq(Packet) /\ s # <<>>
  <2>1. ASSUME NEW w \in Seq(Packet) PROVE w \o <<p>> \in Seq(Packet) /\ w \o <<p>> # <<>>
    BY <1>3
  <2> QED  BY <1>1, <1>3, <2>1
<1>5. CASE t = <<>>
  BY <1>1, <1>2, <1>3, <1>4, <1>5
<1>6. CASE t # <<>>
  <2>1. ASSUME NEW w \in Seq(Work), w # <<>>, NEW q
        PROVE  /\ Head(w \o <<q>>) = Head(w) /\ Tail(w \o <<q>>) = Tail(w) \o <<q>>
               /\ Tail(w) \in Seq(Work) /\ Head(w) \in Work
    BY <2>1
  <2>2. Head(s) \in Work /\ Tail(t) \in Seq(Work) /\ Tail(s) = Tail(t) \o <<p>>
    BY <1>1, <1>6, <2>1
  <2> QED  BY <1>2, <1>4, <2>2 DEF EndsWith
<1> QED  BY <1>5, <1>6

LEMMA EndsMore ==
    ASSUME NEW s, NEW p, NEW u \in Seq(Work), EndsWith(s, p)
    PROVE  EndsWith(u \o s, p)
<1>1. PICK t \in Seq(Work) : s = t \o <<p>>
  BY DEF EndsWith
<1>2. u \o t \in Seq(Work) /\ u \o s = (u \o t) \o <<p>>
  <2>1. u \o t \in Seq(Work)
    OBVIOUS
  <2>2. u \o (t \o <<p>>) = (u \o t) \o <<p>>
    <3> DEFINE S == Work \cup {p}
               q == <<p>>
    <3>1. u \in Seq(S) /\ t \in Seq(S) /\ q \in Seq(S)
      OBVIOUS
    <3> HIDE DEF S, q
    <3>2. Join(Join(u, t), q) = Join(u, Join(t, q))
      BY <3>1, Regroup
    <3> QED  BY <3>2, Zenon DEF Join, q
  <2> QED  BY <1>1, <2>1, <2>2
<1> QED  BY <1>2 DEF EndsWith

\* A packet is done.
LEMMA WillPop ==
    ASSUME NEW S, todo \in Seq(S), todo # <<>>, todo' = Tail(todo), NEW r, NEW v, Will(r, v),
           Register(dev', r) = Effect(Head(todo), r, Register(dev, r))
    PROVE  Brings(todo', r, Register(dev', r), v)
<1>1. Brings(todo, r, Register(dev, r), v)
  BY DEF Will
<1> QED  BY <1>1, BringsRest

\* A check is done, and adds to the sequence.
LEMMA WillPush ==
    ASSUME todo \in Seq(Packet), todo # <<>>, Head(todo) \in Inner, NEW u \in Seq(Inner),
           NEW r \in Registers, NEW v, Will(r, v), Register(dev', r) = Register(dev, r),
           todo' = u \o Tail(todo) \/ todo' = u \o todo
    PROVE  Brings(todo', r, Register(dev', r), v)
<1>1. Brings(todo, r, Register(dev, r), v)
  BY DEF Will
<1>2. Effect(Head(todo), r, Register(dev, r)) = Register(dev, r)
  <2>1. ~Writes(Head(todo), r)
    BY OtherEffect
  <2> QED  BY <2>1 DEF Effect
<1>3. Brings(Tail(todo), r, Register(dev, r), v) /\ Tail(todo) \in Seq(Packet)
  BY <1>1, <1>2, BringsRest
<1>4. Brings(u, r, Register(dev, r), Register(dev, r)) /\ u \in Seq(Packet)
  <2>1. u \in Seq(Packet)
    BY DEF Packet
  <2> QED  BY <2>1, InnerBrings
<1>5. /\ Brings(u \o Tail(todo), r, Register(dev, r), v)
      /\ Brings(u \o todo, r, Register(dev, r), v)
  BY <1>1, <1>3, <1>4, BringsBoth
<1> QED  BY <1>5

\* The last packet has been done.
LEMMA WillNone ==
    ASSUME NEW r, NEW v
    PROVE  /\ todo = <<>> => (Will(r, v) <=> Register(dev, r) = v)
           /\ todo = <<<<"start">>>> /\ r \in Registers => (Will(r, v) <=> Register(dev, r) = v)
           /\ todo = <<<<"finish">>>> /\ r \in Registers => (Will(r, v) <=> Register(dev, r) = v)
<1>1. CASE todo = <<>>
  BY <1>1 DEF Will, Brings
<1>2. ASSUME NEW p \in {<<"start">>, <<"finish">>}, todo = <<p>>, r \in Registers
      PROVE  Will(r, v) <=> Register(dev, r) = v
  <2>1. ~Writes(p, r)
    BY <1>2, OtherEffect
  <2>2. Len(todo) = 1 /\ todo[1] = p
    BY <1>2
  <2> QED  BY <2>1, <2>2 DEF Will, Brings
<1> QED  BY <1>1, <1>2

(* The way of a camera with firmware *)

LEMMA Distinct ==
    /\ Rom \notin {Status, File, Uploaded, Sum, Configured, Wait, Fpga, Bytes, Reload}
    /\ Status \notin {File, Uploaded, Sum, Configured, Wait, Fpga, Bytes, Reload}
    /\ File \notin {Uploaded, Sum, Configured, Wait, Fpga, Bytes, Reload}
    /\ Uploaded \notin {Sum, Configured, Wait, Fpga, Bytes, Reload}
    /\ Sum \notin {Configured, Wait, Fpga, Bytes, Reload}
    /\ Configured \notin {Wait, Fpga, Bytes, Reload}
    /\ Wait \notin {Fpga, Bytes, Reload} /\ Fpga # Bytes /\ Fpga # Reload /\ Bytes # Reload
<1>1. /\ Rom[1] = "check" /\ Status[1] = "check" /\ File[1] = "check" /\ Uploaded[1] = "check" /\ Sum[1] = "check"
      /\ Configured[1] = "check" /\ Wait[1] = "check"
      /\ Fpga[1] = "fpga init" /\ Bytes[1] = "firmware" /\ Reload[1] = "cfg reload"
  BY DEF Rom, Status, File, Uploaded, Sum, Configured, Wait, Fpga, Bytes, Reload
<1>2. /\ Rom[2] = "rom" /\ Status[2] = "status" /\ File[2] = "file" /\ Uploaded[2] = "upload" /\ Sum[2] = "sum"
      /\ Configured[2] = "configured" /\ Wait[2] = "wait"
  BY DEF Rom, Status, File, Uploaded, Sum, Configured, Wait
<1> QED  BY <1>1, <1>2

LEMMA FirstOf ==
    /\ \A a : <<a>> # <<>> /\ Head(<<a>>) = a /\ Tail(<<a>>) = <<>>
    /\ \A a, b : <<a, b>> # <<>> /\ Head(<<a, b>>) = a /\ Tail(<<a, b>>) = <<b>>
    /\ \A a, b, c : <<a, b, c>> # <<>> /\ Head(<<a, b, c>>) = a /\ Tail(<<a, b, c>>) = <<b, c>>
    /\ \A a, b, c, d : <<a, b, c, d>> # <<>> /\ Head(<<a, b, c, d>>) = a /\ Tail(<<a, b, c, d>>) = <<b, c, d>>
    /\ \A a, b, c, d, e : /\ <<a, b, c, d, e>> # <<>> /\ Head(<<a, b, c, d, e>>) = a
                          /\ Tail(<<a, b, c, d, e>>) = <<b, c, d, e>>
    /\ \A a, b, c, d, e, f : /\ <<a, b, c, d, e, f>> # <<>> /\ Head(<<a, b, c, d, e, f>>) = a
                             /\ Tail(<<a, b, c, d, e, f>>) = <<b, c, d, e, f>>
OBVIOUS

LEMMA FirstOfBoth ==
    ASSUME NEW S, NEW s \in Seq(S), NEW t \in Seq(S), s # <<>>
    PROVE  s \o t # <<>> /\ Head(s \o t) = Head(s) /\ Tail(s \o t) = Tail(s) \o t
OBVIOUS

\* What a check of the chain finds, and leaves to be done.
LEMMA ChainAt ==
    ASSUME Chain, kind \in {"tir4", "sn4"}
    PROVE  /\ todo # <<>>
           /\ Head(todo) = Rom => Tail(todo) = <<Status, File, Uploaded>> \o Rest
           /\ Head(todo) = Status => \/ Tail(todo) = <<File, Uploaded>> \o Rest
                                     \/ Tail(todo) = <<Sum, Configured, <<"start">>>>
                                     \/ Tail(todo) = <<Wait, <<"start">>>> /\ Good /\ dev.active
           /\ Head(todo) = File => Tail(todo) = <<Uploaded>> \o Rest /\ status.fw = dev.fw
           /\ Head(todo) = Uploaded => Tail(todo) = Rest /\ status.fw = dev.fw
           /\ Head(todo) = Fpga => Tail(todo) = <<Bytes, Status, Sum, Configured, <<"start">>>>
           /\ Head(todo) = Bytes => Tail(todo) = <<Status, Sum, Configured, <<"start">>>>
           /\ Head(todo) = Sum => /\ Tail(todo) = <<Configured, <<"start">>>>
                                  /\ status.fw = dev.fw /\ (status.cfg = 2 => dev.active)
           /\ Head(todo) = Configured => /\ Tail(todo) = <<<<"start">>>>
                                         /\ Good /\ (status.cfg = 2 => dev.active)
           /\ Head(todo) = Reload => Tail(todo) = <<Status, Wait, <<"start">>>> /\ Good
           /\ Head(todo) = Wait => /\ Tail(todo) = <<<<"start">>>> /\ todo = <<Wait, <<"start">>>>
                                   /\ Good /\ dev.active
           /\ Head(todo) = <<"start">> => Good /\ (kind = "tir4" => dev.active)
           /\ Head(todo) \in Plain => \E t \in Seq(Plain) : Tail(todo) = t \o (Checks \o Rest)
<1>1. /\ Rom \notin Plain /\ Status \notin Plain /\ File \notin Plain /\ Uploaded \notin Plain /\ Sum \notin Plain
      /\ Configured \notin Plain /\ Wait \notin Plain /\ Fpga \notin Plain /\ Bytes \notin Plain /\ Reload \notin Plain
      /\ <<"start">> \notin {Rom, Status, File, Uploaded, Sum, Configured, Wait, Fpga, Bytes, Reload}
      /\ <<"start">> \notin Plain
  BY NamesApart, InnerNames DEF Work
<1> DEFINE start == <<"start">>
<1>2. /\ Rest \in Seq(Packet) /\ Checks \in Seq(Packet) /\ Checks \o Rest \in Seq(Packet)
      /\ <<Status, File, Uploaded>> \in Seq(Packet) /\ <<File, Uploaded>> \in Seq(Packet) /\ <<Uploaded>> \in Seq(Packet)
  <2>1. /\ Rom \in Packet /\ Status \in Packet /\ File \in Packet /\ Uploaded \in Packet /\ Sum \in Packet
        /\ Configured \in Packet /\ start \in Packet
    BY InnerNames DEF Packet
  <2>2. Confirm \in Seq(Packet) /\ <<start>> \in Seq(Packet)
    BY <2>1 DEF Confirm
  <2>3. Confirm \o <<start>> \in Seq(Packet)
    BY <2>2
  <2>4. Rest \in Seq(Packet)
    BY <2>2, <2>3 DEF Rest
  <2>5. Checks \in Seq(Packet)
    BY <2>1 DEF Checks
  <2> QED  BY <2>1, <2>4, <2>5
<1>3. /\ Checks # <<>> /\ Head(Checks) = Rom /\ Tail(Checks) = <<Status, File, Uploaded>>
  BY FirstOf DEF Checks
<1>4. CASE \E t \in Seq(Plain) : todo = t \o (Checks \o Rest)
  <2>1. PICK t \in Seq(Plain) : todo = t \o (Checks \o Rest)
    BY <1>4
  <2>2. CASE t = <<>>
    <3>1. todo = Checks \o Rest
      BY <1>2, <2>1, <2>2
    <3>2. todo # <<>> /\ Head(todo) = Rom /\ Tail(todo) = <<Status, File, Uploaded>> \o Rest
      <4>1. /\ Checks \o Rest # <<>> /\ Head(Checks \o Rest) = Head(Checks)
            /\ Tail(Checks \o Rest) = Tail(Checks) \o Rest
        BY <1>2, <1>3, FirstOfBoth
      <4> QED  BY <1>3, <3>1, <4>1
    <3> QED  BY <1>1, <3>2, Distinct
  <2>3. CASE t # <<>>
    <3>1. t \in Seq(Packet) /\ Head(t) \in Plain /\ Tail(t) \in Seq(Plain)
      BY <2>3 DEF Packet
    <3>2. todo # <<>> /\ Head(todo) = Head(t) /\ Tail(todo) = Tail(t) \o (Checks \o Rest)
      BY <1>2, <2>1, <2>3, <3>1, FirstOfBoth, SMTT(30)
    <3> QED  BY <1>1, <3>1, <3>2
  <2> QED  BY <2>2, <2>3
<1>5. CASE todo = <<Status, File, Uploaded>> \o Rest
  <2>1. todo # <<>> /\ Head(todo) = Status /\ Tail(todo) = <<File, Uploaded>> \o Rest
    BY <1>2, <1>5, FirstOf, FirstOfBoth
  <2> QED  BY <1>1, <2>1, Distinct
<1>6. CASE todo = <<File, Uploaded>> \o Rest /\ status.fw = dev.fw
  <2>1. todo # <<>> /\ Head(todo) = File /\ Tail(todo) = <<Uploaded>> \o Rest
    BY <1>2, <1>6, FirstOf, FirstOfBoth
  <2> QED  BY <1>1, <1>6, <2>1, Distinct
<1>7. CASE todo = <<Uploaded>> \o Rest /\ status.fw = dev.fw
  <2>1. todo # <<>> /\ Head(todo) = Uploaded /\ Tail(todo) = Rest
    <3>1. <<>> \o Rest = Rest
      BY <1>2
    <3> QED  BY <1>2, <1>7, <3>1, FirstOf, FirstOfBoth
  <2> QED  BY <1>1, <1>7, <2>1, Distinct
<1>8. CASE todo = <<Fpga, Bytes, Status, Sum, Configured, <<"start">>>>
  <2>1. todo # <<>> /\ Head(todo) = Fpga /\ Tail(todo) = <<Bytes, Status, Sum, Configured, <<"start">>>>
    BY <1>8, FirstOf
  <2> QED  BY <1>1, <2>1, Distinct
<1>9. CASE todo = <<Bytes, Status, Sum, Configured, <<"start">>>>
  <2>1. todo # <<>> /\ Head(todo) = Bytes /\ Tail(todo) = <<Status, Sum, Configured, <<"start">>>>
    BY <1>9, FirstOf
  <2> QED  BY <1>1, <2>1, Distinct
<1>10. CASE todo = <<Status, Sum, Configured, <<"start">>>>
  <2>1. todo # <<>> /\ Head(todo) = Status /\ Tail(todo) = <<Sum, Configured, <<"start">>>>
    BY <1>10, FirstOf
  <2> QED  BY <1>1, <2>1, Distinct
<1>11. CASE todo = <<Sum, Configured, <<"start">>>> /\ status.fw = dev.fw /\ (status.cfg = 2 => dev.active)
  <2>1. todo # <<>> /\ Head(todo) = Sum /\ Tail(todo) = <<Configured, <<"start">>>>
    BY <1>11, FirstOf
  <2> QED  BY <1>1, <1>11, <2>1, Distinct
<1>12. CASE todo = <<Configured, <<"start">>>> /\ Good /\ (status.cfg = 2 => dev.active)
  <2>1. todo # <<>> /\ Head(todo) = Configured /\ Tail(todo) = <<<<"start">>>>
    BY <1>12, FirstOf
  <2> QED  BY <1>1, <1>12, <2>1, Distinct
<1>13. CASE todo = <<Reload, Status, Wait, <<"start">>>> /\ Good
  <2>1. todo # <<>> /\ Head(todo) = Reload /\ Tail(todo) = <<Status, Wait, <<"start">>>>
    BY <1>13, FirstOf
  <2> QED  BY <1>1, <1>13, <2>1, Distinct
<1>14. CASE todo = <<Status, Wait, <<"start">>>> /\ Good /\ dev.active
  <2>1. todo # <<>> /\ Head(todo) = Status /\ Tail(todo) = <<Wait, <<"start">>>>
    BY <1>14, FirstOf
  <2> QED  BY <1>1, <1>14, <2>1, Distinct
<1>15. CASE todo = <<Wait, <<"start">>>> /\ Good /\ dev.active
  <2>1. todo # <<>> /\ Head(todo) = Wait /\ Tail(todo) = <<<<"start">>>>
    BY <1>15, FirstOf
  <2> QED  BY <1>1, <1>15, <2>1, Distinct
<1>16. CASE todo = <<<<"start">>>> /\ Good /\ (kind = "tir4" => dev.active)
  <2>1. todo # <<>> /\ Head(todo) = <<"start">>
    BY <1>16, FirstOf
  <2> QED  BY <1>1, <1>16, <2>1, Distinct
<1> HIDE DEF start
<1> QED  BY <1>4, <1>5, <1>6, <1>7, <1>8, <1>9, <1>10, <1>11, <1>12, <1>13, <1>14, <1>15, <1>16 DEF Chain

\* What a check does, and a packet for the firmware.
Inward ==
    /\ todo # <<>> /\ Head(todo) \in Inner
    /\ UNCHANGED <<kind, plugged, irOn, hwSignals, owner, claimed>>
    /\ status' \in Statuses /\ dev' \in Device /\ (Told' => Told)
    /\ \A r \in Registers : Register(dev', r) = Register(dev, r)
    /\ \/ hwPhase' = "failed" /\ todo' = <<>>
       \/ /\ hwPhase' = hwPhase
          /\ \E u \in Seq(Inner) : todo' = u \o Tail(todo) \/ todo' = u \o todo
          /\ Told' /\ kind \in {"tir4", "sn4"} /\ Chain => Chain'

LEMMA RestKept == ASSUME kind' = kind PROVE Rest' = Rest
BY DEF Rest, Confirm, Status, Sum, Configured

LEMMA NothingBefore ==
    ASSUME todo \in Seq(Packet), todo # <<>>
    PROVE  <<>> \in Seq(Inner) /\ <<>> \o Tail(todo) = Tail(todo)
OBVIOUS

LEMMA Join12 ==
    ASSUME NEW a \in Packet, NEW b \in Packet, NEW c \in Packet
    PROVE  <<a>> \o <<b, c>> = <<a, b, c>>
<1> DEFINE u == <<a>> \o <<b, c>>
<1>1. u \in Seq(Packet) /\ Len(u) = 3 /\ u[1] = a /\ u[2] = b /\ u[3] = c
  OBVIOUS
<1>2. <<a, b, c>> \in Seq(Packet)
  OBVIOUS
<1> HIDE DEF u
<1>3. <<a, b, c>> = u
  BY <1>1, <1>2
<1> QED  BY <1>3 DEF u

LEMMA Join23 ==
    ASSUME NEW a \in Packet, NEW b \in Packet, NEW c \in Packet, NEW d \in Packet, NEW e \in Packet
    PROVE  <<a, b>> \o <<c, d, e>> = <<a, b, c, d, e>>
<1> DEFINE u == <<a, b>> \o <<c, d, e>>
<1>1. u \in Seq(Packet) /\ Len(u) = 5 /\ u[1] = a /\ u[2] = b /\ u[3] = c /\ u[4] = d /\ u[5] = e
  OBVIOUS
<1>2. <<a, b, c, d, e>> \in Seq(Packet)
  OBVIOUS
<1> HIDE DEF u
<1>3. <<a, b, c, d, e>> = u
  BY <1>1, <1>2
<1> QED  BY <1>3 DEF u

LEMMA Join24 ==
    ASSUME NEW a \in Packet, NEW b \in Packet, NEW c \in Packet, NEW d \in Packet, NEW e \in Packet, NEW f \in Packet
    PROVE  <<a, b>> \o <<c, d, e, f>> = <<a, b, c, d, e, f>>
<1> DEFINE u == <<a, b>> \o <<c, d, e, f>>
<1>1. u \in Seq(Packet) /\ Len(u) = 6 /\ u[1] = a /\ u[2] = b /\ u[3] = c /\ u[4] = d /\ u[5] = e /\ u[6] = f
  OBVIOUS
<1>2. <<a, b, c, d, e, f>> \in Seq(Packet)
  OBVIOUS
<1> HIDE DEF u
<1>3. <<a, b, c, d, e, f>> = u
  BY <1>1, <1>2
<1> QED  BY <1>3 DEF u

LEMMA Join31 ==
    ASSUME NEW a \in Packet, NEW b \in Packet, NEW c \in Packet, NEW d \in Packet
    PROVE  <<a, b, c>> \o <<d>> = <<a, b, c, d>>
<1> DEFINE u == <<a, b, c>> \o <<d>>
<1>1. u \in Seq(Packet) /\ Len(u) = 4 /\ u[1] = a /\ u[2] = b /\ u[3] = c /\ u[4] = d
  OBVIOUS
<1>2. <<a, b, c, d>> \in Seq(Packet)
  OBVIOUS
<1> HIDE DEF u
<1>3. <<a, b, c, d>> = u
  BY <1>1, <1>2
<1> QED  BY <1>3 DEF u

LEMMA PacketNames ==
    /\ Rom \in Packet /\ Status \in Packet /\ File \in Packet /\ Uploaded \in Packet /\ Sum \in Packet
    /\ Configured \in Packet /\ Wait \in Packet /\ Fpga \in Packet /\ Bytes \in Packet /\ Reload \in Packet
    /\ <<"start">> \in Packet
BY InnerNames DEF Packet

LEMMA FirmwareInward == ASSUME HardwareType, plugged, todo \in Seq(Packet), Hardware!Firmware PROVE Inward
<1>1. /\ todo # <<>> /\ Head(todo) = Bytes /\ todo' = Tail(todo) /\ dev' = [dev EXCEPT !.fw = "good"]
      /\ UNCHANGED <<kind, plugged, hwPhase, irOn, hwSignals, status, owner, claimed, trouble>>
  BY DEF Hardware!Firmware, Hardware!Doing, Hardware!host, Bytes
<1>2. dev' \in Device /\ \A r \in Registers : Register(dev', r) = Register(dev, r)
  BY <1>1, ObeyFirmware DEF HardwareType
<1>3. ASSUME kind \in {"tir4", "sn4"}, Chain PROVE Chain'
  <2>1. todo' = <<Status, Sum, Configured, <<"start">>>>
    BY <1>1, <1>3, ChainAt
  <2> QED  BY <2>1 DEF Chain
<1>4. <<>> \in Seq(Inner) /\ todo' = <<>> \o Tail(todo)
  BY <1>1, NothingBefore
<1> QED  BY <1>1, <1>2, <1>3, <1>4, InnerNames DEF Inward, HardwareType, Told

LEMMA ReadRomInward == ASSUME HardwareType, plugged, todo \in Seq(Packet), Hardware!ReadRom PROVE Inward
<1>1. /\ todo # <<>> /\ Head(todo) = Rom /\ todo' = Tail(todo)
      /\ UNCHANGED <<kind, plugged, dev, hwPhase, irOn, hwSignals, status, owner, claimed, trouble>>
  BY DEF Hardware!ReadRom, Hardware!Doing, Hardware!host, Hardware!Check, Hardware!Fail, Rom
<1>2. ASSUME kind \in {"tir4", "sn4"}, Chain PROVE Chain'
  <2>1. todo' = <<Status, File, Uploaded>> \o Rest'
    BY <1>1, <1>2, ChainAt, RestKept
  <2> QED  BY <2>1 DEF Chain
<1>3. <<>> \in Seq(Inner) /\ todo' = <<>> \o Tail(todo)
  BY <1>1, NothingBefore
<1> QED  BY <1>1, <1>2, <1>3, InnerNames DEF Inward, HardwareType, Told

LEMMA ReadStatusInward == ASSUME HardwareType, plugged, todo \in Seq(Packet), Hardware!ReadStatus PROVE Inward
<1>1. /\ todo # <<>> /\ Head(todo) = Status /\ todo' = Tail(todo)
      /\ UNCHANGED <<kind, plugged, dev, hwPhase, irOn, hwSignals, owner, claimed>>
      /\ \/ status' = [fw |-> dev.fw, cfg |-> IF dev.active THEN 2 ELSE 1] /\ trouble' = trouble
         \/ trouble' = "silence" /\ status' \in [fw : {"none", "old", "good"}, cfg : 0 .. 2]
  BY DEF Hardware!ReadStatus, Hardware!Doing, Hardware!host, Hardware!Check, Hardware!Fail, Hardware!Tripped, Status
<1>2. status' \in Statuses
  <2>1. [fw |-> dev.fw, cfg |-> IF dev.active THEN 2 ELSE 1] \in Statuses
    <3>1. dev.fw \in {"none", "old", "good"} /\ (IF dev.active THEN 2 ELSE 1) \in 0 .. 2
      BY DEF HardwareType, Device
    <3> HIDE DEF HardwareType
    <3> QED  BY <3>1 DEF Statuses
  <2> QED  BY <1>1, <2>1 DEF Statuses
<1>3. ASSUME kind \in {"tir4", "sn4"}, Chain, Told' PROVE Chain'
  <2>1. status'.fw = dev'.fw /\ (status'.cfg = 2 => dev'.active)
    BY <1>1, <1>3 DEF Told
  <2>2. CASE todo' = <<File, Uploaded>> \o Rest'
    BY <2>1, <2>2 DEF Chain
  <2>3. CASE todo' = <<Sum, Configured, <<"start">>>>
    BY <2>1, <2>3 DEF Chain
  <2>4. CASE todo' = <<Wait, <<"start">>>> /\ Good' /\ dev'.active
    BY <2>4 DEF Chain
  <2>5. Good => Good'
    BY <1>1 DEF Good
  <2> QED  BY <1>1, <1>3, <2>2, <2>3, <2>4, <2>5, ChainAt, RestKept
<1>4. <<>> \in Seq(Inner) /\ todo' = <<>> \o Tail(todo)
  BY <1>1, NothingBefore
<1>5. Told' => Told
  BY <1>1 DEF Told
<1> QED  BY <1>1, <1>2, <1>3, <1>4, <1>5, InnerNames DEF Inward, HardwareType

LEMMA FindFileInward == ASSUME HardwareType, plugged, todo \in Seq(Packet), Hardware!FindFile PROVE Inward
<1>1. /\ todo # <<>> /\ Head(todo) = File
      /\ UNCHANGED <<kind, plugged, dev, irOn, hwSignals, status, owner, claimed>>
      /\ \/ hwPhase' = "failed" /\ todo' = <<>> /\ trouble = "none"
         \/ todo' = Tail(todo) /\ UNCHANGED <<hwPhase, trouble>>
  BY DEF Hardware!FindFile, Hardware!Doing, Hardware!host, Hardware!Check, Hardware!Fail, Hardware!Tripped, File
<1>2. ASSUME kind \in {"tir4", "sn4"}, Chain, todo' = Tail(todo) PROVE Chain'
  <2>1. todo' = <<Uploaded>> \o Rest' /\ status'.fw = dev'.fw
    BY <1>1, <1>2, ChainAt, RestKept
  <2> QED  BY <2>1 DEF Chain
<1>3. todo' = Tail(todo) => <<>> \in Seq(Inner) /\ todo' = <<>> \o Tail(todo)
  BY <1>1, NothingBefore
<1>4. Told' => Told
  BY <1>1 DEF Told
<1> QED  BY <1>1, <1>2, <1>3, <1>4, InnerNames DEF Inward, HardwareType

LEMMA UploadInward == ASSUME HardwareType, plugged, todo \in Seq(Packet), Hardware!Upload PROVE Inward
<1> DEFINE u == IF status.fw = "good" THEN <<>>
                ELSE IF kind = "sn4" THEN <<Fpga, Bytes, Status, Sum, Configured>> ELSE <<Fpga, Bytes>>
<1>1. /\ todo # <<>> /\ Head(todo) = Uploaded
      /\ UNCHANGED <<kind, plugged, dev, hwPhase, irOn, hwSignals, status, owner, claimed, trouble>>
  BY DEF Hardware!Upload, Hardware!Doing, Hardware!host, Hardware!Check, Uploaded
<1>2. todo' = u \o Tail(todo) /\ u \in Seq(Inner)
  <2>1. <<Fpga, Bytes>> \o <<Status, Sum, Configured>> = <<Fpga, Bytes, Status, Sum, Configured>>
    BY PacketNames, Join23
  <2>2. <<Fpga, Bytes>> \o <<>> = <<Fpga, Bytes>>
    OBVIOUS
  <2>3. todo' = Hardware!When(status.fw # "good",
                              <<Fpga, Bytes>> \o Hardware!When(kind = "sn4", <<Status, Sum, Configured>>)) \o Tail(todo)
    BY DEF Hardware!Upload, Hardware!FpgaInit, Hardware!Check, Fpga, Bytes, Status, Sum, Configured
  <2>4. todo' = u \o Tail(todo)
    BY <2>1, <2>2, <2>3 DEF Hardware!When
  <2>5. u \in Seq(Inner)
    BY InnerNames
  <2> QED  BY <2>4, <2>5
<1>3. ASSUME kind \in {"tir4", "sn4"}, Chain PROVE Chain'
  <2>1. Tail(todo) = Rest /\ status.fw = dev.fw
    BY <1>1, <1>3, ChainAt
  <2>2. Confirm \o <<<<"start">>>> = <<Status, Sum, Configured, <<"start">>>>
    BY PacketNames, Join31 DEF Confirm
  <2>3. CASE status.fw = "good"
    <3>1. todo' = Rest /\ Good'
      BY <1>1, <1>2, <2>1, <2>3, NothingBefore DEF Good
    <3>2. CASE kind = "tir4"
      <4>1. todo' = <<Status, Sum, Configured, <<"start">>>>
        BY <2>2, <3>1, <3>2 DEF Rest
      <4> QED  BY <4>1 DEF Chain
    <3>3. CASE kind # "tir4"
      <4>1. todo' = <<<<"start">>>> /\ kind' # "tir4"
        BY <1>1, <3>1, <3>3 DEF Rest
      <4> QED  BY <3>1, <4>1 DEF Chain
    <3> QED  BY <3>2, <3>3
  <2>4. CASE status.fw # "good"
    <3>0. <<Fpga, Bytes>> \o <<Status, Sum, Configured, <<"start">>>> = <<Fpga, Bytes, Status, Sum, Configured, <<"start">>>>
      BY PacketNames, Join24
    <3>1. <<Fpga, Bytes, Status, Sum, Configured>> \o <<<<"start">>>> = <<Fpga, Bytes, Status, Sum, Configured, <<"start">>>>
      <4>1. /\ <<Fpga, Bytes>> \o <<Status, Sum, Configured>> = <<Fpga, Bytes, Status, Sum, Configured>>
            /\ <<Fpga, Bytes>> \in Seq(Packet) /\ <<Status, Sum, Configured>> \in Seq(Packet)
            /\ <<<<"start">>>> \in Seq(Packet)
        BY PacketNames, Join23
      <4>2. <<Status, Sum, Configured>> \o <<<<"start">>>> = <<Status, Sum, Configured, <<"start">>>>
        BY PacketNames, Join31
      <4> DEFINE x == <<Fpga, Bytes>>
                 y == <<Status, Sum, Configured>>
                 z == <<<<"start">>>>
      <4>3. x \in Seq(Packet) /\ y \in Seq(Packet) /\ z \in Seq(Packet)
        BY <4>1
      <4> HIDE DEF x, y, z
      <4>4. Join(Join(x, y), z) = Join(x, Join(y, z))
        BY <4>3, Regroup
      <4>5. (<<Fpga, Bytes>> \o <<Status, Sum, Configured>>) \o <<<<"start">>>>
            = <<Fpga, Bytes>> \o (<<Status, Sum, Configured>> \o <<<<"start">>>>)
        BY <4>4, Zenon DEF Join, x, y, z
      <4> QED  BY <3>0, <4>1, <4>2, <4>5, Zenon
    <3>2. todo' = <<Fpga, Bytes, Status, Sum, Configured, <<"start">>>>
      <4>1. CASE kind = "tir4"
        <5>1. u = <<Fpga, Bytes>> /\ Tail(todo) = <<Status, Sum, Configured, <<"start">>>>
          BY <2>1, <2>2, <2>4, <4>1 DEF Rest
        <5> HIDE DEF u
        <5> QED  BY <1>2, <3>0, <5>1
      <4>2. CASE kind = "sn4"
        <5>1. u = <<Fpga, Bytes, Status, Sum, Configured>> /\ Tail(todo) = <<<<"start">>>>
          BY <2>1, <2>4, <4>2 DEF Rest
        <5> HIDE DEF u
        <5> QED  BY <1>2, <3>1, <5>1
      <4> QED  BY <1>3, <4>1, <4>2
    <3> QED  BY <3>2 DEF Chain
  <2> QED  BY <2>3, <2>4
<1> HIDE DEF u
<1> QED  BY <1>1, <1>2, <1>3, InnerNames DEF Inward, HardwareType, Told

LEMMA CheckSumInward == ASSUME HardwareType, plugged, todo \in Seq(Packet), Hardware!CheckSum PROVE Inward
<1>1. /\ todo # <<>> /\ Head(todo) = Sum
      /\ UNCHANGED <<kind, plugged, dev, irOn, hwSignals, status, owner, claimed, trouble>>
      /\ \/ hwPhase' = "failed" /\ todo' = <<>>
         \/ status.fw = "good" /\ todo' = Tail(todo) /\ hwPhase' = hwPhase
  BY DEF Hardware!CheckSum, Hardware!Doing, Hardware!host, Hardware!Check, Hardware!Fail, Sum
<1>2. ASSUME kind \in {"tir4", "sn4"}, Chain, todo' = Tail(todo), status.fw = "good" PROVE Chain'
  <2>1. todo' = <<Configured, <<"start">>>> /\ Good' /\ (status'.cfg = 2 => dev'.active)
    BY <1>1, <1>2, ChainAt DEF Good
  <2> QED  BY <2>1 DEF Chain
<1>3. todo' = Tail(todo) => <<>> \in Seq(Inner) /\ todo' = <<>> \o Tail(todo)
  BY <1>1, NothingBefore
<1> QED  BY <1>1, <1>2, <1>3, InnerNames DEF Inward, HardwareType, Told

LEMMA ConfigureInward == ASSUME HardwareType, plugged, todo \in Seq(Packet), Hardware!Configure PROVE Inward
<1> DEFINE u == IF status.cfg = 1 THEN <<Reload, Status, Wait>> ELSE <<>>
<1>1. /\ todo # <<>> /\ Head(todo) = Configured
      /\ UNCHANGED <<kind, plugged, dev, irOn, hwSignals, status, owner, claimed, trouble>>
      /\ \/ hwPhase' = "failed" /\ todo' = <<>>
         \/ status.cfg # 0 /\ todo' = u \o Tail(todo) /\ hwPhase' = hwPhase
  BY DEF Hardware!Configure, Hardware!Doing, Hardware!host, Hardware!Check, Hardware!Fail, Hardware!When,
         Hardware!CfgReload, Configured, Reload, Status, Wait
<1>2. u \in Seq(Inner)
  BY InnerNames
<1>3. ASSUME kind \in {"tir4", "sn4"}, Chain, todo' = u \o Tail(todo), status.cfg # 0 PROVE Chain'
  <2>1. Tail(todo) = <<<<"start">>>> /\ Good /\ (status.cfg = 2 => dev.active)
    BY <1>1, <1>3, ChainAt
  <2>2. Good' /\ dev'.active = dev.active
    BY <1>1, <2>1 DEF Good
  <2>3. CASE status.cfg = 1
    <3>1. u = <<Reload, Status, Wait>>
      BY <2>3
    <3> HIDE DEF u
    <3>2. todo' = <<Reload, Status, Wait, <<"start">>>>
      <4>1. <<Reload, Status, Wait>> \o <<<<"start">>>> = <<Reload, Status, Wait, <<"start">>>>
        BY PacketNames, Join31
      <4> QED  BY <1>3, <2>1, <3>1, <4>1
    <3> QED  BY <2>2, <3>2 DEF Chain
  <2>4. CASE status.cfg # 1
    <3>1. status.cfg = 2
      BY <1>3, <2>4 DEF HardwareType, Statuses
    <3>2. todo' = <<<<"start">>>>
      BY <1>3, <2>1, <2>4
    <3> QED  BY <2>1, <2>2, <3>1, <3>2 DEF Chain
  <2> QED  BY <2>3, <2>4
<1> HIDE DEF u
<1> QED  BY <1>1, <1>2, <1>3, InnerNames DEF Inward, HardwareType, Told

LEMMA AwaitInward == ASSUME HardwareType, plugged, todo \in Seq(Packet), Hardware!AwaitConfigured PROVE Inward
<1>1. /\ todo # <<>> /\ Head(todo) = Wait
      /\ UNCHANGED <<kind, plugged, dev, hwPhase, irOn, hwSignals, status, owner, claimed, trouble>>
      /\ todo' = Tail(todo) \/ todo' = <<Status>> \o todo
  BY DEF Hardware!AwaitConfigured, Hardware!Doing, Hardware!host, Hardware!Check, Wait, Status
<1>2. ASSUME kind \in {"tir4", "sn4"}, Chain PROVE Chain'
  <2>1. Tail(todo) = <<<<"start">>>> /\ todo = <<Wait, <<"start">>>> /\ Good' /\ dev'.active
    BY <1>1, <1>2, ChainAt DEF Good
  <2>2. CASE todo' = Tail(todo)
    BY <2>1, <2>2 DEF Chain
  <2>3. CASE todo' = <<Status>> \o todo
    <3>1. todo' = <<Status, Wait, <<"start">>>>
      BY <2>1, <2>3, PacketNames, Join12
    <3> QED  BY <2>1, <3>1 DEF Chain
  <2> QED  BY <1>1, <2>2, <2>3
<1>3. \E u \in Seq(Inner) : todo' = u \o Tail(todo) \/ todo' = u \o todo
  <2>1. <<Status>> \in Seq(Inner)
    BY InnerNames
  <2>2. CASE todo' = Tail(todo)
    BY <1>1, <2>2, NothingBefore
  <2>3. CASE todo' = <<Status>> \o todo
    BY <2>1, <2>3
  <2> QED  BY <1>1, <2>2, <2>3
<1> QED  BY <1>1, <1>2, <1>3, InnerNames DEF Inward, HardwareType, Told

LEMMA PacketInward ==
    ASSUME HardwareType, plugged, todo \in Seq(Packet), Hardware!Packet, Head(todo) \in {Fpga, Reload}
    PROVE  Inward
<1>1. /\ todo # <<>> /\ todo' = Tail(todo) /\ dev' = Hardware!Obey(dev, Head(todo))
      /\ UNCHANGED <<kind, plugged, hwPhase, irOn, hwSignals, status, owner, claimed, trouble>>
  BY DEF Hardware!Packet, Hardware!host
<1>2. /\ dev' \in Device /\ \A r \in Registers : Register(dev', r) = Register(dev, r)
      /\ Head(todo) = Reload => dev'.fw = dev.fw /\ dev'.active
  BY <1>1, ObeyFirmware DEF HardwareType, Fpga, Reload
<1>3. ASSUME kind \in {"tir4", "sn4"}, Chain PROVE Chain'
  <2>1. CASE Head(todo) = Fpga
    <3>1. todo' = <<Bytes, Status, Sum, Configured, <<"start">>>>
      BY <1>1, <1>3, <2>1, ChainAt
    <3> QED  BY <3>1 DEF Chain
  <2>2. CASE Head(todo) = Reload
    <3>1. todo' = <<Status, Wait, <<"start">>>> /\ Good' /\ dev'.active
      BY <1>1, <1>2, <1>3, <2>2, ChainAt DEF Good
    <3> QED  BY <3>1 DEF Chain
  <2> QED  BY <2>1, <2>2
<1>4. <<>> \in Seq(Inner) /\ todo' = <<>> \o Tail(todo)
  BY <1>1, NothingBefore
<1> QED  BY <1>1, <1>2, <1>3, <1>4, InnerNames DEF Inward, HardwareType, Told

\* Who is at work, by the packet that comes next.
LEMMA Shape ==
    ASSUME HardwareType, PhaseInv, todo # <<>>
    PROVE  /\ todo \in Seq(Packet)
           /\ \/ hwPhase = "opening" /\ todo = <<<<"init">>>>
              \/ hwPhase = "opening" /\ Initializing /\ todo = <<<<"start">>>>
              \/ /\ hwPhase = "opening" /\ Initializing /\ Head(todo) \in Work
                 /\ EndsWith(Tail(todo), <<"start">>)
              \/ hwPhase = "closing" /\ Closing /\ todo = <<<<"finish">>>>
              \/ /\ hwPhase = "closing" /\ Closing /\ Head(todo) \in Work
                 /\ EndsWith(Tail(todo), <<"finish">>)
              \/ hwPhase \in {"opening", "resuming"} /\ Starting /\ Head(todo) \in Plain
              \/ hwPhase = "pausing" /\ Stopping /\ Head(todo) \in Plain
<1>1. hwPhase \in {"opening", "pausing", "resuming", "closing"}
  BY DEF HardwareType, Phases, PhaseInv, Steady
<1>2. CASE hwPhase = "opening" /\ todo = <<<<"init">>>>
  <2>1. <<<<"init">>>> \in Seq(Packet)
    BY DEF Packet
  <2> QED  BY <1>2, <2>1
<1>3. ASSUME todo \in Seq(Plain) PROVE todo \in Seq(Packet) /\ Head(todo) \in Plain
  BY <1>3 DEF Packet
<1>4. CASE hwPhase = "opening" /\ Initializing
  <2>1. EndsWith(todo, <<"start">>)
    BY <1>4 DEF Initializing
  <2> QED  BY <1>4, <2>1, EndsHead
<1>5. CASE hwPhase = "closing"
  <2>1. Closing
    BY <1>5 DEF PhaseInv
  <2>2. EndsWith(todo, <<"finish">>)
    BY <2>1 DEF Closing
  <2> QED  BY <1>5, <2>1, <2>2, EndsHead
<1>6. CASE hwPhase \in {"opening", "resuming"} /\ Starting
  BY <1>3, <1>6 DEF Starting
<1>7. CASE hwPhase = "pausing"
  BY <1>3, <1>7 DEF PhaseInv, Stopping
<1>8. /\ hwPhase = "opening" => todo = <<<<"init">>>> \/ Initializing \/ Starting
      /\ hwPhase = "resuming" => Starting
  BY DEF PhaseInv
<1> QED  BY <1>1, <1>2, <1>4, <1>5, <1>6, <1>7, <1>8

LEMMA InwardKeeps ==
    ASSUME HardwareType, PhaseInv, todo # <<>>, Inward
    PROVE  PhaseInv'
<1>1. todo \in Seq(Packet) /\ Head(todo) \in Inner /\ Head(todo) \notin Plain
  BY Shape, NamesApart DEF Inward
<1>2. CASE hwPhase' = "failed" /\ todo' = <<>>
  BY <1>2 DEF PhaseInv, Steady
<1>3. CASE /\ hwPhase' = hwPhase
           /\ \E u \in Seq(Inner) : todo' = u \o Tail(todo) \/ todo' = u \o todo
           /\ Told' /\ kind \in {"tir4", "sn4"} /\ Chain => Chain'
  <2>1. PICK u \in Seq(Inner) : todo' = u \o Tail(todo) \/ todo' = u \o todo
    BY <1>3
  <2>2. ASSUME NEW r \in Registers, NEW v, Will(r, v) PROVE Brings(todo', r, Register(dev', r), v)
    BY <1>1, <2>1, <2>2, WillPush DEF Inward
  <2>3. /\ "ir" \in Registers /\ Hardware!Doused \in Registers /\ Source \in Registers
        /\ Source' = Source /\ Hardware!Doused' = Hardware!Doused
    BY LampRegisters DEF Registers, Source, Hardware!Doused, Hardware!Lights, Inward
  <2>4. u \in Seq(Work)
    BY DEF Work
  <2>5. todo # <<<<"start">>>> /\ todo # <<<<"finish">>>> /\ todo # <<<<"init">>>>
    <3>1. Head(<<<<"start">>>>) = <<"start">> /\ Head(<<<<"finish">>>>) = <<"finish">> /\ Head(<<<<"init">>>>) = <<"init">>
      OBVIOUS
    <3> QED  BY <1>1, <3>1, NamesApart
  <2>6. CASE hwPhase = "opening" /\ Initializing /\ EndsWith(Tail(todo), <<"start">>)
    <3>1. EndsWith(todo', <<"start">>)
      BY <2>1, <2>4, <2>6, EndsMore DEF Initializing
    <3>2. kind' \in DarkFirst => Will("ir", "off")'
      BY <2>2, <2>3, <2>6 DEF Initializing, Inward, Will, DarkFirst
    <3>3. Told' /\ kind' \in {"tir4", "sn4"} => Chain'
      BY <1>3, <2>6 DEF Initializing, Inward
    <3>4. Initializing'
      BY <3>1, <3>2, <3>3 DEF Initializing, EndsWith
    <3> QED  BY <1>3, <2>6, <3>4 DEF PhaseInv, Steady
  <2>7. CASE hwPhase = "closing" /\ Closing /\ EndsWith(Tail(todo), <<"finish">>)
    <3>1. EndsWith(todo', <<"finish">>)
      BY <2>1, <2>4, <2>7, EndsMore DEF Closing
    <3>2. /\ Brings(todo', Hardware!Doused, Register(dev', Hardware!Doused), "off")
          /\ Brings(todo', Source, Register(dev', Source), "off")
      BY <2>2, <2>3, <2>7 DEF Closing, Quiet
    <3>3. Quiet(Hardware!Doused)'
      BY <2>3, <3>2 DEF Quiet, Will
    <3>4. Closing'
      BY <3>1, <3>3 DEF Closing, EndsWith
    <3> QED  BY <1>3, <2>7, <3>4 DEF PhaseInv, Steady
  <2> QED  BY <1>1, <2>5, <2>6, <2>7, Shape
<1> QED  BY <1>2, <1>3 DEF Inward

LEMMA PlainKeeps ==
    ASSUME HardwareType, PhaseInv, plugged, Hardware!Packet, Head(todo) \in Plain
    PROVE  PhaseInv' /\ dev' \in Device
<1>1. /\ todo # <<>> /\ todo' = Tail(todo) /\ dev' = Hardware!Obey(dev, Head(todo))
      /\ UNCHANGED <<kind, plugged, hwPhase, irOn, hwSignals, status, owner, claimed, trouble>>
  BY DEF Hardware!Packet, Hardware!host
<1>2. /\ dev' \in Device /\ dev'.fw = dev.fw /\ dev'.active = dev.active
      /\ \A r \in Registers : Register(dev', r) = Effect(Head(todo), r, Register(dev, r))
  BY <1>1, ObeyPlain DEF HardwareType
<1>3. todo \in Seq(Packet)
  BY <1>1, Shape
<1>4. ASSUME NEW r \in Registers, NEW v, Will(r, v) PROVE Brings(todo', r, Register(dev', r), v)
  BY <1>1, <1>2, <1>3, <1>4, WillPop
<1>5. /\ "ir" \in Registers /\ Hardware!Lights \in Registers /\ Hardware!Doused \in Registers /\ Source \in Registers
      /\ Source' = Source /\ Ir' = Ir /\ Hardware!Lights' = Hardware!Lights /\ Hardware!Doused' = Hardware!Doused
  BY <1>1, LampRegisters DEF Registers, Source, Ir, Hardware!Lights, Hardware!Doused
<1>6. /\ Quiet(Hardware!Lights) => Quiet(Hardware!Lights)'
      /\ Quiet(Hardware!Doused) => Quiet(Hardware!Doused)'
  <2>1. ASSUME NEW lamp \in Registers, Quiet(lamp)
        PROVE  Brings(todo', lamp, Register(dev', lamp), "off") /\ Brings(todo', Source, Register(dev', Source), "off")
    BY <1>4, <1>5, <2>1 DEF Quiet
  <2> QED  BY <1>5, <2>1 DEF Quiet, Will
<1>7. Loaded => Loaded'
  BY <1>1, <1>2 DEF Loaded, Good, Told
<1>8. todo \in Seq(Plain) => todo' \in Seq(Plain)
  BY <1>1
<1>9. Starting => Starting'
  <2>1. ASSUME Starting PROVE Starting'
    <3>1. /\ Brings(todo', Hardware!Lights, Register(dev', Hardware!Lights), Ir)
          /\ kind = "tir5v3" => Brings(todo', "mode", Register(dev', "mode"), "on")
          /\ kind # "tir5v3" => /\ Brings(todo', "video", Register(dev', "video"), "on")
                                /\ Brings(todo', "camera", Register(dev', "camera"), "on")
      BY <1>4, <1>5, <2>1 DEF Starting, Registers
    <3>2. /\ Will(Hardware!Lights, Ir)'
          /\ kind' = "tir5v3" => Will("mode", "on")'
          /\ kind' # "tir5v3" => Will("video", "on")' /\ Will("camera", "on")'
      BY <1>1, <1>5, <3>1 DEF Will
    <3> QED  BY <1>7, <1>8, <2>1, <3>2 DEF Starting
  <2> QED  BY <2>1
<1>10. Head(todo) # <<"start">> /\ Head(todo) # <<"finish">> /\ Head(todo) # <<"init">>
  BY NamesApart DEF Work
<1>11. todo # <<<<"start">>>> /\ todo # <<<<"finish">>>> /\ todo # <<<<"init">>>>
  <2>1. Head(<<<<"start">>>>) = <<"start">> /\ Head(<<<<"finish">>>>) = <<"finish">> /\ Head(<<<<"init">>>>) = <<"init">>
    OBVIOUS
  <2> QED  BY <1>10, <2>1
<1>12. CASE hwPhase = "opening" /\ Initializing /\ EndsWith(Tail(todo), <<"start">>)
  <2>1. EndsWith(todo, <<"start">>)'
    BY <1>1, <1>12 DEF EndsWith
  <2>2. kind' \in DarkFirst => Will("ir", "off")'
    <3>1. kind \in DarkFirst => Brings(todo', "ir", Register(dev', "ir"), "off")
      BY <1>4, <1>5, <1>12 DEF Initializing
    <3> QED  BY <1>1, <3>1 DEF Will, DarkFirst
  <2>3. Told' /\ kind' \in {"tir4", "sn4"} => Chain'
    <3>1. ASSUME Told', kind' \in {"tir4", "sn4"} PROVE Chain'
      <4>1. Chain /\ kind \in {"tir4", "sn4"}
        BY <1>1, <1>12, <3>1 DEF Initializing, Told
      <4>2. PICK t \in Seq(Plain) : Tail(todo) = t \o (Checks \o Rest)
        BY <4>1, ChainAt
      <4>3. todo' = t \o (Checks \o Rest)'
        BY <1>1, <4>2, RestKept DEF Checks, Rom, Status, File, Uploaded
      <4> QED  BY <4>3 DEF Chain
    <3> QED  BY <3>1
  <2>4. Initializing'
    BY <2>1, <2>2, <2>3 DEF Initializing
  <2> QED  BY <1>1, <1>2, <1>12, <2>4 DEF PhaseInv, Steady
<1>13. CASE hwPhase = "closing" /\ Closing /\ EndsWith(Tail(todo), <<"finish">>)
  <2>1. EndsWith(todo, <<"finish">>)'
    BY <1>1, <1>13 DEF EndsWith
  <2>2. Closing'
    BY <1>6, <1>13, <2>1 DEF Closing
  <2> QED  BY <1>1, <1>2, <1>13, <2>2 DEF PhaseInv, Steady
<1>14. CASE hwPhase \in {"opening", "resuming"} /\ Starting
  BY <1>1, <1>2, <1>9, <1>14 DEF PhaseInv, Steady
<1>15. CASE hwPhase = "pausing" /\ Stopping
  <2>1. Stopping'
    BY <1>6, <1>7, <1>8, <1>15 DEF Stopping
  <2> QED  BY <1>1, <1>2, <1>15, <2>1 DEF PhaseInv, Steady
<1> QED  BY <1>1, <1>11, <1>12, <1>13, <1>14, <1>15, Shape

(* Opening, pausing, closing *)

LEMMA InitStartsKeeps == ASSUME HardwareType, PhaseInv, Hardware!InitStarts PROVE PhaseInv'
<1>1. /\ todo # <<>> /\ Head(todo) = <<"init">> /\ todo' = Hardware!InitCamera \o <<<<"start">>>>
      /\ UNCHANGED <<kind, plugged, dev, hwPhase, irOn, hwSignals, status, owner, claimed, trouble>>
  BY DEF Hardware!InitStarts, Hardware!Doing, Hardware!host
<1>2. hwPhase = "opening"
  <2>1. <<"init">> \notin Plain /\ <<"init">> \notin Work
    BY NamesApart DEF Work
  <2>2. todo # <<<<"start">>>> /\ todo # <<<<"finish">>>>
    <3>1. Head(<<<<"start">>>>) = <<"start">> /\ Head(<<<<"finish">>>>) = <<"finish">>
      OBVIOUS
    <3>2. <<"init">> # <<"start">> /\ <<"init">> # <<"finish">>
      OBVIOUS
    <3> QED  BY <1>1, <3>1, <3>2
  <2> QED  BY <1>1, <2>1, <2>2, Shape
<1>3. "ir" \in Registers
  BY DEF Registers
<1>4. EndsWith(todo', <<"start">>)
  BY <1>1, InitBrings DEF EndsWith, HardwareType
<1>5. kind' \in DarkFirst => Will("ir", "off")'
  <2>1. ASSUME kind \in DarkFirst PROVE Brings(todo', "ir", Register(dev, "ir"), "off")
    <3>1. Hardware!InitCamera \in Seq(Packet) /\ Brings(Hardware!InitCamera, "ir", Register(dev, "ir"), "off")
      <4>1. Hardware!InitCamera \in Seq(Work) /\ Brings(Hardware!InitCamera, "ir", Register(dev, "ir"), "off")
        BY <2>1, InitBrings DEF HardwareType
      <4> QED  BY <4>1 DEF Packet, Work
    <3>2. <<<<"start">>>> \in Seq(Packet) /\ Brings(<<<<"start">>>>, "ir", "off", "off")
      <4>1. <<"start">> \in Packet /\ ~Writes(<<"start">>, "ir")
        BY <1>3, OtherEffect DEF Packet
      <4>2. Effect(<<"start">>, "ir", "off") = "off"
        BY <4>1 DEF Effect
      <4>3. <<<<"start">>>> \in Seq(Packet)
        BY <4>1
      <4> QED  BY <4>2, <4>3, BringsOne
    <3> QED  BY <1>1, <3>1, <3>2, BringsBoth
  <2> QED  BY <1>1, <2>1 DEF Will, DarkFirst
<1>6. ASSUME kind' \in {"tir4", "sn4"} PROVE Chain'
  <2>1. Hardware!StopTir4 \in Seq(Plain)
    BY <1>3, StopsBring
  <2>2. /\ Hardware!StopTir4 \in Seq(Packet) /\ Checks \in Seq(Packet) /\ Confirm \in Seq(Packet)
        /\ <<<<"start">>>> \in Seq(Packet)
    BY <2>1, PacketNames DEF Packet, Checks, Confirm
  <2> DEFINE stop == Hardware!StopTir4
             start == <<<<"start">>>>
  <2>3. stop \in Seq(Packet) /\ Checks \in Seq(Packet) /\ Confirm \in Seq(Packet) /\ start \in Seq(Packet)
    BY <2>2
  <2>4. todo' = Hardware!StopTir4 \o (Checks \o Rest)
    <3>1. CASE kind = "tir4"
      <4>1. todo' = (stop \o (Checks \o Confirm)) \o start /\ Rest = Confirm \o start
        BY <1>1, <3>1, InitSpelled DEF Hardware!InitCamera, Rest
      <4> HIDE DEF stop, start
      <4>2. /\ Join(Checks, Confirm) \in Seq(Packet)
            /\ Join(Join(Checks, Confirm), start) = Join(Checks, Join(Confirm, start))
        BY <2>3, Regroup
      <4>3. Join(Join(stop, Join(Checks, Confirm)), start) = Join(stop, Join(Join(Checks, Confirm), start))
        BY <2>3, <4>2, Regroup
      <4>4. todo' = stop \o (Checks \o Rest)
        BY <4>1, <4>2, <4>3, Zenon DEF Join
      <4> QED  BY <4>4, Zenon DEF stop
    <3>2. CASE kind = "sn4"
      <4>1. todo' = (stop \o Checks) \o start /\ Rest = start
        BY <1>1, <3>2, InitSpelled DEF Hardware!InitCamera, Rest
      <4> HIDE DEF stop, start
      <4>2. Join(Join(stop, Checks), start) = Join(stop, Join(Checks, start))
        BY <2>3, Regroup
      <4>3. todo' = stop \o (Checks \o Rest)
        BY <4>1, <4>2, Zenon DEF Join
      <4> QED  BY <4>3, Zenon DEF stop
    <3> QED  BY <1>1, <1>6, <3>1, <3>2
  <2>5. \E t \in Seq(Plain) : todo' = t \o (Checks \o Rest)'
    BY <1>1, <2>1, <2>4, RestKept DEF Checks, Rom, Status, File, Uploaded
  <2> QED  BY <2>5 DEF Chain
<1>7. Initializing'
  BY <1>4, <1>5, <1>6 DEF Initializing, EndsWith
<1> QED  BY <1>1, <1>2, <1>7 DEF PhaseInv, Steady

LEMMA StartStartsKeeps == ASSUME HardwareType, PhaseInv, Hardware!StartStarts PROVE PhaseInv'
<1>1. /\ todo # <<>> /\ Head(todo) = <<"start">> /\ todo' = Hardware!Start
      /\ UNCHANGED <<kind, plugged, dev, hwPhase, irOn, hwSignals, status, owner, claimed, trouble>>
  BY DEF Hardware!StartStarts, Hardware!Doing, Hardware!host
<1>2. hwPhase = "opening" /\ Initializing /\ todo = <<<<"start">>>>
  <2>1. <<"start">> \notin Plain /\ <<"start">> \notin Work
    BY NamesApart DEF Work
  <2>2. todo # <<<<"init">>>> /\ todo # <<<<"finish">>>>
    <3>1. Head(<<<<"init">>>>) = <<"init">> /\ Head(<<<<"finish">>>>) = <<"finish">>
      OBVIOUS
    <3>2. <<"start">> # <<"init">> /\ <<"start">> # <<"finish">>
      OBVIOUS
    <3> QED  BY <1>1, <3>1, <3>2
  <2> QED  BY <1>1, <2>1, <2>2, Shape
<1>3. Register(dev, Hardware!Lights) = "off" \/ kind \notin DarkFirst
  <2>1. "ir" \in Registers
    BY DEF Registers
  <2>2. kind \in DarkFirst => Hardware!Lights = "ir"
    BY LampRegisters DEF DarkFirst
  <2> QED  BY <1>2, <2>1, <2>2, WillNone DEF Initializing
<1>4. Starting'
  <2>1. Loaded'
    <3>1. ASSUME Told, kind \in {"tir4", "sn4"} PROVE Good /\ (kind = "tir4" => dev.active)
      <4>1. Chain
        BY <1>2, <3>1 DEF Initializing
      <4> QED  BY <1>1, <3>1, <4>1, ChainAt
    <3> QED  BY <1>1, <3>1 DEF Loaded, Told, Good
  <2>2. /\ Hardware!Start \in Seq(Plain)
        /\ kind = "tir5v3" => Brings(Hardware!Start, "mode", Register(dev, "mode"), "on")
        /\ kind # "tir5v3" => /\ Brings(Hardware!Start, "video", Register(dev, "video"), "on")
                              /\ Brings(Hardware!Start, "camera", Register(dev, "camera"), "on")
        /\ Brings(Hardware!Start, Hardware!Lights, Register(dev, Hardware!Lights), Ir)
    BY <1>3, StartBrings DEF HardwareType, Ir
  <2>3. Hardware!Lights' = Hardware!Lights
    BY <1>1 DEF Hardware!Lights
  <2> QED  BY <1>1, <2>1, <2>2, <2>3 DEF Starting, Will, Ir
<1> QED  BY <1>1, <1>2, <1>4 DEF PhaseInv, Steady

LEMMA DoneKeeps == ASSUME HardwareType, PhaseInv, Hardware!Done PROVE PhaseInv'
<1>1. /\ todo = <<>> /\ todo' = <<>> /\ hwPhase \in {"opening", "resuming", "pausing"}
      /\ hwPhase' = IF hwPhase = "pausing" THEN "paused" ELSE "running"
      /\ UNCHANGED <<kind, plugged, dev, irOn, hwSignals, status, owner, claimed, trouble>>
  BY DEF Hardware!Done, Hardware!Idle, Hardware!host
<1>2. CASE hwPhase = "pausing"
  <2>1. Stopping
    BY <1>2 DEF PhaseInv
  <2>2. Stopping'
    BY <1>1, <2>1 DEF Stopping, Quiet, Will, Loaded, Good, Told, Source, Hardware!Lights
  <2> QED  BY <1>1, <1>2, <2>2 DEF PhaseInv, Steady
<1>3. CASE hwPhase \in {"opening", "resuming"}
  <2>1. Starting
    <3>1. ~EndsWith(todo, <<"start">>)
      BY <1>1, EndsHead
    <3>2. todo # <<<<"init">>>>
      BY <1>1
    <3> QED  BY <1>3, <3>1, <3>2 DEF PhaseInv, Initializing
  <2>2. Starting'
    BY <1>1, <2>1 DEF Starting, Will, Loaded, Good, Told, Ir, Hardware!Lights
  <2> QED  BY <1>1, <1>3, <2>2 DEF PhaseInv, Steady
<1> QED  BY <1>1, <1>2, <1>3

LEMMA PauseKeeps == ASSUME HardwareType, PhaseInv, Hardware!Pause PROVE PhaseInv'
<1>1. /\ hwPhase = "running" /\ hwPhase' = "pausing" /\ todo' = Hardware!Stop \o UnlitLeds
      /\ UNCHANGED <<kind, plugged, dev, irOn, hwSignals, status, owner, claimed, trouble>>
  BY DEF Hardware!Pause, Hardware!host, UnlitLeds
<1>2. Starting
  BY <1>1 DEF PhaseInv
<1>3. /\ Hardware!Lights \in Registers /\ Source \in Registers
      /\ Source' = Source /\ Hardware!Lights' = Hardware!Lights
  BY <1>1, LampRegisters DEF Registers, Source, Hardware!Lights
<1>4. /\ Hardware!Stop \in Seq(Plain) /\ Brings(Hardware!Stop, Hardware!Lights, Register(dev, Hardware!Lights), "off")
      /\ Brings(Hardware!Stop, Source, Register(dev, Source), "off")
  BY StopBrings DEF HardwareType
<1>5. UnlitLeds \in Seq(Plain) /\ Brings(UnlitLeds, Hardware!Lights, "off", "off") /\ Brings(UnlitLeds, Source, "off", "off")
  BY <1>3, StatusLedsBring DEF HardwareType
<1>6. /\ todo' \in Seq(Plain) /\ Brings(todo', Hardware!Lights, Register(dev, Hardware!Lights), "off")
      /\ Brings(todo', Source, Register(dev, Source), "off")
  BY <1>1, <1>4, <1>5, PlainBoth
<1>7. Quiet(Hardware!Lights)'
  BY <1>1, <1>3, <1>6 DEF Quiet, Will
<1>8. Stopping'
  BY <1>1, <1>2, <1>6, <1>7 DEF Starting, Stopping, Loaded, Good, Told
<1> QED  BY <1>1, <1>8 DEF PhaseInv, Steady

LEMMA ResumeKeeps == ASSUME HardwareType, PhaseInv, Hardware!Resume PROVE PhaseInv'
<1>1. /\ hwPhase = "paused" /\ hwPhase' = "resuming" /\ todo' = Hardware!Start \o LitLeds
      /\ UNCHANGED <<kind, plugged, dev, irOn, hwSignals, status, owner, claimed, trouble>>
  BY DEF Hardware!Resume, Hardware!host, LitLeds
<1>2. Stopping /\ todo = <<>>
  BY <1>1 DEF PhaseInv, Steady
<1>3. Hardware!Lights \in Registers /\ "video" \in Registers /\ "camera" \in Registers /\ "mode" \in Registers
  BY LampRegisters DEF Registers
<1>4. Register(dev, Hardware!Lights) = "off"
  BY <1>2, <1>3, WillNone DEF Stopping, Quiet
<1>5. /\ Hardware!Start \in Seq(Plain)
      /\ kind = "tir5v3" => Brings(Hardware!Start, "mode", Register(dev, "mode"), "on")
      /\ kind # "tir5v3" => /\ Brings(Hardware!Start, "video", Register(dev, "video"), "on")
                            /\ Brings(Hardware!Start, "camera", Register(dev, "camera"), "on")
      /\ Brings(Hardware!Start, Hardware!Lights, Register(dev, Hardware!Lights), Ir)
  BY <1>4, StartBrings DEF HardwareType, Ir
<1>6. \A x : \A r \in Registers : LitLeds \in Seq(Plain) /\ Brings(LitLeds, r, x, x)
  BY StatusLedsBring DEF HardwareType
<1>7. /\ todo' \in Seq(Plain)
      /\ kind = "tir5v3" => Brings(todo', "mode", Register(dev, "mode"), "on")
      /\ kind # "tir5v3" => /\ Brings(todo', "video", Register(dev, "video"), "on")
                            /\ Brings(todo', "camera", Register(dev, "camera"), "on")
      /\ Brings(todo', Hardware!Lights, Register(dev, Hardware!Lights), Ir)
  BY <1>1, <1>3, <1>5, <1>6, PlainBoth
<1>8. Starting'
  BY <1>1, <1>2, <1>7 DEF Starting, Stopping, Will, Loaded, Good, Told, Ir, Hardware!Lights
<1> QED  BY <1>1, <1>8 DEF PhaseInv, Steady

LEMMA CloseKeeps == ASSUME HardwareType, PhaseInv, Hardware!Close PROVE PhaseInv'
<1>1. /\ hwPhase = "running" /\ hwPhase' = "closing" /\ todo' = Hardware!CloseCamera
      /\ UNCHANGED <<kind, plugged, dev, irOn, hwSignals, status, owner, claimed, trouble>>
  BY DEF Hardware!Close, Hardware!host
<1>2. /\ Hardware!Doused \in Registers /\ Source \in Registers
      /\ Source' = Source /\ Hardware!Doused' = Hardware!Doused
  BY <1>1, LampRegisters DEF Registers, Source, Hardware!Doused, Hardware!Lights
<1>3. /\ todo' = Closure \o <<<<"finish">>>> /\ Closure \in Seq(Work)
      /\ Brings(Closure, Hardware!Doused, Register(dev, Hardware!Doused), "off") /\ Brings(Closure, Source, Register(dev, Source), "off")
  BY <1>1, CloseBrings DEF HardwareType
<1>4. <<<<"finish">>>> \in Seq(Packet) /\ Closure \in Seq(Packet)
  BY <1>3 DEF Packet, Work
<1>5. ASSUME NEW r \in Registers PROVE Brings(<<<<"finish">>>>, r, "off", "off")
  <2>1. ~Writes(<<"finish">>, r)
    BY OtherEffect
  <2>2. Effect(<<"finish">>, r, "off") = "off"
    BY <2>1 DEF Effect
  <2> QED  BY <2>2, BringsOne
<1>6. Brings(todo', Hardware!Doused, Register(dev, Hardware!Doused), "off") /\ Brings(todo', Source, Register(dev, Source), "off")
  BY <1>2, <1>3, <1>4, <1>5, BringsBoth
<1>7. Quiet(Hardware!Doused)'
  BY <1>1, <1>2, <1>6 DEF Quiet, Will
<1>8. EndsWith(todo', <<"finish">>)
  BY <1>3 DEF EndsWith
<1>9. Closing'
  BY <1>7, <1>8 DEF Closing, EndsWith
<1> QED  BY <1>1, <1>9 DEF PhaseInv, Steady

LEMMA FinishKeeps ==
    ASSUME HardwareType, PhaseInv, Hardware!Finish
    PROVE  PhaseInv'
<1>1. /\ todo # <<>> /\ Head(todo) = <<"finish">> /\ todo' = <<>> /\ hwPhase' = "released"
      /\ UNCHANGED <<kind, plugged, dev, irOn, hwSignals, status, trouble>>
  BY DEF Hardware!Finish, Hardware!Doing
<1>2. hwPhase = "closing" /\ Closing /\ todo = <<<<"finish">>>>
  <2>1. <<"finish">> \notin Plain /\ <<"finish">> \notin Work
    BY NamesApart DEF Work
  <2>2. todo # <<<<"init">>>> /\ todo # <<<<"start">>>>
    <3>1. Head(<<<<"init">>>>) = <<"init">> /\ Head(<<<<"start">>>>) = <<"start">>
      OBVIOUS
    <3>2. <<"finish">> # <<"init">> /\ <<"finish">> # <<"start">>
      OBVIOUS
    <3> QED  BY <1>1, <3>1, <3>2
  <2> QED  BY <1>1, <2>1, <2>2, Shape
<1>3. /\ Hardware!Doused \in Registers /\ Source \in Registers
      /\ Source' = Source /\ Hardware!Doused' = Hardware!Doused
  BY <1>1, LampRegisters DEF Registers, Source, Hardware!Doused, Hardware!Lights
<1>4. Register(dev, Hardware!Doused) = "off" /\ Register(dev, Source) = "off"
  BY <1>2, <1>3, WillNone DEF Closing, Quiet
<1>5. Len(<<>>) = 0
  OBVIOUS
<1>6. Brings(todo', Hardware!Doused, Register(dev, Hardware!Doused), "off") /\ Brings(todo', Source, Register(dev, Source), "off")
  BY <1>1, <1>4, <1>5 DEF Brings
<1>7. Quiet(Hardware!Doused)'
  BY <1>1, <1>3, <1>6 DEF Quiet, Will
<1> QED  BY <1>1, <1>7 DEF PhaseInv, Steady

LEMMA OpenKeeps == ASSUME HardwareType, PhaseInv, plugged, Hardware!Open PROVE PhaseInv'
<1>1. /\ hwPhase \in {"new", "released", "failed"} /\ irOn' \in BOOLEAN
      /\ UNCHANGED <<kind, plugged, dev, hwSignals, status>>
      /\ \/ hwPhase' \in {"failed", "undefined"} /\ todo' = todo
         \/ hwPhase' = "opening" /\ todo' = <<<<"init">>>>
  BY DEF Hardware!Open
<1>2. todo = <<>>
  BY <1>1 DEF PhaseInv, Steady
<1> QED  BY <1>1, <1>2 DEF PhaseInv, Steady

(* The whole *)

LEMMA FreshDark ==
    /\ Hardware!Fresh \in Device
    /\ Register(Hardware!Fresh, "ir") = "off" /\ Register(Hardware!Fresh, "level") = "off"
    /\ Register(Hardware!Fresh, "camera") = "off" /\ Register(Hardware!Fresh, "mode") = "off"
<1>1. Hardware!Fresh = [video |-> FALSE, camera |-> FALSE, leds |-> {}, fw |-> "none", active |-> FALSE, mode |-> 0]
  BY DEF Hardware!Fresh
<1>2. Hardware!Fresh \in Device
  BY <1>1 DEF Device
<1>3. Hardware!Fresh.leds = {} /\ Hardware!Fresh.camera = FALSE /\ Hardware!Fresh.mode = 0
  BY <1>1
<1> QED  BY <1>2, <1>3 DEF Register

LEMMA PacketKinds ==
    ASSUME HardwareType, plugged, PhaseInv, Hardware!Packet
    PROVE  Head(todo) \in Plain \cup {Fpga, Reload}
<1>1. todo # <<>> /\ Head(todo)[1] \in {"video", "camera stop", "led", "fpga init", "cfg reload", "mode"}
  BY DEF Hardware!Packet
<1>2. todo \in Seq(Packet)
  BY <1>1, Shape
<1>3. Head(todo) \in Packet
  <2>1. \A t \in Seq(Packet) : t # <<>> => Head(t) \in Packet
    OBVIOUS
  <2>2. todo # <<>>
    BY <1>1
  <2> QED  BY <1>2, <2>1, <2>2
<1>4. CASE Head(todo) \in {<<"check", what>> : what \in {"rom", "status", "file", "upload", "sum", "configured", "wait"}}
  <2>1. ASSUME NEW what, Head(todo) = <<"check", what>> PROVE Head(todo)[1] = "check"
    BY <2>1
  <2> QED  BY <1>1, <1>4, <2>1
<1>5. CASE Head(todo) \in {<<"firmware">>, <<"init">>, <<"start">>, <<"finish">>}
  <2>1. ASSUME NEW what, Head(todo) = <<what>> PROVE Head(todo)[1] = what
    BY <2>1
  <2> QED  BY <1>1, <1>5, <2>1
<1> QED  BY <1>3, <1>4, <1>5 DEF Packet, Inner, Fpga, Reload

LEMMA HardwareBegins == Hardware!Init => HardwareInv
<1> SUFFICES ASSUME Hardware!Init PROVE HardwareInv
  OBVIOUS
<1>1. /\ kind \in AllKinds /\ plugged = TRUE /\ hwPhase = "new" /\ todo = <<>> /\ irOn = TRUE /\ hwSignals \in BOOLEAN
      /\ status = [fw |-> "none", cfg |-> 0] /\ dev \in Hardware!Left
  BY HardwareAssumption DEF Hardware!Init, Hardware!NoStatus, AllKinds
<1>2. dev \in Device
  <2>1. {"ir", "level", "red", "green", "blue"} \in SUBSET Leds /\ {"level"} \in SUBSET Leds /\ {} \in SUBSET Leds
    BY DEF Leds
  <2> QED  BY <1>1, <2>1 DEF Hardware!Left, Device
<1>3. status \in Statuses
  BY <1>1 DEF Statuses
<1>4. PhaseInv
  BY <1>1 DEF PhaseInv, Steady
<1> QED  BY <1>1, <1>2, <1>3, <1>4 DEF HardwareInv, HardwareType, Phases

LEMMA SequenceKeeps ==
    ASSUME HardwareInv, plugged,
           \/ Hardware!Packet \/ Hardware!Firmware \/ Hardware!ReadRom \/ Hardware!ReadStatus \/ Hardware!FindFile
           \/ Hardware!Upload \/ Hardware!CheckSum \/ Hardware!Configure \/ Hardware!AwaitConfigured
    PROVE  HardwareInv'
<1>1. HardwareType /\ PhaseInv /\ (hwPhase = "released" => owner = "none" /\ ~claimed)
  BY DEF HardwareInv
<1>2. todo # <<>>
  BY DEF Hardware!Packet, Hardware!Firmware, Hardware!ReadRom, Hardware!ReadStatus, Hardware!FindFile, Hardware!Upload,
         Hardware!CheckSum, Hardware!Configure, Hardware!AwaitConfigured, Hardware!Doing
<1>3. todo \in Seq(Packet)
  BY <1>1, <1>2, Shape
<1>4. ASSUME Inward PROVE HardwareInv'
  <2>1. PhaseInv'
    BY <1>1, <1>2, <1>4, InwardKeeps
  <2>2. hwPhase' = hwPhase \/ hwPhase' = "failed"
    BY <1>4 DEF Inward
  <2>3. HardwareType'
    BY <1>1, <1>4, <2>2 DEF Inward, HardwareType, Phases
  <2>4. plugged' /\ (hwPhase' = "released" => owner' = "none" /\ ~claimed')
    BY <1>1, <1>4, <2>2 DEF Inward
  <2> QED  BY <2>1, <2>3, <2>4 DEF HardwareInv
<1>5. CASE Hardware!Packet
  <2>1. CASE Head(todo) \in {Fpga, Reload}
    BY <1>1, <1>3, <1>4, <1>5, <2>1, PacketInward
  <2>2. CASE Head(todo) \in Plain
    <3>1. PhaseInv' /\ dev' \in Device
      BY <1>1, <1>5, <2>2, PlainKeeps
    <3>2. UNCHANGED <<kind, plugged, hwPhase, irOn, hwSignals, status, owner, claimed>>
      BY <1>5 DEF Hardware!Packet, Hardware!host
    <3>3. HardwareType'
      BY <1>1, <3>1, <3>2 DEF HardwareType
    <3> QED  BY <1>1, <3>1, <3>2, <3>3 DEF HardwareInv
  <2> QED  BY <1>1, <1>5, <2>1, <2>2, PacketKinds
<1>6. CASE Hardware!Firmware
  BY <1>1, <1>3, <1>4, <1>6, FirmwareInward
<1>7. CASE Hardware!ReadRom
  BY <1>1, <1>3, <1>4, <1>7, ReadRomInward
<1>8. CASE Hardware!ReadStatus
  BY <1>1, <1>3, <1>4, <1>8, ReadStatusInward
<1>9. CASE Hardware!FindFile
  BY <1>1, <1>3, <1>4, <1>9, FindFileInward
<1>10. CASE Hardware!Upload
  BY <1>1, <1>3, <1>4, <1>10, UploadInward
<1>11. CASE Hardware!CheckSum
  BY <1>1, <1>3, <1>4, <1>11, CheckSumInward
<1>12. CASE Hardware!Configure
  BY <1>1, <1>3, <1>4, <1>12, ConfigureInward
<1>13. CASE Hardware!AwaitConfigured
  BY <1>1, <1>3, <1>4, <1>13, AwaitInward
<1> QED  BY <1>5, <1>6, <1>7, <1>8, <1>9, <1>10, <1>11, <1>12, <1>13

\* A sequence for a camera that is gone changes nothing of it.
LEMMA GoneKeeps ==
    ASSUME HardwareInv, ~plugged, Hardware!Sequence
    PROVE  HardwareInv'
<1>1. HardwareType /\ dev = Hardware!Fresh /\ (hwPhase = "released" => owner = "none" /\ ~claimed)
  BY DEF HardwareInv
<1>2. dev' = dev /\ plugged' = plugged /\ kind' = kind /\ irOn' = irOn /\ hwSignals' = hwSignals
  BY DEF Hardware!Sequence, Hardware!Packet, Hardware!Firmware, Hardware!ReadRom, Hardware!ReadStatus, Hardware!FindFile,
         Hardware!Upload, Hardware!CheckSum, Hardware!Configure, Hardware!AwaitConfigured, Hardware!InitStarts,
         Hardware!StartStarts, Hardware!Done, Hardware!Finish, Hardware!Fail, Hardware!host
<1>3. status' \in Statuses
  <2>1. status' = status
    BY DEF Hardware!Sequence, Hardware!Packet, Hardware!Firmware, Hardware!ReadRom, Hardware!ReadStatus, Hardware!FindFile,
           Hardware!Upload, Hardware!CheckSum, Hardware!Configure, Hardware!AwaitConfigured, Hardware!InitStarts,
           Hardware!StartStarts, Hardware!Done, Hardware!Finish, Hardware!Fail, Hardware!host
  <2> QED  BY <1>1, <2>1 DEF HardwareType
<1>4. /\ hwPhase' \in Phases
      /\ hwPhase' = "released" => owner' = "none" /\ ~claimed'
  <2>1. CASE Hardware!Done
    BY <2>1 DEF Hardware!Done, Phases
  <2>2. CASE Hardware!Finish
    BY <2>2 DEF Hardware!Finish, Phases
  <2>3. CASE hwPhase' = "failed"
    BY <2>3 DEF Phases
  <2>4. CASE hwPhase' = hwPhase /\ owner' = owner /\ claimed' = claimed
    BY <1>1, <2>4 DEF HardwareType
  <2>5. Hardware!Done \/ Hardware!Finish \/ hwPhase' = "failed" \/ (hwPhase' = hwPhase /\ owner' = owner /\ claimed' = claimed)
    BY DEF Hardware!Sequence, Hardware!Packet, Hardware!Firmware, Hardware!ReadRom, Hardware!ReadStatus, Hardware!FindFile,
         Hardware!Upload, Hardware!CheckSum, Hardware!Configure, Hardware!AwaitConfigured, Hardware!InitStarts,
         Hardware!StartStarts, Hardware!Fail, Hardware!host
  <2> QED  BY <2>1, <2>2, <2>3, <2>4, <2>5
<1>5. Hardware!Fresh' = Hardware!Fresh
  BY DEF Hardware!Fresh
<1>6. HardwareType'
  BY <1>1, <1>2, <1>3, <1>4 DEF HardwareType
<1> QED  BY <1>1, <1>2, <1>4, <1>5, <1>6 DEF HardwareInv

LEMMA HardwareKeeps == ASSUME HardwareInv, Hardware!Next \/ UNCHANGED hardwareVars PROVE HardwareInv'
<1>1. /\ HardwareType /\ (~plugged => dev = Hardware!Fresh) /\ (hwPhase = "released" => owner = "none" /\ ~claimed)
      /\ plugged => PhaseInv
  BY DEF HardwareInv
<1>2. Hardware!Fresh' = Hardware!Fresh
  BY DEF Hardware!Fresh
<1>3. ASSUME UNCHANGED hardwareVars PROVE HardwareInv'
  <2>1. UNCHANGED <<kind, plugged, dev, todo, hwPhase, irOn, hwSignals, status, owner, claimed, trouble>>
    BY <1>3 DEF hardwareVars
  <2>2. HardwareType'
    BY <1>1, <2>1 DEF HardwareType
  <2>3. PhaseInv => PhaseInv'
    BY <2>1, ZenonT(60) DEF PhaseInv, Steady, Initializing, Starting, Stopping, Closing, Quiet, Loaded, Good, Told, Will, EndsWith,
                Chain, Rest, Ir, Source, Checks, Confirm, Rom, Status, File, Uploaded, Sum, Configured, Wait, Fpga, Bytes,
                Reload, DarkFirst, Hardware!Lights, Hardware!Doused
  <2> QED  BY <1>1, <1>2, <2>1, <2>2, <2>3 DEF HardwareInv
<1>4. ASSUME UNCHANGED <<kind, plugged, dev, irOn, hwSignals, status>>, hwPhase' \in Phases, hwPhase' # "released",
             PhaseInv => PhaseInv'
      PROVE  HardwareInv'
  <2>1. HardwareType'
    BY <1>1, <1>4 DEF HardwareType
  <2> QED  BY <1>1, <1>2, <1>4, <2>1 DEF HardwareInv
<1>5. CASE plugged /\ (\/ Hardware!Packet \/ Hardware!Firmware \/ Hardware!ReadRom \/ Hardware!ReadStatus \/ Hardware!FindFile
                       \/ Hardware!Upload \/ Hardware!CheckSum \/ Hardware!Configure \/ Hardware!AwaitConfigured)
  BY <1>5, SequenceKeeps
<1>6. CASE ~plugged /\ Hardware!Sequence
  BY <1>6, GoneKeeps
<1>7. CASE plugged /\ Hardware!InitStarts
  <2>1. UNCHANGED <<kind, plugged, dev, irOn, hwSignals, status, hwPhase, owner, claimed>>
    BY <1>7 DEF Hardware!InitStarts, Hardware!host
  <2>2. PhaseInv'
    BY <1>1, <1>7, InitStartsKeeps
  <2>3. HardwareType'
    BY <1>1, <2>1 DEF HardwareType
  <2> QED  BY <1>1, <1>7, <2>1, <2>2, <2>3 DEF HardwareInv
<1>8. CASE plugged /\ Hardware!StartStarts
  <2>1. UNCHANGED <<kind, plugged, dev, irOn, hwSignals, status, hwPhase, owner, claimed>>
    BY <1>8 DEF Hardware!StartStarts, Hardware!host
  <2>2. PhaseInv'
    BY <1>1, <1>8, StartStartsKeeps
  <2>3. HardwareType'
    BY <1>1, <2>1 DEF HardwareType
  <2> QED  BY <1>1, <1>8, <2>1, <2>2, <2>3 DEF HardwareInv
<1>9. CASE plugged /\ Hardware!Done
  <2>1. UNCHANGED <<kind, plugged, dev, irOn, hwSignals, status>> /\ hwPhase' \in {"paused", "running"}
    BY <1>9 DEF Hardware!Done, Hardware!host
  <2> QED  BY <1>1, <1>4, <1>9, <2>1, DoneKeeps DEF Phases
<1>10. CASE plugged /\ Hardware!Finish
  <2>1. /\ UNCHANGED <<kind, plugged, dev, irOn, hwSignals, status>> /\ hwPhase' = "released"
        /\ owner' = "none" /\ claimed' = FALSE
    BY <1>10 DEF Hardware!Finish
  <2>2. PhaseInv'
    BY <1>1, <1>10, FinishKeeps
  <2>3. HardwareType'
    BY <1>1, <2>1 DEF HardwareType, Phases
  <2> QED  BY <1>10, <2>1, <2>2, <2>3 DEF HardwareInv
<1>11. CASE Hardware!Open
  <2>1. /\ UNCHANGED <<kind, plugged, dev, hwSignals, status>> /\ hwPhase' \in {"failed", "undefined", "opening"}
        /\ irOn' \in BOOLEAN
    BY <1>11 DEF Hardware!Open
  <2>2. plugged => PhaseInv'
    BY <1>1, <1>11, OpenKeeps
  <2>3. HardwareType'
    BY <1>1, <2>1 DEF HardwareType, Phases
  <2> QED  BY <1>1, <1>2, <2>1, <2>2, <2>3 DEF HardwareInv
<1>12. CASE Hardware!Pause
  <2>1. UNCHANGED <<kind, plugged, dev, irOn, hwSignals, status>> /\ hwPhase' = "pausing"
    BY <1>12 DEF Hardware!Pause, Hardware!host
  <2> QED  BY <1>1, <1>4, <1>12, <2>1, PauseKeeps DEF Phases
<1>13. CASE Hardware!Resume
  <2>1. UNCHANGED <<kind, plugged, dev, irOn, hwSignals, status>> /\ hwPhase' = "resuming"
    BY <1>13 DEF Hardware!Resume, Hardware!host
  <2> QED  BY <1>1, <1>4, <1>13, <2>1, ResumeKeeps DEF Phases
<1>14. CASE Hardware!Close
  <2>1. UNCHANGED <<kind, plugged, dev, irOn, hwSignals, status>> /\ hwPhase' = "closing"
    BY <1>14 DEF Hardware!Close, Hardware!host
  <2> QED  BY <1>1, <1>4, <1>14, <2>1, CloseKeeps DEF Phases
<1>15. CASE Hardware!Crash
  <2>1. UNCHANGED <<kind, plugged, dev, irOn, hwSignals, status>> /\ hwPhase' = "new" /\ todo' = <<>>
    BY <1>15 DEF Hardware!Crash
  <2>2. PhaseInv'
    BY <2>1 DEF PhaseInv, Steady
  <2> QED  BY <1>4, <2>1, <2>2 DEF Phases
<1>16. CASE Hardware!Unplug
  <2>1. UNCHANGED <<kind, hwPhase, irOn, hwSignals, status, owner, claimed>> /\ plugged' = FALSE /\ dev' = Hardware!Fresh
    BY <1>16 DEF Hardware!Unplug, Hardware!host
  <2>2. HardwareType'
    BY <1>1, <2>1, FreshDark DEF HardwareType
  <2> QED  BY <1>1, <1>2, <2>1, <2>2 DEF HardwareInv
<1>17. CASE Hardware!Plug
  <2>1. /\ ~plugged /\ plugged' = TRUE /\ todo = <<>> /\ todo' = <<>> /\ hwPhase \in {"new", "released", "failed"}
        /\ owner' = "none" /\ UNCHANGED <<kind, dev, hwPhase, irOn, hwSignals, status, claimed>>
    BY <1>17 DEF Hardware!Plug, Hardware!Idle
  <2>2. Register(dev', Hardware!Doused') = "off" /\ Register(dev', Source') = "off"
    BY <1>1, <2>1, FreshDark DEF Source, Hardware!Doused, Hardware!Lights
  <2>3. Quiet(Hardware!Doused)'
    <3>1. Len(<<>>) = 0
      OBVIOUS
    <3> QED  BY <2>1, <2>2, <3>1 DEF Quiet, Will, Brings
  <2>4. PhaseInv'
    BY <2>1, <2>3 DEF PhaseInv, Steady
  <2>5. HardwareType'
    BY <1>1, <2>1 DEF HardwareType
  <2> QED  BY <1>1, <2>1, <2>4, <2>5 DEF HardwareInv
<1> QED
  BY <1>3, <1>5, <1>6, <1>7, <1>8, <1>9, <1>10, <1>11, <1>12, <1>13, <1>14, <1>15, <1>16, <1>17
     DEF Hardware!Next, Hardware!Sequence

LEMMA HardwareSound == HardwareInv => Hardware!RunsAsAsked /\ Hardware!QuietWhenStopped
<1> SUFFICES ASSUME HardwareInv PROVE Hardware!RunsAsAsked /\ Hardware!QuietWhenStopped
  OBVIOUS
<1>1. /\ HardwareType /\ (hwPhase = "released" => owner = "none" /\ ~claimed) /\ (plugged => PhaseInv)
  BY DEF HardwareInv
<1>2. ASSUME hwPhase = "running", plugged
      PROVE  /\ Hardware!Streams(dev) /\ (Hardware!Lights \in dev.leds <=> irOn)
             /\ kind = "tir4" /\ trouble # "silence" => dev.fw = "good" /\ dev.active
             /\ kind = "sn4" /\ trouble # "silence" => dev.fw = "good"
  <2>1. todo = <<>> /\ Starting
    BY <1>1, <1>2 DEF PhaseInv, Steady
  <2>2. /\ Register(dev, Hardware!Lights) = Ir
        /\ kind = "tir5v3" => Register(dev, "mode") = "on"
        /\ kind # "tir5v3" => Register(dev, "video") = "on" /\ Register(dev, "camera") = "on"
    BY <2>1, WillNone DEF Starting
  <2>3. Hardware!Streams(dev)
    BY <2>2 DEF Hardware!Streams, Register
  <2>4. Hardware!Lights \in dev.leds <=> irOn
    BY <2>2, LampRegisters DEF Register, Ir
  <2> QED  BY <2>1, <2>3, <2>4 DEF Starting, Loaded, Good, Told
<1>3. ASSUME NEW lamp \in {"ir", "level"}, Quiet(lamp), todo = <<>>
      PROVE  ~Hardware!Streams(dev) /\ lamp \notin dev.leds
  <2>1. Register(dev, lamp) = "off" /\ Register(dev, Source) = "off"
    BY <1>3, WillNone DEF Quiet
  <2> QED  BY <2>1 DEF Hardware!Streams, Register, Source
<1>4. ASSUME hwPhase = "paused", plugged
      PROVE  ~Hardware!Streams(dev) /\ Hardware!Lights \notin dev.leds
  <2>1. todo = <<>> /\ Quiet(Hardware!Lights)
    BY <1>1, <1>4 DEF PhaseInv, Steady, Stopping
  <2> QED  BY <1>3, <2>1, LampRegisters
<1>5. ASSUME hwPhase = "released", plugged
      PROVE  ~Hardware!Streams(dev) /\ Hardware!Doused \notin dev.leds
  <2>1. todo = <<>> /\ Quiet(Hardware!Doused)
    BY <1>1, <1>5 DEF PhaseInv, Steady
  <2> QED  BY <1>3, <2>1, LampRegisters
<1> QED  BY <1>1, <1>2, <1>4, <1>5 DEF Hardware!RunsAsAsked, Hardware!QuietWhenStopped

(* Types of the camera *)

\* Every sequence works on a handle that is open.
HandleInv ==
    /\ claimed => handle = "open"
    /\ hwPhase \in {"opening", "running", "pausing", "paused", "resuming", "closing"} => handle = "open"

LEMMA HandleKept == ASSUME HandleInv, Hardware!Next \/ UNCHANGED hardwareVars PROVE HandleInv'
<1> USE DEF HandleInv, Hardware!host
<1>1. ASSUME UNCHANGED <<handle, claimed>>, hwPhase' \in {hwPhase, "failed"} PROVE HandleInv'
  BY <1>1
<1>2. CASE Hardware!Packet \/ Hardware!Firmware \/ Hardware!Upload \/ Hardware!AwaitConfigured
           \/ Hardware!InitStarts \/ Hardware!StartStarts
  <2>1. UNCHANGED <<handle, claimed, hwPhase>>
    BY <1>2, Zenon DEF Hardware!Packet, Hardware!Firmware, Hardware!Upload, Hardware!AwaitConfigured,
                       Hardware!InitStarts, Hardware!StartStarts
  <2> QED  BY <1>1, <2>1
<1>3. CASE Hardware!FindFile \/ Hardware!ReadRom \/ Hardware!ReadStatus \/ Hardware!CheckSum \/ Hardware!Configure
  <2>1. UNCHANGED <<handle, claimed>> /\ (hwPhase' = hwPhase \/ hwPhase' = "failed")
    BY <1>3, Zenon DEF Hardware!FindFile, Hardware!ReadRom, Hardware!ReadStatus, Hardware!CheckSum,
                       Hardware!Configure, Hardware!Fail
  <2> QED  BY <1>1, <2>1
<1>4. CASE Hardware!Done \/ Hardware!Finish \/ Hardware!Pause \/ Hardware!Resume \/ Hardware!Close
  BY <1>4 DEF Hardware!Done, Hardware!Finish, Hardware!Pause, Hardware!Resume, Hardware!Close
<1>5. CASE Hardware!Open
  BY <1>5 DEF Hardware!Open
<1>6. CASE Hardware!Crash \/ Hardware!Unplug \/ Hardware!Plug \/ UNCHANGED hardwareVars
  BY <1>6 DEF Hardware!Crash, Hardware!Unplug, Hardware!Plug, hardwareVars
<1> QED  BY <1>2, <1>3, <1>4, <1>5, <1>6 DEF Hardware!Next, Hardware!Sequence

LEMMA HandleAtFirst == Hardware!Init => HandleInv
BY DEF Hardware!Init, HandleInv

LEMMA HardwareTyped == HardwareInv /\ HandleInv => Hardware!TypeOK
BY DEF HardwareInv, HardwareType, HandleInv, Hardware!TypeOK, Phases, Device, Leds

-----------------------------------------------------------------------
(* All of them, as they are checked *)

VARIABLE subject

framesVars == <<subject, vars, faceVars, packetVars, hardwareVars>>

\* Where a module has several initial states the others need one of them only.
FramesInit ==
    /\ subject \in {"buffering", "facedetect", "packets", "hardware"}
    /\ Init /\ Face!Init /\ Packets!Init /\ Hardware!Init
    /\ subject = "buffering" \/ \A s \in {size, config, frameSize} : s = CHOOSE t \in Sizes : TRUE
    /\ subject = "packets" \/ pkDevice = "tir4"
    /\ subject = "hardware" \/ <<kind, dev, hwSignals>> = <<"tir2", Hardware!Fresh, FALSE>>

View == subject = "buffering" /\ Next /\ UNCHANGED <<subject, faceVars, packetVars, hardwareVars>>
Search == subject = "facedetect" /\ UNCHANGED <<subject, vars, packetVars, hardwareVars>>
ReadPackets == subject = "packets" /\ Packets!Next /\ UNCHANGED <<subject, vars, faceVars, hardwareVars>>
DriveCamera == subject = "hardware" /\ Hardware!Next /\ UNCHANGED <<subject, vars, faceVars, packetVars>>

FramesNext == View \/ (Search /\ Face!Next) \/ ReadPackets \/ DriveCamera

\* The fairness of FaceDetect, where it is the subject.
FramesFairness ==
    /\ WF_framesVars(Search /\ Face!Detector)
    /\ WF_framesVars(Search /\ Face!Join)
    /\ WF_framesVars(Search /\ drvPc = "stop" /\ Face!StopFaceDetect)

FramesSpec == FramesInit /\ [][FramesNext]_framesVars /\ FramesFairness

\* The modules keep their types.
FramesTypeOK == TypeOK /\ Face!TypeOK /\ Packets!TypeOK /\ Hardware!TypeOK

\* The driver never copies a frame over one being searched (facetrack.cpp:232-233),
\* and only a frame that was copied is searched (facetrack.cpp:165).
DetectorReads == Face!NoOverlap /\ Face!SearchesFrame

\* Stopping face tracking returns (facetrack.cpp:212).
StopReturns == Face!StopReturns

\* The frames read are those a TrackIR sent (tir_img.c:373-411, 459-558), which
\* runs as it is asked to and is dark and silent when it is paused or closed
\* (tir_hw.c:546-1229).
TrackIrObeys == Packets!FramesExact /\ Hardware!RunsAsAsked /\ Hardware!QuietWhenStopped

-----------------------------------------------------------------------
(* What the proofs take as given. *)

USE NAssumption, BoundAssumption, SessionsAssumption

-----------------------------------------------------------------------
(* The painter and the driver: Buffering. *)

\* The GUI thread holds what it has checked out: nobody else stores readChecked.
HeldInv ==
    /\ reading # None => guiPc = "reading" /\ readChecked = reading
    /\ guiPc = "reading" => reading # None

\* The driver is never given the buffer that was completed last.
DriverInv ==
    /\ current # None => current # filling
    /\ devPc \in {"off", "next"} => filling = None

\* A running session has the configured resolution, and so have the buffers
\* once they were resized.
SizeInv ==
    /\ devPc # "off" => frameSize = config
    /\ ~initBuffers /\ (devPc # "off" \/ guiPc \in {"init", "initW", "initC", "start"}) => size = config

\* Buffers in use have the session's size: one is checked out, by either side, only
\* after they were resized, and start() forgets which was shown last.
UsedInv ==
    /\ devPc \in {"written", "next"} \/ filling # None => size = frameSize
    /\ devPc # "off" /\ (current # None \/ reading # None) => size = frameSize
    /\ guiPc = "start" /\ current # None => size = config

\* The last complete frame is in the buffer shown next, unless that one was cleared;
\* a buffer on its way there holds the frame just captured or nothing.
StampInv ==
    /\ shown <= frame
    /\ \A b \in Buffers : stamp[b] <= frame
    /\ current # None => stamp[current] = 0 \/ stamp[current] >= shown
    /\ devPc = "next" => writeChecked = None
    /\ writeChecked # None =>
          stamp[writeChecked] = 0 \/ (stamp[writeChecked] = frame /\ devPc \in {"hook", "written"})

CoreInv == TypeOK /\ HeldInv /\ DriverInv /\ NoTearing /\ SizeInv
IInv == CoreInv /\ UsedInv /\ StampInv

-----------------------------------------------------------------------
(* Indexes. *)

\* Any step ahead of the current buffer leads to a buffer.
LEMMA NextIndexIsBuffer ==
    ASSUME current \in Indexes, NEW i \in 1 .. N - 1
    PROVE  NextIndex(i) \in Buffers
BY DEF Indexes, Buffers, None, NextIndex

\* ... and to another one than the current buffer.
LEMMA NextIndexLeaves ==
    ASSUME current \in Indexes, NEW i \in 1 .. N - 1
    PROVE  NextIndex(i) # current
<1>1. CASE current = None
  BY <1>1, NextIndexIsBuffer DEF Buffers, None
<1>2. CASE current \in Buffers /\ current + i < N
  <2>1. (current + i) % N = current + i
    BY <1>2 DEF Buffers
  <2> QED BY <2>1, <1>2 DEF NextIndex, Buffers
<1>3. CASE current \in Buffers /\ current + i >= N
  <2>1. current + i - N \in 0 .. N - 1
    BY <1>3 DEF Buffers
  <2>2. (current + i) % N = current + i - N
    BY <2>1, <1>3 DEF Buffers
  <2> QED BY <2>2, <1>3 DEF NextIndex, Buffers
<1> QED BY <1>1, <1>2, <1>3 DEF Indexes, Buffers

\* One step and two steps ahead are different buffers.
LEMMA TwoCandidates ==
    ASSUME current \in Indexes
    PROVE  NextIndex(1) # NextIndex(2)
<1>1. CASE current + 2 < N
  <2>1. (current + 1) % N = current + 1 /\ (current + 2) % N = current + 2
    BY <1>1 DEF Indexes, Buffers, None
  <2> QED BY <2>1 DEF NextIndex, Indexes, Buffers, None
<1>2. CASE current + 2 = N
  <2>1. (current + 1) % N = N - 1 /\ (current + 2) % N = 0
    BY <1>2 DEF Indexes, Buffers, None
  <2> QED BY <2>1 DEF NextIndex
<1>3. CASE current + 2 = N + 1
  <2>1. (current + 1) % N = 0 /\ (current + 2) % N = 1
    BY <1>3 DEF Indexes, Buffers, None
  <2> QED BY <2>1 DEF NextIndex
<1> QED BY <1>1, <1>2, <1>3 DEF Indexes, Buffers, None

-----------------------------------------------------------------------
(* The invariant. *)

LEMMA InitEstablishes == Init => IInv
BY DEF Init, IInv, CoreInv, UsedInv, StampInv, TypeOK, HeldInv, DriverInv, NoTearing, SizeInv, Indexes, None, Buffers

LEMMA StepPreservesCore == CoreInv /\ [Next]_vars => CoreInv'
<1> SUFFICES ASSUME CoreInv, [Next]_vars PROVE CoreInv'
  OBVIOUS
<1> USE DEF CoreInv, HeldInv, DriverInv, NoTearing, SizeInv
<1>1. CASE Configure
  BY <1>1 DEF Configure, TypeOK, indexes, devVars, guiVars
<1>2. CASE Start
  BY <1>2 DEF Start, GuiAt, TypeOK, indexes, devVars
<1>3. CASE InitIndexes
  BY <1>3 DEF InitIndexes, GuiAt, TypeOK, devVars, Indexes, None
<1>4. CASE StartMaster
  BY <1>4 DEF StartMaster, GuiAt, TypeOK, indexes
<1>5. CASE ReadBuffer
  BY <1>5 DEF ReadBuffer, GuiAt, TypeOK, devVars, Indexes, None, Buffers
<1>6. CASE BufferRead
  BY <1>6 DEF BufferRead, GuiAt, TypeOK, devVars, Indexes, None
<1>7. CASE Capture
  BY <1>7 DEF Capture, DevAt, TypeOK, indexes, guiVars, Indexes, None, Buffers
<1>8. CASE ResizeBuffers
  BY <1>8 DEF ResizeBuffers, DevAt, TypeOK, indexes, guiVars
<1>9. CASE BufferWritten
  BY <1>9 DEF BufferWritten, DevAt, TypeOK, guiVars, Indexes, None
<1>10. CASE WriteBuffer
  <2>1. CASE writeChecked # None
    BY <1>10, <2>1 DEF WriteBuffer, DevAt, TypeOK, guiVars
  <2>2. CASE writeChecked = None
    <3>1. PICK i \in 1 .. N - 1 :
            /\ Usable(i)
            /\ filling' = NextIndex(i) /\ writeChecked' = NextIndex(i)
            /\ stamp' = [stamp EXCEPT ![NextIndex(i)] = 0]
      BY <1>10, <2>2 DEF WriteBuffer
    <3>2. NextIndex(i) \in Buffers /\ NextIndex(i) # current /\ NextIndex(i) # readChecked
      BY <3>1, NextIndexIsBuffer, NextIndexLeaves DEF Usable, TypeOK
    <3>3. UNCHANGED <<current, readChecked, initBuffers, config, size, frameSize, frame, guiVars>>
      BY <1>10 DEF WriteBuffer
    <3>4. devPc = "next" /\ devPc' = "capture"
      BY <1>10 DEF WriteBuffer, DevAt
    <3>5. TypeOK'
      BY <3>1, <3>2, <3>3, <3>4 DEF TypeOK, guiVars, Indexes
    <3> QED BY <3>1, <3>2, <3>3, <3>4, <3>5 DEF guiVars
  <2> QED BY <2>1, <2>2
<1>11. CASE EndSession
  BY <1>11 DEF EndSession, DevAt, TypeOK, indexes, guiVars, Indexes, None
<1>12. CASE UNCHANGED vars
  BY <1>12 DEF vars, indexes, devVars, guiVars, TypeOK
<1> QED
  BY <1>1, <1>2, <1>3, <1>4, <1>5, <1>6, <1>7, <1>8, <1>9, <1>10, <1>11, <1>12
     DEF Next, Gui, DeviceThread

LEMMA StepPreservesUsed == CoreInv /\ UsedInv /\ [Next]_vars => UsedInv'
<1> SUFFICES ASSUME CoreInv, UsedInv, [Next]_vars PROVE UsedInv'
  OBVIOUS
<1> USE DEF CoreInv, UsedInv, HeldInv, DriverInv, SizeInv
<1>1. CASE Configure
  BY <1>1 DEF Configure, indexes, devVars, guiVars
<1>2. CASE Start
  BY <1>2 DEF Start, GuiAt, indexes, devVars
<1>3. CASE InitIndexes
  BY <1>3 DEF InitIndexes, GuiAt, devVars
<1>4. CASE StartMaster
  BY <1>4 DEF StartMaster, GuiAt, indexes
<1>5. CASE ReadBuffer
  BY <1>5 DEF ReadBuffer, GuiAt, devVars
<1>6. CASE BufferRead
  BY <1>6 DEF BufferRead, GuiAt, devVars
<1>7. CASE Capture
  BY <1>7 DEF Capture, DevAt, indexes, guiVars
<1>8. CASE ResizeBuffers
  BY <1>8 DEF ResizeBuffers, DevAt, indexes, guiVars
<1>9. CASE BufferWritten
  BY <1>9 DEF BufferWritten, DevAt, guiVars
<1>10. CASE WriteBuffer
  BY <1>10 DEF WriteBuffer, DevAt, guiVars
<1>11. CASE EndSession
  BY <1>11 DEF EndSession, DevAt, indexes, guiVars
<1>12. CASE UNCHANGED vars
  BY <1>12 DEF vars, indexes, devVars, guiVars
<1> QED
  BY <1>1, <1>2, <1>3, <1>4, <1>5, <1>6, <1>7, <1>8, <1>9, <1>10, <1>11, <1>12
     DEF Next, Gui, DeviceThread

LEMMA StepPreservesStamp == CoreInv /\ StampInv /\ [Next]_vars => StampInv'
<1> SUFFICES ASSUME CoreInv, StampInv, [Next]_vars PROVE StampInv'
  OBVIOUS
<1> USE DEF CoreInv, StampInv, HeldInv, DriverInv, TypeOK, Indexes
<1>1. CASE Configure \/ Start \/ StartMaster
  BY <1>1 DEF Configure, Start, StartMaster, GuiAt, indexes, devVars, guiVars
<1>2. CASE InitIndexes
  BY <1>2 DEF InitIndexes, GuiAt, devVars
<1>3. CASE ReadBuffer \/ BufferRead
  BY <1>3 DEF ReadBuffer, BufferRead, GuiAt, devVars
<1>4. CASE Capture
  BY <1>4 DEF Capture, DevAt, indexes, guiVars
<1>5. CASE ResizeBuffers
  BY <1>5 DEF ResizeBuffers, DevAt, indexes, guiVars
<1>6. CASE BufferWritten
  BY <1>6 DEF BufferWritten, DevAt, guiVars
<1>7. CASE WriteBuffer
  <2>1. CASE writeChecked # None
    BY <1>7, <2>1 DEF WriteBuffer, DevAt
  <2>2. CASE writeChecked = None
    <3>1. PICK i \in 1 .. N - 1 :
            writeChecked' = NextIndex(i) /\ stamp' = [stamp EXCEPT ![NextIndex(i)] = 0]
      BY <1>7, <2>2 DEF WriteBuffer
    <3>2. NextIndex(i) \in Buffers /\ NextIndex(i) # current
      BY NextIndexIsBuffer, NextIndexLeaves
    <3> QED  BY <1>7, <3>1, <3>2 DEF WriteBuffer, DevAt, guiVars
  <2> QED  BY <2>1, <2>2
<1>8. CASE EndSession
  BY <1>8 DEF EndSession, DevAt, indexes, guiVars
<1>9. CASE UNCHANGED vars
  BY <1>9 DEF vars, indexes, devVars, guiVars
<1> QED
  BY <1>1, <1>2, <1>3, <1>4, <1>5, <1>6, <1>7, <1>8, <1>9 DEF Next, Gui, DeviceThread

LEMMA StepPreserves == IInv /\ [Next]_vars => IInv'
BY StepPreservesCore, StepPreservesUsed, StepPreservesStamp DEF IInv

LEMMA Inductive == Spec => []IInv
BY InitEstablishes, StepPreserves, PTL DEF Spec

-----------------------------------------------------------------------
(* Theorems *)

\* Every variable keeps its type: class buffering never computes an index that is
\* no buffer.
THEOREM TypeCorrect == Spec => []TypeOK
BY Inductive, PTL DEF IInv, CoreInv

\* Painting and filling never meet in one buffer, whatever start() does to the
\* indexes of a running session.
THEOREM NeverTorn == Spec => []NoTearing
BY Inductive, PTL DEF IInv, CoreInv

\* The assumption of buffering.cpp:96 is right for every N >= 3: two of the buffers
\* after the current one differ, and only one can be checked out for reading.
THEOREM WriterAlwaysFinds == Spec => []WriterFinds
<1>1. IInv => WriterFinds
  <2> SUFFICES ASSUME IInv PROVE \E i \in 1 .. N - 1 : Usable(i)
    BY DEF WriterFinds
  <2>1. NextIndex(1) # NextIndex(2)
    BY TwoCandidates DEF IInv, CoreInv, TypeOK
  <2>2. 1 \in 1 .. N - 1 /\ 2 \in 1 .. N - 1
    OBVIOUS
  <2>3. Usable(1) \/ Usable(2)
    BY <2>1, <2>2 DEF Usable
  <2> QED BY <2>2, <2>3
<1> QED BY <1>1, Inductive, PTL

\* The driver never writes into a buffer made for another resolution.
THEOREM DriverAlwaysFits == Spec => []DriverFits
<1>1. IInv => DriverFits
  BY DEF IInv, UsedInv, DriverFits
<1> QED BY <1>1, Inductive, PTL

\* Buffers are resized only while neither side uses one, and the view never goes back
\* to an older frame: what is shown next was captured later or was cleared.
THEOREM AlwaysShownInOrder == Spec => ShownInOrder
<1> DEFINE Resize == size' # size => reading = None /\ filling = None
           Forward == shown' >= shown \/ shown' = 0
<1>1. ASSUME IInv, [Next]_vars PROVE [Resize /\ Forward]_vars
  <2> USE <1>1 DEF IInv, CoreInv, TypeOK
  <2>1. Resize
    <3> SUFFICES ASSUME size' # size PROVE reading = None /\ filling = None  OBVIOUS
    <3>1. CASE ResizeBuffers
      BY <3>1 DEF ResizeBuffers, DevAt, UsedInv, DriverInv
    <3> QED
      BY <3>1 DEF Next, Gui, DeviceThread, Configure, Start, InitIndexes, StartMaster, ReadBuffer,
                  BufferRead, Capture, BufferWritten, WriteBuffer, EndSession, vars
  <2>2. Forward
    <3>1. CASE ReadBuffer
      BY <3>1 DEF ReadBuffer, StampInv, Indexes
    <3>2. CASE UNCHANGED shown
      BY <3>2
    <3> QED
      BY <3>1, <3>2 DEF Next, Gui, DeviceThread, Configure, Start, InitIndexes, StartMaster,
                  BufferRead, Capture, ResizeBuffers, BufferWritten, WriteBuffer, EndSession, vars, guiVars
  <2> QED  BY <2>1, <2>2
<1> QED  BY <1>1, Inductive, PTL DEF Spec, ShownInOrder

-----------------------------------------------------------------------
(* The driver and the detector: FaceDetect. *)

\* A frame is copied, and posted, only while the detector has none; it has one from
\* the moment it takes the status to the moment it gives it back.
HandedInv ==
    /\ drvPc \in {"copy", "post"} => frameStatus = "DONE"
    /\ frameStatus = "DONE" => detPc \notin {"check", "detect", "mark"}
    /\ drvPc = "off" => frameStatus = "DONE"

\* run is lowered for the time of a stop, and only then the detector frees the frame.
RunInv ==
    /\ drvPc \in {"idle", "look", "copy", "post"} => run
    /\ drvPc \in {"stop", "join"} => ~run
    /\ detPc \in {"free", "ended"} => drvPc \in {"stop", "join"}
    /\ drvPc \in {"look", "copy", "post"} => allocated /\ captured > 0

\* READY means a copied frame, unless it was stored to wake the thread for its end.
HasFrame == allocated /\ shared > 0
FrameInv ==
    /\ drvPc = "post" => HasFrame
    /\ run /\ (frameStatus = "READY" \/ detPc = "check") => HasFrame
    /\ detPc = "detect" => HasFrame

FaceInv == Face!TypeOK /\ HandedInv /\ RunInv /\ FrameInv

LEMMA FaceInit == Face!Init => FaceInv
<1> SUFFICES ASSUME Face!Init PROVE FaceInv
  OBVIOUS
<1>1. run \in BOOLEAN /\ allocated \in BOOLEAN  BY Zenon DEF Face!Init
<1> QED  BY <1>1 DEF Face!Init, FaceInv, Face!TypeOK, HandedInv, RunInv, FrameInv, HasFrame

LEMMA FaceStep == FaceInv /\ [Face!Next]_(Face!vars) => FaceInv'
<1> SUFFICES ASSUME FaceInv, [Face!Next]_(Face!vars) PROVE FaceInv'
  OBVIOUS
<1> USE DEF FaceInv, Face!TypeOK, HandedInv, RunInv, FrameInv, HasFrame,
            Face!DrvAt, Face!DetAt, Face!Wake, Face!drvVars, Face!detVars
<1>1. CASE Face!InitFaceDetect
  <2>1. run' = TRUE  BY <1>1 DEF Face!InitFaceDetect
  <2>2. run' \in BOOLEAN  BY <2>1, Zenon
  <2>3. sessions' \in 0 .. MaxSessions  BY <1>1, SessionsAssumption DEF Face!InitFaceDetect
  <2>4. UNCHANGED <<frameStatus, shared, allocated, captured, searched>>  BY <1>1 DEF Face!InitFaceDetect
  <2>5. drvPc = "off" /\ drvPc' = "idle" /\ detPc' = "test"  BY <1>1 DEF Face!InitFaceDetect
  <2>6. allocated' \in BOOLEAN  BY <2>4, Zenon
  <2>7. HandedInv' /\ RunInv'  BY <2>1, <2>4, <2>5
  <2>8. FrameInv'  BY <2>4, <2>5
  <2>9. Face!TypeOK'  BY <2>2, <2>3, <2>4, <2>5, <2>6
  <2> QED  BY <2>7, <2>8, <2>9
<1>2. CASE Face!NewFrame  BY <1>2 DEF Face!NewFrame
<1>3. CASE Face!Look  BY <1>3 DEF Face!Look
<1>4. CASE Face!Copy  BY <1>4 DEF Face!Copy
<1>5. CASE Face!Post  BY <1>5 DEF Face!Post
<1>6. CASE Face!StopFaceDetect
  <2>1. run' \in BOOLEAN  BY <1>6, Zenon DEF Face!StopFaceDetect
  <2> QED  BY <1>6, <2>1 DEF Face!StopFaceDetect
<1>7. CASE Face!Join  BY <1>7 DEF Face!Join
<1>8. CASE Face!TestRun  BY <1>8 DEF Face!TestRun
<1>9. CASE Face!WaitForFrame  BY <1>9 DEF Face!WaitForFrame
<1>10. CASE Face!CheckRun  BY <1>10 DEF Face!CheckRun
<1>11. CASE Face!Detect  BY <1>11 DEF Face!Detect
<1>12. CASE Face!MarkDone  BY <1>12 DEF Face!MarkDone
<1>13. CASE Face!Free  BY <1>13 DEF Face!Free
<1>14. CASE Face!SpuriousWakeup  BY <1>14 DEF Face!SpuriousWakeup
<1>15. CASE UNCHANGED Face!vars  BY <1>15 DEF Face!vars
<1> QED
  BY <1>1, <1>2, <1>3, <1>4, <1>5, <1>6, <1>7, <1>8, <1>9, <1>10, <1>11, <1>12, <1>13, <1>14, <1>15
     DEF Face!Next, Face!Driver, Face!Detector

\* Face tracking alone: what is searched was copied completely, and is not copied over.
THEOREM DetectorAlwaysReads == Face!Spec => []DetectorReads
<1>1. FaceInv => DetectorReads
  BY DEF FaceInv, HandedInv, RunInv, FrameInv, HasFrame, DetectorReads, Face!NoOverlap, Face!SearchesFrame
<1> QED  BY <1>1, FaceInit, FaceStep, PTL DEF Face!Spec

-----------------------------------------------------------------------
(* All together, as they are checked. *)

TrackIrInv == PacketsInv /\ PacketsTyped /\ HardwareInv /\ HandleInv

\* A step of one module leaves the others alone, so the invariants hold side by side.
LEMMA FramesInductive == FramesSpec => [](IInv /\ FaceInv /\ TrackIrInv)
<1>1. FramesInit => IInv /\ FaceInv /\ TrackIrInv
  BY InitEstablishes, FaceInit, PacketsBegin, PacketsBeginTyped, HardwareBegins, HandleAtFirst DEF FramesInit, TrackIrInv
<1>2. IInv /\ FaceInv /\ TrackIrInv /\ [FramesNext]_framesVars => IInv' /\ FaceInv' /\ TrackIrInv'
  <2> SUFFICES ASSUME IInv, FaceInv, TrackIrInv, [FramesNext]_framesVars PROVE IInv' /\ FaceInv' /\ TrackIrInv'
    OBVIOUS
  <2>1. [Next]_vars /\ [Face!Next]_(Face!vars)
    BY DEF FramesNext, View, Search, ReadPackets, DriveCamera, framesVars, faceVars,
           Face!vars, Face!drvVars, Face!detVars
  <2>2. (Packets!Next \/ UNCHANGED packetVars) /\ (Hardware!Next \/ UNCHANGED hardwareVars)
    BY Zenon DEF FramesNext, View, Search, ReadPackets, DriveCamera, framesVars
  <2>3. PacketsInv' /\ PacketsTyped'
    BY <2>2, PacketsKeep, PacketsKeepTyped DEF TrackIrInv
  <2>4. HardwareInv' /\ HandleInv'
    BY <2>2, HardwareKeeps, HandleKept DEF TrackIrInv
  <2> QED  BY <2>1, <2>3, <2>4, StepPreserves, FaceStep DEF TrackIrInv
<1> QED  BY <1>1, <1>2, PTL DEF FramesSpec

\* Every variable of the modules keeps its type: a TrackIR's packets are read within
\* the transfer they came in, however it was cut short, and what is done to a camera
\* is done to an open handle (tir_img.c:373-411, tir_hw.c:1142-1229).
THEOREM FramesTyped == FramesSpec => []FramesTypeOK
<1>1. IInv /\ FaceInv /\ TrackIrInv => FramesTypeOK
  BY PacketsAreTyped, HardwareTyped DEF IInv, CoreInv, FaceInv, TrackIrInv, FramesTypeOK
<1> QED  BY <1>1, FramesInductive, PTL

\* The frames of a TrackIR are read as they were sent, however their bytes are divided
\* into packets and transfers (tir_img.c:373-411, 459-558); a camera of any of the
\* models that runs sends pictures and is lit exactly when it was asked to be, and one
\* that is paused or closed is dark and silent and nobody's, whatever the program before
\* left it in, and over crashes, openings that failed and unplugging
\* (tir_hw.c:546-1229).
THEOREM TrackIrAlwaysObeys == FramesSpec => []TrackIrObeys
<1>1. TrackIrInv => TrackIrObeys
  BY PacketsSound, HardwareSound DEF TrackIrInv, TrackIrObeys
<1> QED  BY <1>1, FramesInductive, PTL
=============================================================================
