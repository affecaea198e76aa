--------------------------- MODULE RedactorProofs ---------------------------
(***************************************************************************)
(* That the redactor shows no secret that is Keepable, for any units,      *)
(* delimiters, markers and exact secret, any patterns of redactText, any   *)
(* bound of the carry, and text of any length cut anywhere.                *)
(*                                                                         *)
(* redactText replaces units of what is released and of nothing that is    *)
(* kept: the loops are first looked at without it (FeedRaw, FlushRaw), and *)
(* what the code releases is what these release, veiled (FeedVeils,        *)
(* FlushVeils).                                                            *)
(*                                                                         *)
(* The first half of the invariant is about text that is still to come: no *)
(* secret begins in what was released, however the carry and the deltas    *)
(* behind it go on (NothingBegins). Every iteration of the loops of feed   *)
(* and flush keeps it: what is released before an open region or the last  *)
(* run of a text cannot be the beginning of a secret (HeldBack, the only   *)
(* place but one that needs Keepable), and [REDACTED] is part of none      *)
(* (SafeRedacted).                                                         *)
(*                                                                         *)
(* The loops are recursive functions, of which TLA+ says only that they    *)
(* are chosen among those that satisfy their equation. RecursionDown shows *)
(* that there is one, FeedResult and FlushResult what it returns.          *)
(*                                                                         *)
(* That the text is kept is shown in the second half, for secrets that     *)
(* SecretsApart. FlushRaw is the measure: AllThere says that what was      *)
(* released, and what flush would make of the carry with any text behind   *)
(* it, is what flush makes of all the text. Two facts carry it. A text can *)
(* be cut before its earliest region: the regions of its end are regions   *)
(* of the whole (RegionsInEnd, FlushSplit), which is where SecretsApart is *)
(* needed. And what feed finds in a text it finds, and finds first, with   *)
(* more text behind it (ClearBefore, EarliestAppended), so that by         *)
(* induction on the length of the text feed is ahead of whatever comes     *)
(* (FeedIsAhead).                                                          *)
(***************************************************************************)
EXTENDS Redactor, SequenceTheorems, WellFoundedInduction, TLAPS

Shown == Units \cup {Redacted}

\* Nothing in t contradicts that p stands at i, or begins there and goes on after t.
MayStand(t, i, p) == \A k \in 1..Len(p) : i + k - 1 <= Len(t) => t[i + k - 1] = p[k]

\* No secret begins at position i of t, however t goes on.
Clear(t, i) == Keepable =>
  /\ ~ MayStand(t, i, Exact)
  /\ AtBoundary(t, i) => \A m \in Markers : ~ MayStand(t, i, m)

\* No secret begins in o, which is followed by s.
Safe(o, s) == \A i \in 1..Len(o) : Clear(o \o s, i)

\* No secret stands in t before position c.
Bare(t, c) ==
  \A i \in 1..(c - 1) : /\ ~ At(t, i, Exact)
                        /\ Keepable /\ AtBoundary(t, i) => \A m \in Markers : ~ At(t, i, m)

\* v is u, but for units that are replaced.
Veils(v, u) == /\ v \in Seq(Shown) /\ u \in Seq(Shown) /\ Len(v) = Len(u)
               /\ \A i \in 1..Len(u) : v[i] = u[i] \/ v[i] = Redacted

-----------------------------------------------------------------------------
\* Texts are concatenated in any order of the pieces.
LEMMA ShownConcat ==
  /\ \A a, b \in Seq(Shown) : a \o b \in Seq(Shown)
  /\ \A a, b, c \in Seq(Shown) : (a \o b) \o c = a \o (b \o c)
<1>1. \A a, b \in Seq(Shown) : a \o b \in Seq(Shown)
  OBVIOUS
<1>2. \A a, b, c \in Seq(Shown) : (a \o b) \o c = a \o (b \o c)
  BY ConcatAssociative
<1> QED
  BY <1>1, <1>2

\* A unit stands for a number of characters.
LEMMA CharsNat == \A u \in Units : Chars[u] \in Nat
  BY RedactorAssumption

\* The two units at position i, where a marker may stand.
LEMMA PairAt ==
  ASSUME NEW X, NEW s \in Seq(X), NEW i \in 1..Len(s), i + 1 <= Len(s)
  PROVE  /\ SubSeq(s, i, i + 1) \in Seq(X) /\ Len(SubSeq(s, i, i + 1)) = 2
         /\ SubSeq(s, i, i + 1)[1] = s[i] /\ SubSeq(s, i, i + 1)[2] = s[i + 1]
<1>1. Len(s) \in Nat /\ i \in Nat /\ (i + 1) - i + 1 = 2 /\ i <= i + 1
  OBVIOUS
<1>2. SubSeq(s, i, i + 1) = [k \in 1..2 |-> s[i + k - 1]]
  BY <1>1
<1>3. i \in 1..Len(s) /\ i + 1 \in 1..Len(s) /\ i + 1 - 1 = i /\ i + 2 - 1 = i + 1
  OBVIOUS
<1>4. s[i] \in X /\ s[i + 1] \in X
  BY <1>3
<1> QED
  BY <1>2, <1>3, <1>4

\* A sequence that stands in a text is not contradicted by it.
LEMMA AtMayStand ==
  ASSUME NEW t \in Seq(Shown), NEW p \in Seq(Units), NEW i \in 1..Len(t), At(t, i, p)
  PROVE  MayStand(t, i, p)
  <1> SUFFICES ASSUME NEW k \in 1..Len(p), i + k - 1 <= Len(t)
               PROVE  t[i + k - 1] = p[k]
    BY DEF MayStand
  <1>1. i + Len(p) - 1 <= Len(t) /\ SubSeq(t, i, i + Len(p) - 1) = p
    BY DEF At
  <1>2. SubSeq(t, i, i + Len(p) - 1)[k] = t[i + k - 1]
    BY <1>1
  <1> QED BY <1>1, <1>2

\* A sequence that a text does not contradict and has room for stands in it.
LEMMA MayStandAt ==
  ASSUME NEW t \in Seq(Shown), NEW p \in Seq(Units), NEW i \in 1..Len(t), MayStand(t, i, p),
         i + Len(p) - 1 <= Len(t)
  PROVE  At(t, i, p)
  <1> DEFINE q == SubSeq(t, i, i + Len(p) - 1)
  <1>1. q \in Seq(Shown) /\ Len(q) = Len(p)
    OBVIOUS
  <1>2. \A k \in 1..Len(p) : q[k] = p[k]
    BY DEF MayStand
  <1>3. p \in Seq(Shown)
    BY DEF Shown
  <1>4. q = p
    <2> HIDE DEF q
    <2> QED BY <1>1, <1>2, <1>3, SeqEqual
  <1> QED BY <1>4 DEF At

\* A text that could still become p ends with a strict prefix of it.
LEMMA MayStandTail ==
  ASSUME NEW t \in Seq(Units), NEW p \in Seq(Units), NEW i \in 1..Len(t), MayStand(t, i, p),
         i + Len(p) - 1 > Len(t)
  PROVE  /\ IsStrictPrefix(From(t, i), p)
         /\ From(t, i) = SubSeq(p, 1, Len(t) - i + 1)
  <1> DEFINE q == From(t, i)
  <1>1. q \in Seq(Units) /\ Len(q) = Len(t) - i + 1 /\ \A k \in 1..Len(q) : q[k] = t[i + k - 1]
    BY DEF From
  <1>2. \A k \in 1..Len(q) : q[k] = p[k]
    BY <1>1 DEF MayStand
  <1>3. Len(q) < Len(p)
    BY <1>1
  <1> DEFINE b == SubSeq(p, 1, Len(q))
  <1>b. b \in Seq(Units) /\ Len(b) = Len(q) /\ \A k \in 1..Len(q) : b[k] = p[k]
    <2> HIDE DEF q
    <2> QED BY <1>1, <1>3
  <1>4. q = b
    <2> HIDE DEF q, b
    <2> QED BY <1>1, <1>2, <1>b, SeqEqual
  <1> QED BY <1>1, <1>3, <1>4 DEF IsStrictPrefix, IsPrefix

-----------------------------------------------------------------------------
\* The part of a text that was there before tells at least as much.
LEMMA MayStandPart ==
  ASSUME NEW t, NEW u, NEW n \in Nat, NEW i \in 1..n, NEW p, Len(p) \in Nat,
         Len(u) \in Nat, Len(t) = n, n <= Len(u), \A k \in 1..n : t[k] = u[k],
         MayStand(u, i, p)
  PROVE  MayStand(t, i, p)
  <1> SUFFICES ASSUME NEW k \in 1..Len(p), i + k - 1 <= n
               PROVE  t[i + k - 1] = p[k]
    BY DEF MayStand
  <1>1. u[i + k - 1] = p[k]
    BY DEF MayStand
  <1>2. i + k - 1 \in 1..n
    OBVIOUS
  <1> QED BY <1>1, <1>2

\* A boundary is one in any text with the same unit before it.
LEMMA BoundaryPart ==
  ASSUME NEW t, NEW u, NEW i \in Nat \ {0}, i > 1 => t[i - 1] = u[i - 1], AtBoundary(u, i)
  PROVE  AtBoundary(t, i)
  BY DEF AtBoundary

\* What is safe however the text goes on is safe when it goes on with d.
LEMMA SafeExtends ==
  ASSUME NEW o \in Seq(Shown), NEW s \in Seq(Units), NEW d \in Seq(Units), Safe(o, s)
  PROVE  Safe(o, s \o d)
  <1> SUFFICES ASSUME NEW i \in 1..Len(o)
               PROVE  Clear(o \o (s \o d), i)
    BY DEF Safe
  <1> DEFINE t == o \o s
             u == o \o (s \o d)
  <1>1. Clear(t, i)
    BY DEF Safe
  <1>2. s \in Seq(Shown) /\ s \o d \in Seq(Shown) /\ Len(s \o d) = Len(s) + Len(d)
    BY DEF Shown
  <1>3. /\ Len(t) = Len(o) + Len(s) /\ Len(u) = Len(o) + Len(s) + Len(d)
        /\ \A k \in 1..Len(t) : t[k] = u[k]
    BY <1>2
  <1>4. Len(t) \in Nat /\ Len(u) \in Nat /\ i \in 1..Len(t) /\ Len(t) <= Len(u)
    BY <1>2, <1>3
  <1> HIDE DEF t, u
  <1>5. ASSUME NEW p, Len(p) \in Nat, MayStand(u, i, p)
        PROVE  MayStand(t, i, p)
    BY <1>3, <1>4, <1>5, MayStandPart
  <1>6. AtBoundary(u, i) => AtBoundary(t, i)
    BY <1>3, <1>4, BoundaryPart
  <1>7. Len(Exact) \in Nat /\ \A m \in Markers : Len(m) \in Nat
    BY RedactorAssumption
  <1>8. Clear(u, i)
    BY <1>1, <1>5, <1>6, <1>7 DEF Clear
  <1> QED BY <1>8 DEF u

\* After a replacement nothing that comes matters.
LEMMA SafeRedacted ==
  ASSUME NEW o \in Seq(Shown), NEW t \in Seq(Units), NEW c \in 1..(Len(t) + 1),
         Safe(o, t), Bare(t, c)
  PROVE  Safe(o \o Upto(t, c) \o <<Redacted>>, <<>>)
  <1> DEFINE w == o \o Upto(t, c) \o <<Redacted>>
             n == Len(o) + c
             u == o \o t
  <1>1. /\ w \in Seq(Shown) /\ Len(w) = n /\ w[n] = Redacted
        /\ u \in Seq(Shown) /\ Len(u) = Len(o) + Len(t)
        /\ \A k \in 1..(n - 1) : w[k] = u[k]
    <2> DEFINE b == Upto(t, c)
               v == o \o b
    <2>1. b \in Seq(Shown) /\ Len(b) = c - 1 /\ \A k \in 1..(c - 1) : b[k] = t[k]
      BY DEF Shown, Upto
    <2>2. t \in Seq(Shown) /\ <<Redacted>> \in Seq(Shown)
      BY DEF Shown
    <2> HIDE DEF b
    <2>3. v \in Seq(Shown) /\ Len(v) = n - 1 /\ \A k \in 1..(n - 1) : v[k] = u[k]
      BY <2>1, <2>2
    <2>4. w = v \o <<Redacted>>
      BY DEF b
    <2>n. n - 1 \in Nat /\ n \in Nat
      OBVIOUS
    <2> HIDE DEF v, w, n
    <2>5. w \in Seq(Shown) /\ Len(w) = n /\ w[n] = Redacted /\ \A k \in 1..(n - 1) : w[k] = v[k]
      BY <2>2, <2>3, <2>4, <2>n
    <2> QED BY <2>2, <2>3, <2>5 DEF n
  <1>2. \A k \in 1..Len(t) : u[Len(o) + k] = t[k]
    OBVIOUS
  <1>3. w \o <<>> = w
    BY <1>1
  <1> HIDE DEF w, n, u
  <1>n. n = Len(o) + c
    BY DEF n
  <1>4. ASSUME NEW p \in Seq(Units), NEW i \in 1..n, MayStand(w, i, p), p # <<>>
        PROVE  i + Len(p) - 1 < n
    <2> SUFFICES ASSUME i + Len(p) - 1 >= n
                 PROVE  FALSE
      BY <1>n
    <2> DEFINE k == n - i + 1
    <2>1. k \in 1..Len(p) /\ i + k - 1 = n
      BY <1>n
    <2>2. w[n] = p[k]
      BY <1>1, <1>4, <2>1 DEF MayStand
    <2> QED BY <1>1, <2>1, <2>2, RedactorAssumption
  <1>5. ASSUME NEW p \in Seq(Units), NEW i \in 1..n, MayStand(w, i, p), p # <<>>
        PROVE  MayStand(u, i, p) /\ i < n
    <2>1. i + Len(p) - 1 < n /\ Len(p) \in Nat \ {0}
      BY <1>4, <1>5
    <2>2. ASSUME NEW k \in 1..Len(p)
          PROVE  u[i + k - 1] = p[k]
      <3>1. i + k - 1 \in 1..(n - 1)
        BY <2>1, <1>n
      <3>2. w[i + k - 1] = p[k]
        BY <3>1, <1>1, <1>5, <1>n DEF MayStand
      <3> QED BY <3>1, <3>2, <1>1
    <2> QED BY <2>1, <2>2, <1>n DEF MayStand
  <1>6. ASSUME NEW i \in 1..n, AtBoundary(w, i)
        PROVE  AtBoundary(u, i)
    BY <1>1, <1>n, <1>6 DEF AtBoundary
  <1>7. ASSUME NEW i \in 1..n, NEW p \in Seq(Units), p # <<>>, MayStand(w, i, p), i > Len(o)
        PROVE  At(t, i - Len(o), p)
    <2> DEFINE j == i - Len(o)
    <2>1. j \in 1..Len(t) /\ j + Len(p) - 1 <= Len(t)
      BY <1>4, <1>7, <1>n
    <2>2. ASSUME NEW k \in 1..Len(p)
          PROVE  t[j + k - 1] = p[k]
      <3>1. j + k - 1 \in 1..Len(t) /\ Len(o) + (j + k - 1) = i + k - 1 /\ i + k - 1 <= Len(u)
        BY <2>1, <1>1, <1>n
      <3>2. u[i + k - 1] = p[k]
        BY <3>1, <1>5, <1>7 DEF MayStand
      <3> QED BY <3>1, <3>2, <1>2
    <2>3. MayStand(t, j, p)
      BY <2>2 DEF MayStand
    <2>4. t \in Seq(Shown)
      BY DEF Shown
    <2> QED BY <2>1, <2>3, <2>4, MayStandAt
  <1>8. ASSUME NEW i \in 1..n, AtBoundary(u, i), i > Len(o), i - Len(o) \in 1..Len(t)
        PROVE  AtBoundary(t, i - Len(o))
    <2>1. CASE i - Len(o) = 1
      BY <2>1 DEF AtBoundary
    <2>2. CASE i - Len(o) # 1
      <3>1. i - Len(o) - 1 \in 1..Len(t) /\ Len(o) + (i - Len(o) - 1) = i - 1 /\ i # 1
        BY <1>8, <2>2, <1>n
      <3> QED BY <3>1, <1>2, <1>8 DEF AtBoundary
    <2> QED BY <2>1, <2>2
  <1>9. ASSUME NEW i \in 1..n, NEW p \in Seq(Units), p # <<>>, MayStand(w, i, p), Keepable,
               p = Exact \/ (p \in Markers /\ AtBoundary(w, i))
        PROVE  FALSE
    <2>1. CASE i <= Len(o)
      BY <1>5, <1>6, <1>9, <2>1, <1>n DEF Safe, Clear, u
    <2>2. CASE i > Len(o)
      <3>1. i < n /\ i - Len(o) \in 1..(c - 1) /\ i - Len(o) \in 1..Len(t)
        BY <1>5, <1>9, <2>2, <1>n
      <3>2. At(t, i - Len(o), p)
        BY <1>7, <1>9, <2>2
      <3>3. p \in Markers => AtBoundary(t, i - Len(o)) \/ p = Exact
        BY <1>6, <1>8, <1>9, <2>2, <3>1
      <3> QED BY <1>9, <3>1, <3>2, <3>3 DEF Bare
    <2> QED BY <2>1, <2>2, <1>n
  <1>10. \A m \in Markers : m \in Seq(Units) /\ m # <<>>
    <2>1. \A m \in Markers : m \in Seq(Units) /\ Len(m) = 2
      BY RedactorAssumption
    <2>2. Len(<<>>) # 2
      OBVIOUS
    <2> QED BY <2>1, <2>2, Zenon
  <1>11. ASSUME NEW i \in 1..n
         PROVE  Clear(w, i)
    BY <1>9, <1>10, RedactorAssumption DEF Clear
  <1> QED BY <1>1, <1>3, <1>11 DEF Safe, w

-----------------------------------------------------------------------------
\* A set of numbers that is not empty has a least one.
LEMMA LeastNat ==
  ASSUME NEW T, T \subseteq Nat, T # {}
  PROVE  \E n \in T : \A k \in T : n <= k
  <1> DEFINE R == {p \in Nat \X Nat : p[1] < p[2]}
  <1>1. IsWellFoundedOn(R, Nat)
    BY NatLessThanWellFounded DEF OpToRel
  <1>2. \A k, n \in Nat : k < n => <<k, n>> \in R
    OBVIOUS
  <1> HIDE DEF R
  <1>3. PICK n \in T : \A k \in T : ~ (<<k, n>> \in R)
    BY <1>1, WFMin
  <1>4. \A k \in T : ~ (k < n)
    BY <1>2, <1>3
  <1> QED BY <1>4

\* A bounded set of positions has a greatest one.
LEMMA GreatestNat ==
  ASSUME NEW b \in Nat, NEW T, T \subseteq 0..b, T # {}
  PROVE  \E n \in T : \A k \in T : k <= n
  <1> DEFINE U == {b - k : k \in T}
  <1>1. U \subseteq Nat /\ U # {}
    <2>1. \A k \in T : k \in 0..b /\ b - k \in Nat
      OBVIOUS
    <2> QED BY <2>1
  <1> HIDE DEF U
  <1>2. PICK n \in U : \A k \in U : n <= k
    BY <1>1, LeastNat
  <1> USE DEF U
  <1>3. PICK m \in T : n = b - m
    OBVIOUS
  <1>4. ASSUME NEW k \in T
        PROVE  k <= m
    <2>1. b - k \in U
      OBVIOUS
    <2>2. b - m <= b - k
      BY <1>2, <1>3, <2>1
    <2> QED BY <2>2
  <1> QED BY <1>4

\* There is a position as RunEnd describes it.
LEMMA RunEndExists ==
  ASSUME NEW s \in Seq(Units), NEW i \in 1..(Len(s) + 1)
  PROVE  /\ RunEnd(s, i) \in i..(Len(s) + 1)
         /\ RunEnd(s, i) = Len(s) + 1 \/ ~ Token(s[RunEnd(s, i)])
         /\ \A k \in i..(RunEnd(s, i) - 1) : Token(s[k])
  <1> DEFINE T == {j \in i..(Len(s) + 1) : j = Len(s) + 1 \/ ~ Token(s[j])}
  <1>1. T \subseteq Nat /\ Len(s) + 1 \in T
    OBVIOUS
  <1>2. PICK j \in T : \A k \in T : j <= k
    <2> HIDE DEF T
    <2> QED BY <1>1, LeastNat
  <1>3. \A k \in i..(j - 1) : Token(s[k])
    <2> SUFFICES ASSUME NEW k \in i..(j - 1), ~ Token(s[k]) PROVE FALSE
      OBVIOUS
    <2>1. k \in T
      OBVIOUS
    <2> QED BY <1>2, <2>1
  <1> QED BY <1>2, <1>3 DEF RunEnd

\* There is a position as HeldRun describes it.
LEMMA HeldRunExists ==
  ASSUME NEW s \in Seq(Units)
  PROVE  /\ HeldRun(s) \in 1..(Len(s) + 1)
         /\ HeldRun(s) = 1 \/ ~ Token(s[HeldRun(s) - 1])
         /\ \A k \in HeldRun(s)..Len(s) : Token(s[k])
  <1> DEFINE T == {j \in 1..(Len(s) + 1) : j = 1 \/ ~ Token(s[j - 1])}
  <1>1. T \subseteq 0..(Len(s) + 1) /\ 1 \in T /\ Len(s) + 1 \in Nat
    OBVIOUS
  <1>2. PICK j \in T : \A k \in T : k <= j
    <2> HIDE DEF T
    <2> QED BY <1>1, GreatestNat
  <1>3. \A k \in j..Len(s) : Token(s[k])
    <2> SUFFICES ASSUME NEW k \in j..Len(s), ~ Token(s[k]) PROVE FALSE
      OBVIOUS
    <2>1. k + 1 \in T /\ j <= k /\ j \in Nat /\ k \in Nat
      OBVIOUS
    <2> HIDE DEF T
    <2>2. k + 1 <= j
      BY <1>2, <2>1
    <2> QED BY <2>1, <2>2
  <1> QED BY <1>2, <1>3 DEF HeldRun

-----------------------------------------------------------------------------
\* What the regions of a text are.
LEMMA RegionShape ==
  ASSUME NEW s \in Seq(Units), NEW r \in RegionsOf(s)
  PROVE  /\ r = Region(r.start, r.end, r.open, r.rank)
         /\ r.start \in 1..Len(s) /\ r.end \in (r.start + 1)..(Len(s) + 1)
         /\ r.open \in BOOLEAN /\ r.rank \in 1..4
  <1>1. CASE r \in MarkerRegions(s)
    <2>1. PICK i \in DOMAIN s :
            /\ AtBoundary(s, i) /\ \E m \in Markers : At(s, i, m)
            /\ r = Region(i, RunEnd(s, i + 2), RunEnd(s, i + 2) = Len(s) + 1, 1)
      BY <1>1 DEF MarkerRegions
    <2>2. PICK m \in Markers : At(s, i, m)
      BY <2>1
    <2>m. Len(m) = 2
      BY RedactorAssumption
    <2>3. i \in 1..Len(s) /\ i + 2 \in 1..(Len(s) + 1)
      BY <2>2, <2>m DEF At
    <2>4. RunEnd(s, i + 2) \in (i + 2)..(Len(s) + 1)
      BY <2>3, RunEndExists
    <2> QED BY <2>1, <2>3, <2>4 DEF Region
  <1>2. CASE r \in ExactRegions(s)
    <2>1. PICK i \in DOMAIN s : At(s, i, Exact) /\ r = Region(i, i + Len(Exact), FALSE, 2)
      BY <1>2 DEF ExactRegions
    <2>2. Len(Exact) \in Nat \ {0}
      BY RedactorAssumption
    <2>3. i \in 1..Len(s) /\ i + Len(Exact) - 1 <= Len(s)
      BY <2>1 DEF At
    <2> QED BY <2>1, <2>2, <2>3 DEF Region
  <1>3. CASE r \in ExactTails(s)
    <2>1. PICK i \in DOMAIN s : r = Region(i, Len(s) + 1, TRUE, 3)
      BY <1>3 DEF ExactTails
    <2> QED BY <2>1 DEF Region
  <1>4. CASE r \in MarkerTails(s)
    <2>1. PICK i \in DOMAIN s : r = Region(i, Len(s) + 1, TRUE, 4)
      BY <1>4 DEF MarkerTails
    <2> QED BY <2>1 DEF Region
  <1> QED BY <1>1, <1>2, <1>3, <1>4 DEF RegionsOf

\* A text with regions has an earliest one: ranks tell apart those that start together.
LEMMA EarliestExists ==
  ASSUME NEW s \in Seq(Units), RegionsOf(s) # {}
  PROVE  /\ Earliest(s) \in RegionsOf(s)
         /\ \A q \in RegionsOf(s) : Earliest(s).start <= q.start
         /\ \A q \in RegionsOf(s) : q.start = Earliest(s).start => Earliest(s).rank <= q.rank
  <1> DEFINE T == {q.start : q \in RegionsOf(s)}
             Before(r, q) == r.start < q.start \/ (r.start = q.start /\ r.rank <= q.rank)
  <1>1. \A q \in RegionsOf(s) : q.start \in Nat /\ q.rank \in Nat
    BY RegionShape
  <1>2. PICK a \in T : \A k \in T : a <= k
    <2>1. T \subseteq Nat /\ T # {}
      BY <1>1
    <2> HIDE DEF T
    <2> QED BY <2>1, LeastNat
  <1> DEFINE R == {q.rank : q \in {q \in RegionsOf(s) : q.start = a}}
  <1>3. PICK b \in R : \A k \in R : b <= k
    <2>1. R \subseteq Nat /\ R # {}
      BY <1>1, <1>2
    <2> HIDE DEF R
    <2> QED BY <2>1, LeastNat
  <1>4. PICK r \in RegionsOf(s) : r.start = a /\ r.rank = b
    BY <1>3
  <1>5. ASSUME NEW q \in RegionsOf(s)
        PROVE  Before(r, q)
    <2>1. a <= q.start /\ (q.start = a => b <= q.rank)
      BY <1>2, <1>3
    <2> QED BY <1>1, <1>4, <2>1
  <1> DEFINE e == CHOOSE x \in RegionsOf(s) : \A q \in RegionsOf(s) : Before(x, q)
  <1>6. e \in RegionsOf(s) /\ \A q \in RegionsOf(s) : Before(e, q)
    BY <1>4, <1>5
  <1>7. e = Earliest(s)
    BY DEF Earliest
  <1> HIDE DEF e
  <1> QED BY <1>1, <1>6, <1>7

-----------------------------------------------------------------------------
\* There is a function that sums up the characters of a text.
LEMMA SizeLoop ==
  ASSUME NEW s \in Seq(Units)
  PROVE  \E u : u = [n \in 0..Len(s) |-> IF n = 0 THEN 0 ELSE u[n - 1] + Chars[s[n]]]
  <1> DEFINE Sums(u, m) ==
        u = [n \in 0..m |-> IF n = 0 THEN 0 ELSE u[n - 1] + Chars[s[n]]]
             T == {m \in 0..Len(s) : ~ \E u : Sums(u, m)}
  <1>1. T = {}
    <2> SUFFICES ASSUME T # {} PROVE FALSE
      OBVIOUS
    <2>0. T \subseteq Nat
      OBVIOUS
    <2>1. PICK m \in T : \A k \in T : m <= k
      <3> HIDE DEF T
      <3> QED BY <2>0, LeastNat
    <2>2. CASE m = 0
      <3> DEFINE u == [n \in 0..0 |-> 0]
      <3>1. Sums(u, 0)
        OBVIOUS
      <3> QED BY <2>1, <2>2, <3>1
    <2>3. CASE m # 0
      <3>1. m - 1 \in 0..Len(s) /\ m - 1 \notin T
        BY <2>1, <2>3
      <3>2. PICK u : Sums(u, m - 1)
        BY <3>1
      <3> DEFINE w == [n \in 0..m |-> IF n < m THEN u[n] ELSE u[m - 1] + Chars[s[m]]]
      <3>3. ASSUME NEW n \in 0..m
            PROVE  w[n] = IF n = 0 THEN 0 ELSE w[n - 1] + Chars[s[n]]
        <4>1. CASE n < m
          <5>1. n \in 0..(m - 1) /\ w[n] = u[n]
            BY <4>1, <3>1
          <5>2. u[n] = IF n = 0 THEN 0 ELSE u[n - 1] + Chars[s[n]]
            BY <3>2, <5>1
          <5>3. n # 0 => n - 1 \in 0..m /\ n - 1 < m /\ w[n - 1] = u[n - 1]
            BY <4>1
          <5> QED BY <5>1, <5>2, <5>3
        <4>2. CASE n = m
          BY <2>3, <4>2
        <4> QED BY <4>1, <4>2
      <3>4. Sums(w, m)
        BY <3>3
      <3> QED BY <2>1, <3>4
    <2> QED BY <2>2, <2>3
  <1>2. Len(s) \in 0..Len(s)
    OBVIOUS
  <1> QED BY <1>1, <1>2

\* The sums of the characters of s, of which Size(s) is the last.
LEMMA SizeSums ==
  ASSUME NEW s \in Seq(Units)
  PROVE  \E u : /\ u \in [0..Len(s) -> Nat] /\ u[0] = 0 /\ Size(s) = u[Len(s)]
                /\ \A n \in 1..Len(s) : u[n] = u[n - 1] + Chars[s[n]]
  <1> DEFINE P(u) == u = [n \in 0..Len(s) |-> IF n = 0 THEN 0 ELSE u[n - 1] + Chars[s[n]]]
             c == CHOOSE u : P(u)
  <1>1. P(c)
    BY SizeLoop
  <1>2. Size(s) = c[Len(s)]
    BY DEF Size
  <1> HIDE DEF c
  <1>3. /\ DOMAIN c = 0..Len(s) /\ c[0] = 0
        /\ \A n \in 1..Len(s) : c[n] = c[n - 1] + Chars[s[n]]
    BY <1>1
  <1>4. \A n \in 0..Len(s) : c[n] \in Nat
    <2> DEFINE T == {n \in 0..Len(s) : c[n] \notin Nat}
    <2> SUFFICES ASSUME T # {} PROVE FALSE
      OBVIOUS
    <2>1. PICK m \in T : \A k \in T : m <= k
      <3>1. T \subseteq Nat
        OBVIOUS
      <3> HIDE DEF T
      <3> QED BY <3>1, LeastNat
    <2>2. m \in 1..Len(s) /\ m - 1 \in 0..Len(s) /\ m - 1 \notin T
      BY <1>3, <2>1
    <2>3. s[m] \in Units
      BY <2>2
    <2>4. Chars[s[m]] \in Nat
      BY <2>3, CharsNat
    <2> QED BY <1>3, <2>1, <2>2, <2>4
  <1>5. c = [n \in 0..Len(s) |-> c[n]]
    BY <1>1
  <1>6. c \in [0..Len(s) -> Nat]
    BY <1>4, <1>5
  <1> QED BY <1>2, <1>3, <1>6

\* The size of a text is a number.
LEMMA SizeNat ==
  ASSUME NEW s \in Seq(Units)
  PROVE  Size(s) \in Nat
  BY SizeSums

\* A text without units has no characters.
LEMMA SizeEmpty == Size(<<>>) = 0
  <1>1. <<>> \in Seq(Units) /\ Len(<<>>) = 0
    OBVIOUS
  <1> QED BY <1>1, SizeSums

\* A longer beginning of a text has no fewer characters.
LEMMA SizeMonotone ==
  ASSUME NEW p \in Seq(Units), NEW n \in 0..Len(p), NEW m \in 0..n
  PROVE  Size(SubSeq(p, 1, m)) <= Size(SubSeq(p, 1, n))
  <1> DEFINE a == SubSeq(p, 1, m)
             b == SubSeq(p, 1, n)
  <1>1. /\ a \in Seq(Units) /\ Len(a) = m /\ \A k \in 1..m : a[k] = p[k]
        /\ b \in Seq(Units) /\ Len(b) = n /\ \A k \in 1..n : b[k] = p[k]
    OBVIOUS
  <1> HIDE DEF a, b
  <1>a. PICK u : /\ u \in [0..Len(a) -> Nat] /\ u[0] = 0 /\ Size(a) = u[Len(a)]
                 /\ \A k \in 1..Len(a) : u[k] = u[k - 1] + Chars[a[k]]
    BY <1>1, SizeSums
  <1>b. PICK v : /\ v \in [0..Len(b) -> Nat] /\ v[0] = 0 /\ Size(b) = v[Len(b)]
                 /\ \A k \in 1..Len(b) : v[k] = v[k - 1] + Chars[b[k]]
    BY <1>1, SizeSums
  <1>2. /\ u \in [0..m -> Nat] /\ u[0] = 0 /\ Size(a) = u[m]
        /\ \A k \in 1..m : u[k] = u[k - 1] + Chars[a[k]]
    BY <1>1, <1>a
  <1>3. /\ v \in [0..n -> Nat] /\ v[0] = 0 /\ Size(b) = v[n]
        /\ \A k \in 1..n : v[k] = v[k - 1] + Chars[b[k]]
    BY <1>1, <1>b
  <1> DEFINE T == {k \in 0..n : IF k <= m THEN u[k] # v[k] ELSE v[k] < v[m]}
  <1>4. T = {}
    <2> SUFFICES ASSUME T # {} PROVE FALSE
      OBVIOUS
    <2>1. PICK k \in T : \A j \in T : k <= j
      <3>1. T \subseteq Nat
        OBVIOUS
      <3> HIDE DEF T
      <3> QED BY <3>1, LeastNat
    <2>2. k \in 1..n /\ k - 1 \in 0..n /\ k - 1 \notin T
      BY <1>2, <1>3, <2>1
    <2>3. CASE k <= m
      <3>1. u[k - 1] = v[k - 1]
        BY <2>2, <2>3
      <3>2. a[k] = p[k] /\ b[k] = p[k]
        BY <1>1, <2>2, <2>3
      <3>3. u[k] = u[k - 1] + Chars[a[k]] /\ v[k] = v[k - 1] + Chars[b[k]]
        BY <1>2, <1>3, <2>2, <2>3
      <3>4. u[k] # v[k]
        BY <2>1, <2>3
      <3> QED BY <3>1, <3>2, <3>3, <3>4
    <2>4. CASE k > m
      <3>0. v[k - 1] \in Nat /\ v[m] \in Nat
        BY <1>3, <2>2
      <3>1. v[k - 1] >= v[m]
        <4>1. CASE k - 1 = m
          BY <3>0, <4>1
        <4>2. CASE k - 1 # m
          BY <2>2, <2>4, <3>0, <4>2
        <4> QED BY <4>1, <4>2
      <3>2. v[k] = v[k - 1] + Chars[b[k]] /\ v[k] \in Nat /\ v[k - 1] \in Nat /\ v[m] \in Nat
        BY <1>3, <2>2
      <3>3. b[k] \in Units
        BY <1>1, <2>2
      <3>4. Chars[b[k]] \in Nat
        BY <3>3, CharsNat
      <3> QED BY <2>1, <2>4, <3>1, <3>2, <3>4
    <2> QED BY <2>2, <2>3, <2>4
  <1>5. u[m] = v[m] /\ v[n] >= v[m]
    <2>1. m \notin T /\ n \notin T /\ m \in 0..n /\ n \in 0..n
      BY <1>4
    <2>2. v[m] \in Nat /\ v[n] \in Nat
      BY <1>3, <2>1
    <2>3. u[m] = v[m]
      BY <2>1
    <2>4. n # m => ~ (v[n] < v[m])
      BY <2>1
    <2> QED BY <2>2, <2>3, <2>4
  <1> QED BY <1>2, <1>3, <1>5 DEF a, b

-----------------------------------------------------------------------------
\* Where no region is, nothing of a secret is.
LEMMA NothingBefore ==
  ASSUME NEW s \in Seq(Units), NEW c \in 1..(Len(s) + 1), \A q \in RegionsOf(s) : c <= q.start
  PROVE  /\ Bare(s, c)
         /\ \A i \in 1..(c - 1) :
              /\ ~ (IsStrictPrefix(From(s, i), Exact) /\ Size(From(s, i)) >= 4)
              /\ AtBoundary(s, i) => \A m \in Markers : ~ IsStrictPrefix(From(s, i), m)
  <1> SUFFICES ASSUME NEW i \in 1..(c - 1)
               PROVE  /\ ~ At(s, i, Exact)
                      /\ AtBoundary(s, i) => \A m \in Markers : ~ At(s, i, m)
                      /\ ~ (IsStrictPrefix(From(s, i), Exact) /\ Size(From(s, i)) >= 4)
                      /\ AtBoundary(s, i) => \A m \in Markers : ~ IsStrictPrefix(From(s, i), m)
    BY DEF Bare
  <1>1. i \in DOMAIN s /\ i < c
    OBVIOUS
  <1>2. ASSUME At(s, i, Exact) PROVE FALSE
    <2>1. Region(i, i + Len(Exact), FALSE, 2) \in RegionsOf(s)
      BY <1>1, <1>2 DEF ExactRegions, RegionsOf
    <2> QED BY <1>1, <2>1 DEF Region
  <1>3. ASSUME AtBoundary(s, i), NEW m \in Markers, At(s, i, m) PROVE FALSE
    <2>1. Region(i, RunEnd(s, i + 2), RunEnd(s, i + 2) = Len(s) + 1, 1) \in RegionsOf(s)
      BY <1>1, <1>3 DEF MarkerRegions, RegionsOf
    <2> QED BY <1>1, <2>1 DEF Region
  <1>4. ASSUME IsStrictPrefix(From(s, i), Exact), Size(From(s, i)) >= 4 PROVE FALSE
    <2>1. Region(i, Len(s) + 1, TRUE, 3) \in RegionsOf(s)
      BY <1>1, <1>4 DEF ExactTails, RegionsOf
    <2> QED BY <1>1, <2>1 DEF Region
  <1>5. ASSUME AtBoundary(s, i), NEW m \in Markers, IsStrictPrefix(From(s, i), m) PROVE FALSE
    <2>1. Region(i, Len(s) + 1, TRUE, 4) \in RegionsOf(s)
      BY <1>1, <1>5 DEF MarkerTails, RegionsOf
    <2> QED BY <1>1, <2>1 DEF Region
  <1> QED BY <1>2, <1>3, <1>4, <1>5

\* An open region begins a token, or is the beginning of the exact secret.
LEMMA OpenRegion ==
  ASSUME NEW s \in Seq(Units), NEW r \in RegionsOf(s), r.open
  PROVE  \/ r.start = 1 \/ ~ Token(s[r.start - 1])
         \/ IsStrictPrefix(From(s, r.start), Exact) /\ Size(From(s, r.start)) >= 4
  BY DEF RegionsOf, MarkerRegions, ExactRegions, ExactTails, MarkerTails, Region, AtBoundary

\* What is let go in front of a run or region that is held cannot become a secret.
LEMMA HeldBack ==
  ASSUME NEW s \in Seq(Units), NEW c \in 1..(Len(s) + 1), \A q \in RegionsOf(s) : c <= q.start,
         \/ c = 1 \/ ~ Token(s[c - 1])
         \/ IsStrictPrefix(From(s, c), Exact) /\ Size(From(s, c)) >= 4
  PROVE  \A i \in 1..(c - 1) : Clear(s, i)
  <1> SUFFICES ASSUME NEW i \in 1..(c - 1), Keepable
               PROVE  Clear(s, i)
    BY DEF Clear
  <1>1. i \in 1..Len(s) /\ s \in Seq(Shown)
    BY DEF Shown
  <1>2. ASSUME MayStand(s, i, Exact)
        PROVE  FALSE
    <2>1. i + Len(Exact) - 1 > Len(s)
      <3>1. ~ At(s, i, Exact)
        BY NothingBefore DEF Bare
      <3> QED BY <1>1, <1>2, <3>1, MayStandAt, RedactorAssumption
    <2> DEFINE n == Len(s) - i + 1
    <2>2. /\ IsStrictPrefix(From(s, i), Exact) /\ From(s, i) = SubSeq(Exact, 1, n)
          /\ n \in 1..(Len(Exact) - 1)
      <3>1. Exact \in Seq(Units) /\ Len(Exact) \in Nat /\ Len(s) \in Nat
        BY RedactorAssumption
      <3>2. IsStrictPrefix(From(s, i), Exact) /\ From(s, i) = SubSeq(Exact, 1, n)
        BY <1>1, <1>2, <2>1, <3>1, MayStandTail
      <3>3. n \in 1..(Len(Exact) - 1)
        BY <1>1, <2>1, <3>1
      <3> QED BY <3>2, <3>3
    <2>3. ASSUME NEW k \in 1..n, Size(SubSeq(Exact, 1, k)) >= 4
          PROVE  FALSE
      <3>0. Exact \in Seq(Units) /\ n \in 0..Len(Exact) /\ k \in 0..n
        BY <2>2, <2>3, RedactorAssumption, SMTT(30)
      <3> HIDE DEF n
      <3>1. Size(SubSeq(Exact, 1, k)) <= Size(SubSeq(Exact, 1, n))
        BY <3>0, SizeMonotone
      <3>2. SubSeq(Exact, 1, k) \in Seq(Units) /\ SubSeq(Exact, 1, n) \in Seq(Units)
        BY <3>0
      <3>3. Size(SubSeq(Exact, 1, n)) >= 4
        <4>1. Size(SubSeq(Exact, 1, k)) \in Nat /\ Size(SubSeq(Exact, 1, n)) \in Nat
          BY <3>2, SizeNat
        <4> QED BY <2>3, <3>1, <4>1
      <3> QED BY <2>2, <3>3, NothingBefore
    <2>4. CASE c # 1 /\ ~ Token(s[c - 1])
      <3> DEFINE k == c - i
      <3>1. k \in 1..n /\ k \in 1..Len(Exact) /\ i + k - 1 = c - 1 /\ c - 1 <= Len(s)
        BY <2>2, <2>4
      <3>2. Exact[k] = s[c - 1]
        BY <1>2, <3>1 DEF MayStand
      <3>3. Exact[k] \in Delimiters
        BY <2>4, <3>2 DEF Token
      <3>4. k \in 1..(Len(Exact) - 1)
        BY <2>2, <3>1
      <3> HIDE DEF k
      <3>5. Size(SubSeq(Exact, 1, k)) >= 4
        BY <3>3, <3>4 DEF Keepable
      <3> QED BY <2>3, <3>1, <3>5
    <2>5. CASE IsStrictPrefix(From(s, c), Exact) /\ Size(From(s, c)) >= 4
      <3> DEFINE k == Len(From(s, c))
      <3>1. From(s, c) \in Seq(Units) /\ k = Len(s) - c + 1
        BY DEF From
      <3>2. From(s, c) # <<>>
        BY <2>5, SizeEmpty
      <3>3. k \in 1..n /\ k <= Len(Exact)
        BY <2>2, <3>1, <3>2
      <3>4. From(s, c) = SubSeq(Exact, 1, k)
        <4>1. SubSeq(From(s, c), 1, k) = From(s, c)
          BY <3>1, SubSeqFull
        <4> QED BY <2>5, <4>1 DEF IsStrictPrefix, IsPrefix
      <3> QED BY <2>3, <2>5, <3>3, <3>4
    <2> QED BY <2>4, <2>5
  <1>3. ASSUME AtBoundary(s, i), NEW m \in Markers, MayStand(s, i, m)
        PROVE  FALSE
    <2>1. m \in Seq(Units)
      BY RedactorAssumption
    <2>2. ~ At(s, i, m) /\ ~ IsStrictPrefix(From(s, i), m)
      BY <1>3, NothingBefore DEF Bare
    <2>3. CASE i + Len(m) - 1 <= Len(s)
      BY <1>1, <1>3, <2>1, <2>2, <2>3, MayStandAt
    <2>4. CASE i + Len(m) - 1 > Len(s)
      BY <1>1, <1>3, <2>1, <2>2, <2>4, MayStandTail
    <2> QED BY <2>1, <2>3, <2>4
  <1> QED BY <1>2, <1>3 DEF Clear

\* What stands in a text some of whose units are replaced stands in the text.
LEMMA AtVeiled ==
  ASSUME NEW v, NEW u, Veils(v, u), NEW p \in Seq(Units), NEW i \in 1..Len(v), At(v, i, p)
  PROVE  At(u, i, p)
  <1> DEFINE l == Len(p)
             a == SubSeq(u, i, i + l - 1)
  <1>1. v \in Seq(Shown) /\ u \in Seq(Shown) /\ Len(v) = Len(u) /\ Len(u) \in Nat /\ l \in Nat
    BY DEF Veils
  <1>2. i + l - 1 <= Len(u) /\ SubSeq(v, i, i + l - 1) = p
    BY <1>1 DEF At
  <1>3. ASSUME NEW k \in 1..l
        PROVE  u[i + k - 1] = p[k]
    <2>1. i + k - 1 \in 1..Len(u)
      BY <1>1, <1>2
    <2>2. SubSeq(v, i, i + l - 1)[k] = v[i + k - 1]
      BY <1>1, <1>2
    <2>3. v[i + k - 1] = p[k]
      BY <1>2, <2>2
    <2>4. p[k] # Redacted
      <3>1. p[k] \in Units
        OBVIOUS
      <3> QED BY <3>1, RedactorAssumption
    <2> QED BY <2>1, <2>3, <2>4 DEF Veils
  <1>4. a \in Seq(Shown) /\ Len(a) = l /\ \A k \in 1..l : a[k] = u[i + k - 1]
    BY <1>1, <1>2
  <1>p. p \in Seq(Shown)
    BY DEF Shown
  <1> HIDE DEF a
  <1>5. a = p
    BY <1>p, <1>3, <1>4, SeqEqual
  <1> QED BY <1>2, <1>5 DEF At, a

\* redactText replaces units of a text.
LEMMA RedactTextVeils ==
  ASSUME NEW s \in Seq(Units)
  PROVE  Veils(RedactText(s), s)
  <1>1. /\ s \in Seq(Shown) /\ DOMAIN s = 1..Len(s) /\ Len(s) \in Nat
        /\ \A i \in 1..Len(s) : s[i] \in Shown
    BY DEF Shown
  <1> DEFINE v == RedactText(s)
  <1>2. v \in [1..Len(s) -> Shown]
    BY <1>1 DEF RedactText, Shown
  <1>3. \A i \in 1..Len(s) : v[i] = s[i] \/ v[i] = Redacted
    BY <1>1 DEF RedactText
  <1> HIDE DEF v
  <1>4. v \in Seq(Shown) /\ Len(v) = Len(s)
    BY <1>1, <1>2
  <1> QED BY <1>1, <1>3, <1>4 DEF Veils, v

\* A text without the exact secret goes through as it is, but for what redactText replaces.
LEMMA RedactFinalVeils ==
  ASSUME NEW s \in Seq(Units), \A i \in 1..Len(s) : ~ At(s, i, Exact)
  PROVE  Veils(RedactFinal(s), s)
  <1> DEFINE v == RedactText(s)
  <1>v. Veils(v, s)
    BY RedactTextVeils
  <1> HIDE DEF v
  <1>e. v \in Seq(Shown) /\ Len(v) = Len(s) /\ Len(v) \in Nat /\ Exact \in Seq(Units) /\ Exact # <<>>
    BY <1>v, RedactorAssumption DEF Veils
  <1>0. ASSUME NEW i \in 1..Len(v), At(v, i, Exact)
        PROVE  FALSE
    BY <1>v, <1>0, <1>e, AtVeiled
  <1>1. <<Redacted>> # Exact
    BY RedactorAssumption
  <1>2. Exact # v
    <2> SUFFICES ASSUME Exact = v PROVE FALSE
      OBVIOUS
    <2>1. 1 \in 1..Len(v) /\ SubSeq(v, 1, Len(v)) = v
      BY <1>e
    <2> QED BY <1>0, <2>1 DEF At
  <1>3. Exact \notin SubSeqs(v)
    <2> SUFFICES ASSUME NEW i \in 0..Len(v), NEW j \in 0..Len(v), Exact = SubSeq(v, i + 1, j)
                 PROVE  FALSE
      BY DEF SubSeqs
    <2>1. i + 1 <= j
      BY <1>e
    <2>2. Len(Exact) = j - i
      BY <1>e, <2>1
    <2>3. At(v, i + 1, Exact)
      BY <2>1, <2>2 DEF At
    <2> QED BY <1>0, <1>e, <2>1, <2>3
  <1>4. Len(Exact) # 0
    BY RedactorAssumption
  <1>5. RedactFinal(s) = v
    BY <1>1, <1>2, <1>3, <1>4 DEF RedactFinal, ReplaceAllSubSeqs, v
  <1> QED BY <1>v, <1>5

-----------------------------------------------------------------------------
\* A text cut at c is put together again from both parts.
LEMMA UptoFrom ==
  ASSUME NEW t \in Seq(Units), NEW c \in 1..(Len(t) + 1)
  PROVE  /\ Upto(t, c) \in Seq(Units) /\ Len(Upto(t, c)) = c - 1
         /\ \A k \in 1..(c - 1) : Upto(t, c)[k] = t[k]
         /\ From(t, c) \in Seq(Units) /\ Len(From(t, c)) = Len(t) + 1 - c
         /\ \A k \in 1..(Len(t) + 1 - c) : From(t, c)[k] = t[c + k - 1]
         /\ Upto(t, c) \o From(t, c) = t
  <1> DEFINE a == Upto(t, c)
             b == From(t, c)
  <1>1. /\ a \in Seq(Units) /\ Len(a) = c - 1 /\ \A k \in 1..(c - 1) : a[k] = t[k]
        /\ b \in Seq(Units) /\ Len(b) = Len(t) + 1 - c
        /\ \A k \in 1..(Len(t) + 1 - c) : b[k] = t[c + k - 1]
    BY DEF Upto, From
  <1> HIDE DEF a, b
  <1>2. a \o b \in Seq(Units) /\ Len(a \o b) = Len(t)
    BY <1>1
  <1>3. ASSUME NEW k \in 1..Len(t)
        PROVE  (a \o b)[k] = t[k]
    <2>1. CASE k <= c - 1
      BY <1>1, <2>1
    <2>2. CASE k > c - 1
      <3>1. k - (c - 1) \in 1..(Len(t) + 1 - c) /\ c + (k - (c - 1)) - 1 = k
        BY <2>2
      <3>2. (a \o b)[k] = b[k - (c - 1)]
        BY <1>1, <2>2
      <3> QED BY <1>1, <3>1, <3>2
    <2> QED BY <2>1, <2>2, <1>1
  <1>4. a \o b = t
    BY <1>2, <1>3, SeqEqual
  <1> QED BY <1>1, <1>4 DEF a, b

\* What can begin in t can begin there by itself.
LEMMA ClearBehind ==
  ASSUME NEW o \in Seq(Shown), NEW t \in Seq(Units), NEW i \in 1..Len(t), Clear(t, i)
  PROVE  Clear(o \o t, Len(o) + i)
  <1> DEFINE u == o \o t
             j == Len(o) + i
  <1>1. /\ Len(u) = Len(o) + Len(t) /\ \A k \in 1..Len(t) : u[Len(o) + k] = t[k]
        /\ j \in Nat
    OBVIOUS
  <1>2. ASSUME NEW p \in Seq(Units), MayStand(u, j, p)
        PROVE  MayStand(t, i, p)
    <2> SUFFICES ASSUME NEW k \in 1..Len(p), i + k - 1 <= Len(t)
                 PROVE  t[i + k - 1] = p[k]
      BY DEF MayStand
    <2>1. i + k - 1 \in 1..Len(t) /\ j + k - 1 = Len(o) + (i + k - 1) /\ j + k - 1 <= Len(u)
      BY <1>1
    <2>2. u[j + k - 1] = p[k]
      BY <1>2, <2>1 DEF MayStand
    <2> QED BY <1>1, <2>1, <2>2
  <1>3. ASSUME AtBoundary(u, j)
        PROVE  AtBoundary(t, i)
    <2>1. CASE i = 1
      BY <2>1 DEF AtBoundary
    <2>2. CASE i # 1
      <3>1. i - 1 \in 1..Len(t) /\ Len(o) + (i - 1) = j - 1 /\ j # 1
        BY <2>2
      <3> QED BY <3>1, <1>1, <1>3 DEF AtBoundary
    <2> QED BY <2>1, <2>2
  <1>4. Exact \in Seq(Units) /\ \A m \in Markers : m \in Seq(Units)
    BY RedactorAssumption
  <1> HIDE DEF u, j
  <1>5. Clear(u, j)
    BY <1>2, <1>3, <1>4 DEF Clear
  <1> QED BY <1>5 DEF u, j

\* Text in which no secret begins, however it goes on, may be released.
LEMMA SafeReleased ==
  ASSUME NEW o \in Seq(Shown), NEW t \in Seq(Units), NEW c \in 1..(Len(t) + 1), Safe(o, t),
         \A i \in 1..(c - 1) : Clear(t, i)
  PROVE  Safe(o \o Upto(t, c), From(t, c))
  <1> DEFINE a == Upto(t, c)
             b == From(t, c)
  <1>0. a \in Seq(Units) /\ Len(a) = c - 1 /\ b \in Seq(Units) /\ a \o b = t
    BY UptoFrom
  <1>1. a \in Seq(Shown) /\ b \in Seq(Shown)
    <2> HIDE DEF a, b
    <2> QED BY <1>0 DEF Shown
  <1> HIDE DEF a, b
  <1>2. (o \o a) \o b = o \o t /\ Len(o \o a) = Len(o) + (c - 1)
    <2>1. (o \o a) \o b = o \o (a \o b)
      BY <1>1, ConcatAssociative, SMTT(30)
    <2>2. (o \o a) \o b = o \o t
      BY <1>0, <2>1, Zenon
    <2>3. Len(o \o a) = Len(o) + Len(a)
      BY <1>1
    <2> QED BY <1>0, <2>2, <2>3
  <1>3. ASSUME NEW i \in 1..(Len(o) + (c - 1))
        PROVE  Clear(o \o t, i)
    <2>1. CASE i <= Len(o)
      BY <2>1 DEF Safe
    <2>2. CASE i > Len(o)
      <3>1. i - Len(o) \in 1..(c - 1) /\ i - Len(o) \in 1..Len(t) /\ Len(o) + (i - Len(o)) = i
        BY <2>2
      <3>2. Clear(o \o t, Len(o) + (i - Len(o)))
        BY <3>1, ClearBehind
      <3> QED BY <3>1, <3>2
    <2> QED BY <2>1, <2>2
  <1>4. Safe(o \o a, b)
    BY <1>2, <1>3 DEF Safe
  <1> QED BY <1>4 DEF a, b

\* A text with no secret in it can be let go whole at the end.
LEMMA SafeEnd ==
  ASSUME NEW o \in Seq(Shown), NEW t \in Seq(Units), Safe(o, t), Bare(t, Len(t) + 1), Keepable,
         NEW i \in 1..Len(o \o t)
  PROVE  /\ ~ At(o \o t, i, Exact)
         /\ AtBoundary(o \o t, i) => \A m \in Markers : ~ At(o \o t, i, m)
  <1> DEFINE u == o \o t
  <1>1. /\ u \in Seq(Shown) /\ Len(u) = Len(o) + Len(t)
        /\ \A k \in 1..Len(t) : u[Len(o) + k] = t[k]
    BY DEF Shown
  <1>2. CASE i <= Len(o)
    <2>1. Clear(u, i)
      BY <1>2 DEF Safe
    <2> HIDE DEF u
    <2> QED BY <1>1, <1>2, <2>1, AtMayStand, RedactorAssumption DEF Clear, u
  <1>3. CASE i > Len(o)
    <2> DEFINE j == i - Len(o)
    <2>1. j \in 1..Len(t) /\ i = Len(o) + j /\ j \in 1..((Len(t) + 1) - 1)
      BY <1>1, <1>3
    <2>2. ASSUME NEW p \in Seq(Units), At(u, i, p)
          PROVE  At(t, j, p)
      <3>1. MayStand(u, i, p) /\ i + Len(p) - 1 <= Len(u)
        BY <1>1, <2>2, AtMayStand DEF At
      <3>2. j + Len(p) - 1 <= Len(t)
        BY <1>1, <2>1, <3>1
      <3>3. ASSUME NEW k \in 1..Len(p)
            PROVE  t[j + k - 1] = p[k]
        <4>1. j + k - 1 \in 1..Len(t) /\ Len(o) + (j + k - 1) = i + k - 1 /\ i + k - 1 <= Len(u)
          BY <1>1, <2>1, <3>2
        <4>2. u[i + k - 1] = p[k]
          BY <3>1, <4>1 DEF MayStand
        <4> QED BY <1>1, <4>1, <4>2
      <3>4. MayStand(t, j, p) /\ t \in Seq(Shown)
        BY <3>3 DEF MayStand, Shown
      <3> QED BY <2>1, <3>2, <3>4, MayStandAt
    <2>3. ASSUME AtBoundary(u, i)
          PROVE  AtBoundary(t, j)
      <3>1. CASE j = 1
        BY <3>1 DEF AtBoundary
      <3>2. CASE j # 1
        <4>1. j - 1 \in 1..Len(t) /\ Len(o) + (j - 1) = i - 1 /\ i # 1
          BY <2>1, <3>2
        <4> QED BY <4>1, <1>1, <2>3 DEF AtBoundary
      <3> QED BY <3>1, <3>2
    <2>4. Exact \in Seq(Units) /\ \A m \in Markers : m \in Seq(Units)
      BY RedactorAssumption
    <2>5. /\ ~ At(t, j, Exact)
          /\ AtBoundary(t, j) => \A m \in Markers : ~ At(t, j, m)
      BY <2>1 DEF Bare
    <2> HIDE DEF u, j
    <2>6. /\ ~ At(u, i, Exact)
          /\ AtBoundary(u, i) => \A m \in Markers : ~ At(u, i, m)
      BY <2>2, <2>3, <2>4, <2>5
    <2> QED BY <2>6 DEF u
  <1> QED BY <1>1, <1>2, <1>3

-----------------------------------------------------------------------------
(* The loops. *)

\* What is let go in front of a closed region, the region, and what becomes of the rest.
Behind(before, a) == [a EXCEPT !.out = before \o <<Redacted>> \o @]

\* The loop of feed without redactText: what it lets go before that is applied.
FeedRawFrom(s, i, rest) ==
  LET t == From(s, i)
      r == Earliest(t)
  IN  IF RegionsOf(t) = {} THEN Carry(Upto(t, HeldRun(t)), From(t, HeldRun(t)))
      ELSE IF r.open THEN Carry(Upto(t, r.start), From(t, r.start))
      ELSE Behind(Upto(t, r.start), rest[i + r.end - 1])

FeedRaw(s) == LET loop[i \in 1..(Len(s) + 1)] == FeedRawFrom(s, i, loop) IN loop[1]

\* The loop of flush likewise.
FlushRawFrom(s, i, rest) ==
  LET t == From(s, i)
      r == Earliest(t)
  IN  IF RegionsOf(t) = {} \/ Unconfirmed(r) THEN t
      ELSE IF r.open THEN Upto(t, r.start) \o <<Redacted>>
      ELSE Upto(t, r.start) \o <<Redacted>> \o rest[i + r.end - 1]

FlushRaw(s) == LET loop[i \in 1..(Len(s) + 1)] == FlushRawFrom(s, i, loop) IN loop[1]

Results ==
  { a \in [out : Seq(Shown), pending : Seq(Units), dropping : BOOLEAN] :
      Size(a.pending) <= MaxHold /\ (a.dropping => a.pending = <<>>) }

\* An empty carry is within its bound.
LEMMA EmptyCarry ==
  /\ Size(<<>>) <= MaxHold /\ <<>> \in Seq(Units) /\ <<>> \in Seq(Shown)
  /\ \A drop \in BOOLEAN : After(<<>>, <<>>, drop) \in Results
  <1>1. Size(<<>>) <= MaxHold /\ <<>> \in Seq(Units) /\ <<>> \in Seq(Shown)
    BY SizeEmpty, RedactorAssumption
  <1> QED BY <1>1 DEF After, Results

\* A carry is kept within its bound, or swallowed with a redaction in its place.
LEMMA CarryResult ==
  ASSUME NEW out \in Seq(Shown), NEW carry \in Seq(Units)
  PROVE  /\ Carry(out, carry) \in Results
         /\ \A o \in Seq(Shown) : Safe(o \o out, carry) =>
              Safe(o \o Carry(out, carry).out, Carry(out, carry).pending)
  <1>1. <<Redacted>> \in Seq(Shown) /\ <<>> \in Seq(Units)
    BY DEF Shown
  <1>2. CASE Size(carry) > MaxHold
    <2>1. Carry(out, carry) = After(out \o <<Redacted>>, <<>>, TRUE)
      BY <1>2 DEF Carry
    <2>2. Carry(out, carry) \in Results
      BY <1>1, <2>1, SizeEmpty, RedactorAssumption DEF After, Results
    <2>3. ASSUME NEW o \in Seq(Shown), Safe(o \o out, carry)
          PROVE  Safe(o \o (out \o <<Redacted>>), <<>>)
      <3>1. o \o out \in Seq(Shown) /\ 1 \in 1..(Len(carry) + 1) /\ Bare(carry, 1)
        BY DEF Bare
      <3>2. Safe((o \o out) \o Upto(carry, 1) \o <<Redacted>>, <<>>)
        BY <2>3, <3>1, SafeRedacted
      <3>3. Upto(carry, 1) = <<>>
        BY DEF Upto
      <3>4. (o \o out) \o <<>> = o \o out
        BY <3>1
      <3>5. (o \o out) \o <<Redacted>> = o \o (out \o <<Redacted>>)
        BY <1>1, ConcatAssociative
      <3> QED BY <3>2, <3>3, <3>4, <3>5, Zenon
    <2> QED BY <2>1, <2>2, <2>3 DEF After
  <1>3. CASE ~ (Size(carry) > MaxHold)
    <2>1. Carry(out, carry) = After(out, carry, FALSE)
      BY <1>3 DEF Carry
    <2>2. Size(carry) <= MaxHold
      BY <1>3, SizeNat, RedactorAssumption
    <2> QED BY <2>1, <2>2 DEF After, Results
  <1> QED BY <1>2, <1>3

\* What an iteration finds in front of it.
LEMMA Iteration ==
  ASSUME NEW s \in Seq(Units), NEW i \in 1..(Len(s) + 1)
  PROVE  LET t == From(s, i)
             r == Earliest(t)
             h == HeldRun(t)
         IN  /\ t \in Seq(Units)
             /\ RegionsOf(t) = {} =>
                  /\ h \in 1..(Len(t) + 1) /\ Veils(RedactFinal(Upto(t, h)), Upto(t, h))
                  /\ \A k \in 1..(h - 1) : Clear(t, k)
                  /\ Veils(RedactFinal(t), t) /\ Bare(t, Len(t) + 1)
             /\ RegionsOf(t) # {} =>
                  /\ r \in RegionsOf(t) /\ r.start \in 1..Len(t) /\ r.open \in BOOLEAN
                  /\ i + r.end - 1 \in (i + 1)..(Len(s) + 1)
                  /\ From(s, i + r.end - 1) = From(t, r.end)
                  /\ r.end \in (r.start + 1)..(Len(t) + 1)
                  /\ Veils(RedactFinal(Upto(t, r.start)), Upto(t, r.start))
                  /\ Bare(t, r.start)
                  /\ r.open => \A k \in 1..(r.start - 1) : Clear(t, k)
  <1> DEFINE t == From(s, i)
             r == Earliest(t)
             h == HeldRun(t)
  <1>1. t \in Seq(Units) /\ Len(t) = Len(s) + 1 - i
    BY UptoFrom
  <1>2. ASSUME NEW c \in 1..(Len(t) + 1), Bare(t, c)
        PROVE  Veils(RedactFinal(Upto(t, c)), Upto(t, c))
    <2> DEFINE b == Upto(t, c)
    <2>1. b \in Seq(Units) /\ Len(b) = c - 1
      BY <1>1, UptoFrom
    <2>2. ASSUME NEW k \in 1..Len(b)
          PROVE  ~ At(b, k, Exact)
      <3>1. k \in 1..(c - 1)
        BY <2>1
      <3>2. ASSUME At(b, k, Exact)
            PROVE  At(t, k, Exact)
        <4>0. Exact \in Seq(Units) /\ Len(Exact) \in Nat
          BY RedactorAssumption
        <4>1. k + Len(Exact) - 1 <= c - 1 /\ SubSeq(b, k, k + Len(Exact) - 1) = Exact
          BY <2>1, <3>2 DEF At
        <4>2. SubSeq(SubSeq(t, 1, c - 1), k, k + Len(Exact) - 1) = SubSeq(t, k, k + Len(Exact) - 1)
          BY <1>1, <4>0, <4>1, <3>1
        <4> QED BY <1>1, <4>0, <4>1, <4>2 DEF At, Upto
      <3> QED BY <1>2, <3>1, <3>2 DEF Bare
    <2> HIDE DEF b
    <2>3. Veils(RedactFinal(b), b)
      BY <2>1, <2>2, RedactFinalVeils
    <2> QED BY <2>3 DEF b
  <1>3. ASSUME RegionsOf(t) = {}
        PROVE  /\ h \in 1..(Len(t) + 1) /\ Veils(RedactFinal(Upto(t, h)), Upto(t, h))
               /\ \A k \in 1..(h - 1) : Clear(t, k)
               /\ Veils(RedactFinal(t), t) /\ Bare(t, Len(t) + 1)
    <2> HIDE DEF t
    <2>1. h \in 1..(Len(t) + 1) /\ (h = 1 \/ ~ Token(t[h - 1]))
      BY <1>1, HeldRunExists
    <2> HIDE DEF h
    <2>2. Bare(t, h) /\ \A k \in 1..(h - 1) : Clear(t, k)
      BY <1>1, <1>3, <2>1, NothingBefore, HeldBack
    <2>3. Len(t) + 1 \in 1..(Len(t) + 1)
      BY <1>1
    <2>4. Bare(t, Len(t) + 1)
      BY <1>1, <1>3, <2>3, NothingBefore
    <2>5. Veils(RedactFinal(t), t)
      BY <1>1, <2>4, RedactFinalVeils DEF Bare
    <2> QED BY <1>2, <2>1, <2>2, <2>4, <2>5
  <1>4. ASSUME RegionsOf(t) # {}
        PROVE  /\ r \in RegionsOf(t) /\ r.start \in 1..Len(t) /\ r.open \in BOOLEAN
               /\ i + r.end - 1 \in (i + 1)..(Len(s) + 1)
               /\ From(s, i + r.end - 1) = From(t, r.end)
               /\ r.end \in (r.start + 1)..(Len(t) + 1)
               /\ Veils(RedactFinal(Upto(t, r.start)), Upto(t, r.start))
               /\ Bare(t, r.start)
               /\ r.open => \A k \in 1..(r.start - 1) : Clear(t, k)
    <2>1. r \in RegionsOf(t) /\ \A q \in RegionsOf(t) : r.start <= q.start
      <3> HIDE DEF t
      <3> QED BY <1>1, <1>4, EarliestExists
    <2>2. /\ r.start \in 1..Len(t) /\ r.end \in (r.start + 1)..(Len(t) + 1)
          /\ r.open \in BOOLEAN
      <3> HIDE DEF t, r
      <3> QED BY <1>1, <2>1, RegionShape
    <2>3. i + r.end - 1 \in (i + 1)..(Len(s) + 1)
      <3> HIDE DEF t, r
      <3> QED BY <1>1, <2>2
    <2>4. From(s, i + r.end - 1) = From(t, r.end)
      <3> DEFINE e == r.end
                 a == From(s, i + e - 1)
                 b == From(t, e)
      <3>1. e \in 1..(Len(t) + 1) /\ i + e - 1 \in 1..(Len(s) + 1)
        BY <2>2, <2>3
      <3> HIDE DEF e, r
      <3>2. /\ a \in Seq(Units) /\ Len(a) = Len(s) + 1 - (i + e - 1)
            /\ \A k \in 1..(Len(s) + 1 - (i + e - 1)) : a[k] = s[(i + e - 1) + k - 1]
        BY <3>1, UptoFrom
      <3>3. /\ b \in Seq(Units) /\ Len(b) = Len(t) + 1 - e
            /\ \A k \in 1..(Len(t) + 1 - e) : b[k] = t[e + k - 1]
        <4> HIDE DEF t
        <4> QED BY <1>1, <3>1, UptoFrom
      <3>4. \A k \in 1..(Len(s) + 1 - i) : t[k] = s[i + k - 1]
        BY UptoFrom
      <3> HIDE DEF a, b, t
      <3>5. ASSUME NEW k \in 1..Len(a)
            PROVE  a[k] = b[k]
        <4>1. e + k - 1 \in 1..(Len(s) + 1 - i) /\ k \in 1..(Len(t) + 1 - e)
              /\ (i + e - 1) + k - 1 = i + (e + k - 1) - 1
          BY <1>1, <3>1, <3>2
        <4> QED BY <3>2, <3>3, <3>4, <4>1
      <3>6. a = b
        BY <1>1, <3>1, <3>2, <3>3, <3>5, SeqEqual
      <3> QED BY <3>6 DEF a, b, e
    <2> HIDE DEF t, r
    <2>c. r.start \in 1..(Len(t) + 1)
      BY <1>1, <2>2
    <2>5. Bare(t, r.start)
      BY <1>1, <2>1, <2>c, NothingBefore
    <2>6. ASSUME r.open
          PROVE  \A k \in 1..(r.start - 1) : Clear(t, k)
      <3>1. \/ r.start = 1 \/ ~ Token(t[r.start - 1])
            \/ IsStrictPrefix(From(t, r.start), Exact) /\ Size(From(t, r.start)) >= 4
        BY <1>1, <2>1, <2>6, OpenRegion
      <3> QED BY <1>1, <2>1, <2>c, <3>1, HeldBack
    <2>7. Veils(RedactFinal(Upto(t, r.start)), Upto(t, r.start))
      BY <1>1, <1>2, <2>2, <2>5
    <2> QED BY <2>1, <2>2, <2>3, <2>4, <2>5, <2>6, <2>7
  <1> QED BY <1>1, <1>3, <1>4

\* An iteration of the loop of feed returns a result if the rest of the loop does, and
\* takes from the rest only what that makes of text further on.
LEMMA FeedFromResult ==
  ASSUME NEW s \in Seq(Units), NEW i \in 1..(Len(s) + 1), NEW rest,
         \A j \in (i + 1)..(Len(s) + 1) : rest[j] \in Results
  PROVE  /\ FeedRawFrom(s, i, rest) \in Results
         /\ \A other : (\A j \in (i + 1)..(Len(s) + 1) : rest[j] = other[j]) =>
              FeedRawFrom(s, i, other) = FeedRawFrom(s, i, rest)
         /\ \A o \in Seq(Shown) :
              /\ Safe(o, From(s, i))
              /\ \A j \in (i + 1)..(Len(s) + 1) : \A q \in Seq(Shown) :
                   Safe(q, From(s, j)) => Safe(q \o rest[j].out, rest[j].pending)
              => Safe(o \o FeedRawFrom(s, i, rest).out, FeedRawFrom(s, i, rest).pending)
  <1> DEFINE t == From(s, i)
             r == Earliest(t)
             h == HeldRun(t)
             e == i + r.end - 1
             F == FeedRawFrom(s, i, rest)
  <1>0. t \in Seq(Units) /\ <<Redacted>> \in Seq(Shown)
    BY UptoFrom DEF Shown
  <1>1. CASE RegionsOf(t) = {}
    <2>1. /\ h \in 1..(Len(t) + 1) /\ Veils(RedactFinal(Upto(t, h)), Upto(t, h))
          /\ \A k \in 1..(h - 1) : Clear(t, k)
      BY <1>1, Iteration
    <2>2. \A x : FeedRawFrom(s, i, x) = Carry(Upto(t, h), From(t, h))
      BY <1>1, <2>1 DEF FeedRawFrom
    <2> HIDE DEF t, h
    <2>3. Upto(t, h) \in Seq(Shown) /\ From(t, h) \in Seq(Units)
      <3>1. Upto(t, h) \in Seq(Units) /\ From(t, h) \in Seq(Units)
        BY <1>0, <2>1, UptoFrom
      <3> QED BY <3>1 DEF Shown
    <2>4. ASSUME NEW o \in Seq(Shown), Safe(o, t)
          PROVE  Safe(o \o F.out, F.pending)
      <3>1. Safe(o \o Upto(t, h), From(t, h))
        BY <1>0, <2>1, <2>4, SafeReleased
      <3> QED BY <2>2, <2>3, <3>1, CarryResult
    <2>5. F \in Results
      BY <2>2, <2>3, CarryResult
    <2> QED BY <2>2, <2>4, <2>5 DEF t
  <1>2. CASE RegionsOf(t) # {}
    <2>1. /\ r \in RegionsOf(t) /\ r.start \in 1..Len(t) /\ r.open \in BOOLEAN
          /\ e \in (i + 1)..(Len(s) + 1)
          /\ From(s, e) = From(t, r.end)
          /\ r.end \in (r.start + 1)..(Len(t) + 1)
          /\ Veils(RedactFinal(Upto(t, r.start)), Upto(t, r.start))
          /\ Bare(t, r.start)
          /\ r.open => \A k \in 1..(r.start - 1) : Clear(t, k)
      BY <1>2, Iteration
    <2> DEFINE b == Upto(t, r.start)
    <2>2. /\ r.start \in 1..(Len(t) + 1) /\ r.end \in 1..(Len(t) + 1)
          /\ b \in Seq(Units) /\ b \in Seq(Shown) /\ From(t, r.start) \in Seq(Units)
      <3> HIDE DEF t, r
      <3>1. r.start \in 1..(Len(t) + 1) /\ r.end \in 1..(Len(t) + 1)
        BY <1>0, <2>1
      <3>2. b \in Seq(Units) /\ From(t, r.start) \in Seq(Units)
        BY <1>0, <3>1, UptoFrom
      <3> HIDE DEF b
      <3> QED BY <3>1, <3>2 DEF Shown
    <2>3. CASE r.open
      <3>1. \A x : FeedRawFrom(s, i, x) = Carry(b, From(t, r.start))
        BY <1>2, <2>1, <2>3 DEF FeedRawFrom
      <3> HIDE DEF t, r, b
      <3>2. ASSUME NEW o \in Seq(Shown), Safe(o, t)
            PROVE  Safe(o \o F.out, F.pending)
        <4>1. Safe(o \o b, From(t, r.start))
          BY <1>0, <2>1, <2>2, <2>3, <3>2, SafeReleased DEF b
        <4> QED BY <2>2, <3>1, <4>1, CarryResult
      <3>3. F \in Results
        BY <2>2, <3>1, CarryResult
      <3> QED BY <3>1, <3>2, <3>3 DEF t
    <2>4. CASE ~ r.open
      <3>1. \A x : FeedRawFrom(s, i, x) = [x[e] EXCEPT !.out = b \o <<Redacted>> \o x[e].out]
        BY <1>2, <2>1, <2>4 DEF FeedRawFrom, Behind
      <3> HIDE DEF t, r, b, e
      <3>2. rest[e] \in Results
        BY <2>1
      <3>3. /\ F.out = b \o <<Redacted>> \o rest[e].out /\ F.pending = rest[e].pending
            /\ F.dropping = rest[e].dropping /\ F \in Results
        <4>1. /\ rest[e] \in [out : Seq(Shown), pending : Seq(Units), dropping : BOOLEAN]
              /\ rest[e].out \in Seq(Shown)
          BY <3>2 DEF Results
        <4>2. b \o <<Redacted>> \o rest[e].out \in Seq(Shown)
          BY <1>0, <2>2, <4>1
        <4> QED BY <3>1, <3>2, <4>1, <4>2 DEF Results
      <3>4. ASSUME NEW o \in Seq(Shown), Safe(o, t),
                   \A j \in (i + 1)..(Len(s) + 1) : \A q \in Seq(Shown) :
                     Safe(q, From(s, j)) => Safe(q \o rest[j].out, rest[j].pending)
            PROVE  Safe(o \o F.out, F.pending)
        <4> DEFINE y == b \o <<Redacted>>
                   x == rest[e].out
        <4>1. y \in Seq(Shown) /\ x \in Seq(Shown)
          BY <1>0, <2>2, <3>2 DEF Results
        <4>2. Safe((o \o b) \o <<Redacted>>, <<>>)
          BY <1>0, <2>1, <2>2, <3>4, SafeRedacted DEF b
        <4>3. (o \o b) \o <<Redacted>> = o \o y
          BY <1>0, <2>2, ShownConcat, Zenon
        <4>4. From(s, e) \in Seq(Units) /\ <<>> \in Seq(Units)
          BY <2>1, UptoFrom
        <4>0. F.out = y \o x
          BY <3>3
        <4> HIDE DEF y, x
        <4>5. o \o y \in Seq(Shown) /\ Safe(o \o y, <<>>)
          BY <4>1, <4>2, <4>3, ShownConcat, Zenon
        <4>6. Safe(o \o y, <<>> \o From(s, e))
          BY <4>4, <4>5, SafeExtends
        <4>7. Safe(o \o y, From(s, e))
          BY <4>4, <4>6, ConcatEmptySeq
        <4>8. Safe((o \o y) \o x, rest[e].pending)
          BY <2>1, <3>4, <4>5, <4>7 DEF x
        <4>9. (o \o y) \o x = o \o (y \o x)
          BY <4>1, ShownConcat, Zenon
        <4> QED BY <3>3, <4>0, <4>8, <4>9, Zenon
      <3>5. ASSUME NEW other, \A j \in (i + 1)..(Len(s) + 1) : rest[j] = other[j]
            PROVE  FeedRawFrom(s, i, other) = F
        <4>1. rest[e] = other[e]
          BY <2>1, <3>5
        <4> QED BY <3>1, <4>1
      <3> QED BY <3>3, <3>4, <3>5 DEF t
    <2> QED BY <2>1, <2>3, <2>4
  <1> QED BY <1>1, <1>2

\* What is let go unconfirmed at the end is the beginning of a secret, and no secret.
LEMMA UnconfirmedEnd ==
  ASSUME NEW t \in Seq(Units), RegionsOf(t) # {}, Unconfirmed(Earliest(t))
  PROVE  /\ Bare(t, Len(t) + 1)
         /\ Veils(RedactFinal(From(t, Earliest(t).start)), From(t, Earliest(t).start))
  <1> DEFINE r == Earliest(t)
             c == r.start
             n == Len(t) + 1 - c
  <1>1. /\ r \in RegionsOf(t) /\ \A q \in RegionsOf(t) : c <= q.start
        /\ \A q \in RegionsOf(t) : q.start = c => r.rank <= q.rank
    BY EarliestExists
  <1>2. r.open /\ r.rank > 2 /\ r.rank \in 1..4
    BY <1>1, RegionShape DEF Unconfirmed
  <1>3. c \in 1..Len(t) /\ c \in 1..(Len(t) + 1) /\ n \in 1..Len(t)
    BY <1>1, RegionShape
  <1>4. \/ IsStrictPrefix(From(t, c), Exact)
        \/ \E m \in Markers : IsStrictPrefix(From(t, c), m)
    <2> HIDE DEF r
    <2> QED BY <1>1, <1>2 DEF RegionsOf, MarkerRegions, ExactRegions, ExactTails, MarkerTails, Region
  <1> HIDE DEF r, c
  <1>5. /\ From(t, c) \in Seq(Units) /\ Len(From(t, c)) = n
        /\ \A k \in 1..n : From(t, c)[k] = t[c + k - 1]
    BY <1>3, UptoFrom
  <1>6. Exact \in Seq(Units) /\ Len(Exact) \in Nat \ {0}
    BY RedactorAssumption
  <1>7. ASSUME NEW p \in Seq(Units), IsStrictPrefix(From(t, c), p)
        PROVE  n < Len(p) /\ \A k \in 1..n : p[k] = t[c + k - 1]
    <2>2. SubSeq(From(t, c), 1, n) = From(t, c) /\ SubSeq(p, 1, Len(p)) = p
      BY <1>5, SubSeqFull
    <2>0. /\ SubSeq(From(t, c), 1, n) = SubSeq(p, 1, n) /\ n <= Len(p)
          /\ From(t, c) # p
      BY <1>5, <1>7 DEF IsStrictPrefix, IsPrefix
    <2>1. SubSeq(From(t, c), 1, n) = SubSeq(p, 1, n) /\ n < Len(p)
      <3>1. n # Len(p)
        BY <2>0, <2>2
      <3>2. n \in Nat /\ Len(p) \in Nat
        BY <1>3
      <3> QED BY <2>0, <3>1, <3>2
    <2>3. \A k \in 1..n : SubSeq(p, 1, n)[k] = p[k]
      BY <2>1, <1>3
    <2> QED BY <1>5, <2>1, <2>2, <2>3
  <1>8. ASSUME NEW m \in Markers, IsStrictPrefix(From(t, c), m)
        PROVE  n = 1
    <2>1. m \in Seq(Units) /\ Len(m) = 2
      BY RedactorAssumption
    <2>2. n < Len(m)
      BY <1>7, <1>8, <2>1
    <2>3. n < 2
      BY <2>1, <2>2
    <2> QED BY <1>3, <2>3
  <1>9. ASSUME NEW k \in 1..Len(t), At(t, k, Exact)
        PROVE  FALSE
    <2>1. Region(k, k + Len(Exact), FALSE, 2) \in RegionsOf(t)
      <3>1. k \in DOMAIN t
        OBVIOUS
      <3> QED BY <1>9, <3>1 DEF ExactRegions, RegionsOf
    <2>2. c < k
      BY <1>1, <1>2, <1>3, <2>1 DEF Region
    <2>3. k + Len(Exact) - 1 <= Len(t)
      BY <1>9 DEF At
    <2>4. CASE IsStrictPrefix(From(t, c), Exact)
      <3>1. n < Len(Exact)
        BY <1>6, <1>7, <2>4
      <3> QED BY <1>3, <1>6, <2>2, <2>3, <3>1
    <2>5. CASE \E m \in Markers : IsStrictPrefix(From(t, c), m)
      BY <1>3, <1>8, <2>2, <2>5
    <2> QED BY <1>4, <2>4, <2>5
  <1>10. ASSUME Keepable, NEW k \in 1..Len(t), AtBoundary(t, k), NEW m \in Markers, At(t, k, m)
         PROVE  FALSE
    <2>1. Region(k, RunEnd(t, k + 2), RunEnd(t, k + 2) = Len(t) + 1, 1) \in RegionsOf(t)
      BY <1>10 DEF MarkerRegions, RegionsOf
    <2>2. c < k
      BY <1>1, <1>2, <1>3, <2>1 DEF Region
    <2>3. CASE IsStrictPrefix(From(t, c), Exact)
      <3> DEFINE j == k - c + 1
      <3>0. m \in Seq(Units) /\ Len(m) = 2
        BY RedactorAssumption
      <3>1. n < Len(Exact) /\ \A l \in 1..n : Exact[l] = t[c + l - 1]
        BY <1>6, <1>7, <2>3
      <3>2. k + 1 <= Len(t) /\ SubSeq(t, k, k + 1) = m
        BY <1>10, <3>0 DEF At
      <3>3. j \in 2..n /\ j + 1 \in 2..n /\ j - 1 \in 1..n
        BY <1>3, <2>2, <3>2
      <3>4. Exact[j] = t[k] /\ Exact[j + 1] = t[k + 1] /\ Exact[j - 1] = t[k - 1]
        <4>1. c + j - 1 = k /\ c + (j + 1) - 1 = k + 1 /\ c + (j - 1) - 1 = k - 1
          BY <1>3
        <4>2. j \in 1..n /\ j + 1 \in 1..n /\ j - 1 \in 1..n
          BY <3>3
        <4> HIDE DEF j
        <4> QED BY <3>1, <4>1, <4>2
      <3>a. j \in 2..Len(Exact) /\ j + 1 <= Len(Exact)
        BY <1>3, <1>6, <3>1, <3>3
      <3>b. j + Len(m) - 1 = j + 1
        BY <3>0, <3>a
      <3>5. j \in 2..Len(Exact) /\ j + Len(m) - 1 <= Len(Exact)
        BY <3>a, <3>b
      <3>6. m[1] = t[k] /\ m[2] = t[k + 1]
        <4>1. k \in 1..Len(t) /\ k + 1 <= Len(t)
          BY <1>10, <3>2
        <4>2. SubSeq(t, k, k + 1)[1] = t[k] /\ SubSeq(t, k, k + 1)[2] = t[k + 1]
          BY <4>1, PairAt
        <4> QED BY <3>2, <4>2
      <3>7. SubSeq(Exact, j, j + Len(m) - 1) = m
        <4> DEFINE a == SubSeq(Exact, j, j + 1)
        <4>1. a \in Seq(Units) /\ Len(a) = 2 /\ a[1] = Exact[j] /\ a[2] = Exact[j + 1]
          <5>1. j \in 1..Len(Exact) /\ j + 1 <= Len(Exact) /\ Exact \in Seq(Units)
            BY <3>a, RedactorAssumption
          <5> QED BY <5>1, PairAt
        <4> HIDE DEF a
        <4>2. a = m
          BY <3>0, <3>4, <3>6, <4>1, SeqEqual
        <4> QED BY <3>0, <4>2 DEF a
      <3>8. At(Exact, j, m)
        BY <3>5, <3>7 DEF At
      <3>9. AtBoundary(Exact, j)
        BY <1>3, <1>10, <2>2, <3>3, <3>4 DEF AtBoundary
      <3> QED BY <1>10, <3>5, <3>8, <3>9 DEF Keepable
    <2>4. CASE \E q \in Markers : IsStrictPrefix(From(t, c), q)
      BY <1>3, <1>8, <2>2, <2>4
    <2> QED BY <1>4, <2>3, <2>4
  <1>11. Bare(t, Len(t) + 1)
    BY <1>9, <1>10 DEF Bare
  <1>12. ASSUME NEW k \in 1..n, At(From(t, c), k, Exact)
         PROVE  FALSE
    <2> DEFINE b == From(t, c)
               l == Len(Exact)
    <2>1. k + l - 1 <= n /\ SubSeq(b, k, k + l - 1) = Exact
      BY <1>5, <1>12 DEF At
    <2>2. c + k - 1 \in 1..Len(t) /\ (c + k - 1) + l - 1 <= Len(t)
      BY <1>3, <1>6, <2>1
    <2>3. SubSeq(SubSeq(t, c, Len(t)), k, k + l - 1) = SubSeq(t, c + k - 1, (c + k - 1) + l - 1)
      BY <1>3, <1>6, <2>1
    <2>4. At(t, c + k - 1, Exact)
      BY <2>1, <2>2, <2>3 DEF At, From
    <2> QED BY <1>9, <2>2, <2>4
  <1>13. Veils(RedactFinal(From(t, c)), From(t, c))
    BY <1>5, <1>12, RedactFinalVeils
  <1> QED BY <1>11, <1>13 DEF c, r

\* An iteration of the loop of flush, likewise; a text in front of which nothing of a
\* secret stands leaves none behind.
NoSecretIn(u) == Keepable =>
  \A i \in DOMAIN u :
    /\ ~ At(u, i, Exact)
    /\ AtBoundary(u, i) => \A m \in Markers : ~ At(u, i, m)

\* A text in which no secret begins shows none.
LEMMA SafeNoSecret ==
  ASSUME NEW o \in Seq(Shown), Safe(o, <<>>)
  PROVE  NoSecretIn(o)
  <1>1. /\ <<>> \in Seq(Units) /\ Bare(<<>>, Len(<<>>) + 1)
        /\ o \o <<>> = o /\ DOMAIN o = 1..Len(o)
    BY DEF Bare
  <1> QED BY <1>1, SafeEnd DEF NoSecretIn

\* An iteration of the loop of flush shows no secret if the rest of the loop does not.
LEMMA FlushFromResult ==
  ASSUME NEW s \in Seq(Units), NEW i \in 1..(Len(s) + 1), NEW rest,
         \A j \in (i + 1)..(Len(s) + 1) : rest[j] \in Seq(Shown)
  PROVE  /\ FlushRawFrom(s, i, rest) \in Seq(Shown)
         /\ \A other : (\A j \in (i + 1)..(Len(s) + 1) : rest[j] = other[j]) =>
              FlushRawFrom(s, i, other) = FlushRawFrom(s, i, rest)
         /\ \A o \in Seq(Shown) :
              /\ Safe(o, From(s, i))
              /\ \A j \in (i + 1)..(Len(s) + 1) : \A q \in Seq(Shown) :
                   Safe(q, From(s, j)) => NoSecretIn(q \o rest[j])
              => NoSecretIn(o \o FlushRawFrom(s, i, rest))
  <1> DEFINE t == From(s, i)
             r == Earliest(t)
             e == i + r.end - 1
             F == FlushRawFrom(s, i, rest)
  <1>0. t \in Seq(Units) /\ <<Redacted>> \in Seq(Shown)
    BY UptoFrom DEF Shown
  <1>a. t \in Seq(Shown)
    <2> HIDE DEF t
    <2> QED BY <1>0 DEF Shown
  <1>b. ASSUME NEW o \in Seq(Shown), Safe(o, t), Bare(t, Len(t) + 1)
        PROVE  NoSecretIn(o \o t)
    <2> HIDE DEF t
    <2>1. Keepable => \A k \in 1..Len(o \o t) :
                                    /\ ~ At(o \o t, k, Exact)
                                    /\ AtBoundary(o \o t, k) => \A m \in Markers : ~ At(o \o t, k, m)
      BY <1>0, <1>b, SafeEnd
    <2>2. DOMAIN (o \o t) = 1..Len(o \o t)
      BY <1>a
    <2> QED BY <2>1, <2>2 DEF NoSecretIn
  <1>1. CASE RegionsOf(t) = {}
    <2>1. Veils(RedactFinal(t), t) /\ Bare(t, Len(t) + 1)
      BY <1>1, Iteration
    <2>2. \A x : FlushRawFrom(s, i, x) = t
      BY <1>1, <2>1 DEF FlushRawFrom
    <2> HIDE DEF t
    <2> QED BY <1>a, <1>b, <2>1, <2>2 DEF t
  <1>2. CASE RegionsOf(t) # {}
    <2>1. /\ r \in RegionsOf(t) /\ r.start \in 1..Len(t) /\ r.open \in BOOLEAN
          /\ e \in (i + 1)..(Len(s) + 1)
          /\ From(s, e) = From(t, r.end)
          /\ r.end \in (r.start + 1)..(Len(t) + 1)
          /\ Veils(RedactFinal(Upto(t, r.start)), Upto(t, r.start))
          /\ Bare(t, r.start)
      BY <1>2, Iteration
    <2> DEFINE b == Upto(t, r.start)
               y == b \o <<Redacted>>
    <2>2. /\ r.start \in 1..(Len(t) + 1) /\ r.end \in 1..(Len(t) + 1)
          /\ b \in Seq(Shown) /\ y \in Seq(Shown) /\ b \o From(t, r.start) = t
      <3> HIDE DEF t, r
      <3>1. r.start \in 1..(Len(t) + 1) /\ r.end \in 1..(Len(t) + 1)
        BY <1>0, <2>1
      <3>2. b \in Seq(Units) /\ b \o From(t, r.start) = t
        BY <1>0, <3>1, UptoFrom
      <3> HIDE DEF b
      <3> QED BY <1>0, <3>1, <3>2 DEF Shown
    <2>y. ASSUME NEW o \in Seq(Shown), Safe(o, t)
          PROVE  o \o y \in Seq(Shown) /\ Safe(o \o y, <<>>)
      <3> HIDE DEF t, r
      <3>1. Safe((o \o b) \o <<Redacted>>, <<>>)
        BY <1>0, <2>1, <2>2, <2>y, SafeRedacted
      <3>2. (o \o b) \o <<Redacted>> = o \o y
        <4> HIDE DEF b
        <4> QED BY <1>0, <2>2, ShownConcat, Zenon
      <3> HIDE DEF y
      <3> QED BY <2>2, <3>1, <3>2, ShownConcat, Zenon
    <2>3. CASE Unconfirmed(r)
      <3>1. Bare(t, Len(t) + 1) /\ Veils(RedactFinal(From(t, r.start)), From(t, r.start))
        <4> HIDE DEF t
        <4> QED BY <1>0, <1>2, <2>3, UnconfirmedEnd
      <3>3. \A x : FlushRawFrom(s, i, x) = t
        BY <1>2, <2>3 DEF FlushRawFrom
      <3> HIDE DEF t, r, b
      <3> QED BY <1>a, <1>b, <3>1, <3>3 DEF t
    <2>4. CASE ~ Unconfirmed(r) /\ r.open
      <3>1. \A x : FlushRawFrom(s, i, x) = y
        BY <1>2, <2>1, <2>4 DEF FlushRawFrom
      <3> HIDE DEF t, r, b, y
      <3>2. ASSUME NEW o \in Seq(Shown), Safe(o, t)
            PROVE  NoSecretIn(o \o y)
        BY <2>y, <3>2, SafeNoSecret
      <3> QED BY <2>2, <3>1, <3>2 DEF t
    <2>5. CASE ~ Unconfirmed(r) /\ ~ r.open
      <3>1. \A x : FlushRawFrom(s, i, x) = y \o x[e]
        BY <1>2, <2>1, <2>5 DEF FlushRawFrom
      <3> HIDE DEF t, r, b, y, e
      <3>2. rest[e] \in Seq(Shown)
        BY <2>1
      <3>3. F \in Seq(Shown)
        <4>1. F = y \o rest[e]
          BY <3>1
        <4>2. y \in Seq(Shown)
          BY <2>2
        <4> QED BY <3>2, <4>1, <4>2, ShownConcat, Zenon
      <3>4. ASSUME NEW o \in Seq(Shown), Safe(o, t),
                   \A j \in (i + 1)..(Len(s) + 1) : \A q \in Seq(Shown) :
                     Safe(q, From(s, j)) => NoSecretIn(q \o rest[j])
            PROVE  NoSecretIn(o \o F)
        <4>1. o \o y \in Seq(Shown) /\ Safe(o \o y, <<>>)
          BY <2>y, <3>4
        <4>2. From(s, e) \in Seq(Units) /\ <<>> \in Seq(Units)
          BY <2>1, UptoFrom
        <4>3. Safe(o \o y, <<>> \o From(s, e))
          BY <4>1, <4>2, SafeExtends
        <4>4. Safe(o \o y, From(s, e))
          BY <4>2, <4>3, ConcatEmptySeq
        <4>5. NoSecretIn((o \o y) \o rest[e])
          BY <2>1, <3>4, <4>1, <4>4
        <4>6. (o \o y) \o rest[e] = o \o (y \o rest[e])
          BY <2>2, <3>2, ShownConcat, Zenon
        <4> QED BY <3>1, <4>5, <4>6, Zenon
      <3>5. ASSUME NEW other, \A j \in (i + 1)..(Len(s) + 1) : rest[j] = other[j]
            PROVE  FlushRawFrom(s, i, other) = F
        <4>1. rest[e] = other[e]
          BY <2>1, <3>5
        <4> QED BY <3>1, <4>1
      <3> QED BY <3>3, <3>4, <3>5 DEF t
    <2> QED BY <2>3, <2>4, <2>5
  <1> QED BY <1>1, <1>2

-----------------------------------------------------------------------------
\* What G makes of a function at i depends on what the function is after i.
Recursive(G, n, R) ==
  /\ G \in [1..n -> [[1..n -> R] -> R]]
  /\ \A i \in 1..n : \A f, g \in [1..n -> R] :
       (\A j \in (i + 1)..n : f[j] = g[j]) => G[i][f] = G[i][g]

\* G makes f of f.
Fixpoint(f, G, n) == \A i \in 1..n : f[i] = G[i][f]

\* A function that is defined from the end of its domain downwards exists.
LEMMA RecursionDown ==
  ASSUME NEW n \in Nat, NEW R, NEW G, R # {}, Recursive(G, n, R)
  PROVE  \E f \in [1..n -> R] : Fixpoint(f, G, n)
  <1> USE DEF Recursive
  <1> DEFINE Solves(f, k) == \A i \in (n - k + 1)..n : f[i] = G[i][f]
             T == {k \in 0..n : ~ \E f \in [1..n -> R] : Solves(f, k)}
  <1>1. ASSUME T # {} PROVE FALSE
    <2>1. PICK k \in T : \A j \in T : k <= j
      <3>1. T \subseteq Nat
        OBVIOUS
      <3> HIDE DEF T
      <3> QED BY <1>1, <3>1, LeastNat
    <2>2. k # 0
      <3>0. PICK r0 \in R : TRUE
        OBVIOUS
      <3>1. [i \in 1..n |-> r0] \in [1..n -> R]
        OBVIOUS
      <3>2. Solves([i \in 1..n |-> r0], 0)
        OBVIOUS
      <3> QED BY <2>1, <3>1, <3>2
    <2>3. k - 1 \in 0..n /\ k - 1 \notin T
      <3>1. k \in 1..n /\ ~ (k <= k - 1)
        BY <2>2
      <3> HIDE DEF T
      <3> QED BY <2>1, <3>1
    <2>4. PICK f \in [1..n -> R] : Solves(f, k - 1)
      BY <2>3
    <2> DEFINE m == n - k + 1
               w == [f EXCEPT ![m] = G[m][f]]
    <2>5. m \in 1..n /\ n - (k - 1) + 1 = m + 1
      BY <2>1, <2>2
    <2> HIDE DEF m
    <2>6. G[m] \in [[1..n -> R] -> R] /\ G[m][f] \in R
      BY <2>5
    <2>7. w \in [1..n -> R] /\ w[m] = G[m][f] /\ \A j \in (m + 1)..n : w[j] = f[j]
      BY <2>5, <2>6
    <2> HIDE DEF w
    <2>8. ASSUME NEW i \in m..n
          PROVE  w[i] = G[i][w]
      <3>1. i \in 1..n /\ G[i][f] = G[i][w]
        <4>1. i \in 1..n /\ \A j \in (i + 1)..n : w[j] = f[j]
          BY <2>5, <2>7
        <4> QED BY <2>7, <4>1
      <3>2. CASE i = m
        BY <2>7, <3>1, <3>2
      <3>3. CASE i # m
        <4>1. i \in (m + 1)..n
          BY <2>5, <3>3
        <4>2. f[i] = G[i][f]
          BY <2>4, <2>5, <4>1
        <4> QED BY <2>7, <3>1, <4>1, <4>2
      <3> QED BY <3>2, <3>3
    <2>9. Solves(w, k)
      BY <2>8 DEF m
    <2> QED BY <2>1, <2>7, <2>9
  <1>2. n \in 0..n /\ n \notin T
    <2> HIDE DEF T
    <2> QED BY <1>1
  <1>3. PICK f \in [1..n -> R] : Solves(f, n)
    BY <1>2
  <1>4. Fixpoint(f, G, n)
    BY <1>3 DEF Fixpoint
  <1> QED BY <1>4

\* The loop of feed on s, at every position.
FeedLoop(s) == CHOOSE f : f = [i \in 1..(Len(s) + 1) |-> FeedRawFrom(s, i, f)]

\* There is such a loop, and it begins at the beginning of s.
LEMMA FeedLoopIs ==
  ASSUME NEW s \in Seq(Units)
  PROVE  /\ FeedRaw(s) = FeedLoop(s)[1]
         /\ \A i \in 1..(Len(s) + 1) : FeedLoop(s)[i] = FeedRawFrom(s, i, FeedLoop(s))
  <1> DEFINE n == Len(s) + 1
             Loop(f) == f = [i \in 1..n |-> FeedRawFrom(s, i, f)]
             c == CHOOSE f : Loop(f)
             G == [i \in 1..n |-> [f \in [1..n -> Results] |-> FeedRawFrom(s, i, f)]]
  <1>0. n \in Nat /\ n = Len(s) + 1 /\ 1 \in 1..n
    OBVIOUS
  <1>1. Loop(c)
    <2>1. Results # {}
      <3>1. After(<<>>, <<>>, FALSE) \in Results
        BY EmptyCarry
      <3> QED BY <3>1
    <2>2. ASSUME NEW i \in 1..n, NEW f \in [1..n -> Results]
          PROVE  FeedRawFrom(s, i, f) \in Results
      <3>1. i \in 1..(Len(s) + 1) /\ \A j \in (i + 1)..(Len(s) + 1) : f[j] \in Results
        BY <1>0
      <3> HIDE DEF n
      <3> QED BY <3>1, FeedFromResult
    <2>3. G \in [1..n -> [[1..n -> Results] -> Results]]
      <3> HIDE DEF n
      <3> QED BY <2>2
    <2>4. ASSUME NEW i \in 1..n, NEW f \in [1..n -> Results], NEW g \in [1..n -> Results],
                 \A j \in (i + 1)..n : f[j] = g[j]
          PROVE  G[i][f] = G[i][g]
      <3>1. \A j \in (i + 1)..n : f[j] \in Results
        BY <1>0
      <3>2. FeedRawFrom(s, i, g) = FeedRawFrom(s, i, f)
        BY <2>4, <3>1, FeedFromResult
      <3> HIDE DEF n
      <3> QED BY <3>2
    <2> HIDE DEF G, n
    <2>g. \A i \in 1..n : \A f, g \in [1..n -> Results] :
            (\A j \in (i + 1)..n : f[j] = g[j]) => G[i][f] = G[i][g]
      BY <2>4
    <2>5. PICK f \in [1..n -> Results] : Fixpoint(f, G, n)
      <3>1. n \in Nat
        BY <1>0
      <3>2. Recursive(G, n, Results)
        BY <2>3, <2>g DEF Recursive
      <3> QED BY <2>1, <3>1, <3>2, RecursionDown
    <2>6. \A i \in 1..n : f[i] = FeedRawFrom(s, i, f)
      BY <2>5 DEF G, Fixpoint
    <2>7. Loop(f)
      BY <2>6
    <2> QED BY <2>7
  <1>2. FeedRaw(s) = c[1] /\ c = FeedLoop(s)
    BY DEF FeedRaw, FeedLoop
  <1> QED BY <1>1, <1>2

\* What feed returns: the state of the redactor is well formed, and what is let go with
\* what was shown before leaves no secret behind, whatever comes.
LEMMA FeedResult ==
  ASSUME NEW s \in Seq(Units)
  PROVE  /\ FeedRaw(s) \in Results
         /\ \A o \in Seq(Shown) : Safe(o, s) => Safe(o \o FeedRaw(s).out, FeedRaw(s).pending)
  <1> DEFINE n == Len(s) + 1
             c == FeedLoop(s)
  <1>0. n \in Nat /\ n = Len(s) + 1 /\ 1 \in 1..n
    OBVIOUS
  <1>1. \A i \in 1..n : c[i] = FeedRawFrom(s, i, c)
    BY FeedLoopIs
  <1>2. FeedRaw(s) = c[1]
    BY FeedLoopIs
  <1> HIDE DEF c
  <1> DEFINE Good(j) ==
        /\ c[j] \in Results
        /\ \A q \in Seq(Shown) : Safe(q, From(s, j)) => Safe(q \o c[j].out, c[j].pending)
             T == {j \in 1..n : ~ Good(j)}
  <1>3. ASSUME T # {} PROVE FALSE
    <2>1. PICK i \in T : \A j \in T : j <= i
      <3>1. T \subseteq 0..n
        OBVIOUS
      <3> HIDE DEF T
      <3> QED BY <1>0, <1>3, <3>1, GreatestNat
    <2>2. i \in 1..n /\ i \in 1..(Len(s) + 1)
      OBVIOUS
    <2>3. \A j \in (i + 1)..(Len(s) + 1) : Good(j)
      <3> SUFFICES ASSUME NEW j \in (i + 1)..(Len(s) + 1)
                   PROVE  Good(j)
        OBVIOUS
      <3>1. j \in 1..n /\ ~ (j <= i)
        BY <2>2
      <3> HIDE DEF n, Good
      <3> QED BY <2>1, <3>1
    <2>4. c[i] = FeedRawFrom(s, i, c)
      BY <1>1, <2>2
    <2>5. /\ FeedRawFrom(s, i, c) \in Results
          /\ \A q \in Seq(Shown) : Safe(q, From(s, i)) =>
               Safe(q \o FeedRawFrom(s, i, c).out, FeedRawFrom(s, i, c).pending)
      BY <2>2, <2>3, FeedFromResult
    <2>6. Good(i)
      BY <2>4, <2>5
    <2> QED BY <2>6
  <1>4. Good(1) /\ From(s, 1) = s
    BY <1>0, <1>3, SubSeqFull DEF From
  <1> QED BY <1>2, <1>4

\* The loop of flush likewise.
FlushLoop(s) == CHOOSE f : f = [i \in 1..(Len(s) + 1) |-> FlushRawFrom(s, i, f)]

\* There is such a loop, and it begins at the beginning of s.
LEMMA FlushLoopIs ==
  ASSUME NEW s \in Seq(Units)
  PROVE  /\ FlushRaw(s) = FlushLoop(s)[1]
         /\ \A i \in 1..(Len(s) + 1) : FlushLoop(s)[i] = FlushRawFrom(s, i, FlushLoop(s))
  <1> DEFINE n == Len(s) + 1
             Loop(f) == f = [i \in 1..n |-> FlushRawFrom(s, i, f)]
             c == CHOOSE f : Loop(f)
             G == [i \in 1..n |-> [f \in [1..n -> Seq(Shown)] |-> FlushRawFrom(s, i, f)]]
  <1>0. n \in Nat /\ n = Len(s) + 1 /\ 1 \in 1..n
    OBVIOUS
  <1>1. Loop(c)
    <2>1. Seq(Shown) # {}
      <3>1. <<>> \in Seq(Shown)
        OBVIOUS
      <3> QED BY <3>1
    <2>2. ASSUME NEW i \in 1..n, NEW f \in [1..n -> Seq(Shown)]
          PROVE  FlushRawFrom(s, i, f) \in Seq(Shown)
      <3>1. i \in 1..(Len(s) + 1) /\ \A j \in (i + 1)..(Len(s) + 1) : f[j] \in Seq(Shown)
        BY <1>0
      <3> HIDE DEF n
      <3> QED BY <3>1, FlushFromResult
    <2>3. G \in [1..n -> [[1..n -> Seq(Shown)] -> Seq(Shown)]]
      <3> HIDE DEF n
      <3> QED BY <2>2
    <2>4. ASSUME NEW i \in 1..n, NEW f \in [1..n -> Seq(Shown)], NEW g \in [1..n -> Seq(Shown)],
                 \A j \in (i + 1)..n : f[j] = g[j]
          PROVE  G[i][f] = G[i][g]
      <3>1. \A j \in (i + 1)..n : f[j] \in Seq(Shown)
        BY <1>0
      <3>2. FlushRawFrom(s, i, g) = FlushRawFrom(s, i, f)
        BY <2>4, <3>1, FlushFromResult
      <3> HIDE DEF n
      <3> QED BY <3>2
    <2> HIDE DEF G, n
    <2>g. \A i \in 1..n : \A f, g \in [1..n -> Seq(Shown)] :
            (\A j \in (i + 1)..n : f[j] = g[j]) => G[i][f] = G[i][g]
      BY <2>4
    <2>5. PICK f \in [1..n -> Seq(Shown)] : Fixpoint(f, G, n)
      <3>1. n \in Nat
        BY <1>0
      <3>2. Recursive(G, n, Seq(Shown))
        BY <2>3, <2>g DEF Recursive
      <3> QED BY <2>1, <3>1, <3>2, RecursionDown
    <2>6. \A i \in 1..n : f[i] = FlushRawFrom(s, i, f)
      BY <2>5 DEF G, Fixpoint
    <2>7. Loop(f)
      BY <2>6
    <2> QED BY <2>7
  <1>2. FlushRaw(s) = c[1] /\ c = FlushLoop(s)
    BY DEF FlushRaw, FlushLoop
  <1> QED BY <1>1, <1>2

\* What flush returns completes what was released without showing a secret.
LEMMA FlushResult ==
  ASSUME NEW s \in Seq(Units)
  PROVE  /\ FlushRaw(s) \in Seq(Shown)
         /\ \A o \in Seq(Shown) : Safe(o, s) => NoSecretIn(o \o FlushRaw(s))
  <1> DEFINE n == Len(s) + 1
             c == FlushLoop(s)
  <1>0. n \in Nat /\ n = Len(s) + 1 /\ 1 \in 1..n
    OBVIOUS
  <1>1. \A i \in 1..n : c[i] = FlushRawFrom(s, i, c)
    BY FlushLoopIs
  <1>2. FlushRaw(s) = c[1]
    BY FlushLoopIs
  <1> HIDE DEF c
  <1> DEFINE Good(j) ==
        /\ c[j] \in Seq(Shown)
        /\ \A q \in Seq(Shown) : Safe(q, From(s, j)) => NoSecretIn(q \o c[j])
             T == {j \in 1..n : ~ Good(j)}
  <1>3. ASSUME T # {} PROVE FALSE
    <2>1. PICK i \in T : \A j \in T : j <= i
      <3>1. T \subseteq 0..n
        OBVIOUS
      <3> HIDE DEF T
      <3> QED BY <1>0, <1>3, <3>1, GreatestNat
    <2>2. i \in 1..n /\ i \in 1..(Len(s) + 1)
      OBVIOUS
    <2>3. \A j \in (i + 1)..(Len(s) + 1) : Good(j)
      <3> SUFFICES ASSUME NEW j \in (i + 1)..(Len(s) + 1)
                   PROVE  Good(j)
        OBVIOUS
      <3>1. j \in 1..n /\ ~ (j <= i)
        BY <2>2
      <3> HIDE DEF n, Good
      <3> QED BY <2>1, <3>1
    <2>4. c[i] = FlushRawFrom(s, i, c)
      BY <1>1, <2>2
    <2>5. /\ FlushRawFrom(s, i, c) \in Seq(Shown)
          /\ \A q \in Seq(Shown) : Safe(q, From(s, i)) => NoSecretIn(q \o FlushRawFrom(s, i, c))
      BY <2>2, <2>3, FlushFromResult
    <2>6. Good(i)
      BY <2>4, <2>5
    <2> QED BY <2>6
  <1>4. Good(1) /\ From(s, 1) = s
    BY <1>0, <1>3, SubSeqFull DEF From
  <1> QED BY <1>2, <1>4

-----------------------------------------------------------------------------
(* The text is kept: the end of a text. *)

\* The units of two texts, one behind the other.
LEMMA Joined ==
  ASSUME NEW a \in Seq(Units), NEW b \in Seq(Units)
  PROVE  /\ a \o b \in Seq(Units) /\ Len(a \o b) = Len(a) + Len(b)
         /\ \A k \in 1..Len(a) : (a \o b)[k] = a[k]
         /\ \A k \in 1..Len(b) : (a \o b)[Len(a) + k] = b[k]
  OBVIOUS

\* The end of an end of a text, and the two parts before it.
LEMMA FromFrom ==
  ASSUME NEW t \in Seq(Units), NEW c \in 1..(Len(t) + 1), NEW d \in 1..(Len(t) + 2 - c)
  PROVE  /\ c + d - 1 \in 1..(Len(t) + 1) /\ d \in 1..(Len(From(t, c)) + 1)
         /\ From(From(t, c), d) = From(t, c + d - 1)
         /\ Upto(t, c) \o Upto(From(t, c), d) = Upto(t, c + d - 1)
  <1> DEFINE v == From(t, c)
             e == c + d - 1
             a == From(v, d)
             b == From(t, e)
             x == Upto(t, c)
             y == Upto(v, d)
             z == Upto(t, e)
  <1>1. /\ v \in Seq(Units) /\ Len(v) = Len(t) + 1 - c
        /\ \A k \in 1..(Len(t) + 1 - c) : v[k] = t[c + k - 1]
        /\ x \in Seq(Units) /\ Len(x) = c - 1 /\ \A k \in 1..(c - 1) : x[k] = t[k]
    BY UptoFrom
  <1>2. e \in 1..(Len(t) + 1) /\ d \in 1..(Len(v) + 1)
    BY <1>1
  <1> HIDE DEF v, x
  <1>3. /\ a \in Seq(Units) /\ Len(a) = Len(v) + 1 - d
        /\ \A k \in 1..(Len(v) + 1 - d) : a[k] = v[d + k - 1]
        /\ y \in Seq(Units) /\ Len(y) = d - 1 /\ \A k \in 1..(d - 1) : y[k] = v[k]
    BY <1>1, <1>2, UptoFrom
  <1>e. e = c + d - 1
    OBVIOUS
  <1> HIDE DEF e
  <1>4. /\ b \in Seq(Units) /\ Len(b) = Len(t) + 1 - e
        /\ \A k \in 1..(Len(t) + 1 - e) : b[k] = t[e + k - 1]
        /\ z \in Seq(Units) /\ Len(z) = e - 1 /\ \A k \in 1..(e - 1) : z[k] = t[k]
    BY <1>2, UptoFrom
  <1> HIDE DEF a, b, y, z
  <1>5. a = b
    <2>1. Len(a) = Len(b)
      BY <1>1, <1>2, <1>3, <1>4, <1>e
    <2>2. ASSUME NEW k \in 1..Len(a) PROVE a[k] = b[k]
      <3>1. /\ k \in 1..(Len(v) + 1 - d) /\ d + k - 1 \in 1..(Len(t) + 1 - c)
            /\ c + (d + k - 1) - 1 = e + k - 1 /\ k \in 1..(Len(t) + 1 - e)
        BY <1>1, <1>2, <1>3, <1>4, <1>e, <2>1
      <3> QED BY <1>1, <1>3, <1>4, <3>1
    <2> QED BY <1>3, <1>4, <2>1, <2>2, SeqEqual
  <1>6. x \o y = z
    <2>0. /\ x \o y \in Seq(Units) /\ Len(x \o y) = Len(x) + Len(y)
          /\ \A k \in 1..Len(x) : (x \o y)[k] = x[k]
          /\ \A k \in 1..Len(y) : (x \o y)[Len(x) + k] = y[k]
      BY <1>1, <1>3, Joined
    <2>1. x \o y \in Seq(Units) /\ Len(x \o y) = Len(z)
      BY <1>1, <1>3, <1>4, <1>e, <2>0
    <2>2. ASSUME NEW k \in 1..Len(z) PROVE (x \o y)[k] = z[k]
      <3>1. CASE k <= c - 1
        <4>1. k \in 1..Len(x) /\ k \in 1..(c - 1) /\ k \in 1..(e - 1)
          BY <1>1, <1>4, <3>1
        <4>2. (x \o y)[k] = x[k]
          BY <2>0, <4>1
        <4>3. x[k] = t[k] /\ z[k] = t[k]
          BY <1>1, <1>4, <4>1
        <4> QED BY <4>2, <4>3
      <3>2. CASE k > c - 1
        <4>1. k - (c - 1) \in 1..(d - 1) /\ k - (c - 1) \in 1..(Len(t) + 1 - c)
              /\ c + (k - (c - 1)) - 1 = k
          BY <1>2, <1>4, <1>e, <3>2
        <4>2. (x \o y)[k] = y[k - (c - 1)]
          <5>1. k - (c - 1) \in 1..Len(y) /\ Len(x) + (k - (c - 1)) = k
            BY <1>1, <1>3, <4>1
          <5> QED BY <2>0, <5>1
        <4>3. v[k - (c - 1)] = t[k] /\ z[k] = t[k] /\ y[k - (c - 1)] = v[k - (c - 1)]
          BY <1>1, <1>3, <1>4, <4>1
        <4>4. y[k - (c - 1)] = z[k]
          BY <4>3
        <4> QED BY <4>2, <4>4
      <3>3. k <= c - 1 \/ k > c - 1
        BY <1>2, <1>4
      <3> QED BY <3>1, <3>2, <3>3, Zenon
    <2> QED BY <1>4, <2>1, <2>2, SeqEqual
  <1> QED BY <1>2, <1>5, <1>6, <1>e DEF v, a, b, x, y, z

\* What comes behind a text comes behind its end, and changes nothing of its beginning.
LEMMA FromAppended ==
  ASSUME NEW s \in Seq(Units), NEW e \in Seq(Units), NEW c \in 1..(Len(s) + 1)
  PROVE  /\ s \o e \in Seq(Units) /\ Len(s \o e) = Len(s) + Len(e)
         /\ c \in 1..(Len(s \o e) + 1)
         /\ From(s \o e, c) = From(s, c) \o e
         /\ Upto(s \o e, c) = Upto(s, c)
  <1> DEFINE u == s \o e
             v == From(s, c)
             w == From(u, c)
             x == Upto(s, c)
             y == Upto(u, c)
  <1>1. /\ u \in Seq(Units) /\ Len(u) = Len(s) + Len(e)
        /\ \A k \in 1..Len(s) : u[k] = s[k]
        /\ \A k \in 1..Len(e) : u[Len(s) + k] = e[k]
    BY Joined
  <1>2. c \in 1..(Len(u) + 1)
    BY <1>1
  <1> HIDE DEF u
  <1>3. /\ v \in Seq(Units) /\ Len(v) = Len(s) + 1 - c
        /\ \A k \in 1..(Len(s) + 1 - c) : v[k] = s[c + k - 1]
        /\ x \in Seq(Units) /\ Len(x) = c - 1 /\ \A k \in 1..(c - 1) : x[k] = s[k]
    BY UptoFrom
  <1>4. /\ w \in Seq(Units) /\ Len(w) = Len(u) + 1 - c
        /\ \A k \in 1..(Len(u) + 1 - c) : w[k] = u[c + k - 1]
        /\ y \in Seq(Units) /\ Len(y) = c - 1 /\ \A k \in 1..(c - 1) : y[k] = u[k]
    BY <1>1, <1>2, UptoFrom
  <1> HIDE DEF v, w, x, y
  <1>5. w = v \o e
    <2>0. /\ v \o e \in Seq(Units) /\ Len(v \o e) = Len(v) + Len(e)
          /\ \A k \in 1..Len(v) : (v \o e)[k] = v[k]
          /\ \A k \in 1..Len(e) : (v \o e)[Len(v) + k] = e[k]
      BY <1>3, Joined
    <2>1. v \o e \in Seq(Units) /\ Len(v \o e) = Len(w)
      BY <1>1, <1>3, <1>4, <2>0
    <2>2. ASSUME NEW k \in 1..Len(w) PROVE w[k] = (v \o e)[k]
      <3>1. CASE k <= Len(v)
        <4>1. c + k - 1 \in 1..Len(s) /\ k \in 1..(Len(s) + 1 - c) /\ k \in 1..(Len(u) + 1 - c)
          BY <1>1, <1>3, <1>4, <3>1
        <4>2. w[k] = u[c + k - 1] /\ v[k] = s[c + k - 1] /\ u[c + k - 1] = s[c + k - 1]
          BY <1>1, <1>3, <1>4, <4>1
        <4>3. (v \o e)[k] = v[k]
          BY <1>3, <2>0, <3>1
        <4> QED BY <4>2, <4>3
      <3>2. CASE k > Len(v)
        <4>1. /\ k - Len(v) \in 1..Len(e) /\ c + k - 1 = Len(s) + (k - Len(v))
              /\ k \in 1..(Len(u) + 1 - c)
          BY <1>1, <1>3, <1>4, <3>2
        <4>2. (v \o e)[k] = e[k - Len(v)]
          <5>1. Len(v) + (k - Len(v)) = k
            BY <1>3
          <5> QED BY <2>0, <4>1, <5>1
        <4>3. w[k] = u[c + k - 1] /\ u[c + k - 1] = e[k - Len(v)]
          BY <1>1, <1>4, <4>1
        <4>4. w[k] = e[k - Len(v)]
          BY <4>3
        <4> QED BY <4>2, <4>4
      <3>3. k <= Len(v) \/ k > Len(v)
        BY <1>1, <1>3, <1>4
      <3> QED BY <3>1, <3>2, <3>3, Zenon
    <2> QED BY <1>4, <2>1, <2>2, SeqEqual
  <1>6. x = y
    <2>1. ASSUME NEW k \in 1..Len(x) PROVE x[k] = y[k]
      <3>1. k \in 1..(c - 1) /\ k \in 1..Len(s)
        BY <1>3
      <3> QED BY <1>1, <1>3, <1>4, <3>1
    <2> QED BY <1>3, <1>4, <2>1, SeqEqual
  <1> QED BY <1>1, <1>2, <1>5, <1>6 DEF u, v, w, x, y

-----------------------------------------------------------------------------
\* An iteration of the loop of flush, without the replacements that find nothing.
LEMMA FlushRawFromIs ==
  ASSUME NEW s \in Seq(Units), NEW i \in 1..(Len(s) + 1), NEW rest
  PROVE  LET t == From(s, i)
             r == Earliest(t)
         IN  FlushRawFrom(s, i, rest) =
               IF RegionsOf(t) = {} \/ Unconfirmed(r) THEN t
               ELSE IF r.open THEN Upto(t, r.start) \o <<Redacted>>
               ELSE Upto(t, r.start) \o <<Redacted>> \o rest[i + r.end - 1]
  BY DEF FlushRawFrom

\* What the loop of flush makes of the end of a text is what flush makes of it.
LEMMA FlushTail ==
  ASSUME NEW s \in Seq(Units), NEW i \in 1..(Len(s) + 1)
  PROVE  FlushLoop(s)[i] = FlushRaw(From(s, i))
  <1> DEFINE v == From(s, i)
             T == {k \in 1..(Len(v) + 1) : FlushLoop(s)[i + k - 1] # FlushLoop(v)[k]}
  <1>1. v \in Seq(Units) /\ Len(v) = Len(s) + 1 - i
    BY UptoFrom
  <1> HIDE DEF v
  <1>2. ASSUME T # {} PROVE FALSE
    <2>1. PICK k \in T : \A j \in T : j <= k
      <3>1. T \subseteq 0..(Len(v) + 1) /\ Len(v) + 1 \in Nat
        BY <1>1
      <3> HIDE DEF T
      <3> QED BY <1>2, <3>1, GreatestNat
    <2>2. k \in 1..(Len(v) + 1) /\ i + k - 1 \in 1..(Len(s) + 1) /\ k \in 1..(Len(s) + 2 - i)
      BY <1>1, <2>1
    <2> DEFINE t == From(v, k)
               r == Earliest(t)
    <2>3. From(s, i + k - 1) = t
      BY <2>2, FromFrom DEF v
    <2>4. FlushLoop(v)[k] = FlushRawFrom(v, k, FlushLoop(v))
      BY <1>1, <2>2, FlushLoopIs
    <2>5. FlushLoop(s)[i + k - 1] = FlushRawFrom(s, i + k - 1, FlushLoop(s))
      BY <2>2, FlushLoopIs
    <2>6. FlushRawFrom(v, k, FlushLoop(v)) =
               IF RegionsOf(t) = {} \/ Unconfirmed(r) THEN t
               ELSE IF r.open THEN Upto(t, r.start) \o <<Redacted>>
               ELSE Upto(t, r.start) \o <<Redacted>> \o FlushLoop(v)[k + r.end - 1]
      BY <1>1, <2>2, FlushRawFromIs
    <2>7. FlushRawFrom(s, i + k - 1, FlushLoop(s)) =
               IF RegionsOf(t) = {} \/ Unconfirmed(r) THEN t
               ELSE IF r.open THEN Upto(t, r.start) \o <<Redacted>>
               ELSE Upto(t, r.start) \o <<Redacted>> \o FlushLoop(s)[(i + k - 1) + r.end - 1]
      BY <2>2, <2>3, FlushRawFromIs
    <2>8. ASSUME RegionsOf(t) # {}
          PROVE  FlushLoop(v)[k + r.end - 1] = FlushLoop(s)[(i + k - 1) + r.end - 1]
      <3> DEFINE j == k + r.end - 1
      <3>1. j \in (k + 1)..(Len(v) + 1)
        BY <1>1, <2>2, <2>8, Iteration
      <3>2. r.end \in Nat /\ (i + k - 1) + r.end - 1 = i + j - 1
        <4>1. r.end \in (r.start + 1)..(Len(t) + 1) /\ r.start \in 1..Len(t)
          BY <1>1, <2>2, <2>8, Iteration
        <4>2. r.end \in Nat
          BY <4>1
        <4> HIDE DEF r
        <4> QED BY <2>2, <4>2
      <3> HIDE DEF j, r, t
      <3>3. j \notin T /\ j \in 1..(Len(v) + 1)
        BY <1>1, <2>1, <2>2, <3>1
      <3> QED BY <3>2, <3>3 DEF j
    <2>9. FlushLoop(s)[i + k - 1] = FlushLoop(v)[k]
      <3> HIDE DEF t, r
      <3> QED BY <2>4, <2>5, <2>6, <2>7, <2>8, Zenon DEF t, r
    <2> QED BY <2>1, <2>9
  <1>3. 1 \in 1..(Len(v) + 1) /\ i + 1 - 1 = i
    BY <1>1
  <1>4. FlushLoop(s)[i + 1 - 1] = FlushLoop(v)[1]
    BY <1>2, <1>3
  <1>5. FlushRaw(v) = FlushLoop(v)[1]
    BY <1>1, FlushLoopIs
  <1> QED BY <1>3, <1>4, <1>5 DEF v

\* Flush: everything up to the earliest region, what becomes of that, and the rest.
LEMMA FlushIs ==
  ASSUME NEW t \in Seq(Units)
  PROVE  LET r == Earliest(t)
         IN  FlushRaw(t) =
               IF RegionsOf(t) = {} \/ Unconfirmed(r) THEN t
               ELSE IF r.open THEN Upto(t, r.start) \o <<Redacted>>
               ELSE Upto(t, r.start) \o <<Redacted>> \o FlushRaw(From(t, r.end))
  <1> DEFINE r == Earliest(t)
  <1>1. 1 \in 1..(Len(t) + 1) /\ From(t, 1) = t
    BY SubSeqFull DEF From
  <1>2. FlushRaw(t) = FlushRawFrom(t, 1, FlushLoop(t))
    BY <1>1, FlushLoopIs
  <1>3. FlushRawFrom(t, 1, FlushLoop(t)) =
               IF RegionsOf(t) = {} \/ Unconfirmed(r) THEN t
               ELSE IF r.open THEN Upto(t, r.start) \o <<Redacted>>
               ELSE Upto(t, r.start) \o <<Redacted>> \o FlushLoop(t)[1 + r.end - 1]
    BY <1>1, FlushRawFromIs
  <1>4. ASSUME RegionsOf(t) # {}
        PROVE  FlushLoop(t)[1 + r.end - 1] = FlushRaw(From(t, r.end))
    <2>1. r.end \in 1..(Len(t) + 1)
      <3>1. r.end \in (r.start + 1)..(Len(t) + 1) /\ r.start \in 1..Len(t)
        BY <1>1, <1>4, Iteration
      <3> HIDE DEF r
      <3> QED BY <3>1
    <2>2. 1 + r.end - 1 = r.end
      <3> HIDE DEF r
      <3> QED BY <2>1
    <2> HIDE DEF r
    <2> QED BY <2>1, <2>2, FlushTail
  <1> HIDE DEF r
  <1> QED BY <1>2, <1>3, <1>4, Zenon DEF r

-----------------------------------------------------------------------------
\* An iteration of the loop of feed, without the replacements that find nothing.
LEMMA FeedRawFromIs ==
  ASSUME NEW s \in Seq(Units), NEW i \in 1..(Len(s) + 1), NEW rest
  PROVE  LET t == From(s, i)
             r == Earliest(t)
         IN  FeedRawFrom(s, i, rest) =
               IF RegionsOf(t) = {} THEN Carry(Upto(t, HeldRun(t)), From(t, HeldRun(t)))
               ELSE IF r.open THEN Carry(Upto(t, r.start), From(t, r.start))
               ELSE Behind(Upto(t, r.start), rest[i + r.end - 1])
  BY DEF FeedRawFrom

\* What the loop of feed makes of the end of a text is what feed makes of it.
LEMMA FeedTail ==
  ASSUME NEW s \in Seq(Units), NEW i \in 1..(Len(s) + 1)
  PROVE  FeedLoop(s)[i] = FeedRaw(From(s, i))
  <1> DEFINE v == From(s, i)
             T == {k \in 1..(Len(v) + 1) : FeedLoop(s)[i + k - 1] # FeedLoop(v)[k]}
  <1>1. v \in Seq(Units) /\ Len(v) = Len(s) + 1 - i
    BY UptoFrom
  <1> HIDE DEF v
  <1>2. ASSUME T # {} PROVE FALSE
    <2>1. PICK k \in T : \A j \in T : j <= k
      <3>1. T \subseteq 0..(Len(v) + 1) /\ Len(v) + 1 \in Nat
        BY <1>1
      <3> HIDE DEF T
      <3> QED BY <1>2, <3>1, GreatestNat
    <2>2. k \in 1..(Len(v) + 1) /\ i + k - 1 \in 1..(Len(s) + 1) /\ k \in 1..(Len(s) + 2 - i)
      BY <1>1, <2>1
    <2> DEFINE t == From(v, k)
               r == Earliest(t)
    <2>3. From(s, i + k - 1) = t
      BY <2>2, FromFrom DEF v
    <2>4. FeedLoop(v)[k] = FeedRawFrom(v, k, FeedLoop(v))
      BY <1>1, <2>2, FeedLoopIs
    <2>5. FeedLoop(s)[i + k - 1] = FeedRawFrom(s, i + k - 1, FeedLoop(s))
      BY <2>2, FeedLoopIs
    <2>6. FeedRawFrom(v, k, FeedLoop(v)) =
               IF RegionsOf(t) = {} THEN Carry(Upto(t, HeldRun(t)), From(t, HeldRun(t)))
               ELSE IF r.open THEN Carry(Upto(t, r.start), From(t, r.start))
               ELSE Behind(Upto(t, r.start), FeedLoop(v)[k + r.end - 1])
      BY <1>1, <2>2, FeedRawFromIs
    <2>7. FeedRawFrom(s, i + k - 1, FeedLoop(s)) =
               IF RegionsOf(t) = {} THEN Carry(Upto(t, HeldRun(t)), From(t, HeldRun(t)))
               ELSE IF r.open THEN Carry(Upto(t, r.start), From(t, r.start))
               ELSE Behind(Upto(t, r.start), FeedLoop(s)[(i + k - 1) + r.end - 1])
      BY <2>2, <2>3, FeedRawFromIs
    <2>8. ASSUME RegionsOf(t) # {}
          PROVE  FeedLoop(v)[k + r.end - 1] = FeedLoop(s)[(i + k - 1) + r.end - 1]
      <3> DEFINE j == k + r.end - 1
      <3>1. j \in (k + 1)..(Len(v) + 1)
        BY <1>1, <2>2, <2>8, Iteration
      <3>2. r.end \in Nat /\ (i + k - 1) + r.end - 1 = i + j - 1
        <4>1. r.end \in (r.start + 1)..(Len(t) + 1) /\ r.start \in 1..Len(t)
          BY <1>1, <2>2, <2>8, Iteration
        <4>2. r.end \in Nat
          BY <4>1
        <4> HIDE DEF r
        <4> QED BY <2>2, <4>2
      <3> HIDE DEF j, r, t
      <3>3. j \notin T /\ j \in 1..(Len(v) + 1)
        BY <1>1, <2>1, <2>2, <3>1
      <3> QED BY <3>2, <3>3 DEF j
    <2>9. FeedLoop(s)[i + k - 1] = FeedLoop(v)[k]
      <3> HIDE DEF t, r
      <3> QED BY <2>4, <2>5, <2>6, <2>7, <2>8, Zenon DEF t, r
    <2> QED BY <2>1, <2>9
  <1>3. 1 \in 1..(Len(v) + 1) /\ i + 1 - 1 = i
    BY <1>1
  <1>4. FeedLoop(s)[i + 1 - 1] = FeedLoop(v)[1]
    BY <1>2, <1>3
  <1>5. FeedRaw(v) = FeedLoop(v)[1]
    BY <1>1, FeedLoopIs
  <1> QED BY <1>3, <1>4, <1>5 DEF v

\* Feed: everything up to the earliest region, what becomes of that, and the rest.
LEMMA FeedIs ==
  ASSUME NEW t \in Seq(Units)
  PROVE  LET r == Earliest(t)
         IN  FeedRaw(t) =
               IF RegionsOf(t) = {} THEN Carry(Upto(t, HeldRun(t)), From(t, HeldRun(t)))
               ELSE IF r.open THEN Carry(Upto(t, r.start), From(t, r.start))
               ELSE Behind(Upto(t, r.start), FeedRaw(From(t, r.end)))
  <1> DEFINE r == Earliest(t)
  <1>1. 1 \in 1..(Len(t) + 1) /\ From(t, 1) = t
    BY SubSeqFull DEF From
  <1>2. FeedRaw(t) = FeedRawFrom(t, 1, FeedLoop(t))
    BY <1>1, FeedLoopIs
  <1>3. FeedRawFrom(t, 1, FeedLoop(t)) =
               IF RegionsOf(t) = {} THEN Carry(Upto(t, HeldRun(t)), From(t, HeldRun(t)))
               ELSE IF r.open THEN Carry(Upto(t, r.start), From(t, r.start))
               ELSE Behind(Upto(t, r.start), FeedLoop(t)[1 + r.end - 1])
    BY <1>1, FeedRawFromIs
  <1>4. ASSUME RegionsOf(t) # {}
        PROVE  FeedLoop(t)[1 + r.end - 1] = FeedRaw(From(t, r.end))
    <2>1. r.end \in 1..(Len(t) + 1)
      <3>1. r.end \in (r.start + 1)..(Len(t) + 1) /\ r.start \in 1..Len(t)
        BY <1>1, <1>4, Iteration
      <3> HIDE DEF r
      <3> QED BY <3>1
    <2>2. 1 + r.end - 1 = r.end
      <3> HIDE DEF r
      <3> QED BY <2>1
    <2> HIDE DEF r
    <2> QED BY <2>1, <2>2, FeedTail
  <1> HIDE DEF r
  <1> QED BY <1>2, <1>3, <1>4, Zenon DEF r

-----------------------------------------------------------------------------
\* A text whose end is the beginning of p does not contradict that p goes on there.
LEMMA TailMayStand ==
  ASSUME NEW t \in Seq(Units), NEW p \in Seq(Units), NEW i \in 1..Len(t),
         IsStrictPrefix(From(t, i), p)
  PROVE  MayStand(t, i, p)
  <1> DEFINE q == From(t, i)
  <1>1. q \in Seq(Units) /\ Len(q) = Len(t) + 1 - i /\ \A k \in 1..(Len(t) + 1 - i) : q[k] = t[i + k - 1]
    BY UptoFrom
  <1> HIDE DEF q
  <1>2. Len(q) <= Len(p) /\ SubSeq(q, 1, Len(q)) = SubSeq(p, 1, Len(q))
    BY DEF IsStrictPrefix, IsPrefix, q
  <1>3. ASSUME NEW k \in 1..Len(p), i + k - 1 <= Len(t)
        PROVE  t[i + k - 1] = p[k]
    <2>1. k \in 1..Len(q) /\ k \in 1..(Len(t) + 1 - i)
      BY <1>1, <1>3
    <2>2. SubSeq(q, 1, Len(q))[k] = q[k] /\ SubSeq(p, 1, Len(q))[k] = p[k]
      BY <1>1, <1>2, <2>1
    <2> QED BY <1>1, <1>2, <2>1, <2>2
  <1> QED BY <1>3 DEF MayStand

\* Where a region begins a secret may stand.
LEMMA RegionKind ==
  ASSUME NEW s \in Seq(Units), NEW r \in RegionsOf(s)
  PROVE  \E p \in Seq(Units) : /\ p = Exact \/ (p \in Markers /\ AtBoundary(s, r.start))
                              /\ MayStand(s, r.start, p)
  <1>0. s \in Seq(Shown) /\ Exact \in Seq(Units) /\ \A m \in Markers : m \in Seq(Units)
    BY RedactorAssumption DEF Shown
  <1>d. DOMAIN s = 1..Len(s)
    OBVIOUS
  <1>1. CASE r \in MarkerRegions(s)
    <2>1. PICK i \in DOMAIN s :
            /\ AtBoundary(s, i) /\ \E m \in Markers : At(s, i, m)
            /\ r = Region(i, RunEnd(s, i + 2), RunEnd(s, i + 2) = Len(s) + 1, 1)
      BY <1>1 DEF MarkerRegions
    <2>2. PICK m \in Markers : At(s, i, m)
      BY <2>1
    <2>3. MayStand(s, i, m) /\ r.start = i
      BY <1>0, <1>d, <2>1, <2>2, AtMayStand DEF Region
    <2> QED BY <1>0, <2>1, <2>3
  <1>2. CASE r \in ExactRegions(s)
    <2>1. PICK i \in DOMAIN s : At(s, i, Exact) /\ r = Region(i, i + Len(Exact), FALSE, 2)
      BY <1>2 DEF ExactRegions
    <2>2. MayStand(s, i, Exact) /\ r.start = i
      BY <1>0, <1>d, <2>1, AtMayStand DEF Region
    <2> QED BY <1>0, <2>2
  <1>3. CASE r \in ExactTails(s)
    <2>1. PICK i \in DOMAIN s : IsStrictPrefix(From(s, i), Exact) /\ r = Region(i, Len(s) + 1, TRUE, 3)
      BY <1>3 DEF ExactTails
    <2>2. MayStand(s, i, Exact) /\ r.start = i
      BY <1>0, <1>d, <2>1, TailMayStand DEF Region
    <2> QED BY <1>0, <2>2
  <1>4. CASE r \in MarkerTails(s)
    <2>1. PICK i \in DOMAIN s :
            /\ AtBoundary(s, i) /\ \E m \in Markers : IsStrictPrefix(From(s, i), m)
            /\ r = Region(i, Len(s) + 1, TRUE, 4)
      BY <1>4 DEF MarkerTails
    <2>2. PICK m \in Markers : IsStrictPrefix(From(s, i), m)
      BY <2>1
    <2>3. MayStand(s, i, m) /\ r.start = i
      BY <1>0, <1>d, <2>1, <2>2, TailMayStand DEF Region
    <2> QED BY <1>0, <2>1, <2>3
  <1> QED BY <1>1, <1>2, <1>3, <1>4 DEF RegionsOf

\* Where nothing can begin no region begins, whatever comes behind the text.
LEMMA NoRegionBefore ==
  ASSUME Keepable, NEW t \in Seq(Units), NEW e \in Seq(Units), NEW c \in 1..(Len(t) + 1),
         \A k \in 1..(c - 1) : Clear(t, k), NEW q \in RegionsOf(t \o e)
  PROVE  c <= q.start
  <1> DEFINE u == t \o e
  <1>1. /\ u \in Seq(Units) /\ Len(u) = Len(t) + Len(e) /\ \A k \in 1..Len(t) : u[k] = t[k]
    BY Joined
  <1> HIDE DEF u
  <1>2. q \in RegionsOf(u) /\ q.start \in 1..Len(u)
    BY <1>1, RegionShape DEF u
  <1> DEFINE i == q.start
  <1> SUFFICES ASSUME i < c PROVE FALSE
    BY <1>2
  <1>3. i \in 1..(c - 1) /\ i \in 1..Len(t) /\ Len(t) \in Nat /\ Len(t) <= Len(u) /\ Len(u) \in Nat
    BY <1>1, <1>2
  <1>4. PICK p \in Seq(Units) : /\ p = Exact \/ (p \in Markers /\ AtBoundary(u, i))
                               /\ MayStand(u, i, p)
    BY <1>1, <1>2, RegionKind
  <1> HIDE DEF i
  <1>5. MayStand(t, i, p)
    <2>1. Len(p) \in Nat /\ \A k \in 1..Len(t) : t[k] = u[k]
      BY <1>1
    <2> QED BY <1>3, <1>4, <2>1, MayStandPart
  <1>6. AtBoundary(u, i) => AtBoundary(t, i)
    <2>1. i > 1 => t[i - 1] = u[i - 1]
      BY <1>1, <1>3
    <2> QED BY <1>3, <2>1, BoundaryPart
  <1> QED BY <1>3, <1>4, <1>5, <1>6 DEF Clear

\* Nor can anything begin before the earliest region of a text.
LEMMA ClearBefore ==
  ASSUME NEW s \in Seq(Units), RegionsOf(s) # {}
  PROVE  \A k \in 1..(Earliest(s).start - 1) : Clear(s, k)
  <1> DEFINE r == Earliest(s)
             c == r.start
  <1>1. r \in RegionsOf(s) /\ \A q \in RegionsOf(s) : c <= q.start
    BY EarliestExists
  <1>2. c \in 1..Len(s) /\ c \in 1..(Len(s) + 1) /\ r.open \in BOOLEAN
    <2> HIDE DEF r
    <2> QED BY <1>1, RegionShape
  <1> HIDE DEF r
  <1>3. CASE \/ c = 1 \/ ~ Token(s[c - 1])
             \/ IsStrictPrefix(From(s, c), Exact) /\ Size(From(s, c)) >= 4
    BY <1>1, <1>2, <1>3, HeldBack DEF r
  <1>4. CASE At(s, c, Exact)
    <2>1. c + Len(Exact) - 1 <= Len(s) /\ s \in Seq(Shown)
      BY <1>4 DEF At, Shown
    <2>2. Bare(s, c)
      BY <1>1, <1>2, NothingBefore
    <2>3. ASSUME NEW k \in 1..(c - 1), NEW p \in Seq(Units), MayStand(s, k, p),
                 p = Exact \/ Len(p) = 2
          PROVE  At(s, k, p)
      <3>1. k \in 1..Len(s) /\ k + Len(p) - 1 <= Len(s)
        <4>1. Len(p) \in Nat /\ Len(s) \in Nat /\ k < c /\ c <= Len(s) /\ k \in Nat \ {0} /\ c \in Nat
          BY <1>2
        <4>2. Len(p) = 2 \/ c + Len(p) - 1 <= Len(s)
          BY <2>1, <2>3
        <4>0. \A l, n, a, b \in Nat : a < b /\ b <= n /\ (l = 2 \/ b + l - 1 <= n) => a + l - 1 <= n
          OBVIOUS
        <4> HIDE DEF c
        <4>3. k + Len(p) - 1 <= Len(s)
          BY <4>0, <4>1, <4>2
        <4> QED BY <4>1, <4>3
      <3> QED BY <2>1, <2>3, <3>1, MayStandAt
    <2>4. ASSUME NEW k \in 1..(c - 1) PROVE Clear(s, k)
      <3>1. Exact \in Seq(Units) /\ \A m \in Markers : m \in Seq(Units) /\ Len(m) = 2
        BY RedactorAssumption
      <3> QED BY <2>2, <2>3, <3>1 DEF Clear, Bare
    <2> QED BY <2>4 DEF r
  <1>5. AtBoundary(s, c) \/ At(s, c, Exact) \/ (IsStrictPrefix(From(s, c), Exact) /\ Size(From(s, c)) >= 4)
    BY <1>1 DEF RegionsOf, MarkerRegions, ExactRegions, ExactTails, MarkerTails, Region
  <1> QED BY <1>3, <1>4, <1>5 DEF AtBoundary

-----------------------------------------------------------------------------
(* The text is kept: the regions of the end of a text. *)

\* A position as RunEnd describes it is RunEnd.
LEMMA RunEndIs ==
  ASSUME NEW s \in Seq(Units), NEW i \in 1..(Len(s) + 1), NEW j \in i..(Len(s) + 1),
         j = Len(s) + 1 \/ ~ Token(s[j]), \A k \in i..(j - 1) : Token(s[k])
  PROVE  RunEnd(s, i) = j
  <1> DEFINE e == RunEnd(s, i)
  <1>1. /\ e \in i..(Len(s) + 1)
        /\ e = Len(s) + 1 \/ ~ Token(s[e])
        /\ \A k \in i..(e - 1) : Token(s[k])
    BY RunEndExists
  <1> HIDE DEF e
  <1>2. ~ (e < j)
    <2>1. e < j => e \in i..(j - 1) /\ e # Len(s) + 1
      BY <1>1
    <2> QED BY <1>1, <2>1
  <1>3. ~ (j < e)
    <2>1. j < e => j \in i..(e - 1) /\ j # Len(s) + 1
      BY <1>1
    <2> QED BY <1>1, <2>1
  <1>4. e = j
    BY <1>1, <1>2, <1>3
  <1> QED BY <1>4 DEF e

\* A run in the end of a text ends where it ends in the text.
LEMMA RunEndFrom ==
  ASSUME NEW t \in Seq(Units), NEW c \in 1..(Len(t) + 1), NEW d \in 1..(Len(t) + 2 - c)
  PROVE  /\ RunEnd(t, c + d - 1) = c + RunEnd(From(t, c), d) - 1
         /\ RunEnd(From(t, c), d) \in d..(Len(t) + 2 - c)
  <1> DEFINE v == From(t, c)
             e == RunEnd(v, d)
             j == c + e - 1
  <1>1. v \in Seq(Units) /\ Len(v) = Len(t) + 1 - c /\ \A k \in 1..(Len(t) + 1 - c) : v[k] = t[c + k - 1]
    BY UptoFrom
  <1> HIDE DEF v
  <1>d. d \in 1..(Len(v) + 1)
    BY <1>1
  <1>2. /\ e \in d..(Len(v) + 1)
        /\ e = Len(v) + 1 \/ ~ Token(v[e])
        /\ \A k \in d..(e - 1) : Token(v[k])
    BY <1>1, <1>d, RunEndExists
  <1> HIDE DEF e
  <1>3. c + d - 1 \in 1..(Len(t) + 1) /\ j \in (c + d - 1)..(Len(t) + 1)
    BY <1>1, <1>2
  <1>4. j = Len(t) + 1 \/ ~ Token(t[j])
    <2>l. Len(v) = Len(t) + 1 - c /\ e \in d..(Len(v) + 1) /\ d >= 1
      BY <1>1, <1>2
    <2>0. e # Len(v) + 1 => e \in 1..(Len(t) + 1 - c)
      BY <2>l
    <2>1. e # Len(v) + 1 => v[e] = t[c + e - 1]
      BY <1>1, <2>0
    <2>2. e = Len(v) + 1 => j = Len(t) + 1
      BY <1>1, <1>2
    <2> QED BY <1>2, <2>1, <2>2
  <1>5. ASSUME NEW k \in (c + d - 1)..(j - 1) PROVE Token(t[k])
    <2>1. k - c + 1 \in d..(e - 1) /\ k - c + 1 \in 1..(Len(t) + 1 - c) /\ c + (k - c + 1) - 1 = k
      BY <1>1, <1>2
    <2>2. v[k - c + 1] = t[c + (k - c + 1) - 1]
      BY <1>1, <2>1
    <2> QED BY <1>2, <2>1, <2>2
  <1> HIDE DEF j
  <1>6. RunEnd(t, c + d - 1) = j
    BY <1>3, <1>4, <1>5, RunEndIs
  <1> QED BY <1>1, <1>2, <1>6 DEF j, e, v

\* Behind a text is what was put behind it.
LEMMA FromBehind ==
  ASSUME NEW s \in Seq(Units), NEW e \in Seq(Units)
  PROVE  Len(s) + 1 \in 1..(Len(s \o e) + 1) /\ From(s \o e, Len(s) + 1) = e
  <1> DEFINE u == s \o e
             n == Len(s) + 1
             w == From(u, n)
  <1>1. /\ u \in Seq(Units) /\ Len(u) = Len(s) + Len(e)
        /\ \A k \in 1..Len(e) : u[Len(s) + k] = e[k]
    BY Joined
  <1>2. n \in 1..(Len(u) + 1) /\ n = Len(s) + 1
    BY <1>1
  <1> HIDE DEF u, n
  <1>3. w \in Seq(Units) /\ Len(w) = Len(u) + 1 - n /\ \A k \in 1..(Len(u) + 1 - n) : w[k] = u[n + k - 1]
    BY <1>1, <1>2, UptoFrom
  <1> HIDE DEF w
  <1>4. Len(w) = Len(e)
    BY <1>1, <1>2, <1>3
  <1>5. ASSUME NEW k \in 1..Len(w) PROVE w[k] = e[k]
    <2>1. n + k - 1 = Len(s) + k /\ k \in 1..Len(e) /\ k \in 1..(Len(u) + 1 - n)
      BY <1>1, <1>2, <1>3, <1>4
    <2> QED BY <1>1, <1>3, <2>1
  <1>6. w = e
    BY <1>3, <1>4, <1>5, SeqEqual
  <1> QED BY <1>2, <1>6 DEF w, n, u

\* A run that does not end in s goes on in what comes behind it.
LEMMA RunEndAppended ==
  ASSUME NEW s \in Seq(Units), NEW e \in Seq(Units), NEW i \in 1..(Len(s) + 1)
  PROVE  /\ RunEnd(s, i) # Len(s) + 1 => RunEnd(s \o e, i) = RunEnd(s, i)
         /\ RunEnd(s, i) = Len(s) + 1 =>
              RunEnd(s \o e, i) = Len(s) + RunEnd(e, 1) /\ From(s \o e, RunEnd(s \o e, i)) = Undropped(e)
  <1> DEFINE u == s \o e
             a == RunEnd(s, i)
             b == RunEnd(e, 1)
             j == Len(s) + b
  <1>1. /\ u \in Seq(Units) /\ Len(u) = Len(s) + Len(e)
        /\ \A k \in 1..Len(s) : u[k] = s[k]
        /\ \A k \in 1..Len(e) : u[Len(s) + k] = e[k]
    BY Joined
  <1>2. /\ a \in i..(Len(s) + 1)
        /\ a = Len(s) + 1 \/ ~ Token(s[a])
        /\ \A k \in i..(a - 1) : Token(s[k])
    BY RunEndExists
  <1>3. /\ b \in 1..(Len(e) + 1)
        /\ b = Len(e) + 1 \/ ~ Token(e[b])
        /\ \A k \in 1..(b - 1) : Token(e[k])
    BY RunEndExists
  <1>f. From(u, Len(s) + 1) = e
    BY FromBehind
  <1> HIDE DEF u, a, b
  <1>4. ASSUME a # Len(s) + 1 PROVE RunEnd(u, i) = a
    <2>1. i \in 1..(Len(u) + 1) /\ a \in i..(Len(u) + 1) /\ a \in 1..Len(s)
      BY <1>1, <1>2, <1>4
    <2>2. ~ Token(u[a])
      BY <1>1, <1>2, <1>4, <2>1
    <2>3. ASSUME NEW k \in i..(a - 1) PROVE Token(u[k])
      <3>1. k \in 1..Len(s)
        BY <2>1
      <3> QED BY <1>1, <1>2, <3>1
    <2> QED BY <1>1, <2>1, <2>2, <2>3, RunEndIs
  <1>5. ASSUME a = Len(s) + 1 PROVE RunEnd(u, i) = j /\ From(u, RunEnd(u, i)) = From(e, b)
    <2>1. i \in 1..(Len(u) + 1) /\ j \in i..(Len(u) + 1)
      BY <1>1, <1>3
    <2>2. j = Len(u) + 1 \/ ~ Token(u[j])
      <3>1. b # Len(e) + 1 => b \in 1..Len(e)
        BY <1>3
      <3>2. b = Len(e) + 1 => j = Len(u) + 1
        BY <1>1, <1>3
      <3> QED BY <1>1, <1>3, <3>1, <3>2
    <2>3. ASSUME NEW k \in i..(j - 1) PROVE Token(u[k])
      <3>1. CASE k \in 1..Len(s)
        <4>1. k \in i..(a - 1)
          BY <1>5, <3>1
        <4> QED BY <1>1, <1>2, <3>1, <4>1
      <3>2. CASE k \notin 1..Len(s)
        <4>1. k - Len(s) \in 1..(b - 1) /\ k - Len(s) \in 1..Len(e) /\ Len(s) + (k - Len(s)) = k
          BY <1>3, <3>2
        <4>2. u[Len(s) + (k - Len(s))] = e[k - Len(s)]
          BY <1>1, <4>1
        <4> QED BY <1>3, <4>1, <4>2
      <3> QED BY <3>1, <3>2
    <2> HIDE DEF j
    <2>4. RunEnd(u, i) = j
      BY <1>1, <2>1, <2>2, <2>3, RunEndIs
    <2>5. Len(s) + 1 \in 1..(Len(u) + 1) /\ b \in 1..(Len(u) + 2 - (Len(s) + 1)) /\ (Len(s) + 1) + b - 1 = j
      BY <1>1, <1>3 DEF j
    <2>6. From(u, j) = From(e, b)
      <3> DEFINE n == Len(s) + 1
      <3>1. From(u, n) = e /\ n \in 1..(Len(u) + 1) /\ b \in 1..(Len(u) + 2 - n) /\ n + b - 1 = j
        BY <1>f, <2>5
      <3> HIDE DEF n
      <3>2. From(From(u, n), b) = From(u, n + b - 1)
        BY <1>1, <3>1, FromFrom
      <3> QED BY <3>1, <3>2
    <2> QED BY <2>4, <2>6
  <1> QED BY <1>4, <1>5 DEF u, a, b, j, Undropped

-----------------------------------------------------------------------------
\* What it takes for a region to lie in a text.
IsRegion(s, i, end, open, rank) ==
  \/ /\ rank = 1 /\ AtBoundary(s, i) /\ \E m \in Markers : At(s, i, m)
     /\ end = RunEnd(s, i + 2) /\ open = (RunEnd(s, i + 2) = Len(s) + 1)
  \/ /\ rank = 2 /\ At(s, i, Exact)
     /\ end = i + Len(Exact) /\ open = FALSE
  \/ /\ rank = 3 /\ IsStrictPrefix(From(s, i), Exact) /\ Size(From(s, i)) >= 4
     /\ end = Len(s) + 1 /\ open = TRUE
  \/ /\ rank = 4 /\ AtBoundary(s, i) /\ \E m \in Markers : IsStrictPrefix(From(s, i), m)
     /\ end = Len(s) + 1 /\ open = TRUE

\* The regions of a text are those that lie in it.
LEMMA RegionIs ==
  ASSUME NEW s \in Seq(Units), NEW i, NEW end, NEW open \in BOOLEAN, NEW rank
  PROVE  Region(i, end, open, rank) \in RegionsOf(s) <=>
           i \in 1..Len(s) /\ IsRegion(s, i, end, open, rank)
  <1> DEFINE r == Region(i, end, open, rank)
             D == DOMAIN s
             O(j) == RunEnd(s, j + 2) = Len(s) + 1
  <1>0. D = 1..Len(s)
    OBVIOUS
  <1>r. \A j, e, o, k : r = Region(j, e, o, k) <=> i = j /\ end = e /\ open = o /\ rank = k
    BY DEF Region
  <1> HIDE DEF r
  <1>1. r \in MarkerRegions(s) <=>
          \E j \in D : /\ AtBoundary(s, j) /\ \E m \in Markers : At(s, j, m)
                       /\ r = Region(j, RunEnd(s, j + 2), O(j), 1)
    BY DEF MarkerRegions
  <1>2. r \in ExactRegions(s) <=>
          \E j \in D : At(s, j, Exact) /\ r = Region(j, j + Len(Exact), FALSE, 2)
    BY DEF ExactRegions
  <1>3. r \in ExactTails(s) <=>
          \E j \in D : /\ IsStrictPrefix(From(s, j), Exact) /\ Size(From(s, j)) >= 4
                       /\ r = Region(j, Len(s) + 1, TRUE, 3)
    BY DEF ExactTails
  <1>4. r \in MarkerTails(s) <=>
          \E j \in D : /\ AtBoundary(s, j) /\ \E m \in Markers : IsStrictPrefix(From(s, j), m)
                       /\ r = Region(j, Len(s) + 1, TRUE, 4)
    BY DEF MarkerTails
  <1>o. O(i) = (RunEnd(s, i + 2) = Len(s) + 1)
    OBVIOUS
  <1> HIDE DEF D, O
  <1>5. r \in RegionsOf(s) <=> i \in D /\ IsRegion(s, i, end, open, rank)
    <2>1. r \in MarkerRegions(s) <=> 
            /\ i \in D /\ rank = 1 /\ AtBoundary(s, i) /\ (\E m \in Markers : At(s, i, m))
            /\ end = RunEnd(s, i + 2) /\ open = O(i)
      BY <1>1, <1>r, Zenon
    <2>2. r \in ExactRegions(s) <=>
            /\ i \in D /\ rank = 2 /\ At(s, i, Exact) /\ end = i + Len(Exact) /\ open = FALSE
      BY <1>2, <1>r, Zenon
    <2>3. r \in ExactTails(s) <=>
            /\ i \in D /\ rank = 3 /\ IsStrictPrefix(From(s, i), Exact) /\ Size(From(s, i)) >= 4
            /\ end = Len(s) + 1 /\ open = TRUE
      BY <1>3, <1>r, Zenon
    <2>4. r \in MarkerTails(s) <=>
            /\ i \in D /\ rank = 4 /\ AtBoundary(s, i)
            /\ \E m \in Markers : IsStrictPrefix(From(s, i), m)
            /\ end = Len(s) + 1 /\ open = TRUE
      BY <1>4, <1>r, Zenon
    <2> QED BY <1>o, <2>1, <2>2, <2>3, <2>4, Zenon DEF RegionsOf, IsRegion
  <1> QED BY <1>0, <1>5 DEF r

\* Regions that start together are told apart by their rank.
LEMMA RegionUnique ==
  ASSUME NEW s \in Seq(Units), NEW r \in RegionsOf(s), NEW q \in RegionsOf(s),
         r.start = q.start, r.rank = q.rank
  PROVE  r = q
  <1>1. /\ r = Region(r.start, r.end, r.open, r.rank) /\ r.open \in BOOLEAN
        /\ q = Region(q.start, q.end, q.open, q.rank) /\ q.open \in BOOLEAN
    BY RegionShape
  <1>2. /\ IsRegion(s, r.start, r.end, r.open, r.rank)
        /\ IsRegion(s, q.start, q.end, q.open, q.rank)
    BY <1>1, RegionIs
  <1>3. r.end = q.end /\ r.open = q.open
    <2>1. 1 # 2 /\ 1 # 3 /\ 1 # 4 /\ 2 # 3 /\ 2 # 4 /\ 3 # 4
      OBVIOUS
    <2> QED BY <1>2, <2>1, Zenon DEF IsRegion
  <1> QED BY <1>1, <1>3

\* A region that no other one precedes is the earliest.
LEMMA EarliestIs ==
  ASSUME NEW s \in Seq(Units), NEW r \in RegionsOf(s),
         \A q \in RegionsOf(s) : r.start < q.start \/ (r.start = q.start /\ r.rank <= q.rank)
  PROVE  Earliest(s) = r
  <1> DEFINE q == Earliest(s)
  <1>1. q \in RegionsOf(s) /\ q.start <= r.start /\ (r.start = q.start => q.rank <= r.rank)
    BY EarliestExists
  <1> HIDE DEF q
  <1>2. q.start \in Nat /\ r.start \in Nat /\ q.rank \in Nat /\ r.rank \in Nat
    BY <1>1, RegionShape
  <1>3. r.start = q.start /\ r.rank = q.rank
    BY <1>1, <1>2
  <1> QED BY <1>1, <1>3, RegionUnique DEF q

-----------------------------------------------------------------------------
\* What stands in the end of a text stands in the text.
LEMMA InEnd ==
  ASSUME NEW t \in Seq(Units), NEW c \in 1..(Len(t) + 1), NEW i \in 1..(Len(t) + 1 - c)
  PROVE  /\ c + i - 1 \in 1..Len(t) /\ i \in 1..Len(From(t, c))
         /\ From(From(t, c), i) = From(t, c + i - 1)
         /\ From(t, c)[i] = t[c + i - 1]
         /\ \A p \in Seq(Units) : At(From(t, c), i, p) <=> At(t, c + i - 1, p)
         /\ i > 1 => (AtBoundary(From(t, c), i) <=> AtBoundary(t, c + i - 1))
         /\ i = 1 => AtBoundary(From(t, c), i)
  <1> DEFINE v == From(t, c)
             j == c + i - 1
  <1>1. v \in Seq(Units) /\ Len(v) = Len(t) + 1 - c /\ \A k \in 1..(Len(t) + 1 - c) : v[k] = t[c + k - 1]
    BY UptoFrom
  <1>2. j \in 1..Len(t) /\ i \in 1..Len(v) /\ i \in 1..(Len(t) + 2 - c)
    BY <1>1
  <1>3. From(v, i) = From(t, j)
    BY <1>2, FromFrom
  <1> HIDE DEF v
  <1>4. ASSUME NEW p \in Seq(Units) PROVE At(v, i, p) <=> At(t, j, p)
    <2>0. v \in Seq(Shown) /\ t \in Seq(Shown) /\ Len(p) \in Nat
      BY <1>1 DEF Shown
    <2>1. i + Len(p) - 1 <= Len(v) <=> j + Len(p) - 1 <= Len(t)
      BY <1>1
    <2>2. MayStand(v, i, p) <=> MayStand(t, j, p)
      <3>1. ASSUME NEW k \in 1..Len(p)
            PROVE  (i + k - 1 <= Len(v) => v[i + k - 1] = p[k])
                     <=> (j + k - 1 <= Len(t) => t[j + k - 1] = p[k])
        <4>1. i + k - 1 <= Len(v) <=> j + k - 1 <= Len(t)
          BY <1>1
        <4>2. i + k - 1 <= Len(v) => i + k - 1 \in 1..(Len(t) + 1 - c) /\ c + (i + k - 1) - 1 = j + k - 1
          BY <1>1
        <4>3. i + k - 1 <= Len(v) => v[i + k - 1] = t[c + (i + k - 1) - 1]
          BY <1>1, <4>2
        <4>4. i + k - 1 <= Len(v) => v[i + k - 1] = t[j + k - 1]
          BY <4>2, <4>3
        <4> HIDE DEF j
        <4> QED BY <4>1, <4>4
      <3> QED BY <3>1 DEF MayStand
    <2> HIDE DEF j
    <2>3. At(v, i, p) <=> MayStand(v, i, p) /\ i + Len(p) - 1 <= Len(v)
      BY <1>2, <2>0, AtMayStand, MayStandAt DEF At
    <2>4. At(t, j, p) <=> MayStand(t, j, p) /\ j + Len(p) - 1 <= Len(t)
      BY <1>2, <2>0, AtMayStand, MayStandAt DEF At
    <2> QED BY <2>1, <2>2, <2>3, <2>4
  <1>5. i > 1 => (AtBoundary(v, i) <=> AtBoundary(t, j))
    <2>1. i > 1 => i - 1 \in 1..(Len(t) + 1 - c) /\ c + (i - 1) - 1 = j - 1 /\ i # 1 /\ j # 1
      BY <1>1
    <2>2. i > 1 => v[i - 1] = t[c + (i - 1) - 1]
      BY <1>1, <2>1
    <2>3. i > 1 => v[i - 1] = t[j - 1] /\ i # 1 /\ j # 1
      BY <2>1, <2>2
    <2> HIDE DEF j
    <2> QED BY <2>3 DEF AtBoundary
  <1>6. i = 1 => AtBoundary(v, i)
    BY DEF AtBoundary
  <1> QED BY <1>1, <1>2, <1>3, <1>4, <1>5, <1>6 DEF v

\* Where a text can be cut: at the beginning of a token, or where the exact secret begins.
Cuttable(t, c) ==
  \/ c = 1 \/ ~ Token(t[c - 1])
  \/ c <= Len(t) /\ t[c] = Exact[1]

\* Where the exact secret begins no marker does.
LEMMA NoMarkerThere ==
  ASSUME SecretsApart, NEW t \in Seq(Units), NEW i \in 1..Len(t), t[i] = Exact[1], NEW m \in Markers
  PROVE  ~ At(t, i, m) /\ ~ IsStrictPrefix(From(t, i), m)
  <1>0. m \in Seq(Units) /\ Len(m) = 2 /\ m[1] # Exact[1] /\ t \in Seq(Shown)
    BY RedactorAssumption DEF SecretsApart, Shown
  <1>1. ~ MayStand(t, i, m)
    <2>1. 1 \in 1..Len(m) /\ i + 1 - 1 <= Len(t) /\ i + 1 - 1 = i
      BY <1>0
    <2> QED BY <1>0, <2>1 DEF MayStand
  <1> QED BY <1>0, <1>1, AtMayStand, TailMayStand

\* The regions of the end of a text are regions of the text.
LEMMA RegionsInEnd ==
  ASSUME SecretsApart, NEW t \in Seq(Units), NEW c \in 1..(Len(t) + 1), Cuttable(t, c),
         NEW i \in 1..(Len(t) + 1 - c), NEW end \in Int, NEW open \in BOOLEAN, NEW rank
  PROVE  Region(i, end, open, rank) \in RegionsOf(From(t, c))
           <=> Region(c + i - 1, c + end - 1, open, rank) \in RegionsOf(t)
  <1> DEFINE v == From(t, c)
             j == c + i - 1
             f == c + end - 1
  <1>1. v \in Seq(Units) /\ Len(v) = Len(t) + 1 - c
    BY UptoFrom
  <1>2. /\ j \in 1..Len(t) /\ i \in 1..Len(v)
        /\ From(v, i) = From(t, j) /\ v[i] = t[j]
        /\ \A p \in Seq(Units) : At(v, i, p) <=> At(t, j, p)
        /\ i > 1 => (AtBoundary(v, i) <=> AtBoundary(t, j))
        /\ i = 1 => AtBoundary(v, i)
    BY InEnd
  <1> HIDE DEF v
  <1>4. \/ AtBoundary(v, i) <=> AtBoundary(t, j)
        \/ \A m \in Markers : /\ ~ At(v, i, m) /\ ~ IsStrictPrefix(From(v, i), m)
                              /\ ~ At(t, j, m) /\ ~ IsStrictPrefix(From(t, j), m)
    <2>1. CASE i > 1
      BY <1>2, <2>1
    <2>2. CASE i = 1
      <3>1. j = c
        BY <2>2
      <3>2. c = 1 \/ ~ Token(t[c - 1]) => AtBoundary(t, j)
        BY <3>1 DEF AtBoundary
      <3>3. ASSUME t[j] = Exact[1], NEW m \in Markers
            PROVE  /\ ~ At(v, i, m) /\ ~ IsStrictPrefix(From(v, i), m)
                   /\ ~ At(t, j, m) /\ ~ IsStrictPrefix(From(t, j), m)
        <4>1. v[i] = Exact[1]
          BY <1>2, <3>3
        <4> HIDE DEF j
        <4> QED BY <1>1, <1>2, <3>3, <4>1, NoMarkerThere
      <3>4. (c = 1 \/ ~ Token(t[c - 1])) \/ t[j] = Exact[1]
        BY <3>1 DEF Cuttable
      <3> HIDE DEF j
      <3> QED BY <1>2, <2>2, <3>2, <3>3, <3>4
    <2>3. i > 1 \/ i = 1
      OBVIOUS
    <2> HIDE DEF j
    <2> QED BY <2>1, <2>2, <2>3
  <1>5. ASSUME \E m \in Markers : At(v, i, m)
        PROVE  RunEnd(t, j + 2) = c + RunEnd(v, i + 2) - 1 /\ RunEnd(v, i + 2) \in Int
    <2>1. PICK m \in Markers : At(v, i, m)
      BY <1>5
    <2>m. Len(m) = 2
      BY <2>1, RedactorAssumption
    <2>2. i + 1 <= Len(v)
      <3>1. i + Len(m) - 1 <= Len(v)
        BY <2>1 DEF At
      <3> QED BY <1>1, <2>m, <3>1
    <2>3. i + 2 \in 1..(Len(t) + 2 - c) /\ c + (i + 2) - 1 = j + 2
      BY <1>1, <2>2
    <2>4. /\ RunEnd(t, c + (i + 2) - 1) = c + RunEnd(v, i + 2) - 1
          /\ RunEnd(v, i + 2) \in (i + 2)..(Len(t) + 2 - c)
      BY <2>3, RunEndFrom DEF v
    <2> QED BY <2>3, <2>4
  <1>6. IsRegion(v, i, end, open, rank) <=> IsRegion(t, j, f, open, rank)
    <2>0. /\ Exact \in Seq(Units) /\ \A m \in Markers : m \in Seq(Units)
          /\ Len(Exact) \in Nat
      BY RedactorAssumption
    <2>1. (\E m \in Markers : At(v, i, m)) <=> (\E m \in Markers : At(t, j, m))
      BY <1>2, <2>0
    <2>2. /\ end = Len(v) + 1 <=> f = Len(t) + 1
          /\ end = i + Len(Exact) <=> f = j + Len(Exact)
      <3>1. Len(Exact) \in Nat /\ Len(v) = Len(t) + 1 - c /\ Len(t) \in Nat /\ c \in Nat /\ i \in Nat
        BY <1>1, <2>0
      <3> QED BY <3>1
    <2>3. ASSUME \E m \in Markers : At(v, i, m)
          PROVE  /\ end = RunEnd(v, i + 2) <=> f = RunEnd(t, j + 2)
                 /\ RunEnd(v, i + 2) = Len(v) + 1 <=> RunEnd(t, j + 2) = Len(t) + 1
      <3>1. Len(v) = Len(t) + 1 - c /\ Len(t) \in Nat /\ c \in Nat /\ i \in Nat
        BY <1>1
      <3>2. RunEnd(t, j + 2) = c + RunEnd(v, i + 2) - 1 /\ RunEnd(v, i + 2) \in Int
        BY <1>5, <2>3
      <3>3. ASSUME NEW a \in Int, NEW b, b = c + a - 1
            PROVE  /\ end = a <=> f = b
                   /\ a = Len(v) + 1 <=> b = Len(t) + 1
        BY <3>1, <3>3
      <3> QED BY <3>2, <3>3, Zenon
    <2> DEFINE A == \E m \in Markers : At(v, i, m)
               B == RunEnd(v, i + 2) = Len(v) + 1
               C == RunEnd(t, j + 2) = Len(t) + 1
    <2>4. A => (B <=> C) /\ (end = RunEnd(v, i + 2) <=> f = RunEnd(t, j + 2))
      BY <2>3
    <2>5. A => ((open = B) <=> (open = C))
      <3> HIDE DEF A
      <3> QED BY <2>4
    <2>6. IsRegion(v, i, end, open, rank) <=>
            \/ /\ rank = 1 /\ AtBoundary(v, i) /\ A
               /\ end = RunEnd(v, i + 2) /\ open = B
            \/ /\ rank = 2 /\ At(v, i, Exact)
               /\ end = i + Len(Exact) /\ open = FALSE
            \/ /\ rank = 3 /\ IsStrictPrefix(From(v, i), Exact) /\ Size(From(v, i)) >= 4
               /\ end = Len(v) + 1 /\ open = TRUE
            \/ /\ rank = 4 /\ AtBoundary(v, i) /\ \E m \in Markers : IsStrictPrefix(From(v, i), m)
               /\ end = Len(v) + 1 /\ open = TRUE
      BY DEF IsRegion
    <2>7. IsRegion(t, j, f, open, rank) <=>
            \/ /\ rank = 1 /\ AtBoundary(t, j) /\ A
               /\ f = RunEnd(t, j + 2) /\ open = C
            \/ /\ rank = 2 /\ At(v, i, Exact)
               /\ f = j + Len(Exact) /\ open = FALSE
            \/ /\ rank = 3 /\ IsStrictPrefix(From(v, i), Exact) /\ Size(From(v, i)) >= 4
               /\ f = Len(t) + 1 /\ open = TRUE
            \/ /\ rank = 4 /\ AtBoundary(t, j) /\ \E m \in Markers : IsStrictPrefix(From(v, i), m)
               /\ f = Len(t) + 1 /\ open = TRUE
      <3>1. (\E m \in Markers : At(t, j, m)) <=> A
        BY <2>1
      <3>2. (At(v, i, Exact) <=> At(t, j, Exact)) /\ From(v, i) = From(t, j)
        BY <1>2, <2>0
      <3> HIDE DEF A, j, f
      <3> QED BY <3>1, <3>2, Zenon DEF IsRegion
    <2>8. \/ AtBoundary(v, i) <=> AtBoundary(t, j)
          \/ ~ A /\ ~ \E m \in Markers : IsStrictPrefix(From(v, i), m)
      BY <1>4
    <2> HIDE DEF A, B, C, j, f
    <2> QED BY <2>2, <2>4, <2>5, <2>6, <2>7, <2>8, Zenon
  <1>7. Region(i, end, open, rank) \in RegionsOf(v) <=> IsRegion(v, i, end, open, rank)
    BY <1>1, <1>2, RegionIs
  <1>8. Region(j, f, open, rank) \in RegionsOf(t) <=> IsRegion(t, j, f, open, rank)
    <2>1. j \in 1..Len(t)
      BY <1>2
    <2> HIDE DEF j, f
    <2> QED BY <2>1, RegionIs
  <1> HIDE DEF j, f
  <1> QED BY <1>6, <1>7, <1>8 DEF j, f, v

\* Cut before its earliest region, or there, a text keeps that region as the earliest.
LEMMA EarliestInEnd ==
  ASSUME SecretsApart, NEW t \in Seq(Units), NEW c \in 1..(Len(t) + 1), Cuttable(t, c),
         \A q \in RegionsOf(t) : c <= q.start
  PROVE  LET v == From(t, c)
             r == Earliest(t)
         IN  /\ RegionsOf(t) = {} => RegionsOf(v) = {}
             /\ RegionsOf(t) # {} =>
                  /\ RegionsOf(v) # {}
                  /\ r.start \in c..Len(t) /\ r.end \in (r.start + 1)..(Len(t) + 1)
                  /\ Earliest(v) = Region(r.start - c + 1, r.end - c + 1, r.open, r.rank)
  <1> DEFINE v == From(t, c)
             r == Earliest(t)
  <1>1. v \in Seq(Units) /\ Len(v) = Len(t) + 1 - c
    BY UptoFrom
  <1>2. ASSUME NEW q \in RegionsOf(v)
        PROVE  /\ Region(c + q.start - 1, c + q.end - 1, q.open, q.rank) \in RegionsOf(t)
               /\ q = Region(q.start, q.end, q.open, q.rank)
               /\ q.start \in Int /\ q.end \in Int /\ q.rank \in Int /\ q.open \in BOOLEAN
    <2> HIDE DEF v
    <2>1. /\ q = Region(q.start, q.end, q.open, q.rank)
          /\ q.start \in 1..Len(v) /\ q.end \in (q.start + 1)..(Len(v) + 1)
          /\ q.open \in BOOLEAN /\ q.rank \in 1..4
      BY <1>1, <1>2, RegionShape
    <2>2. /\ q.start \in 1..(Len(t) + 1 - c)
          /\ q.start \in Int /\ q.end \in Int /\ q.rank \in Int
      BY <1>1, <2>1
    <2>3. Region(q.start, q.end, q.open, q.rank) \in RegionsOf(v)
      BY <2>1, <1>2, Zenon
    <2> QED BY <2>1, <2>2, <2>3, RegionsInEnd DEF v
  <1> HIDE DEF v
  <1>3. ASSUME RegionsOf(t) # {}
        PROVE  /\ RegionsOf(v) # {}
               /\ r.start \in c..Len(t) /\ r.end \in (r.start + 1)..(Len(t) + 1)
               /\ Earliest(v) = Region(r.start - c + 1, r.end - c + 1, r.open, r.rank)
    <2>1. /\ r \in RegionsOf(t)
          /\ \A q \in RegionsOf(t) : r.start <= q.start
          /\ \A q \in RegionsOf(t) : q.start = r.start => r.rank <= q.rank
      BY <1>3, EarliestExists
    <2> HIDE DEF r
    <2>2. /\ r = Region(r.start, r.end, r.open, r.rank)
          /\ r.start \in 1..Len(t) /\ r.end \in (r.start + 1)..(Len(t) + 1)
          /\ r.open \in BOOLEAN /\ r.rank \in 1..4 /\ c <= r.start
      BY <2>1, RegionShape
    <2> DEFINE i == r.start - c + 1
               f == r.end - c + 1
               w == Region(i, f, r.open, r.rank)
    <2>3. i \in 1..(Len(t) + 1 - c) /\ f \in Int /\ c + i - 1 = r.start /\ c + f - 1 = r.end
      BY <2>2
    <2> HIDE DEF i, f
    <2>4. Region(c + i - 1, c + f - 1, r.open, r.rank) \in RegionsOf(t)
      BY <2>1, <2>2, <2>3, Zenon
    <2>5. w \in RegionsOf(v)
      BY <2>2, <2>3, <2>4, RegionsInEnd DEF v
    <2>6. w.start = i /\ w.rank = r.rank
      BY DEF Region
    <2> HIDE DEF w
    <2>7. ASSUME NEW q \in RegionsOf(v)
          PROVE  w.start < q.start \/ (w.start = q.start /\ w.rank <= q.rank)
      <3> DEFINE u == Region(c + q.start - 1, c + q.end - 1, q.open, q.rank)
      <3>1. u \in RegionsOf(t) /\ q.start \in Int /\ q.rank \in Int
        BY <1>2
      <3>2. u.start = c + q.start - 1 /\ u.rank = q.rank
        BY DEF Region
      <3> HIDE DEF u
      <3>3. r.start <= c + q.start - 1 /\ (c + q.start - 1 = r.start => r.rank <= q.rank)
        BY <2>1, <3>1, <3>2
      <3>4. r.start \in Int /\ r.rank \in Int /\ i \in Int /\ c \in Int /\ c + i - 1 = r.start
        BY <2>2, <2>3
      <3>5. i < q.start \/ (i = q.start /\ r.rank <= q.rank)
        BY <3>1, <3>3, <3>4
      <3> QED BY <2>6, <3>5
    <2>8. Earliest(v) = w
      BY <1>1, <2>5, <2>7, EarliestIs
    <2>9. RegionsOf(v) # {} /\ r.start \in c..Len(t)
      BY <2>2, <2>5
    <2> QED BY <2>2, <2>8, <2>9 DEF w, i, f
  <1>4. RegionsOf(t) = {} => RegionsOf(v) = {}
    BY <1>2
  <1> QED BY <1>3, <1>4, Zenon DEF v, r

\* What flush returns of a text comes from its beginning as it is and from its end.
LEMMA FlushSplit ==
  ASSUME SecretsApart, NEW t \in Seq(Units), NEW c \in 1..(Len(t) + 1), Cuttable(t, c),
         \A q \in RegionsOf(t) : c <= q.start
  PROVE  FlushRaw(t) = Upto(t, c) \o FlushRaw(From(t, c))
  <1> DEFINE v == From(t, c)
             x == Upto(t, c)
             r == Earliest(t)
             q == Earliest(v)
  <1>1. v \in Seq(Units) /\ x \in Seq(Units) /\ x \o v = t
    BY UptoFrom
  <1>2. /\ RegionsOf(t) = {} => RegionsOf(v) = {}
        /\ RegionsOf(t) # {} =>
             /\ RegionsOf(v) # {}
             /\ r.start \in c..Len(t) /\ r.end \in (r.start + 1)..(Len(t) + 1)
             /\ q = Region(r.start - c + 1, r.end - c + 1, r.open, r.rank)
    BY EarliestInEnd
  <1>3. FlushRaw(t) = IF RegionsOf(t) = {} \/ Unconfirmed(r) THEN t
               ELSE IF r.open THEN Upto(t, r.start) \o <<Redacted>>
               ELSE Upto(t, r.start) \o <<Redacted>> \o FlushRaw(From(t, r.end))
    BY FlushIs
  <1>p. v \in Seq(Units)
    BY <1>1
  <1> HIDE DEF v
  <1>4. FlushRaw(v) = IF RegionsOf(v) = {} \/ Unconfirmed(q) THEN v
               ELSE IF q.open THEN Upto(v, q.start) \o <<Redacted>>
               ELSE Upto(v, q.start) \o <<Redacted>> \o FlushRaw(From(v, q.end))
    BY <1>p, FlushIs
  <1> HIDE DEF x, r, q
  <1>5. CASE RegionsOf(t) = {}
    BY <1>1, <1>2, <1>3, <1>4, <1>5, Zenon DEF v, x
  <1>6. CASE RegionsOf(t) # {}
    <2> DEFINE a == r.start - c + 1
               b == r.end - c + 1
    <2>1. q.start = a /\ q.end = b /\ q.open = r.open /\ q.rank = r.rank
      BY <1>2, <1>6 DEF Region
    <2>2. /\ a \in 1..(Len(t) + 2 - c) /\ c + a - 1 = r.start
          /\ b \in 1..(Len(t) + 2 - c) /\ c + b - 1 = r.end
          /\ r.start \in 1..(Len(t) + 1) /\ r.end \in 1..(Len(t) + 1)
      <3>1. r.start \in c..Len(t) /\ r.end \in (r.start + 1)..(Len(t) + 1)
        BY <1>2, <1>6
      <3>2. \A n \in Nat : \A d \in 1..(n + 1) : \A k \in d..n : \A l \in (k + 1)..(n + 1) :
              /\ k - d + 1 \in 1..(n + 2 - d) /\ d + (k - d + 1) - 1 = k
              /\ l - d + 1 \in 1..(n + 2 - d) /\ d + (l - d + 1) - 1 = l
              /\ k \in 1..(n + 1) /\ l \in 1..(n + 1)
        OBVIOUS
      <3>3. Len(t) \in Nat
        OBVIOUS
      <3> QED BY <3>1, <3>2, <3>3
    <2> HIDE DEF a, b
    <2>3. From(v, b) = From(t, c + b - 1)
      BY <2>2, FromFrom DEF v
    <2>4. x \o Upto(v, a) = Upto(t, c + a - 1) /\ a \in 1..(Len(v) + 1)
      BY <2>2, FromFrom DEF v, x
    <2>5. Upto(v, a) \in Seq(Units)
      BY <1>1, <2>4, UptoFrom
    <2>6. Unconfirmed(q) <=> Unconfirmed(r)
      BY <2>1 DEF Unconfirmed
    <2> DEFINE y == Upto(v, a)
               z == Upto(t, r.start)
               g == FlushRaw(From(t, r.end))
    <2>7. /\ g \in Seq(Shown) /\ x \in Seq(Shown) /\ y \in Seq(Shown)
          /\ <<Redacted>> \in Seq(Shown) /\ x \o y = z
      <3>1. From(t, r.end) \in Seq(Units)
        BY <2>2, UptoFrom
      <3>2. g \in Seq(Shown)
        BY <3>1, FlushResult
      <3>3. x \in Seq(Shown) /\ y \in Seq(Shown) /\ <<Redacted>> \in Seq(Shown)
        BY <1>1, <2>5 DEF Shown
      <3> QED BY <2>2, <2>4, <3>2, <3>3
    <2>8. FlushRaw(t) = IF Unconfirmed(r) THEN t ELSE IF r.open THEN z \o <<Redacted>> ELSE z \o <<Redacted>> \o g
      BY <1>3, <1>6, Zenon
    <2>9. FlushRaw(v) = IF Unconfirmed(r) THEN v ELSE IF r.open THEN y \o <<Redacted>> ELSE y \o <<Redacted>> \o g
      BY <1>2, <1>4, <1>6, <2>1, <2>2, <2>3, <2>6, Zenon
    <2> HIDE DEF y, z, g
    <2>a. z \o <<Redacted>> = x \o (y \o <<Redacted>>)
      BY <2>7, ShownConcat, Zenon
    <2>b. z \o <<Redacted>> \o g = x \o (y \o <<Redacted>> \o g)
      <3>1. y \o <<Redacted>> \in Seq(Shown)
        BY <2>7, ShownConcat, Zenon
      <3>2. (x \o (y \o <<Redacted>>)) \o g = x \o ((y \o <<Redacted>>) \o g)
        BY <2>7, <3>1, ShownConcat, Zenon
      <3> QED BY <2>a, <3>2, Zenon
    <2> QED BY <1>1, <2>8, <2>9, <2>a, <2>b, Zenon DEF v, x
  <1> QED BY <1>5, <1>6

\* A text of which nothing is left stays so.
LEMMA FlushEmpty == FlushRaw(<<>>) = <<>>
  <1>1. <<>> \in Seq(Units) /\ Len(<<>>) = 0
    OBVIOUS
  <1>2. RegionsOf(<<>>) = {}
    <2> SUFFICES ASSUME NEW r \in RegionsOf(<<>>) PROVE FALSE
      OBVIOUS
    <2> DEFINE s == <<>>
    <2>1. s \in Seq(Units) /\ Len(s) = 0 /\ r \in RegionsOf(s)
      OBVIOUS
    <2> HIDE DEF s
    <2>2. r.start \in 1..Len(s)
      BY <2>1, RegionShape
    <2> QED BY <2>1, <2>2
  <1> QED BY <1>1, <1>2, FlushIs

-----------------------------------------------------------------------------
(* The text is kept: what comes behind a text. *)

\* Runs that fit the carry in a text fit it in a part of the text.
LEMMA FitsPart ==
  ASSUME NEW s \in Seq(Units), NEW t \in Seq(Units), NEW b \in Nat, b + Len(t) <= Len(s),
         \A k \in 1..Len(t) : t[k] = s[b + k], FitsCarry(s)
  PROVE  FitsCarry(t)
  <1> SUFFICES ASSUME NEW i \in 1..Len(t), NEW j \in 1..Len(t), i <= j,
                      \A k \in i..j : Token(t[k])
               PROVE  Size(SubSeq(t, i, j)) <= MaxHold
    <2>1. DOMAIN t = 1..Len(t)
      OBVIOUS
    <2> QED BY <2>1 DEF FitsCarry
  <1> DEFINE x == SubSeq(t, i, j)
             y == SubSeq(s, b + i, b + j)
  <1>1. b + i \in 1..Len(s) /\ b + j \in 1..Len(s) /\ b + i <= b + j
    OBVIOUS
  <1>2. x \in Seq(Units) /\ Len(x) = j - i + 1 /\ \A k \in 1..(j - i + 1) : x[k] = t[i + k - 1]
    OBVIOUS
  <1>3. y \in Seq(Units) /\ Len(y) = j - i + 1 /\ \A k \in 1..(j - i + 1) : y[k] = s[b + i + k - 1]
    BY <1>1
  <1> HIDE DEF x, y
  <1>4. x = y
    <2>1. ASSUME NEW k \in 1..Len(x) PROVE x[k] = y[k]
      <3>1. i + k - 1 \in 1..Len(t) /\ b + (i + k - 1) = b + i + k - 1 /\ k \in 1..(j - i + 1)
        BY <1>2
      <3>2. t[i + k - 1] = s[b + (i + k - 1)]
        BY <3>1
      <3> QED BY <1>2, <1>3, <3>1, <3>2
    <2> QED BY <1>2, <1>3, <2>1, SeqEqual
  <1>5. ASSUME NEW k \in (b + i)..(b + j) PROVE Token(s[k])
    <2>1. k - b \in i..j /\ k - b \in 1..Len(t) /\ b + (k - b) = k
      OBVIOUS
    <2>2. t[k - b] = s[b + (k - b)]
      BY <2>1
    <2> QED BY <2>1, <2>2
  <1>6. DOMAIN s = 1..Len(s)
    OBVIOUS
  <1> QED BY <1>1, <1>4, <1>5, <1>6 DEF FitsCarry, x, y

\* So they do in its end.
LEMMA FitsFrom ==
  ASSUME NEW s \in Seq(Units), NEW c \in 1..(Len(s) + 1), FitsCarry(s)
  PROVE  FitsCarry(From(s, c))
  <1> DEFINE v == From(s, c)
             b == c - 1
  <1>1. v \in Seq(Units) /\ Len(v) = Len(s) + 1 - c /\ \A k \in 1..(Len(s) + 1 - c) : v[k] = s[c + k - 1]
    BY UptoFrom
  <1> HIDE DEF v
  <1>2. b \in Nat /\ b + Len(v) <= Len(s)
    BY <1>1
  <1>3. ASSUME NEW k \in 1..Len(v) PROVE v[k] = s[b + k]
    <2>1. k \in 1..(Len(s) + 1 - c) /\ b + k = c + k - 1
      BY <1>1
    <2> QED BY <1>1, <2>1
  <1> HIDE DEF b
  <1>4. FitsCarry(v)
    BY <1>1, <1>2, <1>3, FitsPart
  <1> QED BY <1>4 DEF v

\* They fit it in what the text was before e came behind it.
LEMMA FitsBefore ==
  ASSUME NEW s \in Seq(Units), NEW e \in Seq(Units), FitsCarry(s \o e)
  PROVE  FitsCarry(s)
  <1> DEFINE u == s \o e
  <1>1. u \in Seq(Units) /\ Len(u) = Len(s) + Len(e) /\ \A k \in 1..Len(s) : u[k] = s[k]
    BY Joined
  <1>2. FitsCarry(u)
    OBVIOUS
  <1> HIDE DEF u
  <1>3. 0 + Len(s) <= Len(u) /\ \A k \in 1..Len(s) : s[k] = u[0 + k]
    BY <1>1
  <1> QED BY <1>1, <1>2, <1>3, FitsPart

\* The last run of a text that fits the carry fits it.
LEMMA HeldRunFits ==
  ASSUME NEW s \in Seq(Units), FitsCarry(s)
  PROVE  Size(From(s, HeldRun(s))) <= MaxHold
  <1> DEFINE h == HeldRun(s)
  <1>1. h \in 1..(Len(s) + 1) /\ \A k \in h..Len(s) : Token(s[k])
    BY HeldRunExists
  <1> HIDE DEF h
  <1>2. CASE h = Len(s) + 1
    <2>1. From(s, h) = <<>>
      BY <1>2, SubSeqEmpty DEF From
    <2> QED BY <2>1, EmptyCarry DEF h
  <1>3. CASE h # Len(s) + 1
    <2>1. h \in DOMAIN s /\ Len(s) \in DOMAIN s /\ h <= Len(s)
      BY <1>1, <1>3
    <2>2. Size(SubSeq(s, h, Len(s))) <= MaxHold
      BY <1>1, <2>1 DEF FitsCarry
    <2> QED BY <2>2 DEF From, h
  <1> QED BY <1>2, <1>3

\* So does every beginning of a secret.
LEMMA TailFits ==
  ASSUME SecretsApart, NEW s \in Seq(Units), NEW i \in 1..Len(s), NEW p \in Markers \cup {Exact},
         IsStrictPrefix(From(s, i), p)
  PROVE  Size(From(s, i)) <= MaxHold
  <1> DEFINE q == From(s, i)
             n == Len(q)
  <1>1. q \in Seq(Units) /\ Len(q) = Len(s) + 1 - i
    BY UptoFrom
  <1>p. p \in Seq(Units)
    BY RedactorAssumption
  <1> HIDE DEF q
  <1>2. Len(q) <= Len(p) /\ SubSeq(q, 1, Len(q)) = SubSeq(p, 1, Len(q)) /\ q # p
    BY DEF IsStrictPrefix, IsPrefix, q
  <1>3. SubSeq(q, 1, Len(q)) = q /\ SubSeq(p, 1, Len(p)) = p
    BY <1>1, <1>p, SubSeqFull
  <1>4. n \in 1..(Len(p) - 1)
    <2>1. Len(q) # Len(p)
      BY <1>2, <1>3
    <2> QED BY <1>1, <1>2, <1>p, <2>1
  <1> HIDE DEF n
  <1>5. Size(SubSeq(p, 1, n)) <= MaxHold
    BY <1>4 DEF SecretsApart
  <1> QED BY <1>2, <1>3, <1>5 DEF q, n

-----------------------------------------------------------------------------
\* Where nothing can have begun before c, flush lets go what is before c as it is,
\* whatever comes behind.
LEMMA FlushAhead ==
  ASSUME SecretsApart, NEW s \in Seq(Units), NEW c \in 1..(Len(s) + 1), Cuttable(s, c),
         \A k \in 1..(c - 1) : Clear(s, k), NEW e \in Seq(Units)
  PROVE  FlushRaw(s \o e) = Upto(s, c) \o FlushRaw(From(s, c) \o e)
  <1> DEFINE u == s \o e
  <1>1. /\ u \in Seq(Units) /\ Len(u) = Len(s) + Len(e) /\ c \in 1..(Len(u) + 1)
        /\ From(u, c) = From(s, c) \o e /\ Upto(u, c) = Upto(s, c)
    BY FromAppended
  <1>2. \A k \in 1..Len(s) : u[k] = s[k]
    BY Joined
  <1>3. \A q \in RegionsOf(u) : c <= q.start
    BY NoRegionBefore DEF SecretsApart
  <1> HIDE DEF u
  <1>4. Cuttable(u, c)
    <2>1. c # 1 => c - 1 \in 1..Len(s)
      OBVIOUS
    <2>2. c <= Len(s) => c \in 1..Len(s) /\ c <= Len(u)
      BY <1>1
    <2> QED BY <1>2, <2>1, <2>2 DEF Cuttable
  <1>5. FlushRaw(u) = Upto(u, c) \o FlushRaw(From(u, c))
    BY <1>1, <1>3, <1>4, FlushSplit
  <1> QED BY <1>1, <1>5, Zenon DEF u

\* A secret in a text is there whatever comes behind it.
LEMMA AtAppended ==
  ASSUME NEW s \in Seq(Units), NEW e \in Seq(Units), NEW i \in 1..Len(s), NEW p \in Seq(Units),
         At(s, i, p)
  PROVE  At(s \o e, i, p)
  <1> DEFINE u == s \o e
  <1>1. u \in Seq(Units) /\ Len(u) = Len(s) + Len(e) /\ \A k \in 1..Len(s) : u[k] = s[k]
    BY Joined
  <1> HIDE DEF u
  <1>2. i + Len(p) - 1 <= Len(s) /\ s \in Seq(Shown) /\ u \in Seq(Shown)
    BY <1>1 DEF At, Shown
  <1>3. MayStand(s, i, p)
    BY <1>2, AtMayStand
  <1>4. MayStand(u, i, p)
    <2> SUFFICES ASSUME NEW k \in 1..Len(p) PROVE u[i + k - 1] = p[k]
      BY DEF MayStand
    <2>1. i + k - 1 \in 1..Len(s) /\ i + k - 1 <= Len(s)
      BY <1>2
    <2>2. s[i + k - 1] = p[k]
      BY <1>3, <2>1 DEF MayStand
    <2> QED BY <1>1, <2>1, <2>2
  <1>5. i \in 1..Len(u) /\ i + Len(p) - 1 <= Len(u)
    BY <1>1, <1>2
  <1>6. At(u, i, p)
    BY <1>2, <1>4, <1>5, MayStandAt
  <1> QED BY <1>6 DEF u

\* The earliest region stays the earliest if it is closed, and a marker region if its end
\* is still to come; that is then the end of the run in what comes.
LEMMA EarliestAppended ==
  ASSUME SecretsApart, NEW s \in Seq(Units), NEW e \in Seq(Units), RegionsOf(s) # {},
         Earliest(s).open => Earliest(s).rank = 1
  PROVE  /\ RegionsOf(s \o e) # {}
         /\ ~ Earliest(s).open => Earliest(s \o e) = Earliest(s)
         /\ Earliest(s).open =>
              /\ Earliest(s \o e).start = Earliest(s).start /\ Earliest(s \o e).rank = 1
              /\ Earliest(s \o e).open = (Undropped(e) = <<>>)
              /\ From(s \o e, Earliest(s \o e).end) = Undropped(e)
  <1> DEFINE u == s \o e
             r == Earliest(s)
             c == r.start
  <1>0. /\ u \in Seq(Units) /\ Len(u) = Len(s) + Len(e) /\ \A k \in 1..Len(s) : u[k] = s[k]
    BY Joined
  <1>e. r \in RegionsOf(s)
    BY EarliestExists
  <1>r. /\ r = Region(c, r.end, r.open, r.rank)
        /\ c \in 1..Len(s) /\ r.end \in (c + 1)..(Len(s) + 1)
        /\ r.open \in BOOLEAN /\ r.rank \in 1..4
    <2> HIDE DEF r
    <2> QED BY <1>e, RegionShape
  <1>1. \A q \in RegionsOf(u) : c <= q.start
    <2>1. \A k \in 1..(c - 1) : Clear(s, k)
      BY ClearBefore
    <2>2. c \in 1..(Len(s) + 1)
      <3> HIDE DEF r
      <3> QED BY <1>r
    <2> HIDE DEF c, r
    <2> QED BY <2>1, <2>2, NoRegionBefore DEF SecretsApart
  <1> HIDE DEF u, c, r
  <1>2. IsRegion(s, c, r.end, r.open, r.rank)
    <2>1. Region(c, r.end, r.open, r.rank) \in RegionsOf(s)
      BY <1>e, <1>r, Zenon
    <2> QED BY <1>r, <2>1, RegionIs
  <1>3. r.rank = 1 \/ r.rank = 2
    BY <1>2 DEF IsRegion, r
  <1>u. c \in 1..Len(u)
    BY <1>0, <1>r
  <1>b. AtBoundary(s, c) => AtBoundary(u, c)
    <2>1. c > 1 => u[c - 1] = s[c - 1]
      BY <1>0, <1>r
    <2>2. c \in Nat \ {0}
      BY <1>r
    <2> QED BY <2>1, <2>2, BoundaryPart
  <1>4. CASE r.rank = 2
    <2>1. At(s, c, Exact) /\ r.end = c + Len(Exact) /\ r.open = FALSE
      BY <1>2, <1>4 DEF IsRegion
    <2>2. Exact \in Seq(Units) /\ Len(Exact) \in Nat \ {0}
      BY RedactorAssumption
    <2>3. At(u, c, Exact)
      BY <1>r, <2>1, <2>2, AtAppended DEF u
    <2>4. IsRegion(u, c, r.end, r.open, r.rank)
      BY <1>4, <2>1, <2>3 DEF IsRegion
    <2>5. r \in RegionsOf(u)
      <3>1. Region(c, r.end, r.open, r.rank) \in RegionsOf(u)
        BY <1>0, <1>u, <1>r, <2>4, RegionIs
      <3> QED BY <1>r, <3>1, Zenon
    <2>6. ASSUME NEW q \in RegionsOf(u) PROVE c < q.start \/ (c = q.start /\ r.rank <= q.rank)
      <3>1. /\ q = Region(q.start, q.end, q.open, q.rank) /\ q.open \in BOOLEAN
            /\ q.start \in 1..Len(u) /\ q.rank \in 1..4
        BY <1>0, <2>6, RegionShape
      <3>2. IsRegion(u, q.start, q.end, q.open, q.rank)
        <4>1. Region(q.start, q.end, q.open, q.rank) \in RegionsOf(u)
          BY <2>6, <3>1, Zenon
        <4> QED BY <1>0, <3>1, <4>1, RegionIs
      <3>3. ASSUME q.start = c, q.rank = 1 PROVE FALSE
        <4>1. PICK m \in Markers : At(u, c, m)
          BY <3>2, <3>3 DEF IsRegion
        <4>2. u[c] = Exact[1]
          <5>1. MayStand(u, c, Exact)
            <6>1. u \in Seq(Shown)
              BY <1>0 DEF Shown
            <6> QED BY <1>u, <2>2, <2>3, <6>1, AtMayStand
          <5>2. 1 \in 1..Len(Exact) /\ c + 1 - 1 = c /\ c <= Len(u)
            BY <1>u, <2>2
          <5> QED BY <5>1, <5>2 DEF MayStand
        <4> QED BY <1>0, <1>u, <4>1, <4>2, NoMarkerThere
      <3> QED BY <1>1, <1>4, <1>r, <3>1, <3>3
    <2>7. r.start = c
      BY DEF c
    <2>8. Earliest(u) = r
      BY <1>0, <2>5, <2>6, <2>7, EarliestIs
    <2> QED BY <2>1, <2>5, <2>8 DEF u, r
  <1>5. CASE r.rank = 1
    <2> DEFINE n == RunEnd(u, c + 2)
               o == n = Len(u) + 1
               w == Region(c, n, o, 1)
               b == RunEnd(s, c + 2)
    <2>1. /\ AtBoundary(s, c) /\ r.end = b /\ r.open = (b = Len(s) + 1)
          /\ \E m \in Markers : At(s, c, m)
      BY <1>2, <1>5 DEF IsRegion
    <2>2. PICK m \in Markers : At(s, c, m)
      BY <2>1
    <2>3. m \in Seq(Units) /\ Len(m) = 2
      BY RedactorAssumption
    <2>4. At(u, c, m)
      BY <1>r, <2>2, <2>3, AtAppended DEF u
    <2>5. c + 2 \in 1..(Len(s) + 1)
      <3>1. c + Len(m) - 1 <= Len(s)
        BY <2>2 DEF At
      <3> QED BY <1>r, <2>3, <3>1
    <2>6. /\ b # Len(s) + 1 => n = b
          /\ b = Len(s) + 1 => n = Len(s) + RunEnd(e, 1) /\ From(u, n) = Undropped(e)
      BY <2>5, RunEndAppended DEF u
    <2>7. w \in RegionsOf(u)
      <3>1. IsRegion(u, c, n, o, 1)
        BY <1>b, <2>1, <2>4 DEF IsRegion
      <3>2. o \in BOOLEAN
        OBVIOUS
      <3> HIDE DEF n, o
      <3> QED BY <1>0, <1>u, <3>1, <3>2, RegionIs
    <2>8. w.start = c /\ w.rank = 1 /\ w.end = n /\ w.open = o
      BY DEF Region
    <2> HIDE DEF w, o, n, b
    <2>9. ASSUME NEW q \in RegionsOf(u) PROVE w.start < q.start \/ (w.start = q.start /\ w.rank <= q.rank)
      <3>1. q.start \in 1..Len(u) /\ q.rank \in 1..4 /\ c <= q.start
        BY <1>0, <1>1, <2>9, RegionShape
      <3> QED BY <1>r, <2>8, <3>1
    <2>10. Earliest(u) = w
      BY <1>0, <2>7, <2>9, EarliestIs
    <2>11. b \in 1..(Len(s) + 1)
      BY <2>5, RunEndExists DEF b
    <2>12. ASSUME ~ r.open PROVE w = r
      <3>1. b # Len(s) + 1 /\ n = b
        BY <2>1, <2>6, <2>12
      <3>2. o = FALSE
        BY <1>0, <2>11, <3>1 DEF o
      <3>3. r.open = FALSE
        BY <1>r, <2>12
      <3> QED BY <1>5, <1>r, <2>1, <3>1, <3>2, <3>3, Zenon DEF w
    <2>13. ASSUME r.open
           PROVE  w.open = (Undropped(e) = <<>>) /\ From(u, w.end) = Undropped(e)
      <3>1. b = Len(s) + 1 /\ n = Len(s) + RunEnd(e, 1) /\ From(u, n) = Undropped(e)
        BY <2>1, <2>6, <2>13
      <3>2. RunEnd(e, 1) \in 1..(Len(e) + 1)
        BY RunEndExists
      <3>3. Len(Undropped(e)) = Len(e) + 1 - RunEnd(e, 1) /\ Undropped(e) \in Seq(Units)
        BY <3>2, UptoFrom DEF Undropped
      <3>4. Undropped(e) = <<>> <=> Len(Undropped(e)) = 0
        BY <3>3
      <3>5. o <=> Undropped(e) = <<>>
        <4>1. n = Len(u) + 1 <=> Len(Undropped(e)) = 0
          <5>1. /\ n = Len(s) + RunEnd(e, 1) /\ RunEnd(e, 1) \in Int /\ Len(u) = Len(s) + Len(e)
                /\ Len(Undropped(e)) = Len(e) + 1 - RunEnd(e, 1)
                /\ Len(s) \in Int /\ Len(e) \in Int
            BY <1>0, <3>1, <3>2, <3>3
          <5> QED BY <5>1
        <4> QED BY <3>4, <4>1 DEF o
      <3>6. o = (Undropped(e) = <<>>)
        BY <3>5 DEF o
      <3> QED BY <2>8, <3>1, <3>6
    <2>14. RegionsOf(u) # {}
      BY <2>7
    <2> QED BY <2>8, <2>10, <2>12, <2>13, <2>14, Zenon DEF u, r, c
  <1> QED BY <1>3, <1>4, <1>5

-----------------------------------------------------------------------------
(* The text is kept: feed ahead of what comes. *)

\* What a reader still gets of e, when a run is being swallowed or carry is held back.
Rest(drop, carry, e) == IF drop THEN FlushRaw(Undropped(e)) ELSE FlushRaw(carry \o e)

\* What was let go so far and what is to come of the carry make what flush returns, whatever
\* comes; and the carry is the end of the text.
Ahead(s, out, drop, carry) ==
  /\ \A e \in Seq(Units) : FlushRaw(s \o e) = out \o Rest(drop, carry, e)
  /\ ~ drop => \E c \in 1..(Len(s) + 1) : carry = From(s, c)

FeedAhead(s) == Ahead(s, FeedRaw(s).out, FeedRaw(s).dropping, FeedRaw(s).pending)

\* A carry that fits is what is to come.
LEMMA CarryAhead ==
  ASSUME SecretsApart, NEW s \in Seq(Units), NEW c \in 1..(Len(s) + 1), Cuttable(s, c),
         \A k \in 1..(c - 1) : Clear(s, k), Size(From(s, c)) <= MaxHold,
         FeedRaw(s) = Carry(Upto(s, c), From(s, c))
  PROVE  FeedAhead(s)
  <1>1. ~ (Size(From(s, c)) > MaxHold)
    <2>1. Size(From(s, c)) \in Nat /\ MaxHold \in Nat
      BY UptoFrom, SizeNat, RedactorAssumption
    <2> QED BY <2>1
  <1>2. FeedRaw(s).out = Upto(s, c) /\ FeedRaw(s).pending = From(s, c) /\ FeedRaw(s).dropping = FALSE
    BY <1>1 DEF Carry, After
  <1>3. \A e \in Seq(Units) : FlushRaw(s \o e) = Upto(s, c) \o FlushRaw(From(s, c) \o e)
    BY FlushAhead
  <1> QED BY <1>2, <1>3, Zenon DEF FeedAhead, Ahead, Rest

\* Where an open region begins the text can be cut; held back too long, it is a marker's.
LEMMA OpenCuttable ==
  ASSUME SecretsApart, NEW s \in Seq(Units), NEW r \in RegionsOf(s), r.open
  PROVE  /\ Cuttable(s, r.start)
         /\ Size(From(s, r.start)) > MaxHold => r.rank = 1
  <1> DEFINE c == r.start
  <1>1. /\ r = Region(c, r.end, r.open, r.rank) /\ c \in 1..Len(s) /\ r.open = TRUE
    BY RegionShape
  <1>2. IsRegion(s, c, r.end, r.open, r.rank)
    <2>1. Region(c, r.end, r.open, r.rank) \in RegionsOf(s) /\ r.open \in BOOLEAN
      BY <1>1, Zenon
    <2> QED BY <2>1, RegionIs
  <1> HIDE DEF c
  <1>3. \/ r.rank = 1 /\ AtBoundary(s, c)
        \/ IsStrictPrefix(From(s, c), Exact)
        \/ AtBoundary(s, c) /\ \E m \in Markers : IsStrictPrefix(From(s, c), m)
    BY <1>1, <1>2 DEF IsRegion
  <1>4. AtBoundary(s, c) => Cuttable(s, c)
    BY DEF AtBoundary, Cuttable
  <1>5. ASSUME IsStrictPrefix(From(s, c), Exact) PROVE Cuttable(s, c)
    <2>1. Exact \in Seq(Units) /\ 1 \in 1..Len(Exact)
      BY RedactorAssumption
    <2>2. MayStand(s, c, Exact)
      BY <1>1, <1>5, <2>1, TailMayStand
    <2>3. c + 1 - 1 = c /\ c <= Len(s)
      BY <1>1
    <2>4. s[c] = Exact[1]
      BY <2>1, <2>2, <2>3 DEF MayStand
    <2> QED BY <2>3, <2>4 DEF Cuttable
  <1>6. ASSUME NEW p \in Markers \cup {Exact}, IsStrictPrefix(From(s, c), p)
        PROVE  ~ (Size(From(s, c)) > MaxHold)
    <2>1. Size(From(s, c)) <= MaxHold
      BY <1>1, <1>6, TailFits
    <2>2. Size(From(s, c)) \in Nat /\ MaxHold \in Nat
      <3>1. c \in 1..(Len(s) + 1)
        BY <1>1
      <3> QED BY <3>1, UptoFrom, SizeNat, RedactorAssumption
    <2> QED BY <2>1, <2>2
  <1> QED BY <1>3, <1>4, <1>5, <1>6 DEF c

\* The text behind an overlong run is treated by itself.
LEMMA DropAhead ==
  ASSUME SecretsApart, NEW s \in Seq(Units), RegionsOf(s) # {}, Earliest(s).open,
         Size(From(s, Earliest(s).start)) > MaxHold
  PROVE  FeedAhead(s)
  <1> DEFINE r == Earliest(s)
             c == r.start
             x == Upto(s, c)
  <1>1. r \in RegionsOf(s) /\ r.rank = 1 /\ r.open
    BY EarliestExists, OpenCuttable
  <1>2. FeedRaw(s) = After(x \o <<Redacted>>, <<>>, TRUE)
    <2>1. FeedRaw(s) = Carry(x, From(s, c))
      BY <1>1, FeedIs
    <2> QED BY <2>1 DEF Carry
  <1>3. /\ FeedRaw(s).out = x \o <<Redacted>> /\ FeedRaw(s).dropping = TRUE
    BY <1>2 DEF After
  <1>c. c \in 1..(Len(s) + 1)
    <2> HIDE DEF r
    <2> QED BY <1>1, RegionShape
  <1>4. ASSUME NEW e \in Seq(Units)
        PROVE  FlushRaw(s \o e) = (x \o <<Redacted>>) \o FlushRaw(Undropped(e))
    <2> DEFINE u == s \o e
               q == Earliest(u)
               g == Undropped(e)
    <2>1. /\ RegionsOf(u) # {} /\ q.start = c /\ q.rank = 1
          /\ q.open = (g = <<>>) /\ From(u, q.end) = g
      BY <1>1, EarliestAppended
    <2> HIDE DEF c, r
    <2>2. u \in Seq(Units) /\ Upto(u, c) = x
      BY <1>c, FromAppended
    <2> HIDE DEF u, q, g, x
    <2>3. FlushRaw(u) = IF RegionsOf(u) = {} \/ Unconfirmed(q) THEN u
               ELSE IF q.open THEN Upto(u, q.start) \o <<Redacted>>
               ELSE Upto(u, q.start) \o <<Redacted>> \o FlushRaw(From(u, q.end))
      BY <2>2, FlushIs DEF q
    <2>4. ~ Unconfirmed(q)
      BY <2>1 DEF Unconfirmed
    <2>5. ASSUME g = <<>> PROVE FlushRaw(u) = (x \o <<Redacted>>) \o FlushRaw(g)
      <3>1. q.open
        BY <2>1, <2>5
      <3>2. FlushRaw(u) = x \o <<Redacted>>
        BY <2>1, <2>2, <2>3, <2>4, <3>1, Zenon
      <3>3. x \o <<Redacted>> \in Seq(Shown)
        <4>1. x \in Seq(Shown) /\ <<Redacted>> \in Seq(Shown)
          BY <1>c, UptoFrom DEF Shown, x
        <4> QED BY <4>1, ShownConcat
      <3>4. (x \o <<Redacted>>) \o <<>> = x \o <<Redacted>>
        BY <3>3, ConcatEmptySeq
      <3>5. FlushRaw(g) = <<>>
        BY <2>5, FlushEmpty
      <3> QED BY <3>2, <3>4, <3>5, Zenon
    <2>6. ASSUME g # <<>> PROVE FlushRaw(u) = (x \o <<Redacted>>) \o FlushRaw(g)
      <3>1. ~ q.open
        BY <2>1, <2>6
      <3> QED BY <2>1, <2>2, <2>3, <2>4, <3>1, Zenon
    <2> QED BY <2>5, <2>6 DEF u, g
  <1> HIDE DEF x
  <1> QED BY <1>3, <1>4, Zenon DEF FeedAhead, Ahead, Rest

\* Behind a closed region the loop goes on with the rest.
LEMMA ClosedAhead ==
  ASSUME SecretsApart, NEW s \in Seq(Units), RegionsOf(s) # {}, ~ Earliest(s).open,
         FeedAhead(From(s, Earliest(s).end))
  PROVE  FeedAhead(s)
  <1> DEFINE r == Earliest(s)
             c == r.start
             f == r.end
             x == Upto(s, c)
             v == From(s, f)
             a == FeedRaw(v)
  <1>1. r \in RegionsOf(s)
    BY EarliestExists
  <1>2. c \in 1..(Len(s) + 1) /\ f \in 1..(Len(s) + 1) /\ r.open = FALSE
    <2> HIDE DEF r
    <2>1. c \in 1..Len(s) /\ f \in (c + 1)..(Len(s) + 1) /\ r.open \in BOOLEAN
      BY <1>1, RegionShape
    <2>2. ~ r.open
      BY DEF r
    <2> QED BY <2>1, <2>2
  <1>3. FeedRaw(s) = Behind(x, a)
    BY FeedIs
  <1>v. v \in Seq(Units) /\ x \in Seq(Units)
    <2> HIDE DEF c, f, r
    <2> QED BY <1>2, UptoFrom
  <1>4. a \in Results
    <2> HIDE DEF v
    <2> QED BY <1>v, FeedResult
  <1>5. /\ FeedRaw(s).out = x \o <<Redacted>> \o a.out
        /\ FeedRaw(s).dropping = a.dropping /\ FeedRaw(s).pending = a.pending
    <2> HIDE DEF x, a
    <2> QED BY <1>3, <1>4 DEF Behind, Results
  <1>6. /\ \A e \in Seq(Units) : FlushRaw(v \o e) = a.out \o Rest(a.dropping, a.pending, e)
        /\ ~ a.dropping => \E d \in 1..(Len(v) + 1) : a.pending = From(v, d)
    BY DEF FeedAhead, Ahead
  <1>r. ASSUME NEW e \in Seq(Units) PROVE Rest(a.dropping, a.pending, e) \in Seq(Shown)
    <2>1. a.pending \in Seq(Units)
      BY <1>4 DEF Results
    <2> HIDE DEF a
    <2>2. a.pending \o e \in Seq(Units)
      BY <2>1
    <2>3. Undropped(e) \in Seq(Units)
      <3>1. RunEnd(e, 1) \in 1..(Len(e) + 1)
        BY RunEndExists
      <3> QED BY <3>1, UptoFrom DEF Undropped
    <2> QED BY <2>2, <2>3, FlushResult DEF Rest
  <1>7. ASSUME NEW e \in Seq(Units)
        PROVE  FlushRaw(s \o e) = (x \o <<Redacted>> \o a.out) \o Rest(a.dropping, a.pending, e)
    <2> DEFINE u == s \o e
               q == Earliest(u)
               g == Rest(a.dropping, a.pending, e)
               o == a.out
    <2>1. /\ RegionsOf(u) # {} /\ q = r
      BY EarliestAppended
    <2> HIDE DEF r
    <2>2. u \in Seq(Units) /\ Upto(u, c) = x /\ From(u, f) = v \o e
      <3> HIDE DEF c, f
      <3> QED BY <1>2, FromAppended
    <2> HIDE DEF u, q, x, v, a
    <2>3. FlushRaw(u) = IF RegionsOf(u) = {} \/ Unconfirmed(q) THEN u
               ELSE IF q.open THEN Upto(u, q.start) \o <<Redacted>>
               ELSE Upto(u, q.start) \o <<Redacted>> \o FlushRaw(From(u, q.end))
      BY <2>2, FlushIs DEF q
    <2>4. ~ q.open /\ ~ Unconfirmed(q)
      BY <1>2, <2>1 DEF Unconfirmed
    <2>5. FlushRaw(u) = x \o <<Redacted>> \o FlushRaw(v \o e)
      BY <2>1, <2>2, <2>3, <2>4, Zenon
    <2>6. FlushRaw(v \o e) = o \o g
      BY <1>6
    <2>7. /\ x \in Seq(Shown) /\ <<Redacted>> \in Seq(Shown) /\ o \in Seq(Shown)
          /\ g \in Seq(Shown)
      BY <1>v, <1>4, <1>r DEF Shown, Results
    <2> HIDE DEF o, g
    <2>8. x \o <<Redacted>> \in Seq(Shown)
      BY <2>7, ShownConcat, Zenon
    <2>9. (x \o <<Redacted>>) \o (o \o g) = ((x \o <<Redacted>>) \o o) \o g
      BY <2>7, <2>8, ShownConcat, Zenon
    <2> QED BY <2>5, <2>6, <2>9, Zenon DEF u, g, o
  <1>8. ASSUME ~ a.dropping PROVE \E d \in 1..(Len(s) + 1) : a.pending = From(s, d)
    <2>1. PICK d \in 1..(Len(v) + 1) : a.pending = From(v, d)
      BY <1>6, <1>8
    <2> HIDE DEF f, a
    <2>2. Len(v) = Len(s) + 1 - f
      BY <1>2, UptoFrom
    <2>3. d \in 1..(Len(s) + 2 - f)
      <3> HIDE DEF v
      <3> QED BY <1>2, <2>2
    <2>4. f + d - 1 \in 1..(Len(s) + 1) /\ From(v, d) = From(s, f + d - 1)
      BY <1>2, <2>3, FromFrom
    <2> QED BY <2>1, <2>4, Zenon
  <1> HIDE DEF x, a
  <1> QED BY <1>5, <1>7, <1>8, Zenon DEF FeedAhead, Ahead

\* What feed returns and keeps is right ahead of whatever comes.
LEMMA FeedIsAhead ==
  ASSUME SecretsApart, NEW s \in Seq(Units), FitsCarry(s)
  PROVE  FeedAhead(s)
  <1> DEFINE T == {n \in Nat : \E t \in Seq(Units) : Len(t) = n /\ FitsCarry(t) /\ ~ FeedAhead(t)}
  <1>1. ASSUME T # {} PROVE FALSE
    <2>1. PICK n \in T : \A k \in T : n <= k
      <3>1. T \subseteq Nat
        OBVIOUS
      <3> HIDE DEF T
      <3> QED BY <1>1, <3>1, LeastNat
    <2>2. PICK t \in Seq(Units) : Len(t) = n /\ FitsCarry(t) /\ ~ FeedAhead(t)
      BY <2>1
    <2> DEFINE r == Earliest(t)
    <2>3. ASSUME NEW d \in 1..(Len(t) + 1), d # 1 PROVE FeedAhead(From(t, d))
      <3> DEFINE v == From(t, d)
      <3>1. v \in Seq(Units) /\ Len(v) = Len(t) + 1 - d /\ FitsCarry(v)
        BY <2>2, UptoFrom, FitsFrom
      <3> HIDE DEF v
      <3>2. Len(v) \in Nat /\ ~ (n <= Len(v))
        BY <2>2, <2>3, <3>1
      <3>3. Len(v) \notin T
        <4> HIDE DEF T
        <4> QED BY <2>1, <3>2
      <3>4. FeedAhead(v)
        BY <3>1, <3>2, <3>3
      <3> QED BY <3>4 DEF v
    <2>4. CASE RegionsOf(t) = {}
      <3> DEFINE h == HeldRun(t)
      <3>1. 1 \in 1..(Len(t) + 1) /\ From(t, 1) = t
        BY SubSeqFull DEF From
      <3>2. \A k \in 1..(h - 1) : Clear(t, k)
        BY <2>4, <3>1, Iteration
      <3>3. h \in 1..(Len(t) + 1) /\ Cuttable(t, h)
        BY HeldRunExists DEF Cuttable
      <3>4. FeedRaw(t) = Carry(Upto(t, h), From(t, h))
        BY <2>4, FeedIs
      <3>5. Size(From(t, h)) <= MaxHold
        BY <2>2, HeldRunFits
      <3> HIDE DEF h
      <3> QED BY <2>2, <3>2, <3>3, <3>4, <3>5, CarryAhead
    <2>5. CASE RegionsOf(t) # {} /\ r.open
      <3> DEFINE c == r.start
      <3>1. r \in RegionsOf(t)
        BY <2>5, EarliestExists
      <3>2. FeedRaw(t) = Carry(Upto(t, c), From(t, c))
        BY <2>5, FeedIs
      <3>3. \A k \in 1..(c - 1) : Clear(t, k)
        BY <2>5, ClearBefore
      <3> HIDE DEF r
      <3>4. c \in 1..Len(t) /\ c \in 1..(Len(t) + 1) /\ Cuttable(t, c)
        <4>1. c \in 1..Len(t)
          BY <3>1, RegionShape
        <4>2. Cuttable(t, c)
          BY <2>5, <3>1, OpenCuttable
        <4> HIDE DEF c
        <4> QED BY <4>1, <4>2
      <3>5. CASE Size(From(t, c)) > MaxHold
        BY <2>2, <2>5, <3>5, DropAhead DEF r
      <3>6. CASE ~ (Size(From(t, c)) > MaxHold)
        <4>1. Size(From(t, c)) \in Nat /\ MaxHold \in Nat
          <5> HIDE DEF c
          <5> QED BY <3>4, UptoFrom, SizeNat, RedactorAssumption
        <4> HIDE DEF c
        <4>2. Size(From(t, c)) <= MaxHold
          BY <3>6, <4>1
        <4> QED BY <2>2, <3>2, <3>3, <3>4, <4>2, CarryAhead
      <3> QED BY <3>5, <3>6
    <2>6. CASE RegionsOf(t) # {} /\ ~ r.open
      <3>1. r \in RegionsOf(t)
        BY <2>6, EarliestExists
      <3>2. FeedAhead(From(t, r.end))
        <4> HIDE DEF r
        <4>1. r.start \in 1..Len(t) /\ r.end \in (r.start + 1)..(Len(t) + 1)
          BY <3>1, RegionShape
        <4>2. r.end \in 1..(Len(t) + 1) /\ r.end # 1
          BY <4>1
        <4> QED BY <2>3, <4>2
      <3> QED BY <2>2, <2>6, <3>2, ClosedAhead
    <2> QED BY <2>4, <2>5, <2>6
  <1>2. Len(s) \notin T /\ Len(s) \in Nat
    BY <1>1
  <1> QED BY <1>2

\* Appending is associative, and nothing is appended by an empty text.
LEMMA TextConcat ==
  /\ \A a, b \in Seq(Units) : a \o b \in Seq(Units)
  /\ \A a, b, c \in Seq(Units) : (a \o b) \o c = a \o (b \o c)
  /\ \A a \in Seq(Units) : a \o <<>> = a /\ <<>> \o a = a
  /\ \A a \in Seq(Shown) : a \o <<>> = a /\ <<>> \o a = a
  <1>1. \A a, b \in Seq(Units) : a \o b \in Seq(Units)
    OBVIOUS
  <1>2. \A a, b, c \in Seq(Units) : (a \o b) \o c = a \o (b \o c)
    BY ConcatAssociative
  <1>3. /\ \A a \in Seq(Units) : a \o <<>> = a /\ <<>> \o a = a
        /\ \A a \in Seq(Shown) : a \o <<>> = a /\ <<>> \o a = a
    BY ConcatEmptySeq
  <1> QED BY <1>1, <1>2, <1>3

\* The text behind a run that is dropped, when more text comes.
LEMMA UndroppedAppended ==
  ASSUME NEW d \in Seq(Units), NEW e \in Seq(Units)
  PROVE  /\ Undropped(d) \in Seq(Units)
         /\ \E b \in 1..(Len(d) + 1) : Undropped(d) = From(d, b)
         /\ Undropped(d) = <<>> => Undropped(d \o e) = Undropped(e)
         /\ Undropped(d) # <<>> => Undropped(d \o e) = Undropped(d) \o e
  <1> DEFINE b == RunEnd(d, 1)
             x == Undropped(d)
  <1>1. b \in 1..(Len(d) + 1) /\ 1 \in 1..(Len(d) + 1)
    BY RunEndExists
  <1>2. x = From(d, b)
    BY DEF Undropped
  <1>3. /\ b # Len(d) + 1 => RunEnd(d \o e, 1) = b
        /\ b = Len(d) + 1 => From(d \o e, RunEnd(d \o e, 1)) = Undropped(e)
    BY <1>1, RunEndAppended
  <1> HIDE DEF x, b
  <1>4. x \in Seq(Units) /\ Len(x) = Len(d) + 1 - b
    BY <1>1, <1>2, UptoFrom
  <1>5. x = <<>> <=> b = Len(d) + 1
    BY <1>1, <1>4
  <1>6. From(d \o e, b) = From(d, b) \o e
    BY <1>1, FromAppended
  <1>7. b = Len(d) + 1 => Undropped(d \o e) = Undropped(e)
    BY <1>3 DEF Undropped
  <1>8. b # Len(d) + 1 => Undropped(d \o e) = x \o e
    BY <1>2, <1>3, <1>6 DEF Undropped
  <1> QED BY <1>1, <1>2, <1>4, <1>5, <1>7, <1>8 DEF x

\* Nothing is left of a text of which nothing came.
LEMMA UndroppedEmpty == Undropped(<<>>) = <<>>
  <1> DEFINE s == <<>>
             b == RunEnd(s, 1)
  <1>1. s \in Seq(Units) /\ Len(s) = 0 /\ 1 \in 1..(Len(s) + 1)
    OBVIOUS
  <1> HIDE DEF s
  <1>2. b \in 1..(Len(s) + 1)
    BY <1>1, RunEndExists
  <1>3. b = 1
    BY <1>1, <1>2
  <1>4. From(s, 1) = s
    BY <1>1, SubSeqFull DEF From
  <1> QED BY <1>3, <1>4 DEF Undropped, s

\* A text that came in one piece is treated as flush would treat it.
LEMMA OnePieceIs ==
  ASSUME SecretsApart, NEW s \in Seq(Units), FitsCarry(s)
  PROVE  FeedRaw(s).out \o FlushRaw(FeedRaw(s).pending) = FlushRaw(s)
  <1> DEFINE a == FeedRaw(s)
  <1>1. a \in Results /\ <<>> \in Seq(Units)
    BY FeedResult
  <1>2. \A e \in Seq(Units) : FlushRaw(s \o e) = a.out \o Rest(a.dropping, a.pending, e)
    BY FeedIsAhead DEF FeedAhead, Ahead
  <1> HIDE DEF a
  <1>3. a.pending \in Seq(Units) /\ (a.dropping => a.pending = <<>>)
    BY <1>1 DEF Results
  <1>4. a.pending \o <<>> = a.pending /\ s \o <<>> = s
    BY <1>3, TextConcat
  <1>5. Rest(a.dropping, a.pending, <<>>) = FlushRaw(a.pending)
    BY <1>3, <1>4, UndroppedEmpty, Zenon DEF Rest
  <1>6. a.out \o FlushRaw(a.pending) = FlushRaw(s)
    BY <1>1, <1>2, <1>4, <1>5, Zenon
  <1> QED BY <1>6 DEF a

-----------------------------------------------------------------------------
(* What redactText replaces. *)

\* Two results of which one is the other, but for what redactText replaced.
Covers(a, b) == Veils(a.out, b.out) /\ a.pending = b.pending /\ a.dropping = b.dropping

\* A text veils itself, and pieces that are veiled one by one are veiled together.
LEMMA VeilsConcat ==
  /\ \A u \in Seq(Shown) : Veils(u, u)
  /\ \A a, b, c, d : Veils(a, b) /\ Veils(c, d) => Veils(a \o c, b \o d)
  <1>1. \A u \in Seq(Shown) : Veils(u, u)
    BY DEF Veils
  <1>2. ASSUME NEW a, NEW b, NEW c, NEW d, Veils(a, b), Veils(c, d)
        PROVE  Veils(a \o c, b \o d)
    <2>1. /\ a \in Seq(Shown) /\ b \in Seq(Shown) /\ c \in Seq(Shown) /\ d \in Seq(Shown)
          /\ Len(a) = Len(b) /\ Len(c) = Len(d)
      BY <1>2 DEF Veils
    <2> DEFINE v == a \o c
               u == b \o d
    <2>2. /\ v \in Seq(Shown) /\ u \in Seq(Shown) /\ Len(v) = Len(u) /\ Len(u) = Len(b) + Len(d)
          /\ \A i \in 1..Len(b) : v[i] = a[i] /\ u[i] = b[i]
          /\ \A i \in 1..Len(d) : v[Len(b) + i] = c[i] /\ u[Len(b) + i] = d[i]
      BY <2>1
    <2> HIDE DEF v, u
    <2>3. ASSUME NEW i \in 1..Len(u)
          PROVE  v[i] = u[i] \/ v[i] = Redacted
      <3>1. CASE i \in 1..Len(b)
        BY <1>2, <2>2, <3>1 DEF Veils
      <3>2. CASE i \notin 1..Len(b)
        <4> DEFINE k == i - Len(b)
        <4>1. k \in 1..Len(d) /\ Len(b) + k = i
          BY <2>1, <2>2, <3>2
        <4> HIDE DEF k
        <4>2. v[Len(b) + k] = c[k] /\ u[Len(b) + k] = d[k]
          BY <2>2, <4>1
        <4>3. c[k] = d[k] \/ c[k] = Redacted
          BY <1>2, <4>1 DEF Veils
        <4> QED BY <4>1, <4>2, <4>3
      <3> QED BY <3>1, <3>2
    <2> QED BY <2>2, <2>3 DEF Veils, v, u
  <1> QED BY <1>1, <1>2

\* A redaction veils itself.
LEMMA RedactionVeils == Veils(<<Redacted>>, <<Redacted>>)
  <1>1. <<Redacted>> \in Seq(Shown)
    BY DEF Shown
  <1> QED BY <1>1, VeilsConcat

\* The same carry is kept behind a text and behind what veils it,
LEMMA CarryVeils ==
  ASSUME NEW v, NEW u, Veils(v, u), NEW carry \in Seq(Units)
  PROVE  Carry(v, carry) \in Results /\ Covers(Carry(v, carry), Carry(u, carry))
  <1>1. v \in Seq(Shown) /\ u \in Seq(Shown)
    BY DEF Veils
  <1>2. Carry(v, carry) \in Results
    BY <1>1, CarryResult
  <1>3. Veils(v \o <<Redacted>>, u \o <<Redacted>>)
    BY VeilsConcat, RedactionVeils
  <1> DEFINE x == v \o <<Redacted>>
             y == u \o <<Redacted>>
  <1> HIDE DEF x, y
  <1>4. Covers(Carry(v, carry), Carry(u, carry))
    <2>1. CASE Size(carry) > MaxHold
      <3>1. Carry(v, carry) = After(x, <<>>, TRUE) /\ Carry(u, carry) = After(y, <<>>, TRUE)
        BY <2>1 DEF Carry, x, y
      <3>2. Veils(x, y)
        BY <1>3 DEF x, y
      <3> QED BY <3>1, <3>2 DEF After, Covers
    <2>2. CASE ~ (Size(carry) > MaxHold)
      <3>1. Carry(v, carry) = After(v, carry, FALSE) /\ Carry(u, carry) = After(u, carry, FALSE)
        BY <2>2 DEF Carry
      <3> QED BY <3>1 DEF After, Covers
    <2> QED BY <2>1, <2>2
  <1> QED BY <1>2, <1>4

\* and the same rest behind a closed region.
LEMMA BehindVeils ==
  ASSUME NEW v, NEW u, Veils(v, u), NEW a \in Results
  PROVE  /\ Behind(v, a) \in Results
         /\ \A b \in Results : Covers(a, b) => Covers(Behind(v, a), Behind(u, b))
  <1>0. /\ v \in Seq(Shown) /\ <<Redacted>> \in Seq(Shown)
        /\ a \in [out : Seq(Shown), pending : Seq(Units), dropping : BOOLEAN]
        /\ a.out \in Seq(Shown)
    BY DEF Veils, Results, Shown
  <1>1. Behind(v, a) \in Results
    <2>1. v \o <<Redacted>> \o a.out \in Seq(Shown)
      BY <1>0
    <2> QED BY <1>0, <2>1 DEF Behind, Results
  <1>2. ASSUME NEW b \in Results, Covers(a, b)
        PROVE  Covers(Behind(v, a), Behind(u, b))
    <2>1. Veils(v \o <<Redacted>> \o a.out, u \o <<Redacted>> \o b.out)
      <3>1. Veils(v \o <<Redacted>>, u \o <<Redacted>>)
        BY VeilsConcat, RedactionVeils
      <3> QED BY <1>2, <3>1, VeilsConcat DEF Covers
    <2> DEFINE x == v \o <<Redacted>> \o a.out
               y == u \o <<Redacted>> \o b.out
    <2>2. b \in [out : Seq(Shown), pending : Seq(Units), dropping : BOOLEAN]
      BY DEF Results
    <2>3. /\ Behind(v, a) = [a EXCEPT !.out = x] /\ Behind(u, b) = [b EXCEPT !.out = y]
      BY DEF Behind
    <2>4. Veils(x, y)
      BY <2>1
    <2> HIDE DEF x, y
    <2>5. /\ Behind(v, a).out = x /\ Behind(v, a).pending = a.pending
          /\ Behind(v, a).dropping = a.dropping
      BY <1>0, <2>3
    <2>6. /\ Behind(u, b).out = y /\ Behind(u, b).pending = b.pending
          /\ Behind(u, b).dropping = b.dropping
      BY <2>2, <2>3
    <2> QED BY <1>2, <2>4, <2>5, <2>6, Zenon DEF Covers
  <1> QED BY <1>1, <1>2

\* An iteration of the loop of feed lets go what that without redactText does, veiled.
LEMMA FeedFromVeils ==
  ASSUME NEW s \in Seq(Units), NEW i \in 1..(Len(s) + 1), NEW rest,
         \A j \in (i + 1)..(Len(s) + 1) : rest[j] \in Results
  PROVE  /\ FeedFrom(s, i, rest) \in Results
         /\ \A other : (\A j \in (i + 1)..(Len(s) + 1) : rest[j] = other[j]) =>
              FeedFrom(s, i, other) = FeedFrom(s, i, rest)
         /\ \A raw : (\A j \in (i + 1)..(Len(s) + 1) : raw[j] \in Results /\ Covers(rest[j], raw[j])) =>
              Covers(FeedFrom(s, i, rest), FeedRawFrom(s, i, raw))
  <1> DEFINE t == From(s, i)
             r == Earliest(t)
             h == HeldRun(t)
             e == i + r.end - 1
  <1>0. t \in Seq(Units)
    BY UptoFrom
  <1>1. CASE RegionsOf(t) = {}
    <2> DEFINE u == Upto(t, h)
               v == RedactFinal(u)
    <2>1. h \in 1..(Len(t) + 1) /\ Veils(v, u)
      BY <1>1, Iteration
    <2>2. \A x : FeedFrom(s, i, x) = Carry(v, From(t, h)) /\ FeedRawFrom(s, i, x) = Carry(u, From(t, h))
      BY <1>1 DEF FeedFrom, FeedRawFrom
    <2> HIDE DEF t, h
    <2>3. From(t, h) \in Seq(Units)
      BY <1>0, <2>1, UptoFrom
    <2> HIDE DEF u, v
    <2>4. Carry(v, From(t, h)) \in Results /\ Covers(Carry(v, From(t, h)), Carry(u, From(t, h)))
      BY <2>1, <2>3, CarryVeils
    <2> QED BY <2>2, <2>4
  <1>2. CASE RegionsOf(t) # {}
    <2> DEFINE u == Upto(t, r.start)
               v == RedactFinal(u)
    <2>1. /\ r.start \in 1..Len(t) /\ r.open \in BOOLEAN /\ Veils(v, u)
          /\ e \in (i + 1)..(Len(s) + 1)
      BY <1>2, Iteration
    <2>2. CASE r.open
      <3>1. \A x : /\ FeedFrom(s, i, x) = Carry(v, From(t, r.start))
                   /\ FeedRawFrom(s, i, x) = Carry(u, From(t, r.start))
        BY <1>2, <2>2 DEF FeedFrom, FeedRawFrom
      <3> HIDE DEF t, r
      <3>2. From(t, r.start) \in Seq(Units)
        <4>1. r.start \in 1..(Len(t) + 1)
          BY <1>0, <2>1
        <4> QED BY <1>0, <4>1, UptoFrom
      <3> HIDE DEF u, v
      <3>3. /\ Carry(v, From(t, r.start)) \in Results
            /\ Covers(Carry(v, From(t, r.start)), Carry(u, From(t, r.start)))
        BY <2>1, <3>2, CarryVeils
      <3> QED BY <3>1, <3>3
    <2>3. CASE ~ r.open
      <3>1. \A x : FeedFrom(s, i, x) = Behind(v, x[e]) /\ FeedRawFrom(s, i, x) = Behind(u, x[e])
        BY <1>2, <2>3 DEF FeedFrom, FeedRawFrom, Behind
      <3> HIDE DEF t, r, u, v, e
      <3>2. rest[e] \in Results
        BY <2>1
      <3>3. Behind(v, rest[e]) \in Results
        BY <2>1, <3>2, BehindVeils
      <3>4. ASSUME NEW raw, \A j \in (i + 1)..(Len(s) + 1) : raw[j] \in Results /\ Covers(rest[j], raw[j])
            PROVE  Covers(Behind(v, rest[e]), Behind(u, raw[e]))
        BY <2>1, <3>2, <3>4, BehindVeils
      <3>5. ASSUME NEW other, \A j \in (i + 1)..(Len(s) + 1) : rest[j] = other[j]
            PROVE  rest[e] = other[e]
        BY <2>1, <3>5
      <3> QED BY <3>1, <3>3, <3>4, <3>5, Zenon
    <2> QED BY <2>1, <2>2, <2>3
  <1> QED BY <1>1, <1>2

\* What feed returns is what it returns without redactText, veiled.
LEMMA FeedVeils ==
  ASSUME NEW s \in Seq(Units)
  PROVE  Feed(s) \in Results /\ Covers(Feed(s), FeedRaw(s))
  <1> DEFINE n == Len(s) + 1
             Loop(f) == f = [i \in 1..n |-> FeedFrom(s, i, f)]
             c == CHOOSE f : Loop(f)
             G == [i \in 1..n |-> [f \in [1..n -> Results] |-> FeedFrom(s, i, f)]]
  <1>0. n \in Nat /\ n = Len(s) + 1 /\ 1 \in 1..n
    OBVIOUS
  <1>1. Loop(c)
    <2>1. Results # {}
      <3>1. After(<<>>, <<>>, FALSE) \in Results
        BY EmptyCarry
      <3> QED BY <3>1
    <2>2. ASSUME NEW i \in 1..n, NEW f \in [1..n -> Results]
          PROVE  FeedFrom(s, i, f) \in Results
      <3>1. i \in 1..(Len(s) + 1) /\ \A j \in (i + 1)..(Len(s) + 1) : f[j] \in Results
        BY <1>0
      <3> HIDE DEF n
      <3> QED BY <3>1, FeedFromVeils
    <2>3. G \in [1..n -> [[1..n -> Results] -> Results]]
      <3> HIDE DEF n
      <3> QED BY <2>2
    <2>4. ASSUME NEW i \in 1..n, NEW f \in [1..n -> Results], NEW g \in [1..n -> Results],
                 \A j \in (i + 1)..n : f[j] = g[j]
          PROVE  G[i][f] = G[i][g]
      <3>1. \A j \in (i + 1)..n : f[j] \in Results
        BY <1>0
      <3>2. FeedFrom(s, i, g) = FeedFrom(s, i, f)
        BY <2>4, <3>1, FeedFromVeils
      <3> HIDE DEF n
      <3> QED BY <3>2
    <2> HIDE DEF G, n
    <2>g. \A i \in 1..n : \A f, g \in [1..n -> Results] :
            (\A j \in (i + 1)..n : f[j] = g[j]) => G[i][f] = G[i][g]
      BY <2>4
    <2>5. PICK f \in [1..n -> Results] : Fixpoint(f, G, n)
      <3>1. n \in Nat
        BY <1>0
      <3>2. Recursive(G, n, Results)
        BY <2>3, <2>g DEF Recursive
      <3> QED BY <2>1, <3>1, <3>2, RecursionDown
    <2>6. \A i \in 1..n : f[i] = FeedFrom(s, i, f)
      BY <2>5 DEF G, Fixpoint
    <2>7. Loop(f)
      BY <2>6
    <2> QED BY <2>7
  <1>2. Feed(s) = c[1]
    BY DEF Feed
  <1>3. \A i \in 1..n : c[i] = FeedFrom(s, i, c)
    BY <1>1
  <1>4. \A i \in 1..n : FeedLoop(s)[i] \in Results /\ FeedLoop(s)[i] = FeedRawFrom(s, i, FeedLoop(s))
    <2> SUFFICES ASSUME NEW i \in 1..n
                 PROVE  FeedLoop(s)[i] \in Results /\ FeedLoop(s)[i] = FeedRawFrom(s, i, FeedLoop(s))
      OBVIOUS
    <2>1. i \in 1..(Len(s) + 1)
      OBVIOUS
    <2>2. From(s, i) \in Seq(Units)
      BY <2>1, UptoFrom
    <2> QED BY <2>1, <2>2, FeedTail, FeedResult, FeedLoopIs
  <1>5. FeedRaw(s) = FeedLoop(s)[1]
    BY FeedLoopIs
  <1> HIDE DEF c
  <1> DEFINE l == FeedLoop(s)
             Good(j) == c[j] \in Results /\ Covers(c[j], l[j])
             T == {j \in 1..n : ~ Good(j)}
  <1> HIDE DEF l
  <1>6. ASSUME T # {} PROVE FALSE
    <2>1. PICK i \in T : \A j \in T : j <= i
      <3>1. T \subseteq 0..n
        OBVIOUS
      <3> HIDE DEF T
      <3> QED BY <1>0, <1>6, <3>1, GreatestNat
    <2>2. i \in 1..n /\ i \in 1..(Len(s) + 1)
      OBVIOUS
    <2>3. \A j \in (i + 1)..(Len(s) + 1) : Good(j) /\ l[j] \in Results
      <3> SUFFICES ASSUME NEW j \in (i + 1)..(Len(s) + 1)
                   PROVE  Good(j) /\ l[j] \in Results
        OBVIOUS
      <3>1. j \in 1..n /\ ~ (j <= i)
        BY <2>2
      <3>2. l[j] \in Results
        BY <1>4, <3>1 DEF l
      <3> HIDE DEF n, Good
      <3> QED BY <2>1, <3>1, <3>2
    <2>4. c[i] = FeedFrom(s, i, c) /\ l[i] = FeedRawFrom(s, i, l)
      BY <1>3, <1>4, <2>2 DEF l
    <2>5. FeedFrom(s, i, c) \in Results /\ Covers(FeedFrom(s, i, c), FeedRawFrom(s, i, l))
      BY <2>2, <2>3, FeedFromVeils
    <2>6. Good(i)
      BY <2>4, <2>5
    <2> QED BY <2>6
  <1>7. Good(1)
    BY <1>0, <1>6
  <1> QED BY <1>2, <1>5, <1>7 DEF l

\* An iteration of the loop of flush likewise.
LEMMA FlushFromVeils ==
  ASSUME NEW s \in Seq(Units), NEW i \in 1..(Len(s) + 1), NEW rest,
         \A j \in (i + 1)..(Len(s) + 1) : rest[j] \in Seq(Shown)
  PROVE  /\ FlushFrom(s, i, rest) \in Seq(Shown)
         /\ \A other : (\A j \in (i + 1)..(Len(s) + 1) : rest[j] = other[j]) =>
              FlushFrom(s, i, other) = FlushFrom(s, i, rest)
         /\ \A raw : (\A j \in (i + 1)..(Len(s) + 1) : raw[j] \in Seq(Shown) /\ Veils(rest[j], raw[j])) =>
              Veils(FlushFrom(s, i, rest), FlushRawFrom(s, i, raw))
  <1> DEFINE t == From(s, i)
             r == Earliest(t)
             e == i + r.end - 1
  <1>0. t \in Seq(Units)
    BY UptoFrom
  <1>1. CASE RegionsOf(t) = {}
    <2>1. Veils(RedactFinal(t), t)
      BY <1>1, Iteration
    <2>2. \A x : FlushFrom(s, i, x) = RedactFinal(t) /\ FlushRawFrom(s, i, x) = t
      BY <1>1 DEF FlushFrom, FlushRawFrom
    <2> HIDE DEF t
    <2> QED BY <2>1, <2>2 DEF Veils
  <1>2. CASE RegionsOf(t) # {}
    <2> DEFINE u == Upto(t, r.start)
               v == RedactFinal(u)
               b == From(t, r.start)
               w == RedactFinal(b)
    <2>1. /\ r.start \in 1..Len(t) /\ r.open \in BOOLEAN /\ Veils(v, u)
          /\ e \in (i + 1)..(Len(s) + 1)
      BY <1>2, Iteration
    <2>2. CASE Unconfirmed(r)
      <3>1. \A x : FlushFrom(s, i, x) = v \o w /\ FlushRawFrom(s, i, x) = t
        BY <1>2, <2>2 DEF FlushFrom, FlushRawFrom
      <3>2. Veils(w, b)
        <4> HIDE DEF t
        <4> QED BY <1>0, <1>2, <2>2, UnconfirmedEnd
      <3>3. u \o b = t
        <4> HIDE DEF t, r
        <4>1. r.start \in 1..(Len(t) + 1)
          BY <1>0, <2>1
        <4> QED BY <1>0, <4>1, UptoFrom
      <3> HIDE DEF t, r, u, v, b, w
      <3>4. Veils(v \o w, t)
        BY <2>1, <3>2, <3>3, VeilsConcat
      <3>5. v \o w \in Seq(Shown)
        BY <3>4 DEF Veils
      <3> QED BY <3>1, <3>4, <3>5, Zenon
    <2>3. CASE ~ Unconfirmed(r) /\ r.open
      <3>1. \A x : /\ FlushFrom(s, i, x) = v \o <<Redacted>>
                   /\ FlushRawFrom(s, i, x) = u \o <<Redacted>>
        BY <1>2, <2>3 DEF FlushFrom, FlushRawFrom
      <3> HIDE DEF t, r, u, v, b, w
      <3>2. Veils(v \o <<Redacted>>, u \o <<Redacted>>)
        BY <2>1, VeilsConcat, RedactionVeils
      <3>3. v \o <<Redacted>> \in Seq(Shown)
        BY <3>2 DEF Veils
      <3> QED BY <3>1, <3>2, <3>3, Zenon
    <2>4. CASE ~ Unconfirmed(r) /\ ~ r.open
      <3>1. \A x : /\ FlushFrom(s, i, x) = v \o <<Redacted>> \o x[e]
                   /\ FlushRawFrom(s, i, x) = u \o <<Redacted>> \o x[e]
        BY <1>2, <2>4 DEF FlushFrom, FlushRawFrom
      <3> HIDE DEF t, r, u, v, b, w, e
      <3>2. rest[e] \in Seq(Shown)
        BY <2>1
      <3>3. Veils(v \o <<Redacted>>, u \o <<Redacted>>)
        BY <2>1, VeilsConcat, RedactionVeils
      <3>4. v \o <<Redacted>> \o rest[e] \in Seq(Shown)
        <4>1. Veils(v \o <<Redacted>> \o rest[e], u \o <<Redacted>> \o rest[e])
          BY <3>2, <3>3, VeilsConcat
        <4> QED BY <4>1 DEF Veils
      <3>5. ASSUME NEW raw, \A j \in (i + 1)..(Len(s) + 1) : raw[j] \in Seq(Shown) /\ Veils(rest[j], raw[j])
            PROVE  Veils(v \o <<Redacted>> \o rest[e], u \o <<Redacted>> \o raw[e])
        BY <2>1, <3>3, <3>5, VeilsConcat
      <3>6. ASSUME NEW other, \A j \in (i + 1)..(Len(s) + 1) : rest[j] = other[j]
            PROVE  rest[e] = other[e]
        BY <2>1, <3>6
      <3> QED BY <3>1, <3>4, <3>5, <3>6, Zenon
    <2> QED BY <2>1, <2>2, <2>3, <2>4
  <1> QED BY <1>1, <1>2

\* What flush returns likewise.
LEMMA FlushVeils ==
  ASSUME NEW s \in Seq(Units)
  PROVE  Flush(s) \in Seq(Shown) /\ Veils(Flush(s), FlushRaw(s))
  <1> DEFINE n == Len(s) + 1
             Loop(f) == f = [i \in 1..n |-> FlushFrom(s, i, f)]
             c == CHOOSE f : Loop(f)
             G == [i \in 1..n |-> [f \in [1..n -> Seq(Shown)] |-> FlushFrom(s, i, f)]]
  <1>0. n \in Nat /\ n = Len(s) + 1 /\ 1 \in 1..n
    OBVIOUS
  <1>1. Loop(c)
    <2>1. Seq(Shown) # {}
      <3>1. <<>> \in Seq(Shown)
        BY EmptyCarry
      <3> QED BY <3>1
    <2>2. ASSUME NEW i \in 1..n, NEW f \in [1..n -> Seq(Shown)]
          PROVE  FlushFrom(s, i, f) \in Seq(Shown)
      <3>1. i \in 1..(Len(s) + 1) /\ \A j \in (i + 1)..(Len(s) + 1) : f[j] \in Seq(Shown)
        BY <1>0
      <3> HIDE DEF n
      <3> QED BY <3>1, FlushFromVeils
    <2>3. G \in [1..n -> [[1..n -> Seq(Shown)] -> Seq(Shown)]]
      <3> HIDE DEF n
      <3> QED BY <2>2
    <2>4. ASSUME NEW i \in 1..n, NEW f \in [1..n -> Seq(Shown)], NEW g \in [1..n -> Seq(Shown)],
                 \A j \in (i + 1)..n : f[j] = g[j]
          PROVE  G[i][f] = G[i][g]
      <3>1. \A j \in (i + 1)..n : f[j] \in Seq(Shown)
        BY <1>0
      <3>2. FlushFrom(s, i, g) = FlushFrom(s, i, f)
        BY <2>4, <3>1, FlushFromVeils
      <3> HIDE DEF n
      <3> QED BY <3>2
    <2> HIDE DEF G, n
    <2>g. \A i \in 1..n : \A f, g \in [1..n -> Seq(Shown)] :
            (\A j \in (i + 1)..n : f[j] = g[j]) => G[i][f] = G[i][g]
      BY <2>4
    <2>5. PICK f \in [1..n -> Seq(Shown)] : Fixpoint(f, G, n)
      <3>1. n \in Nat
        BY <1>0
      <3>2. Recursive(G, n, Seq(Shown))
        BY <2>3, <2>g DEF Recursive
      <3> QED BY <2>1, <3>1, <3>2, RecursionDown
    <2>6. \A i \in 1..n : f[i] = FlushFrom(s, i, f)
      BY <2>5 DEF G, Fixpoint
    <2>7. Loop(f)
      BY <2>6
    <2> QED BY <2>7
  <1>2. Flush(s) = c[1]
    BY DEF Flush
  <1>3. \A i \in 1..n : c[i] = FlushFrom(s, i, c)
    BY <1>1
  <1>4. \A i \in 1..n : FlushLoop(s)[i] \in Seq(Shown) /\ FlushLoop(s)[i] = FlushRawFrom(s, i, FlushLoop(s))
    <2> SUFFICES ASSUME NEW i \in 1..n
                 PROVE  FlushLoop(s)[i] \in Seq(Shown) /\ FlushLoop(s)[i] = FlushRawFrom(s, i, FlushLoop(s))
      OBVIOUS
    <2>1. i \in 1..(Len(s) + 1)
      OBVIOUS
    <2>2. From(s, i) \in Seq(Units)
      BY <2>1, UptoFrom
    <2> QED BY <2>1, <2>2, FlushTail, FlushResult, FlushLoopIs
  <1>5. FlushRaw(s) = FlushLoop(s)[1]
    BY FlushLoopIs
  <1> HIDE DEF c
  <1> DEFINE l == FlushLoop(s)
             Good(j) == c[j] \in Seq(Shown) /\ Veils(c[j], l[j])
             T == {j \in 1..n : ~ Good(j)}
  <1> HIDE DEF l
  <1>6. ASSUME T # {} PROVE FALSE
    <2>1. PICK i \in T : \A j \in T : j <= i
      <3>1. T \subseteq 0..n
        OBVIOUS
      <3> HIDE DEF T
      <3> QED BY <1>0, <1>6, <3>1, GreatestNat
    <2>2. i \in 1..n /\ i \in 1..(Len(s) + 1)
      OBVIOUS
    <2>3. \A j \in (i + 1)..(Len(s) + 1) : Good(j) /\ l[j] \in Seq(Shown)
      <3> SUFFICES ASSUME NEW j \in (i + 1)..(Len(s) + 1)
                   PROVE  Good(j) /\ l[j] \in Seq(Shown)
        OBVIOUS
      <3>1. j \in 1..n /\ ~ (j <= i)
        BY <2>2
      <3>2. l[j] \in Seq(Shown)
        BY <1>4, <3>1 DEF l
      <3> HIDE DEF n, Good
      <3> QED BY <2>1, <3>1, <3>2
    <2>4. c[i] = FlushFrom(s, i, c) /\ l[i] = FlushRawFrom(s, i, l)
      BY <1>3, <1>4, <2>2 DEF l
    <2>5. FlushFrom(s, i, c) \in Seq(Shown) /\ Veils(FlushFrom(s, i, c), FlushRawFrom(s, i, l))
      BY <2>2, <2>3, FlushFromVeils
    <2>6. Good(i)
      BY <2>4, <2>5
    <2> QED BY <2>6
  <1>7. Good(1)
    BY <1>0, <1>6
  <1> QED BY <1>2, <1>5, <1>7 DEF l

-----------------------------------------------------------------------------
(* The invariant. *)

\* Nothing of a secret stands in the text u released so far, without what redactText
\* replaced, and none begins there, whatever comes after what is held back.
NothingBegins(u) == NoSecretIn(u) /\ (~ flushed => Safe(u, pending))

\* The text released is right ahead of what is still to come, and at the end right.
AllThere(u) ==
  SecretsApart /\ FitsCarry(said) =>
    IF flushed THEN u = FlushRaw(said) ELSE Ahead(said, u, dropping, pending)

RedactorInv ==
  /\ RedactorTypeOK
  /\ \E u \in Seq(Shown) : Veils(shown, u) /\ NothingBegins(u) /\ AllThere(u)

\* Where no secret begins none is shown, also while the stream goes on.
LEMMA SafeShown ==
  ASSUME NEW o \in Seq(Shown), NEW s \in Seq(Units), Safe(o, s)
  PROVE  NoSecretIn(o)
  <1>1. ASSUME NEW i \in 1..Len(o), NEW p \in Seq(Units), At(o, i, p)
        PROVE  MayStand(o \o s, i, p)
    <2>1. MayStand(o, i, p) /\ i + Len(p) - 1 <= Len(o)
      BY <1>1, AtMayStand DEF At
    <2>2. s \in Seq(Shown)
      BY DEF Shown
    <2> SUFFICES ASSUME NEW k \in 1..Len(p), i + k - 1 <= Len(o \o s)
                 PROVE  (o \o s)[i + k - 1] = p[k]
      BY DEF MayStand
    <2>3. i + k - 1 \in 1..Len(o)
      BY <2>1
    <2>4. o[i + k - 1] = p[k]
      BY <2>1, <2>3 DEF MayStand
    <2>5. (o \o s)[i + k - 1] = o[i + k - 1]
      BY <2>2, <2>3
    <2> QED BY <2>4, <2>5
  <1>2. ASSUME NEW i \in 1..Len(o), AtBoundary(o, i)
        PROVE  AtBoundary(o \o s, i)
    <2>1. s \in Seq(Shown)
      BY DEF Shown
    <2>2. i > 1 => (o \o s)[i - 1] = o[i - 1]
      BY <2>1
    <2> QED BY <1>2, <2>2 DEF AtBoundary
  <1>3. Exact \in Seq(Units) /\ \A m \in Markers : m \in Seq(Units)
    BY RedactorAssumption
  <1>4. \A i \in 1..Len(o) : Clear(o \o s, i)
    BY DEF Safe
  <1>5. DOMAIN o = 1..Len(o)
    OBVIOUS
  <1> QED BY <1>1, <1>2, <1>3, <1>4, <1>5 DEF Clear, NoSecretIn

\* Replacing units of a text in which no secret stands shows none.
LEMMA VeiledNoSecret ==
  ASSUME NEW v, NEW u, Veils(v, u), NoSecretIn(u)
  PROVE  NoSecretIn(v)
  <1> SUFFICES ASSUME Keepable, NEW i \in DOMAIN v
               PROVE  /\ ~ At(v, i, Exact)
                      /\ AtBoundary(v, i) => \A m \in Markers : ~ At(v, i, m)
    BY DEF NoSecretIn
  <1>1. /\ v \in Seq(Shown) /\ u \in Seq(Shown) /\ Len(v) = Len(u) /\ Len(u) \in Nat
        /\ i \in 1..Len(v) /\ i \in DOMAIN u
    BY DEF Veils
  <1>2. Exact \in Seq(Units) /\ \A m \in Markers : m \in Seq(Units)
    BY RedactorAssumption
  <1>3. AtBoundary(v, i) => AtBoundary(u, i)
    <2> SUFFICES ASSUME i # 1, ~ Token(v[i - 1])
                 PROVE  ~ Token(u[i - 1])
      BY DEF AtBoundary
    <2>1. i - 1 \in 1..Len(u)
      BY <1>1
    <2>2. v[i - 1] # Redacted
      BY RedactorAssumption DEF Token
    <2>3. v[i - 1] = u[i - 1]
      BY <2>1, <2>2 DEF Veils
    <2> QED BY <2>3
  <1>4. ~ At(u, i, Exact) /\ (AtBoundary(u, i) => \A m \in Markers : ~ At(u, i, m))
    BY <1>1 DEF NoSecretIn
  <1> QED BY <1>1, <1>2, <1>3, <1>4, AtVeiled

\* The invariant holds before any text came in,
LEMMA RedactorInitInv == RedactorInit => RedactorInv
  <1> SUFFICES ASSUME RedactorInit PROVE RedactorInv
    OBVIOUS
  <1>1. pending = <<>> /\ dropping = FALSE /\ flushed = FALSE /\ said = <<>> /\ shown = <<>>
    BY DEF RedactorInit
  <1>2. RedactorTypeOK
    BY EmptyCarry DEF RedactorInit, RedactorTypeOK, Shown
  <1>3. Safe(<<>>, <<>>) /\ NoSecretIn(<<>>)
    BY DEF Safe, NoSecretIn
  <1>4. Ahead(<<>>, <<>>, FALSE, <<>>)
    <2>1. ASSUME NEW e \in Seq(Units) PROVE FlushRaw(<<>> \o e) = <<>> \o FlushRaw(<<>> \o e)
      <3>1. FlushRaw(<<>> \o e) \in Seq(Shown)
        BY FlushResult, TextConcat
      <3> HIDE DEF FlushRaw
      <3> QED BY <3>1, TextConcat
    <2>2. 1 \in 1..(Len(<<>>) + 1) /\ From(<<>>, 1) = <<>>
      BY SubSeqEmpty DEF From
    <2> QED BY <2>1, <2>2, Zenon DEF Ahead, Rest
  <1>5. <<>> \in Seq(Shown) /\ Veils(<<>>, <<>>)
    <2>1. <<>> \in Seq(Shown)
      BY EmptyCarry
    <2> QED BY <2>1, VeilsConcat
  <1>6. Veils(shown, <<>>) /\ NothingBegins(<<>>) /\ AllThere(<<>>)
    BY <1>1, <1>3, <1>4, <1>5, Zenon DEF NothingBegins, AllThere
  <1> QED BY <1>2, <1>5, <1>6, Zenon DEF RedactorInv

\* A delta and the end of the stream meet the same text: what is pending and what comes,
\* without the rest of a run that is being dropped.
LEMMA Arriving ==
  ASSUME RedactorTypeOK, NEW u \in Seq(Shown), Safe(u, pending), NEW d \in Seq(Units)
  PROVE  LET rest == IF dropping THEN Undropped(pending \o d) ELSE pending \o d
         IN  rest \in Seq(Units) /\ Safe(u, rest)
  <1> DEFINE x == pending \o d
             e == RunEnd(x, 1)
  <1>1. /\ pending \in Seq(Units) /\ dropping \in BOOLEAN /\ (dropping => pending = <<>>)
    BY DEF RedactorTypeOK
  <1>2. x \in Seq(Units) /\ 1 \in 1..(Len(x) + 1)
    BY <1>1
  <1>3. Safe(u, x)
    BY <1>1, SafeExtends
  <1> HIDE DEF x
  <1>4. CASE dropping
    <2>1. Undropped(x) \in Seq(Units)
      <3>1. e \in 1..(Len(x) + 1)
        BY <1>2, RunEndExists
      <3> HIDE DEF e
      <3>2. From(x, e) \in Seq(Units)
        BY <1>2, <3>1, UptoFrom
      <3> QED BY <3>2 DEF Undropped, e
    <2>2. Safe(u, <<>> \o Undropped(x))
      BY <1>1, <1>4, <2>1, SafeExtends
    <2>3. <<>> \o Undropped(x) = Undropped(x)
      BY <2>1, ConcatEmptySeq
    <2> QED BY <1>4, <2>1, <2>2, <2>3 DEF x
  <1>5. CASE ~ dropping
    BY <1>2, <1>3, <1>5 DEF x
  <1> QED BY <1>1, <1>4, <1>5

\* A delta that goes on with the text rest, the end of all the text that came.
LEMMA AheadFurther ==
  ASSUME SecretsApart, NEW t \in Seq(Units), FitsCarry(t), NEW c \in 1..(Len(t) + 1),
         NEW rest, rest = From(t, c), NEW o \in Seq(Shown),
         \A e \in Seq(Units) : FlushRaw(t \o e) = o \o FlushRaw(rest \o e)
  PROVE  Ahead(t, o \o FeedRaw(rest).out, FeedRaw(rest).dropping, FeedRaw(rest).pending)
  <1> DEFINE a == FeedRaw(rest)
  <1>1. rest \in Seq(Units) /\ Len(rest) = Len(t) + 1 - c /\ FitsCarry(rest)
    BY UptoFrom, FitsFrom
  <1>2. a \in Results
    BY <1>1, FeedResult
  <1>3. /\ \A e \in Seq(Units) : FlushRaw(rest \o e) = a.out \o Rest(a.dropping, a.pending, e)
        /\ ~ a.dropping => \E d \in 1..(Len(rest) + 1) : a.pending = From(rest, d)
    BY <1>1, FeedIsAhead DEF FeedAhead, Ahead
  <1> HIDE DEF a
  <1>4. ASSUME NEW e \in Seq(Units)
        PROVE  FlushRaw(t \o e) = (o \o a.out) \o Rest(a.dropping, a.pending, e)
    <2> DEFINE g == Rest(a.dropping, a.pending, e)
               q == a.out
    <2>1. q \in Seq(Shown) /\ a.pending \in Seq(Units)
      BY <1>2 DEF Results
    <2>2. g \in Seq(Shown)
      <3>1. a.pending \o e \in Seq(Units) /\ Undropped(e) \in Seq(Units)
        BY <2>1, TextConcat, UndroppedAppended
      <3> QED BY <3>1, FlushResult DEF Rest
    <2>3. FlushRaw(t \o e) = o \o (q \o g)
      BY <1>3, Zenon
    <2> HIDE DEF g, q
    <2>4. o \o (q \o g) = (o \o q) \o g
      BY <2>1, <2>2, ShownConcat, Zenon
    <2> QED BY <2>3, <2>4, Zenon DEF g, q
  <1>5. ASSUME ~ a.dropping PROVE \E d \in 1..(Len(t) + 1) : a.pending = From(t, d)
    <2>1. PICK d \in 1..(Len(rest) + 1) : a.pending = From(rest, d)
      BY <1>3, <1>5
    <2>2. d \in 1..(Len(t) + 2 - c)
      BY <1>1
    <2>3. c + d - 1 \in 1..(Len(t) + 1) /\ From(From(t, c), d) = From(t, c + d - 1)
      BY <2>2, FromFrom
    <2> QED BY <2>1, <2>3, Zenon
  <1> QED BY <1>4, <1>5, Zenon DEF Ahead, a

\* So is a text that any delta goes on with, also one that ends a run being dropped or
\* goes on with it.
LEMMA AheadDelta ==
  ASSUME SecretsApart, RedactorTypeOK, NEW u \in Seq(Shown),
         FitsCarry(said) => Ahead(said, u, dropping, pending),
         NEW d \in Seq(Units), FitsCarry(said \o d)
  PROVE  LET rest == IF dropping THEN Undropped(pending \o d) ELSE pending \o d
             raw == IF dropping /\ rest = <<>> THEN After(<<>>, <<>>, TRUE) ELSE FeedRaw(rest)
         IN  Ahead(said \o d, u \o raw.out, raw.dropping, raw.pending)
  <1> DEFINE rest == IF dropping THEN Undropped(pending \o d) ELSE pending \o d
             after == IF dropping /\ rest = <<>> THEN After(<<>>, <<>>, TRUE) ELSE FeedRaw(rest)
             t == said \o d
  <1>1. d \in Seq(Units)
    OBVIOUS
  <1>2. /\ u \in Seq(Shown) /\ said \in Seq(Units) /\ dropping \in BOOLEAN
        /\ pending \in Seq(Units) /\ (dropping => pending = <<>>)
    BY DEF RedactorTypeOK
  <1>5. SUFFICES Ahead(t, u \o after.out, after.dropping, after.pending)
    OBVIOUS
  <1>0. FitsCarry(t)
    OBVIOUS
  <1>6. /\ t \in Seq(Units) /\ Len(t) = Len(said) + Len(d) /\ FitsCarry(said)
        /\ \A e \in Seq(Units) : d \o e \in Seq(Units) /\ t \o e = said \o (d \o e)
    <2>1. \A e \in Seq(Units) : d \o e \in Seq(Units) /\ t \o e = said \o (d \o e)
      BY <1>1, <1>2, TextConcat, Zenon
    <2> QED BY <1>1, <1>2, <1>0, <2>1, Joined, FitsBefore
  <1>7. /\ \A e \in Seq(Units) : FlushRaw(said \o e) = u \o Rest(dropping, pending, e)
        /\ ~ dropping => \E c \in 1..(Len(said) + 1) : pending = From(said, c)
    BY <1>2, <1>6 DEF Ahead
  <1>8. \A e \in Seq(Units) : FlushRaw(t \o e) = u \o Rest(dropping, pending, d \o e)
    <2> HIDE DEF t
    <2> QED BY <1>6, <1>7, Zenon
  <1>9. CASE ~ dropping
    <2>1. after = FeedRaw(rest) /\ rest = pending \o d
      BY <1>9
    <2>2. PICK c \in 1..(Len(said) + 1) : pending = From(said, c)
      BY <1>7, <1>9
    <2>3. c \in 1..(Len(t) + 1) /\ rest = From(t, c)
      BY <1>1, <1>2, <2>1, <2>2, FromAppended
    <2>4. ASSUME NEW e \in Seq(Units) PROVE FlushRaw(t \o e) = u \o FlushRaw(rest \o e)
      <3>1. (pending \o d) \o e = pending \o (d \o e)
        BY <1>1, <1>2, TextConcat, Zenon
      <3> HIDE DEF t, rest
      <3>2. Rest(dropping, pending, d \o e) = FlushRaw(pending \o (d \o e))
        BY <1>9 DEF Rest
      <3> QED BY <1>8, <2>1, <3>1, <3>2, Zenon
    <2> HIDE DEF t, rest, after
    <2>5. Ahead(t, u \o FeedRaw(rest).out, FeedRaw(rest).dropping, FeedRaw(rest).pending)
      BY <1>2, <1>0, <1>6, <2>3, <2>4, AheadFurther
    <2> QED BY <2>1, <2>5, Zenon
  <1>10. CASE dropping
    <2>1. rest = Undropped(d)
      BY <1>1, <1>2, <1>10, TextConcat
    <2>2. \A e \in Seq(Units) : FlushRaw(t \o e) = u \o FlushRaw(Undropped(d \o e))
      <3> HIDE DEF t
      <3> QED BY <1>8, <1>10, Zenon DEF Rest
    <2>3. /\ rest \in Seq(Units) /\ \E b \in 1..(Len(d) + 1) : rest = From(d, b)
          /\ rest = <<>> => \A e \in Seq(Units) : Undropped(d \o e) = Undropped(e)
          /\ rest # <<>> => \A e \in Seq(Units) : Undropped(d \o e) = rest \o e
      <3>1. <<>> \in Seq(Units)
        OBVIOUS
      <3> HIDE DEF rest
      <3> QED BY <1>1, <2>1, <3>1, UndroppedAppended
    <2>4. CASE rest = <<>>
      <3>1. after = After(<<>>, <<>>, TRUE) /\ u \o <<>> = u
        BY <1>2, <1>10, <2>4, TextConcat
      <3>2. after.out = <<>> /\ after.dropping = TRUE /\ after.pending = <<>>
        BY <3>1 DEF After
      <3> HIDE DEF after, rest, t
      <3>3. \A e \in Seq(Units) : FlushRaw(t \o e) = u \o FlushRaw(Undropped(e))
        BY <2>2, <2>3, <2>4, Zenon
      <3> QED BY <3>1, <3>2, <3>3, Zenon DEF Ahead, Rest
    <2>5. CASE rest # <<>>
      <3>1. after = FeedRaw(rest)
        BY <2>5
      <3>2. PICK b \in 1..(Len(d) + 1) : rest = From(d, b)
        BY <2>3
      <3> DEFINE m == Len(said) + 1
                 c == m + b - 1
      <3>3. /\ m \in 1..(Len(t) + 1) /\ From(t, m) = d
        BY <1>1, <1>2, FromBehind
      <3>4. b \in 1..(Len(t) + 2 - m)
        <4> HIDE DEF t
        <4> QED BY <1>1, <1>2, <1>6
      <3> HIDE DEF t, rest, after, m
      <3>5. c \in 1..(Len(t) + 1) /\ rest = From(t, c)
        BY <1>6, <3>2, <3>3, <3>4, FromFrom
      <3>6. \A e \in Seq(Units) : FlushRaw(t \o e) = u \o FlushRaw(rest \o e)
        BY <2>2, <2>3, <2>5, Zenon
      <3> HIDE DEF c
      <3>7. Ahead(t, u \o FeedRaw(rest).out, FeedRaw(rest).dropping, FeedRaw(rest).pending)
        BY <1>2, <1>0, <1>6, <3>5, <3>6, AheadFurther
      <3> QED BY <3>1, <3>7, Zenon
    <2> QED BY <2>4, <2>5
  <1> QED BY <1>2, <1>9, <1>10

\* a delta keeps the invariant,
LEMMA DeltaInv ==
  ASSUME RedactorInv, NEW n \in 1..MaxDelta, NEW d \in [1..n -> Units], Delta(d)
  PROVE  RedactorInv'
  <1> DEFINE rest == IF dropping THEN Undropped(pending \o d) ELSE pending \o d
             nothing == After(<<>>, <<>>, TRUE)
             after == IF dropping /\ rest = <<>> THEN nothing ELSE Feed(rest)
             raw == IF dropping /\ rest = <<>> THEN nothing ELSE FeedRaw(rest)
  <1>1. d \in Seq(Units)
    BY RedactorAssumption
  <1>2. /\ RedactorTypeOK /\ flushed = FALSE /\ shown \in Seq(Shown) /\ said \in Seq(Units)
    BY DEF RedactorInv, RedactorTypeOK, Delta, Shown
  <1>3. PICK u \in Seq(Shown) : Veils(shown, u) /\ NothingBegins(u) /\ AllThere(u)
    BY DEF RedactorInv
  <1>4. /\ pending' = after.pending /\ dropping' = after.dropping
        /\ shown' = shown \o after.out /\ said' = said \o d /\ flushed' = flushed
    BY DEF Delta
  <1>5. rest \in Seq(Units) /\ Safe(u, rest)
    BY <1>1, <1>2, <1>3, Arriving DEF NothingBegins
  <1>6. SecretsApart /\ FitsCarry(said \o d) =>
          Ahead(said \o d, u \o raw.out, raw.dropping, raw.pending)
    <2> SUFFICES ASSUME SecretsApart, FitsCarry(said \o d)
                 PROVE  Ahead(said \o d, u \o raw.out, raw.dropping, raw.pending)
      OBVIOUS
    <2>1. FitsCarry(said) => Ahead(said, u, dropping, pending)
      BY <1>2, <1>3 DEF AllThere
    <2> QED BY <1>1, <1>2, <2>1, AheadDelta
  <1> HIDE DEF rest
  <1>7. /\ after \in Results /\ raw \in Results /\ Covers(after, raw)
        /\ Safe(u \o raw.out, raw.pending)
    <2>1. CASE dropping /\ rest = <<>>
      <3>1. after = nothing /\ raw = nothing
        BY <2>1
      <3>2. nothing \in Results /\ nothing.out = <<>> /\ nothing.pending = <<>> /\ <<>> \in Seq(Shown)
        BY EmptyCarry DEF After
      <3> HIDE DEF nothing
      <3>3. u \o nothing.out = u /\ Safe(u, nothing.pending)
        BY <1>5, <2>1, <3>2, ConcatEmptySeq
      <3>4. Covers(nothing, nothing)
        BY <3>2, VeilsConcat DEF Covers
      <3> HIDE DEF after, raw
      <3> QED BY <3>1, <3>2, <3>3, <3>4, Zenon
    <2>2. CASE ~ (dropping /\ rest = <<>>)
      <3>1. after = Feed(rest) /\ raw = FeedRaw(rest)
        BY <2>2
      <3> HIDE DEF after, raw
      <3> QED BY <1>5, <3>1, FeedResult, FeedVeils
    <2> QED BY <2>1, <2>2
  <1> HIDE DEF after, raw
  <1> DEFINE w == u \o raw.out
  <1>8. /\ after.out \in Seq(Shown) /\ raw.out \in Seq(Shown) /\ raw.pending \in Seq(Units)
        /\ pending' = raw.pending /\ dropping' = raw.dropping
    BY <1>4, <1>7 DEF Results, Covers
  <1>9. /\ pending' \in Seq(Units) /\ Size(pending') <= MaxHold /\ dropping' \in BOOLEAN
        /\ dropping' => pending' = <<>>
    BY <1>4, <1>7 DEF Results
  <1>10. shown' \in Seq(Shown) /\ said' \in Seq(Units)
    BY <1>1, <1>2, <1>4, <1>8
  <1>11. RedactorTypeOK'
    BY <1>2, <1>4, <1>9, <1>10 DEF RedactorTypeOK, Shown
  <1>12. w \in Seq(Shown) /\ Safe(w, pending')
    BY <1>7, <1>8, ShownConcat, Zenon
  <1>13. Veils(shown', w)
    <2>1. Veils(shown \o after.out, w)
      BY <1>3, <1>7, VeilsConcat DEF Covers
    <2> QED BY <1>4, <2>1, Zenon
  <1> HIDE DEF w
  <1>14. NoSecretIn(w)
    BY <1>9, <1>12, SafeShown
  <1>15. SecretsApart /\ FitsCarry(said') => Ahead(said', w, dropping', pending')
    BY <1>4, <1>6, <1>8, Zenon DEF w
  <1>16. /\ NoSecretIn(w) /\ Safe(w, pending')
         /\ SecretsApart /\ FitsCarry(said') =>
              IF flushed' THEN w = FlushRaw(said') ELSE Ahead(said', w, dropping', pending')
    BY <1>2, <1>4, <1>12, <1>14, <1>15, Zenon
  <1>17. \E x \in Seq(Shown) : /\ Veils(shown', x)
                               /\ NoSecretIn(x) /\ (~ flushed' => Safe(x, pending'))
                               /\ (SecretsApart /\ FitsCarry(said') =>
                                    IF flushed' THEN x = FlushRaw(said')
                                    ELSE Ahead(said', x, dropping', pending'))
    BY <1>12, <1>13, <1>16, Zenon
  <1> QED BY <1>11, <1>17, Zenon DEF RedactorInv, NothingBegins, AllThere

\* the end of the stream keeps it,
LEMMA EndInv ==
  ASSUME RedactorInv, End
  PROVE  RedactorInv'
  <1> DEFINE rest == IF dropping THEN Undropped(pending) ELSE pending
  <1>1. /\ RedactorTypeOK /\ flushed = FALSE /\ shown \in Seq(Shown) /\ said \in Seq(Units)
        /\ pending \in Seq(Units) /\ dropping \in BOOLEAN /\ (dropping => pending = <<>>)
        /\ <<>> \in Seq(Units)
    BY DEF RedactorInv, RedactorTypeOK, End, Shown
  <1>2. PICK u \in Seq(Shown) : Veils(shown, u) /\ NothingBegins(u) /\ AllThere(u)
    BY DEF RedactorInv
  <1>3. pending \o <<>> = pending
    BY <1>1, ConcatEmptySeq
  <1>4. rest \in Seq(Units) /\ Safe(u, rest)
    BY <1>1, <1>2, <1>3, Arriving DEF NothingBegins
  <1>5. /\ flushed' = TRUE /\ shown' = shown \o Flush(rest)
        /\ pending' = <<>> /\ dropping' = FALSE /\ said' = said
    BY DEF End
  <1>6. FlushRaw(rest) = Rest(dropping, pending, <<>>)
    BY <1>1, <1>3, Zenon DEF Rest
  <1> HIDE DEF rest
  <1> DEFINE w == u \o FlushRaw(rest)
  <1>7. /\ FlushRaw(rest) \in Seq(Shown) /\ NoSecretIn(w)
        /\ Flush(rest) \in Seq(Shown) /\ Veils(Flush(rest), FlushRaw(rest))
    BY <1>4, FlushResult, FlushVeils
  <1>8. Veils(shown', w)
    <2>1. Veils(shown \o Flush(rest), w)
      BY <1>2, <1>7, VeilsConcat
    <2> QED BY <1>5, <2>1, Zenon
  <1>9. shown' \in Seq(Shown) /\ w \in Seq(Shown)
    BY <1>8 DEF Veils
  <1>10. RedactorTypeOK'
    BY <1>1, <1>5, <1>9, EmptyCarry DEF RedactorTypeOK, Shown
  <1>11. ASSUME SecretsApart, FitsCarry(said) PROVE w = FlushRaw(said)
    <2>1. FlushRaw(said \o <<>>) = u \o Rest(dropping, pending, <<>>)
      BY <1>1, <1>2, <1>11 DEF AllThere, Ahead
    <2>2. said \o <<>> = said
      BY <1>1, TextConcat
    <2> QED BY <1>6, <2>1, <2>2, Zenon
  <1> HIDE DEF w
  <1>12. \E x \in Seq(Shown) : /\ Veils(shown', x)
                               /\ NoSecretIn(x) /\ (~ flushed' => Safe(x, pending'))
                               /\ (SecretsApart /\ FitsCarry(said') =>
                                    IF flushed' THEN x = FlushRaw(said')
                                    ELSE Ahead(said', x, dropping', pending'))
    BY <1>5, <1>7, <1>8, <1>9, <1>11, Zenon
  <1> QED BY <1>10, <1>12, Zenon DEF RedactorInv, NothingBegins, AllThere

\* and so does every step.
LEMMA RedactorStepInv == RedactorInv /\ [RedactorNext]_redactorVars => RedactorInv'
  <1> SUFFICES ASSUME RedactorInv, [RedactorNext]_redactorVars
               PROVE  RedactorInv'
    OBVIOUS
  <1>1. ASSUME NEW n \in 1..MaxDelta, NEW d \in [1..n -> Units], Delta(d)
        PROVE  RedactorInv'
    BY <1>1, DeltaInv
  <1>2. CASE End
    BY <1>2, EndInv
  <1>3. CASE UNCHANGED redactorVars
    BY <1>3 DEF redactorVars, RedactorInv, RedactorTypeOK, NothingBegins, AllThere
  <1> QED BY <1>1, <1>2, <1>3 DEF RedactorNext

\* The inductive invariant.
LEMMA RedactorInvariant == RedactorSpec => []RedactorInv
  <1> QED BY RedactorInitInv, RedactorStepInv, PTL DEF RedactorSpec

-----------------------------------------------------------------------------
(* Theorems. *)

\* The redactor keeps to its types and its carry to its bound, for every text and every
\* way it is cut (DeltaRedactor, MAX_HOLD).
THEOREM RedactorTyped == RedactorSpec => []RedactorTypeOK
  <1>1. RedactorInv => RedactorTypeOK
    BY DEF RedactorInv
  <1> QED BY <1>1, RedactorInvariant, PTL

\* If the exact secret is Keepable, one without a delimiter among its first three characters
\* and without a marker in it, then whatever the agent writes and wherever its text is cut,
\* what DeltaRedactor releases never holds that secret, nor a complete marker at the
\* beginning of a token.
THEOREM SecretNeverShown ==
  ASSUME Keepable
  PROVE  RedactorSpec => []NoSecretShown
  <1>1. RedactorInv => NoSecretShown
    <2> SUFFICES ASSUME RedactorInv PROVE NoSecretShown
      OBVIOUS
    <2>1. PICK u \in Seq(Shown) : Veils(shown, u) /\ NothingBegins(u)
      BY DEF RedactorInv
    <2>2. NoSecretIn(shown)
      BY <2>1, VeiledNoSecret DEF NothingBegins
    <2> QED BY <2>2 DEF NoSecretShown, NoSecretIn
  <1> QED BY <1>1, RedactorInvariant, PTL

\* If no secret begins like another one begins, the text DeltaRedactor releases in the end,
\* of a text whose token runs fit the carry, is the same wherever that was cut, but for
\* the units redactText replaces: a piece is released once, in its place, and either shown
\* in both or redacted as a region in both.
THEOREM TextIsKept ==
  ASSUME SecretsApart
  PROVE  RedactorSpec => []TextKept
  <1>1. RedactorInv => TextKept
    <2> SUFFICES ASSUME RedactorInv, flushed, FitsCarry(said)
                 PROVE  SameText(shown, InOnePiece(said))
      BY DEF TextKept
    <2> DEFINE v == InOnePiece(said)
               b == Flush(Feed(said).pending)
               c == FlushRaw(FeedRaw(said).pending)
    <2>1. said \in Seq(Units)
      BY DEF RedactorInv, RedactorTypeOK
    <2>2. Veils(shown, FlushRaw(said))
      BY DEF RedactorInv, AllThere
    <2>3. Feed(said) \in Results /\ Covers(Feed(said), FeedRaw(said))
      BY <2>1, FeedVeils
    <2>4. Veils(b, c)
      <3>1. Feed(said).pending \in Seq(Units) /\ Feed(said).pending = FeedRaw(said).pending
        BY <2>3 DEF Results, Covers
      <3> QED BY <3>1, FlushVeils
    <2>5. v = Feed(said).out \o b
      BY DEF InOnePiece
    <2> HIDE DEF v, b, c
    <2>6. Veils(Feed(said).out \o b, FeedRaw(said).out \o c)
      BY <2>3, <2>4, VeilsConcat DEF Covers
    <2>7. FeedRaw(said).out \o c = FlushRaw(said)
      BY <2>1, OnePieceIs DEF c
    <2>8. Veils(v, FlushRaw(said))
      BY <2>5, <2>6, <2>7, Zenon
    <2>9. SameText(shown, v)
      BY <2>2, <2>8 DEF Veils, SameText
    <2> QED BY <2>9 DEF v
  <1> QED BY <1>1, RedactorInvariant, PTL
=============================================================================
