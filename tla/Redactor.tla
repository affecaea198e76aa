----------------------------- MODULE Redactor -----------------------------
(***************************************************************************)
(* The streaming redactor of one attempt: text of the agent comes in       *)
(* deltas cut anywhere, and what is released must not show a secret.       *)
(*                                                                         *)
(*   src/src/runtime/redactor.ts   DeltaRedactor                           *)
(*   src/src/decisions/jev.ts      redactText                              *)
(*                                                                         *)
(* Text is a sequence of units: a delimiter, a piece of ordinary text, the *)
(* pieces of the markers that announce a secret, and the pieces of one     *)
(* secret known exactly.  A unit stands for Chars[u] characters; a cut     *)
(* falls between units.                                                    *)
(*                                                                         *)
(* A definition whose comment describes a defect is a faulty variant of    *)
(* the one below it, used to confirm that a property can fail.             *)
(***************************************************************************)
EXTENDS Integers, Sequences, SequencesExt

CONSTANTS
  Units,      \* the units text is made of
  Delimiters, \* units that end with a character that cannot be in a token
  Markers,    \* prefixes and markers, each the sequence of its two pieces
  Exact,      \* the pieces of the secret known exactly
  Chars,      \* characters of a unit
  Shaped(_, _), \* does position i of a text lie in a match of a pattern of redactText?
  MaxHold,    \* MAX_HOLD
  MaxText,    \* bound: units of the text
  MaxDelta    \* bound: units of a delta

VARIABLES
  pending,  \* the carry
  dropping, \* an overlong run is being swallowed
  flushed,  \* the stream has ended
  said,     \* history: all the text that came in
  shown     \* history: all the text released

redactorVars == <<pending, dropping, flushed, said, shown>>

Redacted == "[REDACTED]"

RedactorInit ==
  /\ pending = <<>> /\ dropping = FALSE /\ flushed = FALSE
  /\ said = <<>> /\ shown = <<>>

-----------------------------------------------------------------------------
Token(u) == u \notin Delimiters

\* Characters of a text.
Size(s) ==
  LET upto[n \in 0..Len(s)] == IF n = 0 THEN 0 ELSE upto[n - 1] + Chars[s[n]]
  IN  upto[Len(s)]

\* A marker begins a token: nothing of a token stands before it.
AtBoundary(s, i) == i = 1 \/ ~ Token(s[i - 1])

\* First position from i on that is not in a token.
RunEnd(s, i) == CHOOSE j \in i..(Len(s) + 1) :
                  /\ j = Len(s) + 1 \/ ~ Token(s[j])
                  /\ \A k \in i..(j - 1) : Token(s[k])

From(s, i) == SubSeq(s, i, Len(s))
Upto(s, i) == SubSeq(s, 1, i - 1)

\* Is p a sequence that stands at position i of s?
At(s, i, p) == i + Len(p) - 1 <= Len(s) /\ SubSeq(s, i, i + Len(p) - 1) = p

\* Nothing of a text can be taken for the replacement.
ASSUME RedactorAssumption ==
  /\ Delimiters \subseteq Units /\ Redacted \notin Units
  /\ Exact \in Seq(Units) /\ Exact # <<>>
  /\ \A m \in Markers : m \in Seq(Units) /\ Len(m) = 2
  /\ Chars \in [Units -> Nat] /\ MaxHold \in Nat /\ MaxDelta \in Nat

\* Where a region lies, whether its end is still to come, and the order in which
\* regions that start together are considered.
Region(start, end, open, rank) ==
  [start |-> start, end |-> end, open |-> open, rank |-> rank]

\* A complete marker and the token run behind it, open while nothing ends the run.
MarkerRegions(s) ==
  { Region(i, RunEnd(s, i + 2), RunEnd(s, i + 2) = Len(s) + 1, 1) :
      i \in {i \in DOMAIN s : AtBoundary(s, i) /\ \E m \in Markers : At(s, i, m)} }

ExactRegions(s) ==
  { Region(i, i + Len(Exact), FALSE, 2) : i \in {i \in DOMAIN s : At(s, i, Exact)} }

\* Partial secrets are not held back.
ExactTailsNone(s) == {}

\* A tail of at least four characters with which the exact secret begins.
ExactTails(s) ==
  LET begins(i) == IsStrictPrefix(From(s, i), Exact) /\ Size(From(s, i)) >= 4
  IN  { Region(i, Len(s) + 1, TRUE, 3) : i \in {i \in DOMAIN s : begins(i)} }

\* A tail with which a marker may begin.
MarkerTails(s) ==
  LET begins(i) == \E m \in Markers : IsStrictPrefix(From(s, i), m)
  IN  { Region(i, Len(s) + 1, TRUE, 4) : i \in {i \in DOMAIN s : AtBoundary(s, i) /\ begins(i)} }

RegionsOf(s) == MarkerRegions(s) \cup ExactRegions(s) \cup ExactTails(s) \cup MarkerTails(s)

\* earliestRegion
Earliest(s) ==
  CHOOSE r \in RegionsOf(s) : \A q \in RegionsOf(s) :
    r.start < q.start \/ (r.start = q.start /\ r.rank <= q.rank)

\* redactText: what a pattern matches within the text it is given is replaced, here unit
\* by unit.  What the patterns are does not matter to the redactor.
RedactText(s) == [i \in DOMAIN s |-> IF Shaped(s, i) THEN Redacted ELSE s[i]]

\* redactFinal, applied to each piece that is released by itself.
RedactFinal(s) == ReplaceAllSubSeqs(<<Redacted>>, Exact, RedactText(s))

\* The text is released up to its last unit.
HeldRunNone(s) == Len(s) + 1

\* Where the last token run of s begins: it may be a secret in the making.
HeldRun(s) == CHOOSE j \in 1..(Len(s) + 1) :
                /\ j = 1 \/ ~ Token(s[j - 1])
                /\ \A k \in j..Len(s) : Token(s[k])

\* State of the redactor after a call, and what the call returns.
After(out, carry, drop) == [out |-> out, pending |-> carry, dropping |-> drop]

\* The carry of an open region or run, unless it is overlong.
Carry(out, carry) ==
  IF Size(carry) > MaxHold THEN After(out \o <<Redacted>>, <<>>, TRUE)
  ELSE After(out, carry, FALSE)

\* An iteration of the loop of feed: what it makes of s from i on, when rest[j] is what
\* the loop makes of s from j on.
FeedFrom(s, i, rest) ==
  LET t == From(s, i)
      r == Earliest(t)
      before == RedactFinal(Upto(t, r.start))
  IN  IF RegionsOf(t) = {} THEN Carry(RedactFinal(Upto(t, HeldRun(t))), From(t, HeldRun(t)))
      ELSE IF r.open THEN Carry(before, From(t, r.start))
      ELSE [rest[i + r.end - 1] EXCEPT !.out = before \o <<Redacted>> \o @]

\* The loop of feed on text that is not being dropped.
Feed(s) == LET loop[i \in 1..(Len(s) + 1)] == FeedFrom(s, i, loop) IN loop[1]

\* A region that may still be ordinary text at the end of the stream.
Unconfirmed(r) == r.open /\ r.rank > 2

\* An iteration of the loop of flush, likewise.
FlushFrom(s, i, rest) ==
  LET t == From(s, i)
      r == Earliest(t)
      before == RedactFinal(Upto(t, r.start))
  IN  IF RegionsOf(t) = {} THEN RedactFinal(t)
      ELSE IF Unconfirmed(r) THEN before \o RedactFinal(From(t, r.start))
      ELSE IF r.open THEN before \o <<Redacted>>
      ELSE before \o <<Redacted>> \o rest[i + r.end - 1]

\* The loop of flush.
Flush(s) == LET loop[i \in 1..(Len(s) + 1)] == FlushFrom(s, i, loop) IN loop[1]

\* The rest of a text after the run being dropped.
Undropped(s) == From(s, RunEnd(s, 1))

-----------------------------------------------------------------------------
Delta(d) ==
  /\ ~ flushed
  /\ Len(said) + Len(d) <= MaxText
  /\ LET rest  == IF dropping THEN Undropped(pending \o d) ELSE pending \o d
         after == IF dropping /\ rest = <<>> THEN After(<<>>, <<>>, TRUE) ELSE Feed(rest)
     IN  /\ pending' = after.pending
         /\ dropping' = after.dropping
         /\ shown' = shown \o after.out
  /\ said' = said \o d
  /\ UNCHANGED flushed

End ==
  /\ ~ flushed
  /\ flushed' = TRUE
  /\ shown' = shown \o Flush(IF dropping THEN Undropped(pending) ELSE pending)
  /\ pending' = <<>> /\ dropping' = FALSE
  /\ UNCHANGED said

RedactorNext ==
  \/ \E n \in 1..MaxDelta : \E d \in [1..n -> Units] : Delta(d)
  \/ End

RedactorSpec == RedactorInit /\ [][RedactorNext]_redactorVars

-----------------------------------------------------------------------------
(* Properties. *)

\* The carry is bounded, and empty while a run is dropped or once the stream
\* has ended; what is released is made of units and redactions.
RedactorTypeOK ==
  /\ pending \in Seq(Units) /\ Size(pending) <= MaxHold
  /\ dropping \in BOOLEAN /\ flushed \in BOOLEAN
  /\ dropping \/ flushed => pending = <<>>
  /\ said \in Seq(Units)
  /\ shown \in Seq(Units \cup {Redacted})

\* Wherever the deltas are cut, the released text put together again never holds
\* the exact secret, nor a complete marker at the beginning of a token: what follows a
\* marker is a secret.
NoSecretShown ==
  \A i \in DOMAIN shown :
    /\ ~ At(shown, i, Exact)
    /\ AtBoundary(shown, i) => \A m \in Markers : ~ At(shown, i, m)

\* The secrets of which this can be said; the code takes any of six characters or more.
\* What begins like the exact secret is held back from four characters on: with a
\* delimiter among the first three, the piece before it goes out, and the secret comes
\* out in two.  And a marker within it is not looked for when a beginning of the secret
\* is let go at the end of the stream.
Keepable ==
  /\ \A n \in 1..(Len(Exact) - 1) :
       Exact[n] \in Delimiters => Size(SubSeq(Exact, 1, n)) >= 4
  /\ \A i \in 2..Len(Exact), m \in Markers : AtBoundary(Exact, i) => ~ At(Exact, i, m)

\* How the redactor treats a text that arrives in one piece.
InOnePiece(s) == LET a == Feed(s) IN a.out \o Flush(a.pending)

\* No token run of s outgrows the carry.
FitsCarry(s) ==
  \A i, j \in DOMAIN s : i <= j /\ (\A k \in i..j : Token(s[k])) =>
    Size(SubSeq(s, i, j)) <= MaxHold

\* The carry has room for every beginning of a secret, and the exact secret does not
\* begin like a marker.  A marker is looked for at the beginning of a token, the exact
\* secret anywhere; a tail held back for the exact secret is looked at again without the
\* token before it, and would then pass for a marker: whether that is redacted would
\* depend on a cut.
SecretsApart ==
  /\ Keepable
  /\ \A m \in Markers : m[1] # Exact[1]
  /\ \A p \in Markers \cup {Exact} : \A n \in 1..(Len(p) - 1) : Size(SubSeq(p, 1, n)) <= MaxHold

\* The same text, but for units that one of the two has replaced.
SameText(a, b) == /\ Len(a) = Len(b)
                  /\ \A i \in 1..Len(a) : a[i] = b[i] \/ Redacted \in {a[i], b[i]}

\* As long as no token run outgrows the carry, the text a reader gets in the end is,
\* wherever the deltas were cut, the text it gets in one piece: nothing of it is lost,
\* shown twice or out of order, and no region is replaced in one and shown in the other.
\* Only what redactText replaces within a release depends on what is released together.
TextKept == flushed /\ FitsCarry(said) => SameText(shown, InOnePiece(said))
=============================================================================
