-------------------------- MODULE EventStreamProofs --------------------------
(***************************************************************************)
(* What a reader of an event stream sees, for any readers, page size,      *)
(* socket buffer, and number of rows, attempts, lost connections and       *)
(* restarts.                                                               *)
(*                                                                         *)
(* What a reader has, what is on the socket and what is left of the page   *)
(* are three adjacent runs of consecutive sequences, the first one from    *)
(* where the reader asked to start, the cursor is the end of the second:   *)
(* Aligned.  From it also how far a stream is behind, and that it is never *)
(* stuck there: Behind.                                                    *)
(***************************************************************************)
EXTENDS EventStream, SequenceTheorems, TLAPS

StreamSpec == StreamInit /\ [][StreamNext]_streamVars

\* n consecutive rows from sequence a on.
Rows(a, n) == [i \in 1 .. n |-> a + i - 1]

Streaming == {"open", "ending"}

StreamShape ==
  /\ rows \in Nat /\ told \in Nat /\ status \in {"open", "terminal", "needs_recovery"}
  /\ conn \in [Readers -> {"away", "open", "ending", "over", "refused"}]
  /\ cursor \in [Readers -> Int]
  /\ from \in [Readers -> Nat]
  /\ page \in [Readers -> Seq(Int)]
  /\ socket \in [Readers -> Seq(Int)]
  /\ seen \in [Readers -> Seq(Int)]
  /\ told <= rows /\ cut \subseteq Readers /\ closing \in BOOLEAN

\* Reader r received the rows it asked for up to s, k are on the socket, p in the page.
AlignedAs(r, s, k, p) ==
  /\ from[r] <= s /\ seen[r] = Rows(from[r], s - from[r])
  /\ socket[r] = Rows(s, k) /\ page[r] = Rows(s + k, p)
  /\ s + k + p <= rows \/ (s = from[r] /\ k = 0 /\ p = 0)
  /\ conn[r] \in Streaming => cursor[r] = s + k - 1
  /\ conn[r] \notin Streaming => k = 0 /\ p = 0
  /\ conn[r] \in {"ending", "over"} =>
       p = 0 /\ (r \in cut \/ (status # "open" /\ s + k >= told))

Aligned == \A r \in Readers : \E s, k, p \in Nat : AlignedAs(r, s, k, p)

\* What the code keeps in memory for a stream, and the states of a run: the bounds of the
\* type invariant, which need the rows to be aligned.
StreamBounds ==
  /\ runState \in {"idle", "launching", "running", "ended", "gone"}
  /\ \A r \in Readers : /\ cursor[r] \in -1 .. (rows - 1) \/ cursor[r] = from[r] - 1
                        /\ Len(page[r]) < PageSize /\ Len(socket[r]) <= Buffer

-----------------------------------------------------------------------------
LEMMA RowsSeq ==
  ASSUME NEW a \in Nat, NEW n \in Nat
  PROVE  /\ Rows(a, n) \in Seq(Int) /\ Len(Rows(a, n)) = n
         /\ n = 0 <=> Rows(a, n) = <<>>
         /\ Append(Rows(a, n), a + n) = Rows(a, n + 1)
         /\ n # 0 => /\ Head(Rows(a, n)) = a
                     /\ Tail(Rows(a, n)) = Rows(a + 1, n - 1)
                     /\ Rows(a, n)[n] = a + n - 1
<1>1. Rows(a, n) \in Seq(Int) /\ Len(Rows(a, n)) = n
  BY IsASeq DEF Rows
<1>2. n = 0 <=> Rows(a, n) = <<>>
  BY <1>1, EmptySeq
<1>3. Append(Rows(a, n), a + n) = Rows(a, n + 1)
  BY <1>1, AppendProperties DEF Rows
<1>4. ASSUME n # 0
      PROVE  Tail(Rows(a, n)) = Rows(a + 1, n - 1)
  BY <1>1, <1>4, HeadTailProperties DEF Rows
<1>5. n # 0 => Head(Rows(a, n)) = a /\ Rows(a, n)[n] = a + n - 1
  BY <1>1 DEF Rows
<1>6. QED
  BY <1>1, <1>2, <1>3, <1>4, <1>5

\* A page is a run of rows that exist; an empty one means that there are no more.
LEMMA PageRows ==
  ASSUME rows \in Nat, NEW a \in Nat
  PROVE  \E n \in Nat : /\ PageFrom(a) = Rows(a, n) /\ n <= PageSize
                        /\ n # 0 => a + n <= rows
                        /\ n = 0 => rows <= a
<1>1. CASE rows - a < PageSize
  <2>1. PageFrom(a) = [i \in 1 .. (rows - a) |-> a + i - 1]
    BY <1>1 DEF PageFrom
  <2>2. CASE rows - a \in Nat
    <3>1. PageFrom(a) = Rows(a, rows - a)
      BY <2>1 DEF Rows
    <3>2. rows - a <= PageSize /\ a + (rows - a) = rows /\ (rows - a = 0 => rows <= a)
      BY <1>1, <2>2, StreamAssumption DEF StreamAssumption
    <3>3. QED
      BY <2>2, <3>1, <3>2
  <2>3. CASE rows - a < 0
    <3>1. 1 .. (rows - a) = 1 .. 0
      BY <2>3
    <3>2. PageFrom(a) = Rows(a, 0)
      BY <2>1, <3>1 DEF Rows
    <3>3. QED
      BY <2>3, <3>2, StreamAssumption DEF StreamAssumption
  <2>4. QED
    BY <2>2, <2>3
<1>2. CASE ~(rows - a < PageSize)
  <2>1. PageFrom(a) = Rows(a, PageSize)
    BY <1>2 DEF PageFrom, Rows
  <2>2. QED
    BY <1>2, <2>1, StreamAssumption DEF StreamAssumption
<1>3. QED
  BY <1>1, <1>2

\* Readers a step does not serve stay aligned while rows are only added.
LEMMA AlignedKept ==
  ASSUME StreamShape, NEW r \in Readers, NEW s \in Nat, NEW k \in Nat, NEW p \in Nat,
         AlignedAs(r, s, k, p),
         rows' \in Nat, rows' >= rows, status # "open" => status' = status /\ told' = told,
         conn'[r] = conn[r], cursor'[r] = cursor[r], page'[r] = page[r],
         socket'[r] = socket[r], seen'[r] = seen[r], from'[r] = from[r],
         r \in cut' <=> r \in cut
  PROVE  AlignedAs(r, s, k, p)'
BY DEF StreamShape, AlignedAs

LEMMA ServedStep ==
  ASSUME StreamShape, Aligned, NEW q \in Readers,
         UNCHANGED writerVars,
         \A r \in Readers : r # q =>
           /\ conn'[r] = conn[r] /\ cursor'[r] = cursor[r] /\ page'[r] = page[r]
           /\ socket'[r] = socket[r] /\ seen'[r] = seen[r] /\ from'[r] = from[r]
           /\ r \in cut' <=> r \in cut,
         \E s, k, p \in Nat : AlignedAs(q, s, k, p)'
  PROVE  Aligned'
<1> SUFFICES ASSUME NEW r \in Readers, r # q
             PROVE  \E s, k, p \in Nat : AlignedAs(r, s, k, p)'
  BY DEF Aligned
<1>1. PICK s \in Nat, k \in Nat, p \in Nat : AlignedAs(r, s, k, p)
  BY DEF Aligned
<1>2. AlignedAs(r, s, k, p)'
  BY <1>1, AlignedKept DEF StreamShape, writerVars
<1>3. QED
  BY <1>2

-----------------------------------------------------------------------------
LEMMA WriterSteps ==
  ASSUME StreamShape, Aligned,
         rows' \in Nat, rows' >= rows, status # "open" => status' = status /\ told' = told,
         UNCHANGED readerVars
  PROVE  Aligned'
<1> SUFFICES ASSUME NEW r \in Readers PROVE \E s, k, p \in Nat : AlignedAs(r, s, k, p)'
  BY DEF Aligned
<1>1. PICK s \in Nat, k \in Nat, p \in Nat : AlignedAs(r, s, k, p)
  BY DEF Aligned
<1>2. AlignedAs(r, s, k, p)'
  BY <1>1, AlignedKept DEF readerVars
<1>3. QED
  BY <1>2

\* What the pump writes next continues what it wrote.
LEMMA NextToWrite ==
  ASSUME StreamShape, NEW r \in Readers, NEW s \in Nat, NEW k \in Nat, NEW p \in Nat,
         AlignedAs(r, s, k, p), conn[r] = "open"
  PROVE  \E n \in Nat : /\ ToWrite(r) = Rows(s + k, n)
                        /\ n # 0 => s + k + n <= rows
                        /\ n = 0 => p = 0 /\ rows <= s + k
<1>1. s + k \in Nat /\ cursor[r] + 1 = s + k /\ page[r] = Rows(s + k, p)
  BY DEF AlignedAs, Streaming, StreamShape
<1>2. p = 0 <=> page[r] = <<>>
  <2>1. p = 0 <=> Rows(s + k, p) = <<>>
    BY <1>1, RowsSeq
  <2>2. QED
    BY <1>1, <2>1
<1>3. CASE p = 0
  <2>1. ToWrite(r) = PageFrom(s + k)
    BY <1>1, <1>3, <1>2 DEF ToWrite, NextPage
  <2>2. PICK n \in Nat : /\ PageFrom(s + k) = Rows(s + k, n)
                         /\ n # 0 => s + k + n <= rows
                         /\ n = 0 => rows <= s + k
    BY <1>1, PageRows DEF StreamShape
  <2>3. QED
    BY <1>3, <2>1, <2>2
<1>4. CASE p # 0
  <2>1. ToWrite(r) = Rows(s + k, p)
    BY <1>1, <1>4, <1>2 DEF ToWrite
  <2>2. QED
    BY <1>4, <2>1 DEF AlignedAs
<1>5. QED
  BY <1>3, <1>4

LEMMA WriteStep ==
  ASSUME StreamShape, Aligned, NEW q \in Readers, PumpWrites(q) \/ PumpEnds(q)
  PROVE  StreamShape' /\ Aligned'
<1>1. PICK s \in Nat, k \in Nat, p \in Nat : AlignedAs(q, s, k, p)
  BY DEF Aligned
<1>2. conn[q] = "open" /\ UNCHANGED <<writerVars, daemonVars, seen, from, cut>>
  BY DEF PumpWrites, PumpEnds
<1>3. PICK n \in Nat : /\ ToWrite(q) = Rows(s + k, n)
                       /\ n # 0 => s + k + n <= rows
                       /\ n = 0 => p = 0 /\ rows <= s + k
  BY <1>1, <1>2, NextToWrite
<1>4. s + k \in Nat
  OBVIOUS
<1>5. CASE PumpWrites(q)
  <2>1. n # 0
    BY <1>3, <1>4, <1>5, RowsSeq DEF PumpWrites
  <2>2. /\ Head(ToWrite(q)) = s + k /\ Tail(ToWrite(q)) = Rows(s + k + 1, n - 1)
        /\ Append(socket[q], s + k) = Rows(s, k + 1)
    <3>1. socket[q] = Rows(s, k)
      BY <1>1 DEF AlignedAs
    <3>2. Append(Rows(s, k), s + k) = Rows(s, k + 1)
      BY RowsSeq
    <3>3. /\ Head(Rows(s + k, n)) = s + k
          /\ Tail(Rows(s + k, n)) = Rows(s + k + 1, n - 1)
      BY <1>4, <2>1, RowsSeq
    <3>4. QED
      BY <1>3, <3>1, <3>2, <3>3
  <2>3. /\ socket' = [socket EXCEPT ![q] = Rows(s, k + 1)]
        /\ cursor' = [cursor EXCEPT ![q] = s + k]
        /\ page' = [page EXCEPT ![q] = Rows(s + k + 1, n - 1)]
        /\ conn' = conn
    BY <1>5, <2>2 DEF PumpWrites
  <2>4. n - 1 \in Nat /\ k + 1 \in Nat /\ s + k + 1 \in Nat
    BY <2>1
  <2>5. StreamShape'
    <3>1. Rows(s, k + 1) \in Seq(Int) /\ Rows(s + k + 1, n - 1) \in Seq(Int)
      BY <2>4, RowsSeq
    <3>2. QED
      BY <1>2, <2>3, <3>1 DEF StreamShape, writerVars, daemonVars
  <2>6. AlignedAs(q, s, k + 1, n - 1)'
    <3>1. /\ from'[q] <= s /\ seen'[q] = Rows(from'[q], s - from'[q])
          /\ socket'[q] = Rows(s, k + 1)
          /\ page'[q] = Rows(s + (k + 1), n - 1) /\ cursor'[q] = s + (k + 1) - 1
          /\ conn'[q] = "open"
      BY <1>1, <1>2, <2>3 DEF StreamShape, AlignedAs
    <3>2. s + (k + 1) + (n - 1) <= rows'
      BY <1>2, <1>3, <2>1 DEF writerVars, StreamShape
    <3>3. QED
      BY <3>1, <3>2 DEF AlignedAs, Streaming
  <2>7. \A r \in Readers : r # q =>
          /\ conn'[r] = conn[r] /\ cursor'[r] = cursor[r] /\ page'[r] = page[r]
          /\ socket'[r] = socket[r] /\ seen'[r] = seen[r] /\ from'[r] = from[r]
          /\ r \in cut' <=> r \in cut
    BY <1>2, <2>3 DEF StreamShape
  <2>8. QED
    BY <1>2, <2>4, <2>5, <2>6, <2>7, ServedStep
<1>6. CASE PumpEnds(q)
  <2>1. n = 0 /\ status # "open"
    BY <1>3, <1>4, <1>6, RowsSeq DEF PumpEnds, StreamOver
  <2>2. conn' = [conn EXCEPT ![q] = "ending"] /\ UNCHANGED <<cursor, page, socket>>
    BY <1>6 DEF PumpEnds
  <2>3. StreamShape'
    BY <1>2, <2>2 DEF StreamShape, writerVars, daemonVars
  <2>4. AlignedAs(q, s, k, p)'
    BY <1>1, <1>2, <1>3, <2>1, <2>2 DEF AlignedAs, Streaming, StreamShape, writerVars
  <2>5. \A r \in Readers : r # q =>
          /\ conn'[r] = conn[r] /\ cursor'[r] = cursor[r] /\ page'[r] = page[r]
          /\ socket'[r] = socket[r] /\ seen'[r] = seen[r] /\ from'[r] = from[r]
          /\ r \in cut' <=> r \in cut
    BY <1>2, <2>2 DEF StreamShape
  <2>6. QED
    BY <1>2, <2>3, <2>4, <2>5, ServedStep
<1>7. QED
  BY <1>5, <1>6

LEMMA ReadStep ==
  ASSUME StreamShape, Aligned, NEW q \in Readers, Receive(q) \/ ReadEnd(q)
  PROVE  StreamShape' /\ Aligned'
<1>1. PICK s \in Nat, k \in Nat, p \in Nat : AlignedAs(q, s, k, p)
  BY DEF Aligned
<1>2. UNCHANGED <<writerVars, daemonVars, cursor, from, page, cut>>
  BY DEF Receive, ReadEnd
<1> DEFINE b == from[q]
           m == s - b
<1>a. b \in Nat /\ m \in Nat /\ seen[q] = Rows(b, m) /\ b + m = s /\ m + 1 = s + 1 - b
  <2>1. from[q] \in Nat /\ from[q] <= s /\ seen[q] = Rows(from[q], s - from[q])
    BY <1>1 DEF AlignedAs, StreamShape
  <2>2. b \in Nat /\ m \in Nat /\ b + m = s /\ m + 1 = s + 1 - b
    BY <2>1
  <2>3. seen[q] = Rows(b, m)
    BY <2>1, Zenon
  <2>4. QED
    BY <2>2, <2>3
<1>b. b = from[q] /\ from'[q] = b
  BY <1>2
<1> HIDE DEF b, m
<1>3. CASE Receive(q)
  <2>1. socket[q] = Rows(s, k) /\ k # 0 /\ conn[q] \in Streaming
    BY <1>1, <1>3, RowsSeq DEF Receive, AlignedAs
  <2>2. /\ Head(socket[q]) = s /\ Tail(socket[q]) = Rows(s + 1, k - 1)
        /\ Append(seen[q], s) = Rows(b, m + 1)
    <3>1. Append(Rows(b, m), b + m) = Rows(b, m + 1)
      BY <1>a, RowsSeq
    <3>2. Head(Rows(s, k)) = s /\ Tail(Rows(s, k)) = Rows(s + 1, k - 1)
      BY <2>1, RowsSeq
    <3>3. QED
      BY <1>a, <2>1, <3>1, <3>2
  <2>3. /\ seen' = [seen EXCEPT ![q] = Rows(b, m + 1)]
        /\ socket' = [socket EXCEPT ![q] = Rows(s + 1, k - 1)]
        /\ conn' = conn
    BY <1>3, <2>2 DEF Receive
  <2>4. s + 1 \in Nat /\ k - 1 \in Nat
    BY <2>1
  <2>5. StreamShape'
    <3>1. b \in Nat /\ m + 1 \in Nat
      BY <1>a
    <3>2. Rows(b, m + 1) \in Seq(Int) /\ Rows(s + 1, k - 1) \in Seq(Int)
      BY <2>4, <3>1, RowsSeq
    <3>3. QED
      BY <1>2, <2>3, <3>2 DEF StreamShape, writerVars, daemonVars
  <2>6. AlignedAs(q, s + 1, k - 1, p)'
    <3>1. (s + 1) + (k - 1) = s + k
      OBVIOUS
    <3>2. seen'[q] = Rows(from'[q], s + 1 - from'[q]) /\ socket'[q] = Rows(s + 1, k - 1)
      BY <1>a, <1>b, <2>3 DEF StreamShape
    <3>3. QED
      BY <1>1, <1>2, <2>1, <2>3, <3>1, <3>2 DEF AlignedAs, writerVars, StreamShape
  <2>7. \A r \in Readers : r # q =>
          /\ conn'[r] = conn[r] /\ cursor'[r] = cursor[r] /\ page'[r] = page[r]
          /\ socket'[r] = socket[r] /\ seen'[r] = seen[r] /\ from'[r] = from[r]
          /\ r \in cut' <=> r \in cut
    BY <1>2, <2>3 DEF StreamShape
  <2>8. QED
    BY <1>2, <2>4, <2>5, <2>6, <2>7, ServedStep
<1>4. CASE ReadEnd(q)
  <2>1. k = 0 /\ conn[q] = "ending"
    <3>1. Rows(s, k) = <<>> /\ conn[q] = "ending"
      BY <1>1, <1>4 DEF ReadEnd, AlignedAs
    <3>2. QED
      BY <3>1, RowsSeq
  <2>2. conn' = [conn EXCEPT ![q] = "over"] /\ UNCHANGED <<socket, seen>>
    BY <1>4 DEF ReadEnd
  <2>3. StreamShape'
    BY <1>2, <2>2 DEF StreamShape, writerVars, daemonVars
  <2>4. AlignedAs(q, s, k, p)'
    BY <1>1, <1>2, <2>1, <2>2 DEF AlignedAs, Streaming, StreamShape, writerVars
  <2>5. \A r \in Readers : r # q =>
          /\ conn'[r] = conn[r] /\ cursor'[r] = cursor[r] /\ page'[r] = page[r]
          /\ socket'[r] = socket[r] /\ seen'[r] = seen[r] /\ from'[r] = from[r]
          /\ r \in cut' <=> r \in cut
    BY <1>2, <2>2 DEF StreamShape
  <2>6. QED
    BY <1>2, <2>3, <2>4, <2>5, ServedStep
<1>5. QED
  BY <1>3, <1>4

\* A connection starts over, or after the last row the reader received.
LEMMA OpenStep ==
  ASSUME StreamShape, Aligned, NEW q \in Readers, OpenStream(q)
  PROVE  StreamShape' /\ Aligned'
<1>1. PICK s \in Nat, k \in Nat, p \in Nat : AlignedAs(q, s, k, p)
  BY DEF Aligned
<1>2. UNCHANGED <<writerVars, daemonVars, page, socket>> /\ cut' = cut \ {q}
  BY DEF OpenStream
<1>3. conn[q] \notin Streaming /\ k = 0 /\ p = 0
  BY <1>1 DEF OpenStream, Connected, Streaming, AlignedAs
<1>4. PICK id \in LastEventIds :
        /\ id[1] = "seen" => seen[q] # <<>>
        /\ IF ResumeAfter(q, id) = Refused
           THEN conn' = [conn EXCEPT ![q] = "refused"] /\ UNCHANGED <<cursor, from, seen>>
           ELSE /\ conn' = [conn EXCEPT ![q] = "open"]
                /\ cursor' = [cursor EXCEPT ![q] = ResumeAfter(q, id)]
                /\ IF id[1] = "seen" THEN UNCHANGED <<from, seen>>
                   ELSE /\ from' = [from EXCEPT ![q] = ResumeAfter(q, id) + 1]
                        /\ seen' = [seen EXCEPT ![q] = <<>>]
  BY DEF OpenStream
<1>5. \A r \in Readers : r # q =>
        /\ conn'[r] = conn[r] /\ cursor'[r] = cursor[r] /\ page'[r] = page[r]
        /\ socket'[r] = socket[r] /\ seen'[r] = seen[r] /\ from'[r] = from[r]
        /\ r \in cut' <=> r \in cut
  <2>1. \A r \in Readers : r # q =>
          /\ conn'[r] = conn[r] /\ cursor'[r] = cursor[r]
          /\ seen'[r] = seen[r] /\ from'[r] = from[r]
    BY <1>4 DEF StreamShape
  <2>2. QED
    BY <1>2, <2>1
<1>6. \A a \in Nat : Rows(a, 0) = <<>>
  BY RowsSeq
<1>7. ASSUME NEW a \in Nat, conn' = [conn EXCEPT ![q] = "open"],
             cursor' = [cursor EXCEPT ![q] = a - 1], from' = [from EXCEPT ![q] = a],
             seen' = [seen EXCEPT ![q] = <<>>]
      PROVE  StreamShape' /\ Aligned'
  <2>1. StreamShape'
    BY <1>2, <1>7 DEF StreamShape, writerVars, daemonVars
  <2>2. AlignedAs(q, a, 0, 0)'
    <3>1. /\ from'[q] = a /\ seen'[q] = <<>> /\ conn'[q] = "open" /\ cursor'[q] = a - 1
          /\ socket'[q] = <<>> /\ page'[q] = <<>>
      BY <1>1, <1>2, <1>3, <1>6, <1>7 DEF StreamShape, AlignedAs
    <3>2. Rows(a, 0) = <<>> /\ a - a = 0 /\ a + 0 = a
      BY <1>6
    <3>3. QED
      BY <3>1, <3>2 DEF AlignedAs, Streaming
  <2>3. QED
    BY <1>2, <1>5, <2>1, <2>2, ServedStep
<1>8. CASE id[1] = "none"
  <2>1. ResumeAfter(q, id) = 0 - 1
    BY <1>8 DEF ResumeAfter
  <2>2. QED
    BY <1>4, <1>7, <1>8, <2>1 DEF Refused
<1>9. CASE id[1] = "number"
  <2>1. ResumeAfter(q, id) = id[2] /\ id[2] \in Nat
    BY <1>9, StreamAssumption DEF ResumeAfter, LastEventIds, StreamAssumption
  <2>2. id[2] + 1 \in Nat /\ (id[2] + 1) - 1 = id[2]
    BY <2>1
  <2>3. QED
    BY <1>4, <1>7, <1>9, <2>1, <2>2 DEF Refused
<1>10. CASE id[1] = "seen"
  <2>1. s \in Nat /\ s # 0 /\ Last(seen[q]) = s - 1
    <3>1. from[q] \in Nat /\ s - from[q] \in Nat /\ seen[q] = Rows(from[q], s - from[q])
      BY <1>1 DEF AlignedAs, StreamShape
    <3>2. s - from[q] # 0
      BY <1>4, <1>10, <3>1, RowsSeq
    <3>3. /\ Len(seen[q]) = s - from[q]
          /\ seen[q][s - from[q]] = from[q] + (s - from[q]) - 1
      <4> DEFINE b == from[q]
                 m == s - b
      <4>1. b \in Nat /\ m \in Nat /\ m # 0 /\ seen[q] = Rows(b, m)
        BY <3>1, <3>2
      <4> HIDE DEF b, m
      <4>2. Len(seen[q]) = m /\ seen[q][m] = b + m - 1
        BY <4>1, RowsSeq
      <4>3. QED
        BY <4>2 DEF b, m
    <3>4. from[q] + (s - from[q]) - 1 = s - 1 /\ s # 0
      BY <3>1, <3>2
    <3>5. QED
      BY <3>3, <3>4 DEF Last
  <2>2. /\ conn' = [conn EXCEPT ![q] = "open"] /\ cursor' = [cursor EXCEPT ![q] = s - 1]
        /\ seen' = seen /\ from' = from
    <3>1. ResumeAfter(q, id) = s - 1 /\ s - 1 # Refused
      BY <1>10, <2>1 DEF ResumeAfter, Refused
    <3>2. QED
      BY <1>4, <1>10, <3>1 DEF StreamShape
  <2>3. StreamShape'
    BY <1>2, <2>2 DEF StreamShape, writerVars, daemonVars
  <2>4. AlignedAs(q, s, 0, 0)'
    BY <1>1, <1>2, <1>3, <2>2 DEF AlignedAs, Streaming, StreamShape, writerVars
  <2>5. QED
    BY <1>2, <1>5, <2>3, <2>4, ServedStep
<1>11. CASE id[1] = "unknown"
  <2>1. conn' = [conn EXCEPT ![q] = "refused"] /\ UNCHANGED <<cursor, from, seen>>
    BY <1>4, <1>11 DEF ResumeAfter, Refused
  <2>2. StreamShape'
    BY <1>2, <2>1 DEF StreamShape, writerVars, daemonVars
  <2>3. AlignedAs(q, s, 0, 0)'
    BY <1>1, <1>2, <1>3, <2>1 DEF AlignedAs, Streaming, StreamShape, writerVars
  <2>4. QED
    BY <1>2, <1>5, <2>2, <2>3, ServedStep
<1>12. QED
  BY <1>8, <1>9, <1>10, <1>11 DEF LastEventIds

\* What was on its way to the readers that are cut off is gone, what they have stays.
LEMMA DropStep ==
  ASSUME StreamShape, Aligned, NEW rs \in SUBSET Readers, Dropped(rs), UNCHANGED writerVars,
         rs \subseteq Connected, closing' \in BOOLEAN
  PROVE  StreamShape' /\ Aligned'
<1>1. StreamShape'
  BY DEF StreamShape, Dropped, writerVars
<1>2. ASSUME NEW r \in Readers PROVE \E s, k, p \in Nat : AlignedAs(r, s, k, p)'
  <2>1. PICK s \in Nat, k \in Nat, p \in Nat : AlignedAs(r, s, k, p)
    BY DEF Aligned
  <2>2. CASE r \in rs
    <3>1. /\ conn'[r] = "away" /\ page'[r] = <<>> /\ socket'[r] = <<>>
          /\ from'[r] <= s /\ seen'[r] = Rows(from'[r], s - from'[r])
          /\ s + 0 + 0 <= rows' \/ s = from'[r]
      BY <2>1, <2>2 DEF Dropped, AlignedAs, writerVars, StreamShape
    <3>2. \A a \in Nat : Rows(a, 0) = <<>>
      BY RowsSeq
    <3>3. AlignedAs(r, s, 0, 0)'
      BY <3>1, <3>2 DEF AlignedAs, Streaming
    <3>4. QED
      BY <3>3
  <2>3. CASE r \notin rs
    <3>1. /\ conn'[r] = conn[r] /\ cursor'[r] = cursor[r] /\ page'[r] = page[r]
          /\ socket'[r] = socket[r] /\ seen'[r] = seen[r] /\ from'[r] = from[r]
          /\ r \in cut' <=> r \in cut
      BY <2>3 DEF Dropped
    <3>2. AlignedAs(r, s, k, p)'
      BY <2>1, <3>1, AlignedKept DEF StreamShape, writerVars
    <3>3. QED
      BY <3>2
  <2>4. QED
    BY <2>2, <2>3
<1>3. QED
  BY <1>1, <1>2 DEF Aligned

\* close takes from a stream what the pump still had in its page.
LEMMA CloseStep ==
  ASSUME StreamShape, Aligned, Close
  PROVE  StreamShape' /\ Aligned'
<1> DEFINE rs == {r \in Readers : conn[r] = "open"}
<1>1. /\ conn' = [r \in Readers |-> IF r \in rs THEN "ending" ELSE conn[r]]
      /\ page' = [r \in Readers |-> IF r \in rs THEN <<>> ELSE page[r]]
      /\ cut' = cut \cup rs /\ closing' = TRUE
      /\ UNCHANGED <<cursor, from, socket, seen, writerVars>>
  BY DEF Close
<1>2. StreamShape'
  BY <1>1 DEF StreamShape, writerVars
<1>3. ASSUME NEW r \in Readers PROVE \E s, k, p \in Nat : AlignedAs(r, s, k, p)'
  <2>1. PICK s \in Nat, k \in Nat, p \in Nat : AlignedAs(r, s, k, p)
    BY DEF Aligned
  <2>2. CASE r \in rs
    <3>1. conn'[r] = "ending" /\ page'[r] = <<>> /\ r \in cut' /\ conn[r] = "open"
      BY <1>1, <2>2
    <3>2. s + k \in Nat /\ Rows(s + k, 0) = <<>>
      BY RowsSeq
    <3>3. AlignedAs(r, s, k, 0)'
      BY <1>1, <2>1, <3>1, <3>2 DEF AlignedAs, Streaming, StreamShape, writerVars
    <3>4. QED
      BY <3>3
  <2>3. CASE r \notin rs
    <3>1. /\ conn'[r] = conn[r] /\ cursor'[r] = cursor[r] /\ page'[r] = page[r]
          /\ socket'[r] = socket[r] /\ seen'[r] = seen[r] /\ from'[r] = from[r]
          /\ r \in cut' <=> r \in cut
      BY <1>1, <2>3
    <3>2. AlignedAs(r, s, k, p)'
      BY <1>1, <2>1, <3>1, AlignedKept DEF StreamShape, writerVars
    <3>3. QED
      BY <3>2
  <2>4. QED
    BY <2>2, <2>3
<1>4. QED
  BY <1>2, <1>3 DEF Aligned

LEMMA StreamStepKeeps ==
  ASSUME StreamShape, Aligned, [StreamNext]_streamVars
  PROVE  StreamShape' /\ Aligned'
<1>1. ASSUME \/ LaunchAttempt \/ Launched \/ TextArrives \/ EventArrives \/ ResultArrives
             \/ RunThrows \/ AttemptStopped \/ JobSettles \/ CancelSettles
             \/ DaemonRestarts \/ UNCHANGED streamVars
      PROVE  StreamShape' /\ Aligned'
  <2>1. UNCHANGED readerVars
    BY <1>1 DEF LaunchAttempt, Launched, TextArrives, EventArrives, ResultArrives, RunThrows,
                AttemptStopped, JobSettles, CancelSettles, DaemonRestarts, streamVars
  <2>2. \/ UNCHANGED <<status, told>>
        \/ \E s \in {"terminal", "needs_recovery"} : SettledAs(s)
    BY <1>1 DEF LaunchAttempt, Launched, TextArrives, EventArrives, ResultArrives, RunThrows,
                AttemptStopped, JobSettles, CancelSettles, DaemonRestarts, streamVars, writerVars
  <2>3. rows' \in Nat /\ rows' >= rows /\ (rows' = rows \/ UNCHANGED <<status, told>>)
    BY <1>1 DEF LaunchAttempt, Launched, TextArrives, EventArrives, ResultArrives, RunThrows,
                AttemptStopped, JobSettles, CancelSettles, DaemonRestarts, streamVars, writerVars,
                EndRows, RowIf, StreamShape
  <2>4. StreamShape'
    <3>1. closing' = closing
      BY <1>1 DEF LaunchAttempt, Launched, TextArrives, EventArrives, ResultArrives, RunThrows,
                  AttemptStopped, JobSettles, CancelSettles, DaemonRestarts, streamVars, daemonVars
    <3>2. QED
      BY <2>1, <2>2, <2>3, <3>1 DEF StreamShape, SettledAs, readerVars
  <2>5. status # "open" => status' = status /\ told' = told
    BY <2>2 DEF SettledAs
  <2>6. QED
    BY <2>1, <2>3, <2>4, <2>5, WriterSteps
<1>2. CASE DaemonDies
  BY <1>2, DropStep DEF DaemonDies, Connected
<1>3. ASSUME NEW r \in Readers, ConnectionLost(r) PROVE StreamShape' /\ Aligned'
  BY <1>3, DropStep DEF ConnectionLost, daemonVars, StreamShape
<1>4. QED
  BY <1>1, <1>2, <1>3, OpenStep, WriteStep, ReadStep, CloseStep DEF StreamNext

-----------------------------------------------------------------------------
LEMMA StreamInvariant == StreamSpec => [](StreamShape /\ Aligned)
<1>1. StreamInit => StreamShape
  <2> SUFFICES ASSUME StreamInit PROVE StreamShape
    OBVIOUS
  <2>1. <<>> \in Seq(Int) /\ -1 \in Int
    OBVIOUS
  <2>2. /\ conn \in [Readers -> {"away", "open", "ending", "over", "refused"}]
        /\ cursor \in [Readers -> Int] /\ from \in [Readers -> Nat]
        /\ page \in [Readers -> Seq(Int)] /\ socket \in [Readers -> Seq(Int)]
        /\ seen \in [Readers -> Seq(Int)]
    BY <2>1 DEF StreamInit
  <2>3. /\ rows \in Nat /\ told \in Nat /\ told <= rows /\ cut \subseteq Readers
        /\ status \in {"open", "terminal", "needs_recovery"} /\ closing \in BOOLEAN
    <3>1. rows = 0 /\ told = 0 /\ cut = {} /\ status = "open" /\ closing = FALSE
      BY DEF StreamInit
    <3>2. cut \subseteq Readers /\ closing \in BOOLEAN
      BY <3>1, Zenon
    <3>3. /\ rows \in Nat /\ told \in Nat /\ told <= rows
          /\ status \in {"open", "terminal", "needs_recovery"}
      BY <3>1
    <3>4. QED
      BY <3>2, <3>3
  <2>4. QED
    BY <2>2, <2>3 DEF StreamShape
<1>2. StreamInit => Aligned
  <2> SUFFICES ASSUME StreamInit, NEW r \in Readers PROVE AlignedAs(r, 0, 0, 0)
    BY DEF Aligned
  <2>1. Rows(0, 0) = <<>>
    BY RowsSeq
  <2>2. QED
    BY <2>1 DEF StreamInit, AlignedAs, Streaming
<1>3. StreamShape /\ Aligned /\ [StreamNext]_streamVars => (StreamShape /\ Aligned)'
  BY StreamStepKeeps
<1>4. QED
  BY <1>1, <1>2, <1>3, PTL DEF StreamSpec

\* Whatever pages, socket, lost connections and shutdowns do to a stream, its reader has
\* received the rows from the one it asked for, without a gap and without a repetition.
THEOREM EveryRowOnce == StreamSpec => []NoGap
<1>1. Aligned => NoGap
  <2> SUFFICES ASSUME Aligned, NEW r \in Readers
               PROVE  seen[r] = [i \in DOMAIN seen[r] |-> from[r] + i - 1]
    BY DEF NoGap
  <2>1. PICK s \in Nat : seen[r] = [i \in 1 .. (s - from[r]) |-> from[r] + i - 1]
    BY DEF Aligned, AlignedAs, Rows
  <2>2. DOMAIN seen[r] = 1 .. (s - from[r])
    BY <2>1
  <2>3. QED
    BY <2>1, <2>2
<1>2. QED
  BY <1>1, StreamInvariant, PTL

\* The last row of a reader that received some is before the next one it has to get.
LEMMA NextRowIs ==
  ASSUME StreamShape, NEW r \in Readers, NEW s \in Nat, NEW k \in Nat, NEW p \in Nat,
         AlignedAs(r, s, k, p)
  PROVE  NextRow(r) = s /\ Len(seen[r]) \in Nat
<1>1. from[r] \in Nat /\ s - from[r] \in Nat /\ seen[r] = Rows(from[r], s - from[r])
  BY DEF AlignedAs, StreamShape
<1>2. Len(Rows(from[r], s - from[r])) = s - from[r]
  BY <1>1, RowsSeq
<1>3. QED
  BY <1>1, <1>2 DEF NextRow

\* A response that ends was shown every row there was when the job was settled, unless
\* it was ended by the shutdown of the daemon.
THEOREM EndsComplete == StreamSpec => []EndComplete
<1>1. StreamShape /\ Aligned => EndComplete
  <2> SUFFICES ASSUME StreamShape, Aligned, NEW r \in Readers, conn[r] = "over", r \notin cut
               PROVE  status # "open" /\ NextRow(r) >= told
    BY DEF EndComplete
  <2>1. PICK s \in Nat, k \in Nat, p \in Nat : AlignedAs(r, s, k, p)
    BY DEF Aligned
  <2>2. k = 0 /\ status # "open" /\ s + k >= told
    BY <2>1 DEF AlignedAs, Streaming
  <2>3. NextRow(r) = s
    BY <2>1, NextRowIs
  <2>4. QED
    BY <2>2, <2>3 DEF StreamShape
<1>2. QED
  BY <1>1, StreamInvariant, PTL

-----------------------------------------------------------------------------
(* The bounds. *)

\* A step that adds rows at most, and takes what the streams have of them from no reader.
LEMMA BoundsKept ==
  ASSUME StreamShape, StreamBounds, rows' \in Nat, rows' >= rows,
         UNCHANGED <<cursor, from, page, socket>>,
         runState' \in {"idle", "launching", "running", "ended", "gone"}
  PROVE  StreamBounds'
BY DEF StreamBounds, StreamShape

\* The page of a stream is what is left of a fetched one: its first row went to the socket.
LEMMA BoundsWritten ==
  ASSUME StreamShape, Aligned, StreamBounds, NEW q \in Readers, PumpWrites(q)
  PROVE  StreamBounds'
<1>1. PICK s \in Nat, k \in Nat, p \in Nat : AlignedAs(q, s, k, p)
  BY DEF Aligned
<1>2. PICK n \in Nat : /\ ToWrite(q) = Rows(s + k, n)
                       /\ n # 0 => s + k + n <= rows
                       /\ n = 0 => p = 0 /\ rows <= s + k
  BY <1>1, NextToWrite DEF PumpWrites
<1>3. s + k \in Nat /\ Len(ToWrite(q)) = n
  <2>1. s + k \in Nat
    OBVIOUS
  <2>2. QED
    BY <1>2, <2>1, RowsSeq
<1>4. n # 0
  BY <1>2, <1>3, RowsSeq DEF PumpWrites
<1>5. n <= PageSize
  <2>1. CASE page[q] # <<>>
    BY <1>3, <2>1, StreamAssumption DEF ToWrite, StreamBounds, StreamShape, StreamAssumption
  <2>2. CASE page[q] = <<>>
    <3>1. cursor[q] + 1 = s + k
      BY <1>1 DEF AlignedAs, Streaming, PumpWrites, StreamShape
    <3>2. ToWrite(q) = PageFrom(s + k)
      BY <2>2, <3>1 DEF ToWrite, NextPage
    <3>3. PICK m \in Nat : PageFrom(s + k) = Rows(s + k, m) /\ m <= PageSize
      BY <1>3, PageRows DEF StreamShape
    <3>4. Len(Rows(s + k, m)) = m
      BY <1>3, RowsSeq
    <3>5. QED
      BY <1>3, <3>2, <3>3, <3>4
  <2>3. QED
    BY <2>1, <2>2
<1>6. Head(ToWrite(q)) = s + k /\ Tail(ToWrite(q)) = Rows(s + k + 1, n - 1)
  <2>1. Head(Rows(s + k, n)) = s + k /\ Tail(Rows(s + k, n)) = Rows(s + k + 1, n - 1)
    BY <1>3, <1>4, RowsSeq
  <2>2. QED
    BY <1>2, <2>1
<1>7. /\ cursor' = [cursor EXCEPT ![q] = s + k]
      /\ page' = [page EXCEPT ![q] = Rows(s + k + 1, n - 1)]
      /\ socket' = [socket EXCEPT ![q] = Append(socket[q], s + k)]
      /\ rows' = rows /\ runState' = runState /\ from' = from /\ Len(socket[q]) < Buffer
  BY <1>6 DEF PumpWrites, writerVars
<1>8. Len(Rows(s + k + 1, n - 1)) = n - 1
  <2>1. s + k + 1 \in Nat /\ n - 1 \in Nat
    BY <1>4
  <2>2. QED
    BY <2>1, RowsSeq
<1>9. Len(Append(socket[q], s + k)) = Len(socket[q]) + 1 /\ Len(socket[q]) \in Nat
  BY <1>3 DEF StreamShape
<1>10. s + k \in -1 .. (rows - 1)
  BY <1>2, <1>4 DEF StreamShape
<1>11. ASSUME NEW r \in Readers
       PROVE  /\ cursor'[r] \in -1 .. (rows' - 1) \/ cursor'[r] = from'[r] - 1
              /\ Len(page'[r]) < PageSize /\ Len(socket'[r]) <= Buffer
  <2>1. CASE r = q
    <3>1. cursor'[r] = s + k /\ page'[r] = Rows(s + k + 1, n - 1)
          /\ socket'[r] = Append(socket[q], s + k)
      BY <1>7, <2>1 DEF StreamShape
    <3>2. QED
      BY <1>5, <1>7, <1>8, <1>9, <1>10, <3>1, StreamAssumption DEF StreamAssumption
  <2>2. CASE r # q
    <3>1. cursor'[r] = cursor[r] /\ page'[r] = page[r] /\ socket'[r] = socket[r]
      BY <1>7, <2>2 DEF StreamShape
    <3>2. QED
      BY <1>7, <3>1 DEF StreamBounds
  <2>3. QED
    BY <2>1, <2>2
<1>12. QED
  BY <1>7, <1>11 DEF StreamBounds

LEMMA BeforeTheNext ==
  ASSUME NEW x \in Nat, NEW n \in Nat, x <= n
  PROVE  x - 1 \in -1 .. (n - 1)
OBVIOUS

\* A resumed stream starts at a row that exists, since the reader has it; else it starts
\* where the reader says.
LEMMA BoundsOpened ==
  ASSUME StreamShape, Aligned, StreamBounds, StreamShape', Aligned', NEW q \in Readers,
         OpenStream(q)
  PROVE  StreamBounds'
<1>1. rows' = rows /\ runState' = runState /\ UNCHANGED <<page, socket>>
  BY DEF OpenStream, writerVars
<1>2. \A r \in Readers : r # q => cursor'[r] = cursor[r] /\ from'[r] = from[r]
  BY Zenon DEF OpenStream, StreamShape
<1>3. conn'[q] = "open" \/ (cursor'[q] = cursor[q] /\ from'[q] = from[q])
  BY DEF OpenStream, StreamShape
<1>4. conn'[q] = "open" => cursor'[q] \in -1 .. (rows' - 1) \/ cursor'[q] = from'[q] - 1
  <2> SUFFICES ASSUME conn'[q] = "open"
               PROVE  cursor'[q] \in -1 .. (rows' - 1) \/ cursor'[q] = from'[q] - 1
    OBVIOUS
  <2>1. PICK s \in Nat, k \in Nat, p \in Nat : AlignedAs(q, s, k, p)'
    BY DEF Aligned
  <2>2. /\ cursor'[q] = s + k - 1 /\ rows' \in Nat
        /\ s + k + p <= rows' \/ (s = from'[q] /\ k = 0)
    BY <2>1 DEF AlignedAs, Streaming, StreamShape
  <2>3. CASE s + k + p <= rows'
    <3>1. s + k - 1 \in -1 .. (rows' - 1)
      <4>1. s + k \in Nat /\ s + k <= rows' /\ rows' \in Nat
        BY <2>2, <2>3
      <4>2. ASSUME NEW n \in Nat, n = rows' PROVE s + k - 1 \in -1 .. (n - 1)
        <5>1. s + k \in Nat /\ s + k <= n
          BY <4>1, <4>2
        <5>2. (s + k) - 1 \in -1 .. (n - 1)
          BY <5>1, BeforeTheNext
        <5>3. QED
          BY <5>2
      <4>3. QED
        BY <4>1, <4>2
    <3>2. QED
      BY <2>2, <3>1
  <2>4. CASE s = from'[q] /\ k = 0
    <3>1. s + k - 1 = s - 1
      BY <2>4
    <3>2. QED
      BY <2>2, <2>4, <3>1
  <2>5. QED
    BY <2>2, <2>3, <2>4
<1>5. QED
  BY <1>1, <1>2, <1>3, <1>4 DEF StreamBounds

LEMMA BoundsDropped ==
  ASSUME StreamShape, StreamBounds, NEW rs \in SUBSET Readers, Dropped(rs), UNCHANGED writerVars
  PROVE  StreamBounds'
<1>1. rows' = rows /\ runState' = runState /\ cursor' = cursor /\ from' = from
  BY DEF Dropped, writerVars
<1>2. \A r \in Readers : /\ page'[r] = page[r] \/ page'[r] = <<>>
                         /\ socket'[r] = socket[r] \/ socket'[r] = <<>>
  BY DEF Dropped
<1>3. Len(<<>>) < PageSize /\ Len(<<>>) <= Buffer
  BY StreamAssumption DEF StreamAssumption
<1>4. QED
  BY <1>1, <1>2, <1>3 DEF StreamBounds

LEMMA BoundsStep ==
  ASSUME StreamShape, Aligned, StreamBounds, [StreamNext]_streamVars,
         StreamShape', Aligned'
  PROVE  StreamBounds'
<1>1. ASSUME \/ LaunchAttempt \/ Launched \/ TextArrives \/ EventArrives \/ ResultArrives
             \/ RunThrows \/ AttemptStopped \/ JobSettles \/ CancelSettles
             \/ DaemonRestarts \/ UNCHANGED streamVars
      PROVE  StreamBounds'
  <2>1. UNCHANGED <<cursor, from, page, socket>>
    BY <1>1 DEF LaunchAttempt, Launched, TextArrives, EventArrives, ResultArrives, RunThrows,
                AttemptStopped, JobSettles, CancelSettles, DaemonRestarts, streamVars, readerVars
  <2>2. rows' \in Nat /\ rows' >= rows
    BY <1>1 DEF LaunchAttempt, Launched, TextArrives, EventArrives, ResultArrives, RunThrows,
                AttemptStopped, JobSettles, CancelSettles, DaemonRestarts, streamVars, writerVars,
                EndRows, RowIf, StreamShape
  <2>3. runState' \in {"idle", "launching", "running", "ended", "gone"}
    BY <1>1 DEF LaunchAttempt, Launched, TextArrives, EventArrives, ResultArrives, RunThrows,
                AttemptStopped, JobSettles, CancelSettles, DaemonRestarts, streamVars, writerVars,
                StreamBounds
  <2>4. QED
    BY <2>1, <2>2, <2>3, BoundsKept
<1>2. CASE DaemonDies
  <2>1. Connected \in SUBSET Readers /\ Dropped(Connected) /\ UNCHANGED writerVars
    BY <1>2 DEF DaemonDies, Connected
  <2>2. QED
    BY <2>1, BoundsDropped
<1>3. ASSUME NEW r \in Readers, ConnectionLost(r) PROVE StreamBounds'
  BY <1>3, BoundsDropped DEF ConnectionLost
<1>4. ASSUME NEW r \in Readers, PumpEnds(r) \/ ReadEnd(r) PROVE StreamBounds'
  BY <1>4 DEF PumpEnds, ReadEnd, StreamBounds, writerVars
<1>5. ASSUME NEW q \in Readers, Receive(q) PROVE StreamBounds'
  <2>1. /\ socket' = [socket EXCEPT ![q] = Tail(socket[q])] /\ socket[q] # <<>>
        /\ UNCHANGED <<cursor, from, page, rows, runState>>
    BY <1>5 DEF Receive, writerVars
  <2>2. Len(Tail(socket[q])) <= Len(socket[q]) /\ Len(socket[q]) \in Nat
        /\ Len(Tail(socket[q])) \in Nat
    BY <2>1 DEF StreamShape
  <2>3. \A r \in Readers : Len(socket'[r]) <= Buffer
    <3>1. \A r \in Readers :
            socket'[r] = IF r = q THEN Tail(socket[q]) ELSE socket[r]
      BY <2>1 DEF StreamShape
    <3>2. Len(Tail(socket[q])) <= Buffer
      BY <2>2, StreamAssumption DEF StreamBounds, StreamAssumption
    <3>3. QED
      BY <3>1, <3>2 DEF StreamBounds
  <2>4. QED
    BY <2>1, <2>3 DEF StreamBounds
<1>6. CASE Close
  <2>1. /\ UNCHANGED <<cursor, from, socket, rows, runState>>
        /\ \A r \in Readers : page'[r] = page[r] \/ page'[r] = <<>>
    BY <1>6 DEF Close, writerVars
  <2>2. Len(<<>>) < PageSize
    BY StreamAssumption DEF StreamAssumption
  <2>3. QED
    BY <2>1, <2>2 DEF StreamBounds
<1>7. QED
  BY <1>1, <1>2, <1>3, <1>4, <1>5, <1>6, BoundsOpened, BoundsWritten DEF StreamNext

\* Nothing a stream keeps grows with its backlog: less than a page of rows and at most the
\* socket's buffer, all of them rows that exist; its cursor is one too, unless the reader
\* asked to start beyond the last.
THEOREM StreamTyped == StreamSpec => []StreamTypeOK
<1>1. StreamInit => StreamBounds
  <2>1. Len(<<>>) = 0
    OBVIOUS
  <2>2. QED
    BY <2>1, StreamAssumption DEF StreamInit, StreamBounds, StreamAssumption
<1>2. StreamShape /\ Aligned /\ StreamBounds /\ [StreamNext]_streamVars
        /\ StreamShape' /\ Aligned' => StreamBounds'
  BY BoundsStep
<1>3. StreamShape /\ Aligned /\ StreamBounds => StreamTypeOK
  <2> SUFFICES ASSUME StreamShape, Aligned, StreamBounds PROVE StreamTypeOK
    OBVIOUS
  <2>1. ASSUME NEW r \in Readers, NEW i \in DOMAIN socket[r]
        PROVE  socket[r][i] \in 0 .. (rows - 1)
    <3>1. PICK s \in Nat, k \in Nat, p \in Nat : AlignedAs(r, s, k, p)
      BY DEF Aligned
    <3>2. socket[r] = [n \in 1 .. k |-> s + n - 1] /\ (s + k + p <= rows \/ k = 0)
      BY <3>1 DEF AlignedAs, Rows
    <3>3. i \in 1 .. k /\ socket[r][i] = s + i - 1
      BY <2>1, <3>2
    <3>4. QED
      BY <3>2, <3>3 DEF StreamShape
  <2>2. QED
    BY <2>1 DEF StreamShape, StreamBounds, StreamTypeOK
<1>4. QED
  BY <1>1, <1>2, <1>3, StreamInvariant, PTL DEF StreamSpec

-----------------------------------------------------------------------------
(* The safety half of StreamServed: a stream that is behind always has its next *)
(* step to take, and every step it takes brings it nearer.                      *)

\* A row not yet written is two steps from the reader, one on the socket is one.
\* A reader that asked to start beyond the last row is behind by less than nothing.
Behind(r) == 2 * (rows - NextRow(r)) - Len(socket[r])

Served == \A r \in Readers : conn[r] \in Streaming => up

\* The loop of pump sleeps, or waits for the socket to drain, only while there is nothing
\* to do or the reader has something to receive: behind, one of them can go on; not
\* behind and the job settled, the stream can end.
NoStreamStuck ==
  \A r \in Readers : conn[r] = "open" =>
    /\ up /\ Behind(r) <= 2 * rows
    /\ Behind(r) > 0 => \/ socket[r] # <<>>
                        \/ Len(socket[r]) < Buffer /\ ToWrite(r) # <<>>
    /\ Behind(r) <= 0 => Len(socket[r]) < Buffer /\ ToWrite(r) = <<>>

\* While a stream stays open, only a new row puts it further behind: each row it writes
\* and each one its reader receives brings it a step nearer, and nothing else moves it.
StreamMovesOn ==
  [][\A r \in Readers : conn[r] = "open" /\ conn'[r] = "open" =>
       \/ Behind(r)' < Behind(r) /\ rows' = rows
       \/ /\ Behind(r)' = Behind(r) + 2 * (rows' - rows) /\ rows' >= rows
          /\ cursor'[r] = cursor[r] /\ seen'[r] = seen[r] /\ socket'[r] = socket[r]]_streamVars

LEMMA BehindIs ==
  ASSUME StreamShape, NEW r \in Readers, NEW s \in Nat, NEW k \in Nat, NEW p \in Nat,
         AlignedAs(r, s, k, p)
  PROVE  /\ Len(socket[r]) = k
         /\ Behind(r) = 2 * (rows - s) - k
         /\ socket[r] = <<>> <=> k = 0
<1>1. socket[r] = Rows(s, k)
  BY DEF AlignedAs
<1>2. Len(Rows(s, k)) = k /\ (k = 0 <=> Rows(s, k) = <<>>)
  BY RowsSeq
<1>3. NextRow(r) = s
  BY NextRowIs
<1>4. QED
  BY <1>1, <1>2, <1>3 DEF Behind

LEMMA NotStuck ==
  ASSUME Buffer # 0, StreamShape, Aligned, Served
  PROVE  NoStreamStuck
<1> SUFFICES ASSUME NEW r \in Readers, conn[r] = "open"
             PROVE  /\ up /\ Behind(r) <= 2 * rows
                    /\ Behind(r) > 0 => \/ socket[r] # <<>>
                                        \/ Len(socket[r]) < Buffer /\ ToWrite(r) # <<>>
                    /\ Behind(r) <= 0 => Len(socket[r]) < Buffer /\ ToWrite(r) = <<>>
  BY DEF NoStreamStuck
<1>1. PICK s \in Nat, k \in Nat, p \in Nat : AlignedAs(r, s, k, p)
  BY DEF Aligned
<1>2. rows \in Nat /\ up /\ (s + k + p <= rows \/ k = 0)
  BY <1>1 DEF AlignedAs, StreamShape, Served, Streaming
<1>3. Len(socket[r]) = k /\ Behind(r) = 2 * (rows - s) - k /\ (socket[r] = <<>> <=> k = 0)
  BY <1>1, BehindIs
<1>4. PICK n \in Nat : /\ ToWrite(r) = Rows(s + k, n)
                       /\ n # 0 => s + k + n <= rows
                       /\ n = 0 => p = 0 /\ rows <= s + k
  BY <1>1, NextToWrite
<1>5. n = 0 <=> ToWrite(r) = <<>>
  <2>1. s + k \in Nat
    OBVIOUS
  <2>2. QED
    BY <1>4, <2>1, RowsSeq
<1>6. Behind(r) <= 2 * rows
  BY <1>2, <1>3
<1>7. k = 0 => Len(socket[r]) < Buffer
  BY <1>3, StreamAssumption DEF StreamAssumption
<1>8. ASSUME Behind(r) > 0, k = 0 PROVE n # 0
  BY <1>2, <1>3, <1>4, <1>8
<1>9. ASSUME Behind(r) <= 0 PROVE k = 0 /\ n = 0
  BY <1>2, <1>3, <1>4, <1>9
<1>10. QED
  BY <1>2, <1>3, <1>5, <1>6, <1>7, <1>8, <1>9

LEMMA ServedKept ==
  ASSUME StreamShape, Served, [StreamNext]_streamVars
  PROVE  Served'
<1>1. ASSUME \/ LaunchAttempt \/ Launched \/ TextArrives \/ EventArrives \/ ResultArrives
             \/ RunThrows \/ AttemptStopped \/ JobSettles \/ CancelSettles
             \/ DaemonRestarts \/ UNCHANGED streamVars
      PROVE  conn' = conn /\ (up => up')
  BY <1>1 DEF LaunchAttempt, Launched, TextArrives, EventArrives, ResultArrives, RunThrows,
       AttemptStopped, JobSettles, CancelSettles, DaemonRestarts, streamVars, daemonVars,
       readerVars
<1>2. CASE DaemonDies
  BY <1>2 DEF DaemonDies, Dropped, Connected, Served, Streaming
<1>c. CASE Close
  BY <1>c DEF Close, Served, Streaming
<1>3. ASSUME NEW r \in Readers, ConnectionLost(r) PROVE Served'
  BY <1>3 DEF ConnectionLost, Dropped, Served, Streaming, daemonVars
<1>4. ASSUME NEW r \in Readers, \/ OpenStream(r) \/ PumpWrites(r) \/ PumpEnds(r)
                                \/ Receive(r) \/ ReadEnd(r)
      PROVE  /\ up' = up
             /\ \A q \in Readers : conn'[q] \in Streaming => conn[q] \in Streaming \/ up
  BY <1>4 DEF OpenStream, PumpWrites, PumpEnds, Receive, ReadEnd, Streaming, StreamShape,
       daemonVars
<1>5. QED
  BY <1>1, <1>2, <1>c, <1>3, <1>4 DEF Served, StreamNext

\* A step of the writer: the rows may grow, the streams stay.
LEMMA WriterMoves ==
  ASSUME StreamShape, rows' \in Nat, rows' >= rows, UNCHANGED readerVars, NEW r \in Readers
  PROVE  /\ Behind(r)' = Behind(r) + 2 * (rows' - rows) /\ rows' >= rows
         /\ cursor'[r] = cursor[r] /\ seen'[r] = seen[r] /\ socket'[r] = socket[r]
<1>1. seen' = seen /\ socket' = socket /\ cursor' = cursor /\ from' = from
  BY DEF readerVars
<1>2. Len(seen[r]) \in Nat /\ Len(socket[r]) \in Nat /\ from[r] \in Nat /\ rows \in Nat
  BY DEF StreamShape
<1>3. QED
  BY <1>1, <1>2 DEF Behind, NextRow

LEMMA Nearer ==
  ASSUME NEW n \in Nat, NEW s \in Nat, NEW k \in Nat
  PROVE  /\ 2 * (n - s) - (k + 1) < 2 * (n - s) - k
         /\ 2 * (n - (s + 1)) - (k - 1) < 2 * (n - s) - k
OBVIOUS

LEMMA MovesOn ==
  ASSUME StreamShape, Aligned, [StreamNext]_streamVars,
         NEW r \in Readers, conn[r] = "open", conn'[r] = "open"
  PROVE  \/ Behind(r)' < Behind(r) /\ rows' = rows
         \/ /\ Behind(r)' = Behind(r) + 2 * (rows' - rows) /\ rows' >= rows
            /\ cursor'[r] = cursor[r] /\ seen'[r] = seen[r] /\ socket'[r] = socket[r]
<1> DEFINE Stands == /\ cursor'[r] = cursor[r] /\ seen'[r] = seen[r] /\ socket'[r] = socket[r]
                     /\ from'[r] = from[r] /\ rows' = rows
<1>1. ASSUME \/ LaunchAttempt \/ Launched \/ TextArrives \/ EventArrives \/ ResultArrives
             \/ RunThrows \/ AttemptStopped \/ JobSettles \/ CancelSettles
             \/ DaemonRestarts \/ UNCHANGED streamVars
      PROVE  UNCHANGED readerVars /\ rows' \in Nat /\ rows' >= rows
  BY <1>1 DEF LaunchAttempt, Launched, TextArrives, EventArrives, ResultArrives, RunThrows,
       AttemptStopped, JobSettles, CancelSettles, DaemonRestarts, streamVars, writerVars,
       EndRows, RowIf, StreamShape
<1>2. ASSUME Stands
      PROVE  Behind(r)' = Behind(r) + 2 * (rows' - rows) /\ rows' >= rows
  <2>1. /\ Len(seen[r]) \in Nat /\ Len(socket[r]) \in Nat /\ rows \in Nat
        /\ from[r] \in Nat
    BY DEF StreamShape
  <2>2. Behind(r)' = Behind(r)
    BY <1>2, Zenon DEF Behind, NextRow
  <2>3. QED
    BY <1>2, <2>1, <2>2 DEF Behind, NextRow
<1>3. CASE DaemonDies
  BY <1>3 DEF DaemonDies, Dropped, Connected
<1>c. CASE Close
  BY <1>c DEF Close, StreamShape
<1>4. ASSUME NEW q \in Readers, ConnectionLost(q) PROVE Stands
  BY <1>4 DEF ConnectionLost, Dropped, writerVars, StreamShape
<1>5. ASSUME NEW q \in Readers, OpenStream(q) \/ PumpEnds(q) \/ ReadEnd(q) PROVE Stands
  <2>1. CASE OpenStream(q)
    <3>1. q # r /\ UNCHANGED <<socket, rows>>
      BY <2>1 DEF OpenStream, Connected, writerVars
    <3>2. cursor'[r] = cursor[r] /\ seen'[r] = seen[r] /\ from'[r] = from[r]
      BY <2>1, <3>1, Zenon DEF OpenStream, StreamShape
    <3>3. QED
      BY <3>1, <3>2
  <2>2. CASE PumpEnds(q) \/ ReadEnd(q)
    BY <2>2 DEF PumpEnds, ReadEnd, writerVars
  <2>3. QED
    BY <1>5, <2>1, <2>2
<1>6. ASSUME NEW q \in Readers, q # r, PumpWrites(q) \/ Receive(q) PROVE Stands
  BY <1>6 DEF PumpWrites, Receive, writerVars, StreamShape
<1>7. ASSUME PumpWrites(r) PROVE Behind(r)' < Behind(r) /\ rows' = rows
  <2>1. /\ seen'[r] = seen[r] /\ from'[r] = from[r] /\ rows' = rows
        /\ \E x : socket'[r] = Append(socket[r], x) /\ x \in Int
    <3>1. Head(ToWrite(r)) \in Int
      <4>1. PICK s \in Nat, k \in Nat, p \in Nat : AlignedAs(r, s, k, p)
        BY DEF Aligned
      <4>2. PICK n \in Nat : ToWrite(r) = Rows(s + k, n)
        BY <4>1, NextToWrite
      <4>3. s + k \in Nat /\ ToWrite(r) # <<>>
        BY <1>7 DEF PumpWrites
      <4>4. Head(Rows(s + k, n)) = s + k
        BY <4>2, <4>3, RowsSeq
      <4>5. QED
        BY <4>2, <4>3, <4>4
    <3>2. QED
      BY <1>7, <3>1 DEF PumpWrites, writerVars, StreamShape
  <2>2. Len(socket'[r]) = Len(socket[r]) + 1
    BY <2>1 DEF StreamShape
  <2>3. NextRow(r) \in Nat /\ Len(socket[r]) \in Nat /\ rows \in Nat
    BY DEF StreamShape, NextRow
  <2>4. NextRow(r)' = NextRow(r) /\ rows' = rows
    BY <2>1, Zenon DEF NextRow
  <2>5. Behind(r)' = 2 * (rows - NextRow(r)) - (Len(socket[r]) + 1)
    BY <2>2, <2>4, Zenon DEF Behind
  <2>6. QED
    BY <2>3, <2>4, <2>5, Nearer DEF Behind
<1>8. ASSUME Receive(r) PROVE Behind(r)' < Behind(r) /\ rows' = rows
  <2>1. /\ seen'[r] = Append(seen[r], Head(socket[r])) /\ rows' = rows
        /\ socket'[r] = Tail(socket[r]) /\ socket[r] # <<>> /\ from'[r] = from[r]
    BY <1>8 DEF Receive, writerVars, StreamShape
  <2>2. Len(seen'[r]) = Len(seen[r]) + 1 /\ Len(socket'[r]) = Len(socket[r]) - 1
    BY <2>1 DEF StreamShape
  <2>3. /\ NextRow(r) \in Nat /\ Len(socket[r]) \in Nat /\ rows \in Nat
        /\ from[r] \in Nat /\ Len(seen[r]) \in Nat
    BY DEF StreamShape, NextRow
  <2>4. rows' = rows
    BY <2>1
  <2>a. NextRow(r)' = from[r] + (Len(seen[r]) + 1)
    BY <2>1, <2>2, Zenon DEF NextRow
  <2>b. from[r] + (Len(seen[r]) + 1) = (from[r] + Len(seen[r])) + 1
    BY <2>3
  <2>c. NextRow(r)' = NextRow(r) + 1
    BY <2>a, <2>b, Zenon DEF NextRow
  <2>5. Behind(r)' = 2 * (rows - (NextRow(r) + 1)) - (Len(socket[r]) - 1)
    BY <2>2, <2>4, <2>c, Zenon DEF Behind
  <2>6. QED
    BY <2>3, <2>4, <2>5, Nearer DEF Behind
<1>9. CASE UNCHANGED readerVars /\ rows' \in Nat /\ rows' >= rows
  BY <1>9, WriterMoves
<1>10. CASE Stands
  BY <1>2, <1>10
<1> HIDE DEF Stands
<1>11. QED
  BY <1>1, <1>3, <1>c, <1>4, <1>5, <1>6, <1>7, <1>8, <1>9, <1>10 DEF StreamNext

\* A stream that stays connected is never stuck behind the rows there are, nor open after
\* a settled job's last row, and is at most two steps for each row from having them all:
\* what is left to fairness is only that these steps are taken.
THEOREM StreamsMoveOn ==
  Buffer # 0 => (StreamSpec => []NoStreamStuck /\ StreamMovesOn)
<1> SUFFICES ASSUME Buffer # 0 PROVE StreamSpec => []NoStreamStuck /\ StreamMovesOn
  OBVIOUS
<1>1. StreamInit => Served
  BY DEF StreamInit, Served, Streaming
<1>2. StreamShape /\ Served /\ [StreamNext]_streamVars => Served'
  BY ServedKept
<1>3. StreamShape /\ Aligned /\ Served => NoStreamStuck
  BY NotStuck
<1>4. StreamShape /\ Aligned /\ [StreamNext]_streamVars =>
        [\A r \in Readers : conn[r] = "open" /\ conn'[r] = "open" =>
           \/ Behind(r)' < Behind(r) /\ rows' = rows
           \/ /\ Behind(r)' = Behind(r) + 2 * (rows' - rows) /\ rows' >= rows
              /\ cursor'[r] = cursor[r] /\ seen'[r] = seen[r] /\ socket'[r] = socket[r]]_streamVars
  BY MovesOn
<1>5. QED
  BY <1>1, <1>2, <1>3, <1>4, StreamInvariant, PTL DEF StreamSpec, StreamMovesOn
=============================================================================
