---------------------------- MODULE EventStream ----------------------------
(***************************************************************************)
(* The events of one job: the rows its attempts append, and the HTTP       *)
(* streams that show them to readers.                                      *)
(*                                                                         *)
(*   src/src/runtime/runtime.ts   runAttempt: appendEv, emit, flush        *)
(*   src/src/storage/store.ts     nextSequence, appendEvent, eventsForJob  *)
(*   src/src/http/api.ts          sse, close                               *)
(*                                                                         *)
(* Rows are never changed or deleted and differ here in their sequence     *)
(* only, 0 .. rows - 1.  The text the redactor withholds is one bit;       *)
(* module Redactor is about its content.                                   *)
(*                                                                         *)
(* A definition whose comment describes a defect is a faulty variant of    *)
(* the one below it, used to confirm that a property can fail.             *)
(***************************************************************************)
EXTENDS Integers, Sequences, SequencesExt

CONSTANTS
  Readers,     \* clients that read the stream
  PageSize,    \* SSE_PAGE
  Buffer,      \* frames the socket takes before it asks the writer to wait
  MaxAttempts, \* policy.max_attempts
  MaxRows,     \* bound: rows the plugins cause; the router's own come on top
  MaxDrops,    \* bound: lost connections
  Numbers      \* bound: the numeric Last-Event-IDs sent that are no row's the reader saw

ASSUME StreamAssumption == PageSize \in Nat \ {0} /\ Buffer \in Nat /\ Numbers \subseteq Nat

VARIABLES
  rows,     \* event rows of the job: nextSequence
  status,   \* job status: "open", "terminal" or "needs_recovery"
  attempts, \* attempts begun
  runState, \* of the current attempt
  held,     \* the redactor withholds text of the attempt
  up,       \* the daemon runs
  closing,  \* close was called: nobody connects any more
  conn,     \* connection of a reader
  cursor,   \* afterSeq of its stream
  from,     \* the first row it asked for
  page,     \* sequences fetched and not yet written
  socket,   \* sequences written and not yet received
  seen,     \* sequences the reader received
  drops,    \* bound counter
  told,     \* history: rows there were when the job was settled
  cut       \* history: readers whose response was ended by close, not by pump

writerVars == <<rows, status, attempts, runState, held, told>>
daemonVars == <<up, closing>>
readerVars == <<conn, cursor, from, page, socket, seen, cut>>
streamVars == <<writerVars, daemonVars, readerVars, drops>>

StreamInit ==
  /\ rows = 0 /\ status = "open" /\ attempts = 0 /\ runState = "idle"
  /\ held = FALSE /\ up = TRUE /\ closing = FALSE /\ told = 0 /\ drops = 0 /\ cut = {}
  /\ conn = [r \in Readers |-> "away"]
  /\ cursor = [r \in Readers |-> -1]
  /\ from = [r \in Readers |-> 0]
  /\ page = [r \in Readers |-> <<>>]
  /\ socket = [r \in Readers |-> <<>>]
  /\ seen = [r \in Readers |-> <<>>]

-----------------------------------------------------------------------------
(* The rows.  appendEv writes nothing once the store is closed. *)

\* One row if something holds, no row otherwise.
RowIf(cond) == IF cond THEN 1 ELSE 0

\* The job leaves the open state with all the rows there are now.
SettledAs(s) == /\ status = "open"
                /\ status' = s /\ told' = rows

\* The loop of executeInner goes on to the next candidate.
LaunchAttempt ==
  /\ up /\ status = "open" /\ runState = "idle" /\ attempts < MaxAttempts
  /\ attempts' = attempts + 1 /\ runState' = "launching" /\ held' = FALSE
  /\ UNCHANGED <<rows, status, told, daemonVars, readerVars, drops>>

\* The plugin answered the handshake; host.run is called.  transitionJob has no
\* effect on a job that is already settled.
Launched ==
  /\ up /\ runState = "launching"
  /\ runState' = "running"
  /\ UNCHANGED <<rows, status, attempts, held, told, daemonVars, readerVars, drops>>

\* run.event with text: what the redactor lets go is a row, the rest is held.  The
\* handler stays registered until the plugin is stopped.
TextArrives ==
  /\ up /\ runState \in {"running", "ended"} /\ rows < MaxRows
  /\ \E out \in BOOLEAN : rows' = rows + RowIf(out)
  /\ held' \in BOOLEAN
  /\ UNCHANGED <<status, attempts, runState, told, daemonVars, readerVars, drops>>

\* Any other run.event, the plugin's own run.completed included.
EventArrives ==
  /\ up /\ runState \in {"running", "ended"} /\ rows < MaxRows
  /\ rows' = rows + 1
  /\ UNCHANGED <<status, attempts, runState, held, told, daemonVars, readerVars, drops>>

\* The row of the outcome, and another one if the plugin left processes behind.
EndRows == \E stubborn \in BOOLEAN :
  rows' = rows + RowIf(held) + 1 + RowIf(stubborn)

\* host.run resolves: flushRedactor, then the outcome.
ResultArrives ==
  /\ up /\ runState = "running"
  /\ EndRows
  /\ runState' = "ended" /\ held' = FALSE
  /\ UNCHANGED <<status, attempts, told, daemonVars, readerVars, drops>>

\* launch or host.run throws: what is held is not flushed.
RunThrows ==
  /\ up /\ runState \in {"launching", "running"}
  /\ \E stubborn \in BOOLEAN : rows' = rows + 1 + RowIf(stubborn)
  /\ runState' = "ended"
  /\ UNCHANGED <<status, attempts, held, told, daemonVars, readerVars, drops>>

\* host.stop and the end of runAttempt.
AttemptStopped ==
  /\ up /\ runState = "ended"
  /\ runState' = "idle"
  /\ UNCHANGED <<rows, status, attempts, held, told, daemonVars, readerVars, drops>>

\* finishJob after the last attempt.
JobSettles ==
  /\ up /\ runState = "idle"
  /\ \E s \in {"terminal", "needs_recovery"} : SettledAs(s)
  /\ UNCHANGED <<rows, attempts, runState, held, daemonVars, readerVars, drops>>

\* cancel of a job with no run in flight; an attempt being launched goes on.
CancelSettles ==
  /\ up /\ runState = "launching"
  /\ SettledAs("terminal")
  /\ UNCHANGED <<rows, attempts, runState, held, daemonVars, readerVars, drops>>

-----------------------------------------------------------------------------
(* The streams. *)

\* The rows from sequence a on, at most PageSize of them.
PageFrom(a) == LET left == rows - a
                   size == IF left < PageSize THEN left ELSE PageSize
               IN  [i \in 1..size |-> a + i - 1]

\* The row at the cursor is fetched again.
NextPageInclusive(c) == PageFrom(IF c = -1 THEN 0 ELSE c)

\* eventsForJob: the first rows after the cursor.
NextPage(c) == PageFrom(c + 1)

Refused == -2

LastEventIds == ({"none", "seen", "unknown"} \X {0}) \cup ({"number"} \X Numbers)

Connected == { r \in Readers : conn[r] \in {"open", "ending"} }

\* The cursor a Last-Event-ID stands for: any number is one, whether or not there is a
\* row of it; ev_ names an event of this job, else it is a 400, and so is anything else.
ResumeAfter(r, id) ==
  CASE id[1] = "none"    -> -1
    [] id[1] = "seen"    -> Last(seen[r])
    [] id[1] = "number"  -> id[2]
    [] id[1] = "unknown" -> Refused

\* sse: headers and cursor.  A reader without Last-Event-ID reads from the start, and
\* one that sends a number of its own from the row after.
OpenStream(r) ==
  /\ up /\ ~closing /\ r \notin Connected
  /\ \E id \in LastEventIds :
       /\ id[1] = "seen" => seen[r] # <<>>
       /\ IF ResumeAfter(r, id) = Refused
          THEN /\ conn' = [conn EXCEPT ![r] = "refused"]
               /\ UNCHANGED <<cursor, from, seen>>
          ELSE /\ conn' = [conn EXCEPT ![r] = "open"]
               /\ cursor' = [cursor EXCEPT ![r] = ResumeAfter(r, id)]
               /\ IF id[1] = "seen" THEN UNCHANGED <<from, seen>>
                  ELSE /\ from' = [from EXCEPT ![r] = ResumeAfter(r, id) + 1]
                       /\ seen' = [seen EXCEPT ![r] = <<>>]
  /\ cut' = cut \ {r}
  /\ UNCHANGED <<page, socket, writerVars, daemonVars, drops>>

\* A job in needs_recovery is waited for.
StreamOverTerminal == status = "terminal"

\* The job is terminal or in needs_recovery.
StreamOver == status # "open"

\* The end of the job is looked for before the rows are drained.
ToWriteUnlessOver(r) ==
  IF page[r] # <<>> THEN page[r] ELSE IF status # "open" THEN <<>> ELSE NextPage(cursor[r])

\* What pump writes next: the rest of its page, or else the next page.
ToWrite(r) == IF page[r] # <<>> THEN page[r] ELSE NextPage(cursor[r])

\* pump, one turn of its loop.  It writes when the socket has drained, ends the
\* stream when there is nothing left to write and never will be, else sleeps.
PumpWrites(r) ==
  /\ up /\ conn[r] = "open" /\ Len(socket[r]) < Buffer
  /\ ToWrite(r) # <<>>
  /\ socket' = [socket EXCEPT ![r] = Append(@, Head(ToWrite(r)))]
  /\ cursor' = [cursor EXCEPT ![r] = Head(ToWrite(r))]
  /\ page' = [page EXCEPT ![r] = Tail(ToWrite(r))]
  /\ UNCHANGED <<conn, from, seen, cut, writerVars, daemonVars, drops>>

PumpEnds(r) ==
  /\ up /\ conn[r] = "open" /\ Len(socket[r]) < Buffer
  /\ ToWrite(r) = <<>> /\ StreamOver
  /\ conn' = [conn EXCEPT ![r] = "ending"]
  /\ UNCHANGED <<cursor, from, page, socket, seen, cut, writerVars, daemonVars, drops>>

Receive(r) ==
  /\ socket[r] # <<>>
  /\ seen' = [seen EXCEPT ![r] = Append(@, Head(socket[r]))]
  /\ socket' = [socket EXCEPT ![r] = Tail(@)]
  /\ UNCHANGED <<conn, cursor, from, page, cut, writerVars, daemonVars, drops>>

\* The reader sees the end of the response.
ReadEnd(r) ==
  /\ conn[r] = "ending" /\ socket[r] = <<>>
  /\ conn' = [conn EXCEPT ![r] = "over"]
  /\ UNCHANGED <<cursor, from, page, socket, seen, cut, writerVars, daemonVars, drops>>

\* The connections of a set of readers end, with what was on its way.
Dropped(rs) ==
  /\ conn' = [r \in Readers |-> IF r \in rs THEN "away" ELSE conn[r]]
  /\ page' = [r \in Readers |-> IF r \in rs THEN <<>> ELSE page[r]]
  /\ socket' = [r \in Readers |-> IF r \in rs THEN <<>> ELSE socket[r]]
  /\ drops' = drops + 1 /\ cut' = cut \ rs
  /\ UNCHANGED <<cursor, from, seen>>

ConnectionLost(r) ==
  /\ r \in Connected /\ drops < MaxDrops
  /\ Dropped({r})
  /\ UNCHANGED <<writerVars, daemonVars>>

\* close, first part of a shutdown: every open response is ended where it is, with rows
\* still in the pump's page or the job still open; what is on the socket is delivered
\* first, unless the connection is lost or the process ends (2 s later at the latest).
\* Runs and their rows go on until then.
Close ==
  /\ up /\ ~closing
  /\ closing' = TRUE
  /\ LET rs == {r \in Readers : conn[r] = "open"}
     IN  /\ conn' = [r \in Readers |-> IF r \in rs THEN "ending" ELSE conn[r]]
         /\ page' = [r \in Readers |-> IF r \in rs THEN <<>> ELSE page[r]]
         /\ cut' = cut \cup rs
  /\ UNCHANGED <<cursor, from, socket, seen, writerVars, up, drops>>

\* The end of the process, a crash or that of a shutdown: the run is gone.
DaemonDies ==
  /\ up /\ drops < MaxDrops
  /\ up' = FALSE /\ closing' = FALSE
  /\ Dropped(Connected)
  /\ UNCHANGED writerVars

\* recoverOnStart settles the job of an attempt that was not finished.
DaemonRestarts ==
  /\ ~ up /\ up' = TRUE
  /\ IF runState \in {"launching", "running"} /\ status = "open"
     THEN SettledAs("needs_recovery")
     ELSE UNCHANGED <<status, told>>
  /\ runState' = "gone"
  /\ UNCHANGED <<rows, attempts, held, closing, readerVars, drops>>

StreamNext ==
  \/ LaunchAttempt \/ Launched \/ TextArrives \/ EventArrives \/ ResultArrives
  \/ RunThrows \/ AttemptStopped \/ JobSettles \/ CancelSettles
  \/ Close \/ DaemonDies \/ DaemonRestarts
  \/ \E r \in Readers :
       \/ OpenStream(r) \/ PumpWrites(r) \/ PumpEnds(r)
       \/ Receive(r) \/ ReadEnd(r) \/ ConnectionLost(r)

\* The pump is a loop of timers and socket events of a live process; a reader that
\* stays connected reads on.  Rows and lost connections are bounded, so that nothing of
\* this is left undone.
StreamStep ==
  \E r \in Readers : PumpWrites(r) \/ PumpEnds(r) \/ Receive(r) \/ ReadEnd(r)
StreamFairness == WF_streamVars(StreamStep)

-----------------------------------------------------------------------------
(* Properties. *)

\* The next row a reader has to get.
NextRow(r) == from[r] + Len(seen[r])

\* The bounded buffering of the comment in sse: a stream holds one page of rows and
\* the socket's buffer, of rows that exist.  Its cursor is one of them too, but for a
\* reader that asked to start beyond the last one.
StreamTypeOK ==
  /\ rows \in Nat /\ told \in 0..rows
  /\ status \in {"open", "terminal", "needs_recovery"}
  /\ runState \in {"idle", "launching", "running", "ended", "gone"}
  /\ cut \subseteq Readers /\ closing \in BOOLEAN
  /\ \A r \in Readers :
       /\ conn[r] \in {"away", "open", "ending", "over", "refused"}
       /\ cursor[r] \in -1..(rows - 1) \/ cursor[r] = from[r] - 1
       /\ Len(page[r]) < PageSize /\ Len(socket[r]) <= Buffer
       /\ \A i \in DOMAIN socket[r] : socket[r][i] \in 0..(rows - 1)

\* Over all the connections a reader resumes with Last-Event-ID it gets every row from
\* the one it first asked for, once and in order, whatever was lost or cut on the way.
NoGap == \A r \in Readers : seen[r] = [i \in DOMAIN seen[r] |-> from[r] + i - 1]

\* A reader that sees the response end was shown all that was recorded before the job
\* was settled, or else the daemon was shut down under it: close ends the response
\* likewise, and the reader cannot tell.
EndComplete == \A r \in Readers : conn[r] = "over" /\ r \notin cut =>
                 status # "open" /\ NextRow(r) >= told

\* A stream that stays connected and is not cut is served: its reader gets up with the rows,
\* also while no row follows the last one, and the stream ends once the job is settled.
StreamServed ==
  \A r \in Readers :
    /\ (conn[r] = "open" /\ NextRow(r) < rows)
         ~> (NextRow(r) >= rows \/ r \in cut \/ conn[r] \notin {"open", "ending"})
    /\ (conn[r] = "open" /\ status # "open") ~> (conn[r] # "open")
=============================================================================
