----------------------------- MODULE Admission -----------------------------
(***************************************************************************)
(* Job admission over HTTP: worker clients that post a job and retry with  *)
(* the same Idempotency-Key, the API handler with its caps and its         *)
(* idempotency table, and the daemon processes that take, hold and release *)
(* the ownership row of the database.                                      *)
(*                                                                         *)
(*   src/src/http/api.ts          POST /v1/jobs, kick, close               *)
(*   src/src/http/routerd.ts      start, graceful stop                     *)
(*   src/src/storage/store.ts     db_owner, idempotency_keys, job counts   *)
(*   src/src/runtime/runtime.ts   submit, prepareWorkspace, cancel,        *)
(*                                shutdown, recoverOnStart                 *)
(*   src/src/client/worker.ts     worker(), call()                         *)
(*                                                                         *)
(* The rows survive a crash; the requests being read, the set of executing *)
(* jobs and the calls of the clients do not.  What happens inside one      *)
(* attempt is the business of JobRuntime: here an execution begins an      *)
(* attempt, ends it, and settles the job.                                  *)
(*                                                                         *)
(* A definition whose comment describes a defect is a faulty variant of    *)
(* the one below it, used to confirm that a property can fail.             *)
(***************************************************************************)
EXTENDS JobStates, FiniteSets

CONSTANTS
  Daemons,        \* router processes that may be started on the database
  Clients,        \* worker() calls; a retry is another post by the same one
  Principal,      \* whom the bearer token of a client authenticates
  Key,            \* Idempotency-Key of a client, or NoKey
  Body,           \* canonical body of a client's request
  Handle,         \* locked workspace a body asks for, or Fresh
  WorkspaceOwner, \* principal a workspace handle is registered to
  Unadmitted,     \* bodies that policy, role, profile or catalog refuse
  NoKey, Fresh, None,
  MaxPerPrincipal, MaxGlobal,  \* http.max_active_jobs_*
  MaxSends,       \* bound: posts of each client
  MaxEnds,        \* bound: serving daemons that crash or are told to stop
  JobEnds         \* bound: the ways an execution settles its job

Handles == DOMAIN WorkspaceOwner

\* A loop settles its job; the caps are numbers; None is neither a process nor a job.
ASSUME AdmissionAssumption ==
  /\ None \notin Daemons /\ None \notin Nat
  /\ MaxPerPrincipal \in Nat /\ MaxGlobal \in Nat
  /\ JobEnds \subseteq Settled

VARIABLES
  owner,    \* db_owner: the daemon the row names, or None
  jobs,     \* job rows in order of creation
  keys,     \* idempotency_keys rows
  lockedBy, \* workspaces.locked_by
  proc,     \* life of each daemon process
  running,  \* api.executing of each daemon
  midway,   \* the job whose row a daemon has settled, its workspace not yet; or None
  posts,    \* requests whose body the server is still reading
  call,     \* what each client is doing
  sends,    \* posts made by each client
  ends,     \* bound counter: crashes and stops
  granted,  \* history: every answer that named a job
  lost,     \* history: jobs whose loop ended with its daemon
  raced     \* history: two daemons started at once over the row of a dead one

rows == <<owner, jobs, keys, lockedBy>>
net  == <<posts, call, sends>>
seen == <<granted, lost, raced>>
vars == <<rows, proc, running, midway, net, ends, seen>>

Init ==
  /\ owner = None
  /\ jobs = <<>>
  /\ keys = {}
  /\ lockedBy = [h \in Handles |-> None]
  /\ proc = [d \in Daemons |-> "down"]
  /\ running = [d \in Daemons |-> {}]
  /\ midway = [d \in Daemons |-> None]
  /\ posts = {}
  /\ call = [c \in Clients |-> "idle"]
  /\ sends = [c \in Clients |-> 0]
  /\ ends = 0
  /\ granted = {} /\ lost = {} /\ raced = FALSE

-----------------------------------------------------------------------------
(* Ownership of the database and the life of a daemon. *)

Listening(d) == proc[d] = "serving"
Starting(d)  == proc[d] \in {"deleting", "inserting"}

\* A live process answers kill(pid, 0); the row's process is the daemon it names.
Alive(d) == proc[d] # "down"

\* No look at whether the process in the row lives.
MayTakeOwnershipBlindly(d) == TRUE

\* acquireOwner, SELECT: a row that names a live process refuses the start.
MayTakeOwnership(d) == owner # None => ~ Alive(owner)

\* The DELETE and the INSERT are statements of their own: another process may
\* have read the same row.
StartRead(d) ==
  /\ proc[d] = "down"
  /\ MayTakeOwnership(d)
  /\ proc' = [proc EXCEPT ![d] = IF owner # None THEN "deleting" ELSE "inserting"]
  /\ raced' = (raced \/ \E e \in Daemons : /\ Starting(e)
                                           /\ "deleting" \in {proc[e], proc'[d]})
  /\ UNCHANGED <<rows, running, midway, net, ends, granted, lost>>

\* acquireOwner, DELETE: whatever row is there now.
StartDelete(d) ==
  /\ proc[d] = "deleting"
  /\ owner' = None
  /\ proc' = [proc EXCEPT ![d] = "inserting"]
  /\ UNCHANGED <<jobs, keys, lockedBy, running, midway, net, ends, seen>>

\* recoverOnStart sees jobs through their unfinished attempts only.
Recovered(j) == IF j.attempt
                THEN [j EXCEPT !.attempt = FALSE, !.status = Moved(@, "needs_recovery")]
                ELSE j

\* acquireOwner, INSERT, then recovery and listen.  The row's primary key makes
\* a second INSERT fail, which ends the process.
StartInsert(d) ==
  /\ proc[d] = "inserting"
  /\ IF owner = None
     THEN /\ owner' = d
          /\ proc' = [proc EXCEPT ![d] = "serving"]
          /\ jobs' = [i \in DOMAIN jobs |-> Recovered(jobs[i])]
     ELSE /\ proc' = [proc EXCEPT ![d] = "down"]
          /\ UNCHANGED <<owner, jobs>>
  /\ UNCHANGED <<keys, lockedBy, running, midway, net, ends, seen>>

\* No handler of d is between two statements of its own.
Idle(d) == midway[d] = None

\* What a process had in memory.
LoopsEnd(d) ==
  /\ running' = [running EXCEPT ![d] = {}]
  /\ midway' = [midway EXCEPT ![d] = None]
  /\ lost' = lost \cup running[d]

\* The sockets of a process that ends: its clients see the call fail.
Disconnect(d) ==
  LET cut == {p \in posts : p.at = d}
  IN  /\ posts' = posts \ cut
      /\ call' = [c \in Clients |->
                    IF \E p \in cut : p.by = c /\ p.n = sends[c] /\ call[c] = "sent"
                    THEN "idle" ELSE call[c]]

\* Also between two statements of a handler.
Crash(d) ==
  /\ Alive(d)
  /\ IF proc[d] \in {"closing", "stopping"} THEN UNCHANGED ends
     ELSE ends < MaxEnds /\ ends' = ends + 1
  /\ proc' = [proc EXCEPT ![d] = "down"]
  /\ LoopsEnd(d)
  /\ Disconnect(d)
  /\ UNCHANGED <<rows, sends, granted, raced>>

\* SIGTERM: api.close stops accepting; posts already accepted are still served.
StopAccepting(d) ==
  /\ Listening(d) /\ Idle(d)
  /\ ends < MaxEnds
  /\ ends' = ends + 1
  /\ proc' = [proc EXCEPT ![d] = "closing"]
  /\ UNCHANGED <<rows, running, midway, net, seen>>

\* The server is closed, by itself or after the grace period, which cuts the
\* posts still being read; then runtime.shutdown sets stopping.
StopRuntime(d) ==
  /\ proc[d] = "closing" /\ Idle(d)
  /\ proc' = [proc EXCEPT ![d] = "stopping"]
  /\ Disconnect(d)
  /\ UNCHANGED <<rows, running, midway, sends, ends, seen>>

\* store.close deletes the row by owner id: a row of another owner stays.
RowAfterClose(d) == IF owner = d THEN None ELSE owner

\* Executions are over or the shutdown deadline has passed.
Exit(d) ==
  /\ proc[d] = "stopping" /\ Idle(d)
  /\ owner' = RowAfterClose(d)
  /\ proc' = [proc EXCEPT ![d] = "down"]
  /\ LoopsEnd(d)
  /\ UNCHANGED <<jobs, keys, lockedBy, net, ends, granted, raced>>

-----------------------------------------------------------------------------
(* The worker client. *)

Serving(d) == proc[d] \in {"serving", "closing"}

\* worker(): POST /v1/jobs; also the retry after a failed call, with the key the
\* first post used.
Send(c, d) ==
  /\ call[c] = "idle"
  /\ sends[c] < MaxSends[c]
  /\ Listening(d)
  /\ sends' = [sends EXCEPT ![c] = @ + 1]
  /\ call' = [call EXCEPT ![c] = "sent"]
  /\ posts' = posts \cup {[by |-> c, n |-> sends[c] + 1, at |-> d]}
  /\ UNCHANGED <<rows, proc, running, midway, ends, seen>>

\* The client's timer fires: the call fails, the server may not notice before
\* it has the body.  (Bound: one that will not post again waits on.)
ClientTimeout(c) ==
  /\ call[c] = "sent"
  /\ sends[c] < MaxSends[c]
  /\ call' = [call EXCEPT ![c] = "idle"]
  /\ UNCHANGED <<rows, proc, running, midway, posts, sends, ends, seen>>

-----------------------------------------------------------------------------
(* POST /v1/jobs, from the moment the body is complete: one segment without *)
(* an await, its statements inside one transaction.                         *)

ActiveJobs(of) == {i \in DOMAIN jobs : jobs[i].status \in NonTerminalRow /\ jobs[i].by \in of}

\* A cap that admits one job too many.
UnderCapsOffByOne(p) ==
  /\ Cardinality(ActiveJobs({p})) <= MaxPerPrincipal
  /\ Cardinality(ActiveJobs({Principal[c] : c \in Clients})) <= MaxGlobal

\* admitNew
UnderCaps(p) ==
  /\ Cardinality(ActiveJobs({p})) < MaxPerPrincipal
  /\ Cardinality(ActiveJobs({Principal[c] : c \in Clients})) < MaxGlobal

\* prepareWorkspace: a fresh directory, or a registered handle of this principal
\* that no job holds.
MayUseWorkspace(p, h) == h # Fresh => WorkspaceOwner[h] = p /\ lockedBy[h] = None

\* A key looked up without its principal.
KeyRowAnyPrincipal(c) == {k \in keys : k.key = Key[c]}

KeyRow(c) == {k \in keys : k.by = Principal[c] /\ k.key = Key[c]}

\* The caps are checked before the key is looked up.
DecisionCapsFirst(c) ==
  IF ~ UnderCaps(Principal[c])                           THEN "over_cap"
  ELSE IF \E k \in KeyRow(c) : k.body # Body[c]          THEN "conflict"
  ELSE IF KeyRow(c) # {}                                 THEN "replayed"
  ELSE IF Body[c] \in Unadmitted                         THEN "refused"
  ELSE IF ~ MayUseWorkspace(Principal[c], Handle[Body[c]]) THEN "refused"
  ELSE "created"

\* idempotentJob: the key first, then the caps, then submit.
Decision(c) ==
  IF \E k \in KeyRow(c) : k.body # Body[c]               THEN "conflict"
  ELSE IF KeyRow(c) # {}                                 THEN "replayed"
  ELSE IF ~ UnderCaps(Principal[c])                      THEN "over_cap"
  ELSE IF Body[c] \in Unadmitted                         THEN "refused"
  ELSE IF ~ MayUseWorkspace(Principal[c], Handle[Body[c]]) THEN "refused"
  ELSE "created"

\* Every answer starts the job it names.
KickedAlways(verdict) == TRUE

\* kick follows a creation, never a replay.
Kicked(verdict) == verdict = "created"

\* runtime.execute up to its first await: a loop begins unless the job is settled.
Loops(verdict, i) == verdict = "created" \/ jobs[i].status \notin Settled

\* The answer reaches the client unless its call was given up.  worker() turns
\* an error into an exception: its caller may post again.
Answer(p, state) ==
  /\ posts' = posts \ {p}
  /\ call' = IF call[p.by] = "sent" /\ p.n = sends[p.by]
             THEN [call EXCEPT ![p.by] = state] ELSE call

\* The rows a refused submission wrote are rolled back with its transaction.
Refuse(p) ==
  /\ Serving(p.at) /\ Idle(p.at)
  /\ Decision(p.by) \in {"conflict", "over_cap", "refused"}
  /\ Answer(p, "idle")
  /\ UNCHANGED <<rows, proc, running, midway, sends, ends, seen>>

\* An id handed out before the row is appended.
NewJobStale == Len(jobs)

NewJob == Len(jobs) + 1

Create(c) ==
  LET i == NewJob
      h == Handle[Body[c]]
  IN  /\ jobs' = Append(jobs, [by |-> Principal[c], key |-> Key[c], body |-> Body[c],
                               status |-> "queued", attempt |-> FALSE])
      /\ keys' = keys \cup (IF Key[c] = NoKey THEN {}
                            ELSE {[by |-> Principal[c], key |-> Key[c],
                                   body |-> Body[c], job |-> i]})
      /\ lockedBy' = IF h = Fresh THEN lockedBy ELSE [lockedBy EXCEPT ![h] = i]

\* The job an accepted post names.
Accept(p) ==
  LET c == p.by
      v == Decision(c)
      i == IF v = "created" THEN NewJob ELSE (CHOOSE k \in KeyRow(c) : TRUE).job
      begins == Kicked(v) /\ i \notin running[p.at] /\ Loops(v, i)
  IN  /\ Serving(p.at) /\ Idle(p.at)
      /\ v \in {"created", "replayed"}
      /\ IF v = "created" THEN Create(c) ELSE UNCHANGED <<jobs, keys, lockedBy>>
      /\ running' = IF begins THEN [running EXCEPT ![p.at] = @ \cup {i}] ELSE running
      /\ Answer(p, "granted")
      /\ granted' = granted \cup {[to |-> c, job |-> i]}
      /\ UNCHANGED <<owner, proc, midway, sends, ends, lost, raced>>

\* body() rejects: too large, not JSON, over the request deadline, or the
\* client is gone.  The answer is an error, or nothing.
RejectBody(p) ==
  /\ Serving(p.at) /\ Idle(p.at)
  /\ Answer(p, "idle")
  /\ UNCHANGED <<rows, proc, running, midway, sends, ends, seen>>

-----------------------------------------------------------------------------
(* Execution and cancellation, as far as admission depends on them. *)

Unlocked(i) == [h \in Handles |-> IF lockedBy[h] = i THEN None ELSE lockedBy[h]]

\* The loop launches an attempt: not once the daemon is stopping or the job is
\* settled.
BeginAttempt(d, i) ==
  /\ Serving(d) /\ Idle(d)
  /\ i \in running[d]
  /\ ~ jobs[i].attempt
  /\ jobs[i].status \in {"queued", "running"}
  /\ jobs' = [jobs EXCEPT ![i].attempt = TRUE, ![i].status = Moved(@, "running")]
  /\ UNCHANGED <<owner, keys, lockedBy, proc, running, midway, net, ends, seen>>

EndAttempt(d, i) ==
  /\ Alive(d) /\ Idle(d)
  /\ i \in running[d]
  /\ jobs[i].attempt
  /\ jobs' = [jobs EXCEPT ![i].attempt = FALSE]
  /\ UNCHANGED <<owner, keys, lockedBy, proc, running, midway, net, ends, seen>>

\* How a loop leaves a job that ran, and one that never got to run.
Verdicts(status) == IF status = "queued" THEN {"failed", "needs_recovery"} \cap JobEnds
                    ELSE JobEnds

\* finishJob, first statement: the row moves, if the table lets it.
Settle(d, i) ==
  /\ Alive(d) /\ Idle(d)
  /\ i \in running[d]
  /\ ~ jobs[i].attempt
  /\ \E to \in Verdicts(jobs[i].status) :
       jobs' = [jobs EXCEPT ![i].status = Moved(@, to)]
  /\ midway' = [midway EXCEPT ![d] = i]
  /\ UNCHANGED <<owner, keys, lockedBy, proc, running, net, ends, seen>>

\* A settled job keeps its workspace.
WorkspaceAfterSettleKept(i) == lockedBy

\* The handle is released when the row is terminal now, not when it is left for
\* recovery.
WorkspaceAfterSettle(i) == IF jobs[i].status \in Terminal THEN Unlocked(i) ELSE lockedBy

\* finishJob, second statement: it commits by itself, and the loop is over.
Release(d) ==
  LET i == midway[d]
  IN  /\ Alive(d) /\ ~ Idle(d)
      /\ lockedBy' = WorkspaceAfterSettle(i)
      /\ running' = [running EXCEPT ![d] = @ \ {i}]
      /\ midway' = [midway EXCEPT ![d] = None]
      /\ UNCHANGED <<owner, jobs, keys, proc, net, ends, seen>>

\* POST cancel of a job without a run in flight: the row moves at once, and the
\* handle is left to the loop, if the job has one.
Cancel(d, i) ==
  /\ Serving(d) /\ Idle(d)
  /\ i \in DOMAIN jobs
  /\ jobs[i].status \notin Settled
  /\ ~ jobs[i].attempt
  /\ jobs' = [jobs EXCEPT ![i].status = Moved(@, "cancelled")]
  /\ UNCHANGED <<owner, keys, lockedBy, proc, running, midway, net, ends, seen>>

-----------------------------------------------------------------------------
Next ==
  \/ \E d \in Daemons :
       \/ StartRead(d) \/ StartDelete(d) \/ StartInsert(d)
       \/ Crash(d) \/ StopAccepting(d) \/ StopRuntime(d) \/ Exit(d) \/ Release(d)
       \/ \E c \in Clients : Send(c, d)
       \/ \E i \in DOMAIN jobs : BeginAttempt(d, i) \/ EndAttempt(d, i)
                                 \/ Settle(d, i) \/ Cancel(d, i)
  \/ \E c \in Clients : ClientTimeout(c)
  \/ \E p \in posts : Refuse(p) \/ Accept(p) \/ RejectBody(p)

Spec == Init /\ [][Next]_vars

-----------------------------------------------------------------------------
(* Properties. *)

Job == [by : {Principal[c] : c \in Clients}, key : {Key[c] : c \in Clients},
        body : {Body[c] : c \in Clients}, status : JobState, attempt : BOOLEAN]

\* Every variable has its type: the rows, the processes, the requests and the
\* calls of POST /v1/jobs.
TypeOK ==
  /\ owner \in Daemons \cup {None}
  /\ jobs \in Seq(Job)
  /\ keys \subseteq [by : {Principal[c] : c \in Clients}, key : {Key[c] : c \in Clients} \ {NoKey},
                     body : {Body[c] : c \in Clients}, job : DOMAIN jobs]
  /\ lockedBy \in [Handles -> DOMAIN jobs \cup {None}]
  /\ proc \in [Daemons -> {"down", "deleting", "inserting", "serving", "closing", "stopping"}]
  /\ running \in [Daemons -> SUBSET DOMAIN jobs]
  /\ midway \in [Daemons -> DOMAIN jobs \cup {None}]
  /\ posts \subseteq [by : Clients, n : Nat, at : Daemons]
  /\ call \in [Clients -> {"idle", "sent", "granted"}]
  /\ sends \in [Clients -> Nat]
  /\ ends \in Nat
  /\ granted \subseteq [to : Clients, job : DOMAIN jobs]
  /\ lost \subseteq DOMAIN jobs /\ raced \in BOOLEAN

PastStart(d) == Serving(d) \/ proc[d] = "stopping"

\* Whatever daemons are started, stopped or die, the one past its start is the one the
\* ownership row names, and there is no other; the only way to two is that two of them
\* were starting at once and at least one of these had read the row of a dead process
\* (acquireOwner, whose statements are not one transaction).
SingleOwner == raced \/ \A d \in Daemons : PastStart(d) => owner = d

\* However often a post is retried, answered late or repeated after a restart,
\* one principal and key name one job, which is the principal's own and was made
\* from the body that was posted (idempotentJob).
OneJobPerKey ==
  /\ \A g \in granted :
       /\ jobs[g.job].by = Principal[g.to]
       /\ jobs[g.job].body = Body[g.to]
       /\ jobs[g.job].key = Key[g.to]
  /\ \A i, j \in DOMAIN jobs :
       jobs[i].key # NoKey /\ jobs[i].by = jobs[j].by /\ jobs[i].key = jobs[j].key => i = j

\* Concurrent submissions never take a principal, or the router, over its cap of
\* unsettled jobs (admitNew inside the transaction).
CapsRespected ==
  /\ \A c \in Clients : Cardinality(ActiveJobs({Principal[c]})) <= MaxPerPrincipal
  /\ Cardinality(ActiveJobs({Principal[c] : c \in Clients})) <= MaxGlobal

\* A retry of a post that was admitted is never refused for capacity or because
\* its own job holds the workspace (the key is looked up before both).
ReplayHonoured ==
  \A c \in Clients, i \in DOMAIN jobs :
    /\ Key[c] # NoKey
    /\ jobs[i].key = Key[c] /\ jobs[i].by = Principal[c] /\ jobs[i].body = Body[c]
    => Decision(c) = "replayed"

Orphan(i) == /\ \A d \in Daemons : i \notin running[d]
             /\ jobs[i].status \notin Settled

\* An unsettled job whose loop died with its daemon is never run again: recovery
\* settles it if it had an unfinished attempt, otherwise only a cancel does, and
\* until then it counts against the caps (nonTerminalAttempts, kick).
OrphanNeverRun ==
  [][\A i \in DOMAIN jobs :
       Orphan(i) => /\ jobs'[i].status \in {jobs[i].status, "cancelled", "needs_recovery"}
                    /\ jobs'[i].status = "needs_recovery" => jobs[i].attempt
                    /\ \A d \in Daemons : i \notin running'[d]]_vars

\* A locked workspace is held by a job of its principal that asked for it.  If that job
\* is over, its loop is still to release the workspace, after a cancel or between the two
\* statements of finishJob, or that loop was lost with its daemon: a job whose loop
\* came to its end keeps no workspace (prepareWorkspace, finishJob, cancel).
LockExplained ==
  \A h \in Handles : lockedBy[h] # None =>
    LET i == lockedBy[h]
    IN  /\ jobs[i].by = WorkspaceOwner[h] /\ Handle[jobs[i].body] = h
        /\ jobs[i].status \in Terminal =>
             \/ i \in lost
             \/ \E d \in Daemons : /\ i \in running[d]
                                   /\ jobs[i].status = "cancelled" \/ midway[d] = i
=============================================================================
