-------------------------- MODULE AdmissionProofs --------------------------
(***************************************************************************)
(* Proofs about Admission, for every set of clients, keys, bodies and      *)
(* workspaces, every number of daemons, posts and crashes, and every cap.  *)
(***************************************************************************)
EXTENDS Admission, SequenceTheorems, FiniteSetTheorems, TLAPS

-----------------------------------------------------------------------------
(* What a step may do to the job rows. *)

LEMMA JobSeq ==
  ASSUME jobs \in Seq(Job)
  PROVE  /\ Len(jobs) \in Nat /\ DOMAIN jobs = 1 .. Len(jobs)
         /\ \A i \in DOMAIN jobs : jobs[i] \in Job
BY LenProperties, ElementOfSeq

LEMMA MovedType ==
  ASSUME NEW from \in JobState, NEW to \in JobState
  PROVE  Moved(from, to) \in JobState
BY DEF Moved

LEMMA UpdatedRow ==
  ASSUME jobs \in Seq(Job), NEW i \in DOMAIN jobs, NEW s \in JobState, NEW a \in BOOLEAN
  PROVE  /\ [jobs EXCEPT ![i] = [@ EXCEPT !.attempt = a]] \in Seq(Job)
         /\ [jobs EXCEPT ![i] = [@ EXCEPT !.status = s]] \in Seq(Job)
         /\ [jobs EXCEPT ![i] = [@ EXCEPT !.attempt = a, !.status = s]] \in Seq(Job)
<1>1. /\ [jobs[i] EXCEPT !.attempt = a] \in Job
      /\ [jobs[i] EXCEPT !.status = s] \in Job
      /\ [jobs[i] EXCEPT !.attempt = a, !.status = s] \in Job
  BY JobSeq DEF Job
<1>2. \A r \in Job : [jobs EXCEPT ![i] = r] \in Seq(Job)
  BY JobSeq, ExceptSeq
<1>3. QED
  BY <1>1, <1>2

\* The rows are those of before; a settled job stays settled.
RowsKept ==
  /\ jobs' \in Seq(Job) /\ Len(jobs') = Len(jobs) /\ DOMAIN jobs' = DOMAIN jobs
  /\ \A i \in DOMAIN jobs :
       /\ jobs'[i].by = jobs[i].by /\ jobs'[i].key = jobs[i].key
       /\ jobs'[i].body = jobs[i].body
       /\ jobs[i].status \in Settled => jobs'[i].status \in Settled

LEMMA SameRows ==
  ASSUME TypeOK, UNCHANGED jobs
  PROVE  RowsKept
BY DEF TypeOK, RowsKept

\* A step that changes one row.
LEMMA OneRow ==
  ASSUME TypeOK, NEW i \in DOMAIN jobs, NEW s \in JobState, NEW a \in BOOLEAN,
         jobs[i].status \in Settled => s \in Settled,
         \/ jobs' = [jobs EXCEPT ![i].attempt = a] 
         \/ jobs' = [jobs EXCEPT ![i].status = s]
         \/ jobs' = [jobs EXCEPT ![i].attempt = a, ![i].status = s]
  PROVE  RowsKept
<1> DEFINE r == jobs'[i]
<1>1. jobs \in Seq(Job)
  BY DEF TypeOK
<1>2. jobs[i] \in Job
  BY <1>1, JobSeq
<1>3. /\ r \in Job
      /\ r.by = jobs[i].by /\ r.key = jobs[i].key /\ r.body = jobs[i].body
      /\ jobs[i].status \in Settled => r.status \in Settled
      /\ jobs' = [jobs EXCEPT ![i] = r]
  BY <1>1, <1>2, JobSeq DEF Job
<1> HIDE DEF r
<1>4. /\ jobs' \in Seq(Job) /\ Len(jobs') = Len(jobs)
      /\ \A k \in 1 .. Len(jobs) : jobs'[k] = IF k = i THEN r ELSE jobs[k]
  BY <1>1, <1>3, JobSeq, ExceptSeq
<1>5. QED
  BY <1>1, <1>3, <1>4, JobSeq, LenProperties DEF RowsKept

LEMMA RecoveredRows ==
  ASSUME TypeOK, jobs' = [i \in DOMAIN jobs |-> Recovered(jobs[i])]
  PROVE  RowsKept
<1>1. jobs \in Seq(Job)
  BY DEF TypeOK
<1>2. \A r \in Job : /\ Recovered(r) \in Job
                     /\ Recovered(r).by = r.by /\ Recovered(r).key = r.key
                     /\ Recovered(r).body = r.body
                     /\ r.status \in Settled => Recovered(r).status \in Settled
  <2> SUFFICES ASSUME NEW r \in Job
               PROVE  /\ Recovered(r) \in Job
                      /\ Recovered(r).by = r.by /\ Recovered(r).key = r.key
                      /\ Recovered(r).body = r.body
                      /\ r.status \in Settled => Recovered(r).status \in Settled
    OBVIOUS
  <2>1. /\ Moved(r.status, "needs_recovery") \in JobState
        /\ r.status \in Settled => Moved(r.status, "needs_recovery") \in Settled
    BY MovedType DEF Job, JobState, Moved, Settled
  <2>2. QED
    BY <2>1 DEF Recovered, Job
<1>3. Len(jobs) \in Nat /\ DOMAIN jobs = 1 .. Len(jobs) /\ \A i \in DOMAIN jobs : jobs[i] \in Job
  BY <1>1, JobSeq
<1>4. jobs' \in Seq(Job)
  <2>1. jobs' \in [1 .. Len(jobs) -> Job]
    BY <1>2, <1>3
  <2>2. QED
    BY <1>3, <2>1, SeqDef
<1>5. Len(jobs') = Len(jobs) /\ DOMAIN jobs' = DOMAIN jobs
  BY <1>3, <1>4, LenProperties
<1>6. QED
  BY <1>2, <1>3, <1>4, <1>5 DEF RowsKept

LEMMA BeginRow ==
  ASSUME TypeOK, NEW d \in Daemons, NEW i \in DOMAIN jobs, BeginAttempt(d, i)
  PROVE  RowsKept
<1>1. jobs[i].status \notin Settled
  BY DEF BeginAttempt, Settled, Terminal
<1>2. Moved(jobs[i].status, "running") \in JobState
  BY JobSeq, MovedType DEF TypeOK, Job, JobState
<1>3. jobs' = [jobs EXCEPT ![i].attempt = TRUE, ![i].status = Moved(jobs[i].status, "running")]
  BY DEF BeginAttempt
<1>4. QED
  BY <1>1, <1>2, <1>3, OneRow

LEMMA EndRow ==
  ASSUME TypeOK, NEW d \in Daemons, NEW i \in DOMAIN jobs, EndAttempt(d, i)
  PROVE  RowsKept
<1>1. jobs[i].status \in JobState
  BY JobSeq DEF TypeOK, Job
<1>2. jobs' = [jobs EXCEPT ![i].attempt = FALSE]
  BY DEF EndAttempt
<1>3. QED
  BY <1>1, <1>2, OneRow

LEMMA SettleRow ==
  ASSUME TypeOK, NEW d \in Daemons, NEW i \in DOMAIN jobs, Settle(d, i)
  PROVE  RowsKept
<1>1. PICK to \in Verdicts(jobs[i].status) :
        jobs' = [jobs EXCEPT ![i].status = Moved(jobs[i].status, to)]
  BY DEF Settle
<1>2. to \in Settled
  BY AdmissionAssumption DEF Verdicts, AdmissionAssumption
<1>3. jobs[i].status \in JobState
  BY JobSeq DEF TypeOK, Job
<1>4. /\ Moved(jobs[i].status, to) \in JobState
      /\ jobs[i].status \in Settled => Moved(jobs[i].status, to) \in Settled
  BY <1>2, <1>3 DEF Moved, Settled, Terminal, JobState
<1>5. QED
  BY <1>1, <1>4, OneRow

LEMMA CancelRow ==
  ASSUME TypeOK, NEW d \in Daemons, NEW i \in DOMAIN jobs, Cancel(d, i)
  PROVE  RowsKept
<1>1. jobs[i].status \notin Settled
  BY DEF Cancel
<1>2. Moved(jobs[i].status, "cancelled") \in JobState
  BY JobSeq, MovedType DEF TypeOK, Job, JobState
<1>3. jobs' = [jobs EXCEPT ![i].status = Moved(jobs[i].status, "cancelled")]
  BY DEF Cancel
<1>4. QED
  BY <1>1, <1>2, <1>3, OneRow

\* A post that makes a job.
Creates(p) == Accept(p) /\ Decision(p.by) = "created"

NewRow(c) == [by |-> Principal[c], key |-> Key[c], body |-> Body[c],
              status |-> "queued", attempt |-> FALSE]

LEMMA CreatedRow ==
  ASSUME TypeOK, NEW p \in posts, Creates(p)
  PROVE  /\ p.by \in Clients
         /\ jobs' = Append(jobs, NewRow(p.by)) /\ jobs' \in Seq(Job)
         /\ NewJob \in Nat /\ NewJob \notin DOMAIN jobs
         /\ DOMAIN jobs' = DOMAIN jobs \cup {NewJob}
         /\ jobs'[NewJob] = NewRow(p.by)
         /\ \A i \in DOMAIN jobs : jobs'[i] = jobs[i]
<1>1. jobs \in Seq(Job) /\ p.by \in Clients
  BY DEF TypeOK
<1>2. NewRow(p.by) \in Job
  BY <1>1 DEF NewRow, Job, JobState
<1>3. jobs' = Append(jobs, NewRow(p.by))
  BY DEF Creates, Accept, Create, NewRow
<1>4. QED
  BY <1>1, <1>2, <1>3, JobSeq, AppendProperties, LenProperties DEF NewJob

\* Every step keeps the rows or adds one.
LEMMA RowsStep ==
  ASSUME TypeOK, [Next]_vars
  PROVE  RowsKept \/ \E p \in posts : Creates(p)
<1>1. CASE UNCHANGED vars
  BY <1>1, SameRows DEF vars, rows
<1>2. ASSUME NEW d \in Daemons,
             \/ StartRead(d) \/ StartDelete(d) \/ Crash(d) \/ StopAccepting(d)
             \/ StopRuntime(d) \/ Exit(d) \/ Release(d) \/ \E c \in Clients : Send(c, d)
      PROVE  RowsKept
  BY <1>2, SameRows DEF StartRead, StartDelete, Crash, StopAccepting, StopRuntime, Exit,
     Release, Send, rows
<1>3. ASSUME NEW d \in Daemons, StartInsert(d) PROVE RowsKept
  BY <1>3, SameRows, RecoveredRows DEF StartInsert
<1>4. ASSUME NEW d \in Daemons, NEW i \in DOMAIN jobs,
             BeginAttempt(d, i) \/ EndAttempt(d, i) \/ Settle(d, i) \/ Cancel(d, i)
      PROVE  RowsKept
  BY <1>4, BeginRow, EndRow, SettleRow, CancelRow
<1>5. ASSUME NEW c \in Clients, ClientTimeout(c) PROVE RowsKept
  BY <1>5, SameRows DEF ClientTimeout, rows
<1>6. ASSUME NEW p \in posts, Refuse(p) \/ RejectBody(p) PROVE RowsKept
  BY <1>6, SameRows DEF Refuse, RejectBody, rows
<1>7. ASSUME NEW p \in posts, Accept(p) PROVE RowsKept \/ Creates(p)
  <2>1. CASE Decision(p.by) = "created"
    BY <1>7, <2>1 DEF Creates
  <2>2. CASE Decision(p.by) # "created"
    <3>1. UNCHANGED jobs
      BY <1>7, <2>2 DEF Accept
    <3>2. QED
      BY <3>1, SameRows
  <2>3. QED
    BY <2>1, <2>2
<1>8. QED
  BY <1>1, <1>2, <1>3, <1>4, <1>5, <1>6, <1>7 DEF Next

-----------------------------------------------------------------------------
(* Types. *)

\* The job a successful post names has a row.
LEMMA NamedJob ==
  ASSUME TypeOK, NEW c \in Clients, Decision(c) = "replayed"
  PROVE  /\ (CHOOSE k \in KeyRow(c) : TRUE) \in keys
         /\ (CHOOSE k \in KeyRow(c) : TRUE) \in KeyRow(c)
         /\ (CHOOSE k \in KeyRow(c) : TRUE).job \in DOMAIN jobs
<1>1. KeyRow(c) # {}
  BY DEF Decision
<1>2. (CHOOSE k \in KeyRow(c) : TRUE) \in KeyRow(c)
  BY <1>1
<1>3. QED
  BY <1>2 DEF KeyRow, TypeOK

LEMMA DisconnectType ==
  ASSUME TypeOK, NEW d, Disconnect(d)
  PROVE  /\ posts' \subseteq posts
         /\ call' \in [Clients -> {"idle", "sent", "granted"}]
BY DEF TypeOK, Disconnect

LEMMA AnswerType ==
  ASSUME TypeOK, NEW p, NEW state \in {"idle", "granted"}, Answer(p, state)
  PROVE  /\ posts' \subseteq posts
         /\ call' \in [Clients -> {"idle", "sent", "granted"}]
BY DEF TypeOK, Answer

\* The variables whose types do not depend on the job rows.
NetTypes ==
  /\ owner \in Daemons \cup {None}
  /\ proc \in [Daemons -> {"down", "deleting", "inserting", "serving", "closing", "stopping"}]
  /\ posts \subseteq [by : Clients, n : Nat, at : Daemons]
  /\ call \in [Clients -> {"idle", "sent", "granted"}]
  /\ sends \in [Clients -> Nat]
  /\ ends \in Nat
  /\ raced \in BOOLEAN

\* Those that name jobs.
NameTypes ==
  /\ keys \subseteq [by : {Principal[c] : c \in Clients}, key : {Key[c] : c \in Clients} \ {NoKey},
                     body : {Body[c] : c \in Clients}, job : DOMAIN jobs]
  /\ lockedBy \in [Handles -> DOMAIN jobs \cup {None}]
  /\ running \in [Daemons -> SUBSET DOMAIN jobs]
  /\ midway \in [Daemons -> DOMAIN jobs \cup {None}]
  /\ granted \subseteq [to : Clients, job : DOMAIN jobs]
  /\ lost \subseteq DOMAIN jobs

LEMMA NetStep ==
  ASSUME TypeOK, [Next]_vars
  PROVE  NetTypes'
<1>0. NetTypes
  BY DEF TypeOK, NetTypes
<1>1. CASE UNCHANGED vars
  BY <1>0, <1>1 DEF vars, rows, net, seen, NetTypes
<1>2. ASSUME NEW d \in Daemons, StartRead(d) \/ StartDelete(d) \/ StartInsert(d) PROVE NetTypes'
  BY <1>0, <1>2 DEF StartRead, StartDelete, StartInsert, rows, net, seen, NetTypes
<1>3. ASSUME NEW d \in Daemons, StopAccepting(d) \/ Exit(d) PROVE NetTypes'
  BY <1>0, <1>3 DEF StopAccepting, Exit, RowAfterClose, rows, net, seen, NetTypes
<1>4. ASSUME NEW d \in Daemons, Crash(d) \/ StopRuntime(d) PROVE NetTypes'
  <2>1. /\ posts' \subseteq posts
        /\ call' \in [Clients -> {"idle", "sent", "granted"}]
    BY <1>4, DisconnectType DEF Crash, StopRuntime
  <2>2. QED
    BY <1>0, <1>4, <2>1 DEF Crash, StopRuntime, rows, seen, NetTypes
<1>5. ASSUME NEW d \in Daemons, NEW c \in Clients, Send(c, d) PROVE NetTypes'
  BY <1>0, <1>5 DEF Send, rows, seen, NetTypes
<1>6. ASSUME NEW d \in Daemons, NEW i \in DOMAIN jobs,
             BeginAttempt(d, i) \/ EndAttempt(d, i) \/ Settle(d, i) \/ Cancel(d, i)
      PROVE  NetTypes'
  BY <1>0, <1>6 DEF BeginAttempt, EndAttempt, Settle, Cancel, net, seen, NetTypes
<1>7. ASSUME NEW c \in Clients, ClientTimeout(c) PROVE NetTypes'
  BY <1>0, <1>7 DEF ClientTimeout, rows, seen, NetTypes
<1>8. ASSUME NEW p \in posts, Refuse(p) \/ Accept(p) \/ RejectBody(p) PROVE NetTypes'
  <2>1. /\ posts' \subseteq posts
        /\ call' \in [Clients -> {"idle", "sent", "granted"}]
    BY <1>8, AnswerType DEF Refuse, Accept, RejectBody
  <2>2. UNCHANGED <<owner, proc, sends, ends, raced>>
    BY <1>8 DEF Refuse, Accept, RejectBody, rows, seen
  <2>3. QED
    BY <1>0, <2>1, <2>2 DEF NetTypes
<1>9. ASSUME NEW d \in Daemons, Release(d) PROVE NetTypes'
  BY <1>0, <1>9 DEF Release, net, seen, NetTypes
<1>10. QED
  BY <1>1, <1>2, <1>3, <1>4, <1>5, <1>6, <1>7, <1>8, <1>9 DEF Next

LEMMA NameStep ==
  ASSUME TypeOK, [Next]_vars
  PROVE  NameTypes'
<1>0. NameTypes
  BY DEF TypeOK, NameTypes
<1>1. CASE RowsKept
  <2>0. DOMAIN jobs' = DOMAIN jobs
    BY <1>1 DEF RowsKept
  <2>1. CASE UNCHANGED <<keys, lockedBy, running, midway, granted, lost>>
    BY <1>0, <2>0, <2>1 DEF NameTypes
  <2>2. ASSUME NEW d \in Daemons, Crash(d) \/ Exit(d) PROVE NameTypes'
    BY <1>0, <2>0, <2>2 DEF Crash, Exit, LoopsEnd, rows, NameTypes
  <2>3. ASSUME NEW d \in Daemons, Release(d) \/ \E i \in DOMAIN jobs : Settle(d, i)
        PROVE  NameTypes'
    BY <1>0, <2>0, <2>3 DEF Settle, Release, WorkspaceAfterSettle, Unlocked, seen, NameTypes
  <2>4. ASSUME NEW p \in posts, Accept(p) PROVE NameTypes'
    <3>1. Decision(p.by) = "replayed"
      <4>1. SUFFICES Decision(p.by) # "created"
        BY <2>4 DEF Accept
      <4>2. ~ Creates(p)
        BY <2>0, CreatedRow
      <4>3. QED
        BY <2>4, <4>2 DEF Creates
    <3>2. p.by \in Clients
      BY DEF TypeOK
    <3>3. UNCHANGED <<keys, lockedBy, running, midway, lost>>
      BY <2>4, <3>1 DEF Accept, Kicked
    <3>4. granted' = granted \cup {[to |-> p.by, job |-> (CHOOSE k \in KeyRow(p.by) : TRUE).job]}
      BY <2>4, <3>1 DEF Accept
    <3>5. QED
      BY <1>0, <2>0, <3>1, <3>2, <3>3, <3>4, NamedJob DEF NameTypes
  <2>5. QED
    BY <2>1, <2>2, <2>3, <2>4 DEF Next, vars, rows, net, seen, StartRead, StartDelete,
       StartInsert, StopAccepting, StopRuntime, Send, BeginAttempt, EndAttempt, Cancel,
       ClientTimeout, Refuse, RejectBody
<1>2. ASSUME NEW p \in posts, Creates(p) PROVE NameTypes'
  <2> DEFINE c == p.by
             i == NewJob
  <2>1. c \in Clients /\ DOMAIN jobs' = DOMAIN jobs \cup {i}
    BY <1>2, CreatedRow
  <2>2. Create(c) /\ running' \in [Daemons -> SUBSET DOMAIN jobs']
    BY <1>0, <1>2, <2>1 DEF Creates, Accept, NameTypes
  <2>3. granted' = granted \cup {[to |-> c, job |-> i]}
    BY <1>2 DEF Creates, Accept
  <2>4. keys' \subseteq [by : {Principal[b] : b \in Clients}, key : {Key[b] : b \in Clients} \ {NoKey},
                         body : {Body[b] : b \in Clients}, job : DOMAIN jobs']
    BY <1>0, <2>1, <2>2 DEF Create, NameTypes
  <2>5. lockedBy' \in [Handles -> DOMAIN jobs' \cup {None}]
    BY <1>0, <2>1, <2>2 DEF Create, NameTypes
  <2>6. UNCHANGED <<midway, lost>>
    BY <1>2 DEF Creates, Accept
  <2>7. QED
    BY <1>0, <2>1, <2>2, <2>3, <2>4, <2>5, <2>6 DEF NameTypes
<1>3. QED
  BY <1>1, <1>2, RowsStep

LEMMA TypeInit == Init => TypeOK
<1> SUFFICES ASSUME Init PROVE TypeOK
  OBVIOUS
<1>1. jobs \in Seq(Job) /\ raced \in BOOLEAN
  BY EmptySeq DEF Init
<1>2. NetTypes
  BY DEF Init, NetTypes
<1>3. NameTypes
  BY DEF Init, NameTypes
<1>4. QED
  BY <1>1, <1>2, <1>3 DEF Init, TypeOK, NetTypes, NameTypes

LEMMA TypeStep == TypeOK /\ [Next]_vars => TypeOK'
<1> SUFFICES ASSUME TypeOK, [Next]_vars PROVE TypeOK'
  OBVIOUS
<1>1. jobs' \in Seq(Job)
  BY RowsStep, CreatedRow DEF RowsKept
<1>2. NetTypes' /\ NameTypes'
  BY NetStep, NameStep
<1>3. QED
  BY <1>1, <1>2 DEF TypeOK, NetTypes, NameTypes

\* Type correctness: rows, requests, calls and processes keep to the values the code
\* can give them, whatever clients and daemons do.
THEOREM TypeCorrect == Spec => []TypeOK
BY TypeInit, TypeStep, PTL DEF Spec

-----------------------------------------------------------------------------
(* Ownership of the database. *)

\* A daemon that is about to delete the row of a dead one is the only process alive.
DeletesAlone ==
  \A d, e \in Daemons : proc[d] = "deleting" /\ e # d => proc[e] = "down"

RowNamesOwner == \A d \in Daemons : PastStart(d) => owner = d

OwnerInv == raced \/ (RowNamesOwner /\ DeletesAlone)

LEMMA OwnerStep ==
  ASSUME TypeOK, OwnerInv, [Next]_vars
  PROVE  OwnerInv'
<1> USE DEF RowNamesOwner, DeletesAlone, PastStart, Serving, Starting
<1>0. /\ owner \in Daemons \cup {None} /\ None \notin Daemons
      /\ proc \in [Daemons -> {"down", "deleting", "inserting", "serving", "closing", "stopping"}]
  BY AdmissionAssumption DEF TypeOK, AdmissionAssumption
<1>1. CASE UNCHANGED <<owner, proc, raced>>
  BY <1>1 DEF OwnerInv
<1>2. CASE raced /\ raced'
  BY <1>2 DEF OwnerInv
<1>3. ASSUME RowNamesOwner, DeletesAlone, NEW d \in Daemons, StartRead(d), ~ raced'
      PROVE  OwnerInv'
  <2> DEFINE to == IF owner # None THEN "deleting" ELSE "inserting"
  <2>0. owner' = owner /\ proc[d] = "down" /\ proc' = [proc EXCEPT ![d] = to]
    BY <1>3 DEF StartRead, rows
  <2>1. /\ owner' = owner /\ proc[d] = "down"
        /\ proc'[d] = to
        /\ \A e \in Daemons : e # d => proc'[e] = proc[e]
    BY <1>0, <2>0
  <2>2. \A e \in Daemons : Starting(e) => "deleting" \notin {proc[e], proc'[d]}
    BY <1>3 DEF StartRead
  <2>3. owner # None => \A e \in Daemons : e # d => proc[e] = "down"
    <3> SUFFICES ASSUME owner # None, NEW e \in Daemons, e # d PROVE proc[e] = "down"
      OBVIOUS
    <3>1. proc[owner] = "down" /\ ~ Starting(e)
      BY <1>3, <2>1, <2>2 DEF StartRead, MayTakeOwnership, Alive
    <3>2. ~ PastStart(e)
      BY <1>3, <3>1
    <3>3. QED
      BY <1>0, <3>1, <3>2
  <2>4. QED
    BY <1>0, <1>3, <2>1, <2>2, <2>3 DEF OwnerInv
<1>4. ASSUME RowNamesOwner, DeletesAlone, NEW d \in Daemons, StartDelete(d) PROVE OwnerInv'
  <2>1. /\ owner' = None /\ proc'[d] = "inserting"
        /\ \A e \in Daemons : e # d => proc[e] = "down" /\ proc'[e] = "down"
    BY <1>0, <1>4 DEF StartDelete
  <2>2. QED
    BY <2>1 DEF OwnerInv
<1>5. ASSUME RowNamesOwner, DeletesAlone, NEW d \in Daemons, StartInsert(d) PROVE OwnerInv'
  <2>1. \A e \in Daemons : e # d => proc'[e] = proc[e]
    BY <1>0, <1>5 DEF StartInsert
  <2>2. \/ owner = None /\ owner' = d /\ proc'[d] = "serving"
        \/ owner' = owner /\ proc'[d] = "down"
    BY <1>0, <1>5 DEF StartInsert
  <2>3. proc[d] = "inserting"
    BY <1>5 DEF StartInsert
  <2>4. DeletesAlone'
    BY <1>5, <2>1, <2>2, <2>3
  <2>5. RowNamesOwner'
    BY <1>0, <1>5, <2>1, <2>2
  <2>6. QED
    BY <2>4, <2>5 DEF OwnerInv
<1>6. ASSUME RowNamesOwner, DeletesAlone, NEW d \in Daemons,
             Crash(d) \/ StopAccepting(d) \/ StopRuntime(d)
      PROVE  OwnerInv'
  <2>1. owner' = owner
    BY <1>6 DEF Crash, StopAccepting, StopRuntime, rows
  <2>2. \A e \in Daemons : e # d => proc'[e] = proc[e]
    BY <1>0, <1>6 DEF Crash, StopAccepting, StopRuntime
  <2>3. \/ proc'[d] = "down"
        \/ proc[d] \in {"serving", "closing"} /\ proc'[d] \in {"closing", "stopping"}
    BY <1>0, <1>6 DEF Crash, StopAccepting, StopRuntime, Listening
  <2>4. QED
    BY <1>0, <1>6, <2>1, <2>2, <2>3 DEF OwnerInv
<1>7. ASSUME RowNamesOwner, DeletesAlone, NEW d \in Daemons, Exit(d) PROVE OwnerInv'
  <2>1. proc[d] = "stopping" /\ owner = d /\ owner' = None
    BY <1>7 DEF Exit, RowAfterClose
  <2>2. \A e \in Daemons : proc'[e] = IF e = d THEN "down" ELSE proc[e]
    BY <1>0, <1>7 DEF Exit
  <2>3. QED
    BY <1>0, <1>7, <2>1, <2>2 DEF OwnerInv
<1>8. raced => raced'
  BY DEF Next, vars, seen, StartRead, StartDelete, StartInsert, Crash, StopAccepting,
     StopRuntime, Exit, Release, Send, BeginAttempt, EndAttempt, Settle, Cancel, ClientTimeout,
     Refuse, Accept, RejectBody
<1>9. CASE ~ raced
  <2>1. RowNamesOwner /\ DeletesAlone
    BY <1>9 DEF OwnerInv
  <2>2. CASE raced'
    BY <2>2 DEF OwnerInv
  <2>3. CASE ~ raced'
    <3>1. UNCHANGED raced
      BY <1>9, <2>3 DEF TypeOK, Next, vars, seen, StartRead, StartDelete, StartInsert, Crash,
         StopAccepting, StopRuntime, Exit, Release, Send, BeginAttempt, EndAttempt, Settle,
         Cancel, ClientTimeout, Refuse, Accept, RejectBody
    <3>2. QED
      BY <1>1, <1>3, <1>4, <1>5, <1>6, <1>7, <2>1, <2>3, <3>1 DEF Next, vars, rows, seen,
         Release, Send, BeginAttempt, EndAttempt, Settle, Cancel, ClientTimeout, Refuse,
         Accept, RejectBody
  <2>4. QED
    BY <2>2, <2>3
<1>10. QED
  BY <1>2, <1>8, <1>9

\* For any number of daemons, starts, stops and crashes: only daemons that started at
\* once, over the row of a dead process, can both be past their start; otherwise there
\* is one, and the row names it (acquireOwner).
THEOREM OwnerUnique == Spec => []SingleOwner
<1>1. Init => OwnerInv
  BY DEF Init, OwnerInv, RowNamesOwner, DeletesAlone, PastStart, Serving
<1>2. TypeOK /\ OwnerInv /\ [Next]_vars => OwnerInv'
  BY OwnerStep
<1>3. OwnerInv => SingleOwner
  BY DEF OwnerInv, RowNamesOwner, SingleOwner
<1>4. QED
  BY <1>1, <1>2, <1>3, TypeCorrect, PTL DEF Spec

-----------------------------------------------------------------------------
(* Idempotency keys. *)

\* The rows of idempotency_keys are just the jobs that were posted with a key, and no
\* two of these jobs share principal and key.
KeysNameJobs ==
  /\ \A k \in keys : /\ jobs[k.job].by = k.by /\ jobs[k.job].key = k.key
                     /\ jobs[k.job].body = k.body
  /\ \A i \in DOMAIN jobs : jobs[i].key # NoKey =>
       \E k \in keys : k.by = jobs[i].by /\ k.key = jobs[i].key /\ k.job = i
  /\ \A i, j \in DOMAIN jobs :
       jobs[i].key # NoKey /\ jobs[i].by = jobs[j].by /\ jobs[i].key = jobs[j].key => i = j

\* Every answer named the client's own job.
AnswersRight ==
  \A g \in granted : /\ jobs[g.job].by = Principal[g.to]
                     /\ jobs[g.job].body = Body[g.to]
                     /\ jobs[g.job].key = Key[g.to]

KeyInv == KeysNameJobs /\ AnswersRight

LEMMA KeyKept ==
  ASSUME TypeOK, KeyInv, RowsKept, UNCHANGED <<keys, granted>>
  PROVE  KeyInv'
<1>1. \A k \in keys : k.job \in DOMAIN jobs
  BY DEF TypeOK
<1>2. \A g \in granted : g.job \in DOMAIN jobs
  BY DEF TypeOK
<1>3. KeysNameJobs'
  BY <1>1 DEF KeyInv, KeysNameJobs, RowsKept
<1>4. AnswersRight'
  BY <1>2 DEF KeyInv, AnswersRight, RowsKept
<1>5. QED
  BY <1>3, <1>4 DEF KeyInv

LEMMA KeyReplayed ==
  ASSUME TypeOK, KeyInv, NEW p \in posts, Accept(p), Decision(p.by) = "replayed"
  PROVE  KeyInv'
<1> DEFINE c == p.by
           k == CHOOSE r \in KeyRow(c) : TRUE
<1>0. c \in Clients
  BY DEF TypeOK
<1>1. k \in keys /\ k \in KeyRow(c) /\ k.job \in DOMAIN jobs
  BY <1>0, NamedJob
<1>2. k.body = Body[c]
  BY <1>1 DEF Decision
<1>3. k.by = Principal[c] /\ k.key = Key[c]
  BY <1>1 DEF KeyRow
<1>4. granted' = granted \cup {[to |-> c, job |-> k.job]}
  BY DEF Accept
<1>5. UNCHANGED <<jobs, keys>>
  BY DEF Accept
<1>6. KeysNameJobs'
  BY <1>5 DEF KeyInv, KeysNameJobs
<1>7. AnswersRight'
  BY <1>1, <1>2, <1>3, <1>4, <1>5 DEF KeyInv, KeysNameJobs, AnswersRight
<1>8. QED
  BY <1>6, <1>7 DEF KeyInv

LEMMA KeyCreated ==
  ASSUME TypeOK, KeyInv, NEW p \in posts, Creates(p)
  PROVE  KeyInv'
<1> DEFINE c == p.by
           i == NewJob
           row == [by |-> Principal[c], key |-> Key[c], body |-> Body[c], job |-> i]
<1>1. /\ i \notin DOMAIN jobs /\ DOMAIN jobs' = DOMAIN jobs \cup {i}
      /\ jobs'[i] = NewRow(c) /\ \A j \in DOMAIN jobs : jobs'[j] = jobs[j]
  BY CreatedRow
<1>2. /\ \A k \in keys : k.job \in DOMAIN jobs
      /\ \A g \in granted : g.job \in DOMAIN jobs
  BY DEF TypeOK
<1>3. keys' = keys \cup (IF Key[c] = NoKey THEN {} ELSE {row})
  BY DEF Creates, Accept, Create
<1>4. granted' = granted \cup {[to |-> c, job |-> i]}
  BY DEF Creates, Accept
<1>5. KeyRow(c) = {}
  BY DEF Creates, Decision
<1>6. \A j \in DOMAIN jobs : Key[c] # NoKey => ~ (jobs[j].by = Principal[c] /\ jobs[j].key = Key[c])
  BY <1>5 DEF KeyInv, KeysNameJobs, KeyRow
<1>7. jobs'[i].by = Principal[c] /\ jobs'[i].key = Key[c] /\ jobs'[i].body = Body[c]
  BY <1>1 DEF NewRow
<1> HIDE DEF i
<1>8. ASSUME NEW k \in keys'
      PROVE  jobs'[k.job].by = k.by /\ jobs'[k.job].key = k.key /\ jobs'[k.job].body = k.body
  BY <1>1, <1>2, <1>3, <1>7 DEF KeyInv, KeysNameJobs
<1>9. ASSUME NEW j \in DOMAIN jobs', jobs'[j].key # NoKey
      PROVE  \E k \in keys' : k.by = jobs'[j].by /\ k.key = jobs'[j].key /\ k.job = j
  <2>1. CASE j = i
    <3>1. Key[c] # NoKey
      BY <1>7, <1>9, <2>1
    <3>2. row \in keys'
      BY <1>3, <3>1
    <3>3. row.by = Principal[c] /\ row.key = Key[c] /\ row.job = i
      OBVIOUS
    <3> HIDE DEF row
    <3>4. QED
      BY <1>7, <2>1, <3>2, <3>3
  <2>2. CASE j \in DOMAIN jobs
    BY <1>1, <1>3, <1>9, <2>2 DEF KeyInv, KeysNameJobs
  <2>3. QED
    BY <1>1, <2>1, <2>2
<1>10. ASSUME NEW j \in DOMAIN jobs', NEW l \in DOMAIN jobs', jobs'[j].key # NoKey,
              jobs'[j].by = jobs'[l].by, jobs'[j].key = jobs'[l].key
       PROVE  j = l
  BY <1>1, <1>6, <1>7, <1>10 DEF KeyInv, KeysNameJobs
<1>11. AnswersRight'
  BY <1>1, <1>2, <1>4, <1>7 DEF KeyInv, AnswersRight
<1>12. QED
  BY <1>8, <1>9, <1>10, <1>11 DEF KeyInv, KeysNameJobs

LEMMA KeyStep == TypeOK /\ KeyInv /\ [Next]_vars => KeyInv'
<1> SUFFICES ASSUME TypeOK, KeyInv, [Next]_vars PROVE KeyInv'
  OBVIOUS
<1>1. ASSUME NEW p \in posts, Creates(p) PROVE KeyInv'
  BY <1>1, KeyCreated
<1>2. CASE RowsKept /\ UNCHANGED <<keys, granted>>
  BY <1>2, KeyKept
<1>3. ASSUME NEW p \in posts, Accept(p) PROVE KeyInv'
  <2>1. Decision(p.by) \in {"created", "replayed"}
    BY <1>3 DEF Accept
  <2>2. QED
    BY <1>1, <1>3, <2>1, KeyReplayed DEF Creates
<1>4. CASE RowsKept /\ ~ \E p \in posts : Accept(p)
  <2>1. UNCHANGED <<keys, granted>>
    BY <1>4 DEF Next, vars, rows, net, seen, StartRead, StartDelete, StartInsert, Crash,
       StopAccepting, StopRuntime, Exit, Release, Send, BeginAttempt, EndAttempt, Settle,
       Cancel, ClientTimeout, Refuse, RejectBody
  <2>2. QED
    BY <1>2, <1>4, <2>1
<1>5. QED
  BY <1>1, <1>3, <1>4, RowsStep

LEMMA KeyInvariant == Spec => [](TypeOK /\ KeyInv)
<1>1. Init => KeyInv
  BY DEF Init, KeyInv, KeysNameJobs, AnswersRight
<1>2. QED
  BY <1>1, KeyStep, TypeInit, TypeStep, PTL DEF Spec

\* One principal and key name one job, made from the body that was posted, over
\* retries, late answers and restarts (idempotentJob).
THEOREM KeysUnique == Spec => []OneJobPerKey
<1>1. KeyInv => OneJobPerKey
  BY DEF KeyInv, KeysNameJobs, AnswersRight, OneJobPerKey
<1>2. QED
  BY <1>1, KeyInvariant, PTL

\* A retry of a post that was admitted is answered with its job, not refused for
\* capacity or for the workspace its own job holds.
THEOREM Replays == Spec => []ReplayHonoured
<1>1. ASSUME TypeOK, KeyInv PROVE ReplayHonoured
  <2> SUFFICES ASSUME NEW c \in Clients, NEW i \in DOMAIN jobs, Key[c] # NoKey,
                      jobs[i].key = Key[c], jobs[i].by = Principal[c], jobs[i].body = Body[c]
               PROVE  Decision(c) = "replayed"
    BY DEF ReplayHonoured
  <2>1. KeyRow(c) # {}
    BY <1>1 DEF KeyInv, KeysNameJobs, KeyRow
  <2>2. ASSUME NEW k \in KeyRow(c) PROVE k.body = Body[c]
    <3>1. k.job \in DOMAIN jobs
      BY <1>1 DEF TypeOK, KeyRow
    <3>2. k.job = i
      BY <1>1, <3>1 DEF KeyInv, KeysNameJobs, KeyRow
    <3>3. QED
      BY <1>1, <3>2 DEF KeyInv, KeysNameJobs, KeyRow
  <2>3. QED
    BY <2>1, <2>2 DEF Decision
<1>2. QED
  BY <1>1, KeyInvariant, PTL

-----------------------------------------------------------------------------
(* Caps. *)

LEMMA ActiveFinite ==
  ASSUME TypeOK, NEW S
  PROVE  IsFiniteSet(ActiveJobs(S)) /\ Cardinality(ActiveJobs(S)) \in Nat
<1>1. IsFiniteSet(1 .. Len(jobs)) /\ DOMAIN jobs = 1 .. Len(jobs)
  BY JobSeq, FS_Interval DEF TypeOK
<1>2. ActiveJobs(S) \subseteq 1 .. Len(jobs)
  BY <1>1 DEF ActiveJobs
<1>3. QED
  BY <1>1, <1>2, FS_Subset, FS_CardinalityType

LEMMA ActiveFiniteNext ==
  ASSUME TypeOK', NEW S
  PROVE  Cardinality(ActiveJobs(S)') \in Nat
<1>1. jobs' \in Seq(Job)
  BY DEF TypeOK
<1>2. IsFiniteSet(1 .. Len(jobs')) /\ DOMAIN jobs' = 1 .. Len(jobs')
  BY <1>1, LenProperties, FS_Interval
<1>3. ActiveJobs(S)' \subseteq 1 .. Len(jobs')
  BY <1>2 DEF ActiveJobs
<1>4. QED
  BY <1>2, <1>3, FS_Subset, FS_CardinalityType

\* No step makes a settled job active again.
LEMMA ActiveKept ==
  ASSUME TypeOK, RowsKept, NEW S
  PROVE  Cardinality(ActiveJobs(S)') <= Cardinality(ActiveJobs(S))
<1>1. \A i \in DOMAIN jobs : jobs[i].status \in JobState
  BY JobSeq DEF TypeOK, Job
<1>2. ActiveJobs(S)' \subseteq ActiveJobs(S)
  BY <1>1 DEF RowsKept, ActiveJobs, NonTerminalRow, JobState, Settled, Terminal
<1>3. QED
  BY <1>2, ActiveFinite, FS_Subset

LEMMA ActiveCreated ==
  ASSUME TypeOK, NEW p \in posts, Creates(p), NEW S
  PROVE  /\ Principal[p.by] \in S =>
              Cardinality(ActiveJobs(S)') <= Cardinality(ActiveJobs(S)) + 1
         /\ Principal[p.by] \notin S =>
              Cardinality(ActiveJobs(S)') <= Cardinality(ActiveJobs(S))
<1> DEFINE A == ActiveJobs(S)
           B == ActiveJobs(S)'
<1>1. /\ NewJob \notin DOMAIN jobs /\ DOMAIN jobs' = DOMAIN jobs \cup {NewJob}
      /\ jobs'[NewJob] = NewRow(p.by) /\ \A j \in DOMAIN jobs : jobs'[j] = jobs[j]
  BY CreatedRow
<1>2. /\ B \subseteq A \cup {NewJob}
      /\ Principal[p.by] \notin S => B \subseteq A
  BY <1>1 DEF ActiveJobs, NewRow
<1>3. NewJob \notin A
  BY <1>1 DEF ActiveJobs
<1>4. IsFiniteSet(A) /\ Cardinality(A) \in Nat
  BY ActiveFinite
<1> HIDE DEF A, B
<1>5. IsFiniteSet(A \cup {NewJob}) /\ Cardinality(A \cup {NewJob}) = Cardinality(A) + 1
  BY <1>3, <1>4, FS_AddElement
<1>6. Cardinality(B) <= Cardinality(A) + 1
  BY <1>2, <1>5, FS_Subset
<1>7. Principal[p.by] \notin S => Cardinality(B) <= Cardinality(A)
  BY <1>2, <1>4, FS_Subset
<1>8. QED
  BY <1>6, <1>7 DEF A, B

LEMMA CapsStep == TypeOK /\ CapsRespected /\ [Next]_vars => CapsRespected'
<1> SUFFICES ASSUME TypeOK, CapsRespected, [Next]_vars PROVE CapsRespected'
  OBVIOUS
<1> DEFINE All == {Principal[c] : c \in Clients}
<1>1. \A S : Cardinality(ActiveJobs(S)) \in Nat /\ Cardinality(ActiveJobs(S)') \in Nat
  <2>1. TypeOK'
    BY TypeStep
  <2>2. QED
    BY <2>1, ActiveFinite, ActiveFiniteNext
<1>2. CASE RowsKept
  <2>1. \A S : Cardinality(ActiveJobs(S)') <= Cardinality(ActiveJobs(S))
    BY <1>2, ActiveKept
  <2>2. QED
    BY <1>1, <2>1, AdmissionAssumption DEF CapsRespected, AdmissionAssumption
<1>3. ASSUME NEW p \in posts, Creates(p) PROVE CapsRespected'
  <2>1. UnderCaps(Principal[p.by])
    BY <1>3 DEF Creates, Decision
  <2>2. p.by \in Clients /\ Principal[p.by] \in All
    BY DEF TypeOK
  <2>3. Cardinality(ActiveJobs(All)') <= MaxGlobal
    <3>1. Cardinality(ActiveJobs(All)') <= Cardinality(ActiveJobs(All)) + 1
      BY <1>3, <2>2, ActiveCreated
    <3>2. Cardinality(ActiveJobs(All)) < MaxGlobal
      BY <2>1 DEF UnderCaps
    <3>3. QED
      BY <1>1, <3>1, <3>2, AdmissionAssumption DEF AdmissionAssumption
  <2>4. ASSUME NEW c \in Clients
        PROVE  Cardinality(ActiveJobs({Principal[c]})') <= MaxPerPrincipal
    <3>1. CASE Principal[c] = Principal[p.by]
      <4>1. Cardinality(ActiveJobs({Principal[c]})') <= Cardinality(ActiveJobs({Principal[c]})) + 1
        BY <1>3, <3>1, ActiveCreated
      <4>2. Cardinality(ActiveJobs({Principal[c]})) < MaxPerPrincipal
        BY <2>1, <3>1 DEF UnderCaps
      <4>3. QED
        BY <1>1, <4>1, <4>2, AdmissionAssumption DEF AdmissionAssumption
    <3>2. CASE Principal[c] # Principal[p.by]
      <4>1. Cardinality(ActiveJobs({Principal[c]})') <= Cardinality(ActiveJobs({Principal[c]}))
        BY <1>3, <3>2, ActiveCreated
      <4>2. Cardinality(ActiveJobs({Principal[c]})) <= MaxPerPrincipal
        BY DEF CapsRespected
      <4>3. QED
        BY <1>1, <4>1, <4>2, AdmissionAssumption DEF AdmissionAssumption
    <3>3. QED
      BY <3>1, <3>2
  <2>5. QED
    BY <2>3, <2>4 DEF CapsRespected
<1>4. QED
  BY <1>2, <1>3, RowsStep

\* No principal, and not the router, ever has more unsettled jobs than its cap
\* (admitNew, in the transaction that inserts the job).
THEOREM Caps == Spec => []CapsRespected
<1>1. Init => CapsRespected
  <2> SUFFICES ASSUME Init PROVE CapsRespected
    OBVIOUS
  <2>1. \A S : Cardinality(ActiveJobs(S)) = 0
    BY FS_EmptySet DEF Init, ActiveJobs
  <2>2. QED
    BY <2>1, AdmissionAssumption DEF CapsRespected, AdmissionAssumption
<1>2. QED
  BY <1>1, CapsStep, TypeCorrect, PTL DEF Spec

-----------------------------------------------------------------------------
(* Jobs without a loop. *)

\* What a loop or a cancel leaves, and nothing else, can be read off a job row.
StatesReached == \A i \in DOMAIN jobs : jobs[i].status \in {"queued", "running"} \cup Settled

\* A job has a loop, or had one that was lost with its daemon.
Attended(i) == (\E d \in Daemons : i \in running[d]) \/ i \in lost

LoopRuns == \A i \in DOMAIN jobs : jobs[i].status \notin Settled => Attended(i)

\* Between the two statements of finishJob the loop is still counted and the row settled.
MidwaySettled ==
  \A d \in Daemons : midway[d] # None =>
    midway[d] \in running[d] /\ jobs[midway[d]].status \in Settled

LoopInv == StatesReached /\ LoopRuns /\ MidwaySettled

LEMMA StatesStep == TypeOK /\ StatesReached /\ [Next]_vars => StatesReached'
<1> SUFFICES ASSUME TypeOK, StatesReached, [Next]_vars PROVE StatesReached'
  OBVIOUS
<1>0. jobs \in Seq(Job) /\ \A i \in DOMAIN jobs : jobs[i] \in Job
  BY JobSeq DEF TypeOK
<1>1. CASE UNCHANGED jobs
  BY <1>1 DEF StatesReached
<1>2. ASSUME NEW d \in Daemons, StartInsert(d) PROVE StatesReached'
  <2>1. \A i \in DOMAIN jobs : Recovered(jobs[i]).status \in {"queued", "running"} \cup Settled
    BY <1>0 DEF StatesReached, Recovered, Job, Moved, Settled
  <2>2. QED
    BY <1>1, <1>2, <2>1 DEF StartInsert, StatesReached
<1>3. ASSUME NEW d \in Daemons, NEW i \in DOMAIN jobs,
             BeginAttempt(d, i) \/ EndAttempt(d, i) \/ Settle(d, i) \/ Cancel(d, i)
      PROVE  StatesReached'
  <2>1. PICK s : \/ jobs' = [jobs EXCEPT ![i].attempt = FALSE]
                 \/ /\ s \in {"queued", "running"} \cup Settled
                    /\ \/ jobs' = [jobs EXCEPT ![i].attempt = TRUE, ![i].status = s]
                       \/ jobs' = [jobs EXCEPT ![i].status = s]
    <3>1. \A to \in {"running"} \cup Settled : Moved(jobs[i].status, to) \in {"queued", "running"} \cup Settled
      BY DEF StatesReached, Moved
    <3>2. CASE EndAttempt(d, i)
      BY <3>2 DEF EndAttempt
    <3>3. CASE BeginAttempt(d, i)
      <4>1. jobs' = [jobs EXCEPT ![i].attempt = TRUE, ![i].status = Moved(jobs[i].status, "running")]
        BY <3>3 DEF BeginAttempt
      <4>2. QED
        BY <3>1, <4>1
    <3>4. CASE Cancel(d, i)
      <4>1. jobs' = [jobs EXCEPT ![i].status = Moved(jobs[i].status, "cancelled")]
        BY <3>4 DEF Cancel
      <4>2. QED
        BY <3>1, <4>1 DEF Settled, Terminal
    <3>5. CASE Settle(d, i)
      <4>1. PICK to \in Verdicts(jobs[i].status) :
              jobs' = [jobs EXCEPT ![i].status = Moved(jobs[i].status, to)]
        BY <3>5 DEF Settle
      <4>2. to \in Settled
        BY AdmissionAssumption DEF Verdicts, AdmissionAssumption
      <4>3. QED
        BY <3>1, <4>1, <4>2
    <3>6. QED
      BY <1>3, <3>2, <3>3, <3>4, <3>5
  <2>2. DOMAIN jobs' = DOMAIN jobs
    BY <2>1
  <2>3. \A k \in DOMAIN jobs : jobs'[k].status \in {"queued", "running"} \cup Settled
    BY <1>0, <2>1 DEF StatesReached, Job
  <2>4. QED
    BY <2>2, <2>3 DEF StatesReached
<1>4. ASSUME NEW p \in posts, Accept(p) PROVE StatesReached'
  <2>1. CASE Creates(p)
    <3>1. /\ DOMAIN jobs' = DOMAIN jobs \cup {NewJob} /\ jobs'[NewJob] = NewRow(p.by)
          /\ \A i \in DOMAIN jobs : jobs'[i] = jobs[i]
      BY <2>1, CreatedRow
    <3>2. jobs'[NewJob].status = "queued"
      BY <3>1 DEF NewRow
    <3>3. QED
      BY <3>1, <3>2 DEF StatesReached
  <2>2. CASE ~ Creates(p)
    BY <1>1, <1>4, <2>2 DEF Accept, Creates
  <2>3. QED
    BY <2>1, <2>2
<1>5. QED
  BY <1>1, <1>2, <1>3, <1>4 DEF Next, vars, rows, net, StartRead, StartDelete, Crash,
     StopAccepting, StopRuntime, Exit, Release, Send, ClientTimeout, Refuse, RejectBody

\* The row of a job, after a step that is not about it or moves it, as the table does.
LEMMA OtherRows ==
  ASSUME TypeOK, NEW k \in DOMAIN jobs, NEW d \in Daemons,
         BeginAttempt(d, k) \/ EndAttempt(d, k) \/ Settle(d, k) \/ Cancel(d, k)
  PROVE  /\ \A i \in DOMAIN jobs : i # k => jobs'[i] = jobs[i]
         /\ BeginAttempt(d, k) => jobs'[k].status = Moved(jobs[k].status, "running")
         /\ EndAttempt(d, k) => jobs'[k].status = jobs[k].status
         /\ Cancel(d, k) => jobs'[k].status = Moved(jobs[k].status, "cancelled")
<1>1. /\ \A i \in DOMAIN jobs : jobs[i] \in Job
      /\ jobs \in [DOMAIN jobs -> Job]
  BY JobSeq DEF TypeOK
<1>2. \A i \in DOMAIN jobs : i # k => jobs'[i] = jobs[i]
  BY <1>1 DEF BeginAttempt, EndAttempt, Settle, Cancel
<1>3. BeginAttempt(d, k) => jobs'[k].status = Moved(jobs[k].status, "running")
  BY <1>1 DEF BeginAttempt, Job
<1>4. EndAttempt(d, k) => jobs'[k].status = jobs[k].status
  BY <1>1 DEF EndAttempt, Job
<1>5. Cancel(d, k) => jobs'[k].status = Moved(jobs[k].status, "cancelled")
  BY <1>1 DEF Cancel, Job
<1>6. QED
  BY <1>2, <1>3, <1>4, <1>5

\* Where a loop leaves its job.
LEMMA SettledRow ==
  ASSUME TypeOK, StatesReached, NEW k \in DOMAIN jobs, NEW d \in Daemons, Settle(d, k)
  PROVE  jobs'[k].status \in Settled
<1>1. PICK to \in Verdicts(jobs[k].status) :
        jobs' = [jobs EXCEPT ![k].status = Moved(jobs[k].status, to)]
  BY DEF Settle
<1>2. jobs[k] \in Job
  BY JobSeq DEF TypeOK
<1>3. jobs'[k].status = Moved(jobs[k].status, to)
  BY <1>1, <1>2 DEF Job
<1>4. to \in Settled /\ (jobs[k].status = "queued" => to \in {"failed", "needs_recovery"})
  BY AdmissionAssumption DEF Verdicts, AdmissionAssumption
<1>5. jobs[k].status \in {"queued", "running"} \cup Settled
  BY DEF StatesReached
<1>6. Moved(jobs[k].status, to) \in Settled
  BY <1>4, <1>5 DEF Moved, Transitions, Settled, Terminal
<1>7. QED
  BY <1>3, <1>6

\* Only the end of a loop takes a job out of sight, and only that of its own.
LEMMA LoopsKept ==
  ASSUME TypeOK, [Next]_vars, ~ \E d \in Daemons : Release(d)
  PROVE  /\ \A d \in Daemons : running[d] \subseteq running'[d] \cup lost'
         /\ lost \subseteq lost'
         /\ \A i : Attended(i) => Attended(i)'
<1>1. CASE UNCHANGED <<running, lost>>
  BY <1>1 DEF Attended
<1>2. ASSUME NEW p \in posts, Accept(p)
      PROVE  UNCHANGED lost /\ \A d \in Daemons : running[d] \subseteq running'[d]
  <2>1. PICK i : running' = running \/ running' = [running EXCEPT ![p.at] = @ \cup {i}]
    BY <1>2 DEF Accept
  <2>2. QED
    BY <1>2, <2>1 DEF TypeOK, Accept
<1>3. ASSUME NEW d \in Daemons, Crash(d) \/ Exit(d)
      PROVE  lost' = lost \cup running[d] /\ \A e \in Daemons : e # d => running'[e] = running[e]
  BY <1>3 DEF Crash, Exit, LoopsEnd, TypeOK
<1>4. /\ lost \subseteq lost'
      /\ \A d \in Daemons : running[d] \subseteq running'[d] \cup lost'
  BY <1>1, <1>2, <1>3 DEF Next, vars, rows, net, seen, StartRead, StartDelete, StartInsert,
     StopAccepting, StopRuntime, Send, BeginAttempt, EndAttempt, Settle, Cancel, ClientTimeout,
     Refuse, RejectBody
<1>5. QED
  BY <1>4 DEF Attended

\* What the end of a loop leaves alone.
LEMMA ReleasedLoop ==
  ASSUME TypeOK, NEW d \in Daemons, Release(d)
  PROVE  /\ midway[d] \in DOMAIN jobs /\ midway[d] # None
         /\ \A i : i # midway[d] /\ Attended(i) => Attended(i)'
         /\ \A e \in Daemons : e # d => running'[e] = running[e] /\ midway'[e] = midway[e]
         /\ midway'[d] = None /\ UNCHANGED <<jobs, lost>>
<1>1. midway[d] \in DOMAIN jobs /\ midway[d] # None
  BY DEF Release, Idle, TypeOK
<1>2. /\ \A e \in Daemons : e # d => running'[e] = running[e] /\ midway'[e] = midway[e]
      /\ running'[d] = running[d] \ {midway[d]}
      /\ midway'[d] = None /\ UNCHANGED <<jobs, lost>>
  BY DEF Release, TypeOK, seen
<1>3. QED
  BY <1>1, <1>2 DEF Attended

LEMMA CreatedLoop ==
  ASSUME TypeOK, NEW p \in posts, Creates(p)
  PROVE  \E d \in Daemons : NewJob \in running'[d]
<1>1. NewJob \notin DOMAIN jobs
  BY CreatedRow
<1>2. p.at \in Daemons /\ NewJob \notin running[p.at]
  BY <1>1 DEF TypeOK
<1>3. running' = [running EXCEPT ![p.at] = @ \cup {NewJob}]
  BY <1>2 DEF Creates, Accept, Kicked, Loops
<1>4. NewJob \in running'[p.at]
  BY <1>2, <1>3 DEF TypeOK
<1>5. QED
  BY <1>2, <1>4

LEMMA LoopRunsStep == TypeOK /\ LoopInv /\ [Next]_vars => LoopRuns'
<1> SUFFICES ASSUME TypeOK, LoopInv, [Next]_vars PROVE LoopRuns'
  OBVIOUS
<1>1. ASSUME NEW d \in Daemons, Release(d) PROVE LoopRuns'
  <2>1. jobs[midway[d]].status \in Settled
    BY <1>1, ReleasedLoop DEF LoopInv, MidwaySettled
  <2>2. QED
    BY <1>1, <2>1, ReleasedLoop DEF LoopInv, LoopRuns
<1>2. CASE RowsKept /\ ~ \E d \in Daemons : Release(d)
  <2>1. \A i \in DOMAIN jobs : jobs'[i].status \notin Settled => jobs[i].status \notin Settled
    BY <1>2 DEF RowsKept
  <2>2. \A i : Attended(i) => Attended(i)'
    BY <1>2, LoopsKept
  <2>3. QED
    BY <1>2, <2>1, <2>2 DEF LoopInv, LoopRuns, RowsKept
<1>3. ASSUME NEW p \in posts, Creates(p), ~ \E d \in Daemons : Release(d) PROVE LoopRuns'
  <2>1. /\ DOMAIN jobs' = DOMAIN jobs \cup {NewJob}
        /\ \A i \in DOMAIN jobs : jobs'[i] = jobs[i]
        /\ \E d \in Daemons : NewJob \in running'[d]
    BY <1>3, CreatedRow, CreatedLoop
  <2>2. \A i : Attended(i) => Attended(i)'
    BY <1>3, LoopsKept DEF Creates
  <2>3. ASSUME NEW i \in DOMAIN jobs', jobs'[i].status \notin Settled PROVE Attended(i)'
    <3>1. CASE i \in DOMAIN jobs
      BY <2>1, <2>2, <2>3, <3>1 DEF LoopInv, LoopRuns
    <3>2. CASE i = NewJob
      BY <2>1, <3>2 DEF Attended
    <3>3. QED
      BY <2>1, <3>1, <3>2
  <2>4. QED
    BY <2>3 DEF LoopRuns
<1>4. QED
  BY <1>1, <1>2, <1>3, RowsStep

LEMMA MidwayStep == TypeOK /\ LoopInv /\ [Next]_vars => MidwaySettled'
<1> SUFFICES ASSUME TypeOK, LoopInv, [Next]_vars PROVE MidwaySettled'
  OBVIOUS
<1>1. ASSUME NEW i \in DOMAIN jobs, jobs[i].status \in Settled PROVE jobs'[i].status \in Settled
  BY <1>1, RowsStep, CreatedRow DEF RowsKept
<1>2. ASSUME NEW d \in Daemons, NEW k \in DOMAIN jobs, Settle(d, k) PROVE MidwaySettled'
  <2>1. jobs'[k].status \in Settled /\ k \in running[d]
    BY <1>2, SettledRow DEF LoopInv, Settle
  <2>2. UNCHANGED running /\ \A e \in Daemons : midway'[e] = IF e = d THEN k ELSE midway[e]
    BY <1>2 DEF Settle, TypeOK
  <2>3. QED
    BY <1>1, <2>1, <2>2 DEF LoopInv, MidwaySettled, TypeOK
<1>3. ASSUME NEW d \in Daemons, Release(d) PROVE MidwaySettled'
  BY <1>1, <1>3, ReleasedLoop DEF LoopInv, MidwaySettled, TypeOK
<1>4. ASSUME NEW d \in Daemons, Crash(d) \/ Exit(d) PROVE MidwaySettled'
  <2>1. \A e \in Daemons : /\ e # d => running'[e] = running[e] /\ midway'[e] = midway[e]
                           /\ e = d => midway'[e] = None
    BY <1>4 DEF Crash, Exit, LoopsEnd, TypeOK
  <2>2. QED
    BY <1>1, <2>1 DEF LoopInv, MidwaySettled, TypeOK
<1>5. CASE UNCHANGED midway /\ \A d \in Daemons : running[d] \subseteq running'[d]
  BY <1>1, <1>5 DEF LoopInv, MidwaySettled, TypeOK
<1>6. ASSUME NEW p \in posts, Accept(p)
      PROVE  UNCHANGED midway /\ \A d \in Daemons : running[d] \subseteq running'[d]
  <2>1. PICK i : running' = running \/ running' = [running EXCEPT ![p.at] = @ \cup {i}]
    BY <1>6 DEF Accept
  <2>2. QED
    BY <1>6, <2>1 DEF TypeOK, Accept
<1>7. QED
  BY <1>2, <1>3, <1>4, <1>5, <1>6 DEF Next, vars, rows, net, StartRead, StartDelete,
     StartInsert, StopAccepting, StopRuntime, Send, BeginAttempt, EndAttempt, Cancel,
     ClientTimeout, Refuse, RejectBody

LEMMA LoopStep == TypeOK /\ LoopInv /\ [Next]_vars => LoopInv'
BY StatesStep, LoopRunsStep, MidwayStep DEF LoopInv

LEMMA LoopInvariant == Spec => [](TypeOK /\ LoopInv)
<1>1. Init => LoopInv
  BY DEF Init, LoopInv, StatesReached, LoopRuns, MidwaySettled
<1>2. QED
  BY <1>1, LoopStep, TypeInit, TypeStep, PTL DEF Spec

-----------------------------------------------------------------------------
(* Workspaces. *)

\* The table does not let a terminal row go.
LEMMA TerminalStays == \A s \in Terminal : \A to : Moved(s, to) = s
BY DEF Terminal, Moved, Transitions

\* A job keeps its loop, between the same statements, or has lost it.
LoopStays(i) ==
  /\ i \in lost => i \in lost'
  /\ \A d \in Daemons : i \in running[d] =>
       i \in lost' \/ (i \in running'[d] /\ (midway[d] = i => midway'[d] = i))

\* The reason why job i still locks workspace h.
Holds(h, i) ==
  /\ jobs[i].by = WorkspaceOwner[h] /\ Handle[jobs[i].body] = h
  /\ jobs[i].status \in Terminal =>
       \/ i \in lost
       \/ \E d \in Daemons : i \in running[d] /\ (jobs[i].status = "cancelled" \/ midway[d] = i)

\* A job that stays terminal or open, and keeps its loop, keeps its workspace.
LEMMA HoldsStill ==
  ASSUME NEW h, NEW i, Holds(h, i), LoopStays(i),
         jobs'[i].by = jobs[i].by, jobs'[i].body = jobs[i].body,
         jobs'[i].status \in Terminal => jobs'[i].status = jobs[i].status
  PROVE  Holds(h, i)'
BY DEF Holds, LoopStays

LEMMA LockIsHeld ==
  ASSUME TypeOK
  PROVE  /\ LockExplained <=> \A h \in Handles : lockedBy[h] # None => Holds(h, lockedBy[h])
         /\ \A h \in Handles : lockedBy[h] # None => lockedBy[h] \in DOMAIN jobs
BY DEF LockExplained, Holds, TypeOK

LEMMA LockIsHeldNext ==
  ASSUME \A h \in Handles : \A i : i = lockedBy'[h] /\ i # None => Holds(h, i)'
  PROVE  LockExplained'
BY DEF LockExplained, Holds

LEMMA LockKept ==
  ASSUME TypeOK, LockExplained, RowsKept, UNCHANGED lockedBy,
         \A i \in DOMAIN jobs : LoopStays(i),
         \A i \in DOMAIN jobs : jobs'[i].status \in Terminal => jobs'[i].status = jobs[i].status
  PROVE  LockExplained'
<1> SUFFICES ASSUME NEW h \in Handles, NEW i, i = lockedBy[h], i # None
             PROVE  Holds(h, i)'
  BY LockIsHeldNext
<1>1. i \in DOMAIN jobs /\ Holds(h, i)
  BY LockIsHeld
<1>2. QED
  BY <1>1, HoldsStill DEF RowsKept

LEMMA LockSettled ==
  ASSUME TypeOK, LoopInv, LockExplained, NEW d \in Daemons, NEW k \in DOMAIN jobs, Settle(d, k)
  PROVE  LockExplained'
<1>1. \A i \in DOMAIN jobs : i # k => jobs'[i] = jobs[i]
  BY OtherRows
<1>2. jobs'[k].by = jobs[k].by /\ jobs'[k].body = jobs[k].body
  BY SettleRow DEF RowsKept
<1>3. /\ UNCHANGED <<lockedBy, running, lost>> /\ k \in running[d] /\ midway[d] = None
      /\ \A e \in Daemons : midway'[e] = IF e = d THEN k ELSE midway[e]
  BY DEF Settle, Idle, seen, TypeOK
<1>4. None \notin DOMAIN jobs
  BY JobSeq, AdmissionAssumption DEF TypeOK, AdmissionAssumption
<1> SUFFICES ASSUME NEW h \in Handles, NEW i, i = lockedBy[h], i # None
             PROVE  Holds(h, i)'
  BY <1>3, LockIsHeldNext
<1>5. i \in DOMAIN jobs /\ Holds(h, i)
  BY LockIsHeld
<1>6. CASE i = k
  BY <1>2, <1>3, <1>5, <1>6 DEF Holds
<1>7. CASE i # k
  <2>1. LoopStays(i)
    BY <1>3, <1>4, <1>5 DEF LoopStays
  <2>2. QED
    BY <1>1, <1>5, <1>7, <2>1, HoldsStill
<1>8. QED
  BY <1>6, <1>7

\* The loop of a terminal job that comes to its end has nothing locked any more.
LEMMA LockReleased ==
  ASSUME TypeOK, LockExplained, NEW d \in Daemons, Release(d)
  PROVE  LockExplained'
<1> DEFINE k == midway[d]
<1>1. /\ k \in DOMAIN jobs /\ k # None /\ UNCHANGED <<jobs, lost>>
      /\ \A e \in Daemons : e # d => running'[e] = running[e] /\ midway'[e] = midway[e]
  BY ReleasedLoop
<1>2. running'[d] = running[d] \ {k}
  BY DEF Release, TypeOK
<1>3. lockedBy' = WorkspaceAfterSettle(k)
  BY DEF Release
<1>4. \A h \in Handles : lockedBy'[h] # None => lockedBy'[h] = lockedBy[h]
  BY <1>3 DEF WorkspaceAfterSettle, Unlocked
<1>5. jobs[k].status \in Terminal => \A h \in Handles : lockedBy'[h] # k
  BY <1>1, <1>3 DEF WorkspaceAfterSettle, Unlocked
<1> HIDE DEF k
<1> SUFFICES ASSUME NEW h \in Handles, NEW i, i = lockedBy'[h], i # None
             PROVE  Holds(h, i)'
  BY LockIsHeldNext
<1>6. lockedBy[h] = i /\ i \in DOMAIN jobs /\ Holds(h, i)
  BY <1>4, LockIsHeld
<1>7. CASE i = k
  BY <1>1, <1>5, <1>6, <1>7 DEF Holds
<1>8. CASE i # k
  <2>1. midway[d] = k
    BY DEF k
  <2>2. LoopStays(i)
    BY <1>1, <1>2, <1>8, <2>1 DEF LoopStays
  <2>3. QED
    BY <1>1, <1>6, <2>2, HoldsStill
<1>9. QED
  BY <1>7, <1>8

LEMMA LockCancelled ==
  ASSUME TypeOK, LoopInv, LockExplained, NEW d \in Daemons, NEW k \in DOMAIN jobs, Cancel(d, k)
  PROVE  LockExplained'
<1>1. /\ jobs'[k].status = Moved(jobs[k].status, "cancelled")
      /\ \A i \in DOMAIN jobs : i # k => jobs'[i] = jobs[i]
  BY OtherRows
<1>2. jobs'[k].by = jobs[k].by /\ jobs'[k].body = jobs[k].body
  BY CancelRow DEF RowsKept
<1>3. UNCHANGED <<lockedBy, running, midway, lost>>
  BY DEF Cancel, seen
<1>4. jobs[k].status \notin Settled
  BY DEF Cancel
<1>5. Attended(k)
  BY <1>4 DEF LoopInv, LoopRuns
<1>6. jobs'[k].status \in Terminal => jobs'[k].status = "cancelled"
  BY <1>1, <1>4 DEF Moved, Settled
<1> SUFFICES ASSUME NEW h \in Handles, NEW i, i = lockedBy[h], i # None
             PROVE  Holds(h, i)'
  BY <1>3, LockIsHeldNext
<1>7. i \in DOMAIN jobs /\ Holds(h, i)
  BY LockIsHeld
<1>8. CASE i = k
  BY <1>2, <1>3, <1>5, <1>6, <1>7, <1>8 DEF Holds, Attended
<1>9. CASE i # k
  <2>1. LoopStays(i)
    BY <1>3 DEF LoopStays
  <2>2. QED
    BY <1>1, <1>7, <1>9, <2>1, HoldsStill
<1>10. QED
  BY <1>8, <1>9

LEMMA LockCreated ==
  ASSUME TypeOK, LockExplained, NEW p \in posts, Creates(p), \A i \in DOMAIN jobs : LoopStays(i)
  PROVE  LockExplained'
<1> DEFINE c == p.by
           w == Handle[Body[c]]
<1>1. /\ NewJob \notin DOMAIN jobs /\ jobs'[NewJob] = NewRow(c)
      /\ \A i \in DOMAIN jobs : jobs'[i] = jobs[i]
  BY CreatedRow
<1>2. lockedBy' = IF w = Fresh THEN lockedBy ELSE [lockedBy EXCEPT ![w] = NewJob]
  BY DEF Creates, Accept, Create
<1>3. MayUseWorkspace(Principal[c], w)
  BY DEF Creates, Decision
<1> SUFFICES ASSUME NEW h \in Handles, NEW i, i = lockedBy'[h], i # None
             PROVE  Holds(h, i)'
  BY LockIsHeldNext
<1>4. CASE w # Fresh /\ h = w
  <2>1. i = NewJob
    BY <1>2, <1>4 DEF TypeOK
  <2>2. WorkspaceOwner[h] = Principal[c]
    BY <1>3, <1>4 DEF MayUseWorkspace
  <2>3. /\ jobs'[NewJob].by = Principal[c] /\ jobs'[NewJob].body = Body[c]
        /\ jobs'[NewJob].status \notin Terminal
    BY <1>1 DEF NewRow, Terminal
  <2>4. QED
    BY <1>4, <2>1, <2>2, <2>3 DEF Holds
<1>5. CASE ~ (w # Fresh /\ h = w)
  <2>1. lockedBy[h] = i
    BY <1>2, <1>5 DEF TypeOK
  <2>2. i \in DOMAIN jobs /\ Holds(h, i)
    BY <2>1, LockIsHeld
  <2>3. QED
    BY <1>1, <2>1, <2>2, HoldsStill
<1>6. QED
  BY <1>4, <1>5

\* What a loop is doing changes by its own statements and by the end of its daemon.
LEMMA LoopsStay ==
  ASSUME TypeOK, [Next]_vars,
         ~ \E d \in Daemons : Release(d) \/ \E i \in DOMAIN jobs : Settle(d, i)
  PROVE  \A i \in DOMAIN jobs : LoopStays(i)
<1>1. lost \subseteq lost' /\ \A d \in Daemons : running[d] \subseteq running'[d] \cup lost'
  BY LoopsKept
<1>2. UNCHANGED midway \/ \E d \in Daemons : Crash(d) \/ Exit(d)
  BY DEF Next, vars, StartRead, StartDelete, StartInsert, StopAccepting, StopRuntime, Send,
     BeginAttempt, EndAttempt, Cancel, ClientTimeout, Refuse, Accept, RejectBody
<1>3. ASSUME NEW d \in Daemons, Crash(d) \/ Exit(d)
      PROVE  running[d] \subseteq lost' /\ \A e \in Daemons : e # d => midway'[e] = midway[e]
  BY <1>3 DEF Crash, Exit, LoopsEnd, TypeOK
<1>4. QED
  BY <1>1, <1>2, <1>3 DEF LoopStays

LEMMA LockStep == TypeOK /\ LoopInv /\ LockExplained /\ [Next]_vars => LockExplained'
<1> SUFFICES ASSUME TypeOK, LoopInv, LockExplained, [Next]_vars PROVE LockExplained'
  OBVIOUS
<1> DEFINE Stays == \A i \in DOMAIN jobs : LoopStays(i)
<1>1. ASSUME NEW d \in Daemons, NEW k \in DOMAIN jobs, Settle(d, k) \/ Cancel(d, k)
      PROVE  LockExplained'
  BY <1>1, LockSettled, LockCancelled
<1>2. ASSUME NEW d \in Daemons, Release(d) PROVE LockExplained'
  BY <1>2, LockReleased
<1>3. CASE Stays /\ UNCHANGED <<jobs, lockedBy>>
  BY <1>3, SameRows, LockKept
<1>4. ASSUME Stays, NEW d \in Daemons, StartInsert(d) PROVE LockExplained'
  <2>1. RowsKept
    BY <1>4, SameRows, RecoveredRows DEF StartInsert
  <2>2. UNCHANGED lockedBy
    BY <1>4 DEF StartInsert
  <2>3. \A i \in DOMAIN jobs : jobs[i] \in Job
    BY JobSeq DEF TypeOK
  <2>4. \A i \in DOMAIN jobs : jobs'[i].status \in Terminal => jobs'[i].status = jobs[i].status
    <3>1. \A r \in Job : Recovered(r).status \in Terminal => Recovered(r).status = r.status
      BY DEF Recovered, Job, Moved, Terminal
    <3>2. QED
      BY <1>4, <2>3, <3>1 DEF StartInsert
  <2>5. QED
    BY <1>4, <2>1, <2>2, <2>4, LockKept
<1>5. ASSUME Stays, NEW d \in Daemons, NEW k \in DOMAIN jobs,
             BeginAttempt(d, k) \/ EndAttempt(d, k)
      PROVE  LockExplained'
  <2>1. RowsKept
    BY <1>5, BeginRow, EndRow
  <2>2. UNCHANGED lockedBy
    BY <1>5 DEF BeginAttempt, EndAttempt
  <2>3. jobs'[k].status \in Terminal => jobs'[k].status = jobs[k].status
    BY <1>5, OtherRows DEF Moved, Terminal
  <2>4. \A i \in DOMAIN jobs : jobs'[i].status \in Terminal => jobs'[i].status = jobs[i].status
    BY <1>5, <2>3, OtherRows
  <2>5. QED
    BY <1>5, <2>1, <2>2, <2>4, LockKept
<1>6. ASSUME Stays, NEW p \in posts, Accept(p) PROVE LockExplained'
  <2>1. CASE Creates(p)
    BY <1>6, <2>1, LockCreated
  <2>2. CASE ~ Creates(p)
    <3>1. UNCHANGED <<jobs, lockedBy>>
      BY <1>6, <2>2 DEF Creates, Accept
    <3>2. QED
      BY <1>3, <1>6, <3>1
  <2>3. QED
    BY <2>1, <2>2
<1>7. CASE \E d \in Daemons : Release(d) \/ \E i \in DOMAIN jobs : Settle(d, i)
  BY <1>1, <1>2, <1>7
<1>8. CASE Stays
  BY <1>1, <1>2, <1>3, <1>4, <1>5, <1>6, <1>8 DEF Next, vars, rows, StartRead, StartDelete,
     Crash, StopAccepting, StopRuntime, Exit, Send, ClientTimeout, Refuse, RejectBody
<1>9. QED
  BY <1>7, <1>8, LoopsStay

\* A workspace is locked by a job of its owner that asked for it; if that job is over,
\* its loop is about to release it or was lost with a daemon, over crashes between the
\* two statements of finishJob too (prepareWorkspace, finishJob, cancel).
THEOREM LocksExplained == Spec => []LockExplained
<1>1. Init => LockExplained
  BY DEF Init, LockExplained
<1>2. QED
  BY <1>1, LockStep, LoopInvariant, PTL DEF Spec

-----------------------------------------------------------------------------
(* Orphans. *)

OrphanRule ==
  \A i \in DOMAIN jobs :
    Orphan(i) => /\ jobs'[i].status \in {jobs[i].status, "cancelled", "needs_recovery"}
                 /\ jobs'[i].status = "needs_recovery" => jobs[i].attempt
                 /\ \A d \in Daemons : i \notin running'[d]

LEMMA OrphanStep == TypeOK /\ [Next]_vars => OrphanRule
<1> SUFFICES ASSUME TypeOK, [Next]_vars, NEW i \in DOMAIN jobs, Orphan(i)
             PROVE  /\ jobs'[i].status \in {jobs[i].status, "cancelled", "needs_recovery"}
                    /\ jobs'[i].status = "needs_recovery" => jobs[i].attempt
                    /\ \A d \in Daemons : i \notin running'[d]
  BY DEF OrphanRule
<1> DEFINE Goal == /\ jobs'[i].status \in {jobs[i].status, "cancelled", "needs_recovery"}
                   /\ jobs'[i].status = "needs_recovery" => jobs[i].attempt
                   /\ \A d \in Daemons : i \notin running'[d]
<1>0. /\ jobs[i].status \notin Settled /\ \A d \in Daemons : i \notin running[d]
      /\ jobs[i] \in Job /\ running \in [Daemons -> SUBSET DOMAIN jobs]
  BY JobSeq DEF Orphan, TypeOK
<1>1. ASSUME jobs'[i] = jobs[i], \A d \in Daemons : i \notin running'[d] PROVE Goal
  BY <1>0, <1>1 DEF Settled
<1>2. CASE UNCHANGED <<jobs, running>>
  BY <1>0, <1>1, <1>2
<1>3. ASSUME NEW d \in Daemons, Crash(d) \/ Exit(d) PROVE Goal
  <2>1. UNCHANGED jobs
    BY <1>3 DEF Crash, Exit, rows
  <2>2. running' = [running EXCEPT ![d] = {}]
    BY <1>3 DEF Crash, Exit, LoopsEnd
  <2>3. QED
    BY <1>0, <1>1, <2>1, <2>2
<1>4. ASSUME NEW d \in Daemons, StartInsert(d) PROVE Goal
  <2>1. UNCHANGED running /\ jobs'[i] \in {jobs[i], Recovered(jobs[i])}
    BY <1>4 DEF StartInsert
  <2>2. /\ Recovered(jobs[i]).status \in {jobs[i].status, "needs_recovery"}
        /\ Recovered(jobs[i]).status = "needs_recovery" => jobs[i].attempt
    BY <1>0 DEF Recovered, Job, Moved, Settled
  <2>3. QED
    BY <1>0, <2>1, <2>2 DEF Settled
<1>5. ASSUME NEW d \in Daemons, NEW k \in DOMAIN jobs,
             BeginAttempt(d, k) \/ EndAttempt(d, k) \/ Settle(d, k)
      PROVE  Goal
  <2>1. k \in running[d]
    BY <1>5 DEF BeginAttempt, EndAttempt, Settle
  <2>2. jobs'[i] = jobs[i]
    BY <1>0, <1>5, <2>1, OtherRows
  <2>3. \A e \in Daemons : running'[e] \subseteq running[e]
    BY <1>0, <1>5 DEF BeginAttempt, EndAttempt, Settle
  <2>4. QED
    BY <1>0, <1>1, <2>2, <2>3
<1>6. ASSUME NEW d \in Daemons, NEW k \in DOMAIN jobs, Cancel(d, k) PROVE Goal
  <2>1. UNCHANGED running
    BY <1>6 DEF Cancel
  <2>2. CASE k # i
    <3>1. jobs'[i] = jobs[i]
      BY <1>6, <2>2, OtherRows
    <3>2. QED
      BY <1>0, <1>1, <2>1, <3>1
  <2>3. CASE k = i
    <3>1. jobs'[i].status = Moved(jobs[i].status, "cancelled")
      BY <1>6, <2>3, OtherRows
    <3>2. QED
      BY <1>0, <2>1, <3>1 DEF Moved, Settled
  <2>4. QED
    BY <2>2, <2>3
<1>7. ASSUME NEW p \in posts, Accept(p) PROVE Goal
  <2>1. CASE Creates(p)
    <3>1. jobs'[i] = jobs[i] /\ NewJob # i
      BY <2>1, CreatedRow
    <3>2. running' = running \/ running' = [running EXCEPT ![p.at] = @ \cup {NewJob}]
      BY <2>1 DEF Creates, Accept
    <3>3. QED
      BY <1>0, <1>1, <3>1, <3>2
  <2>2. CASE ~ Creates(p)
    <3>1. Decision(p.by) = "replayed"
      BY <1>7, <2>2 DEF Creates, Accept
    <3>2. UNCHANGED <<jobs, running>>
      BY <1>7, <3>1 DEF Accept, Kicked
    <3>3. QED
      BY <1>2, <3>2
  <2>3. QED
    BY <2>1, <2>2
<1>8. ASSUME NEW d \in Daemons, Release(d) PROVE Goal
  <2>1. UNCHANGED jobs /\ \A e \in Daemons : running'[e] \subseteq running[e]
    BY <1>0, <1>8 DEF Release
  <2>2. QED
    BY <1>0, <1>1, <2>1
<1>9. QED
  BY <1>2, <1>3, <1>4, <1>5, <1>6, <1>7, <1>8 DEF Next, vars, rows, net, StartRead, StartDelete,
     StopAccepting, StopRuntime, Send, ClientTimeout, Refuse, RejectBody

\* An unsettled job that lost its loop is never run again: only recovery and a cancel
\* settle it, and recovery only if it had an unfinished attempt.
THEOREM OrphansNeverRun == Spec => OrphanNeverRun
<1>1. TypeOK /\ [Next]_vars => [OrphanRule]_vars
  BY OrphanStep
<1>2. QED
  BY <1>1, TypeCorrect, PTL DEF Spec, OrphanNeverRun, OrphanRule

=============================================================================
