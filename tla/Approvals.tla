------------------------------ MODULE Approvals ------------------------------
(***************************************************************************)
(* One run's permission requests, all the way: the native agent asks over  *)
(* ACP, the plugin surfaces the question, the router records an approval   *)
(* and waits, an operator decides or nobody does, and the answer travels   *)
(* back through the plugin to the agent.                                   *)
(*                                                                         *)
(*   src/src/runtime/runtime.ts     handlePermission, recovery     *)
(*   src/src/approval/broker.ts     ApprovalBroker                         *)
(*   src/src/storage/store.ts       approvals                              *)
(*   src/src/plugin-sdk/            respondPermission, event stream        *)
(*   src/src/native/plugin.ts       runDevin, respondPermission            *)
(*   src/src/native/acp.ts          permission requests of AcpClient       *)
(*                                                                         *)
(* Three processes run concurrently: router, plugin and agent.  Each       *)
(* action is one handler of one of them.  The stdio pipe between router    *)
(* and plugin keeps the order of its messages.                             *)
(*                                                                         *)
(* An option is its id.  Kind is what the agent says of it; Looks is what  *)
(* the text of the id resembles, which the code falls back on.             *)
(***************************************************************************)
EXTENDS JobStates, FiniteSets

CONSTANTS
  Requests,    \* ids of the requests the agent may make (its JSON-RPC ids are unique)
  Options,
  Offered,     \* the options of each request
  Kind, Looks,
  Cancelled,   \* PERMISSION_CANCELLED: the answer that selects no option
  Undecided,
  JobEnds,     \* how the job may end, a bound on Settled
  MaxCrashes   \* bound on daemon restarts

ASSUME ApprovalAssumption ==
  /\ Offered \in [Requests -> SUBSET Options]
  /\ Kind \in [Options -> {"allow", "reject", "cancel", "unknown"}]
  /\ Looks \in [Options -> {"allow", "reject", "cancel", "other"}]
  /\ Cancelled \notin Options /\ Undecided \notin Options \cup {Cancelled}
  /\ JobEnds \subseteq Settled
  /\ MaxCrashes \in Nat

Answers == Options \cup {Cancelled}

VARIABLES
  (* rows of the database *)
  job,         \* jobs.status
  approval,    \* approvals.status, "none": no row
  chosen,      \* approvals.chosen_option
  (* the router's memory *)
  up,
  run,         \* "inflight", "stopping" (finally block), "over"
  armed,       \* requests with a waiter in the broker
  hosted,      \* those whose waiter has a host, since the run was in flight
  (* the pipe *)
  toRouter, toPlugin,
  (* the plugin *)
  plugin,
  turn,        \* the prompt call: "on", "ended" (agent answered), "broken"
  open,        \* pendingPermissions
  polling,     \* requests whose decidePermission loop runs
  picked,      \* permissionSelections, permissionDecisions
  anyDenied,   \* tools.anyDenied
  reported,    \* status of the run's result when the turn ended, "none" otherwise
  (* the agent *)
  agent,
  interactive, \* policy.permission_mode of the run
  asked,
  answers,     \* all answers the agent was sent, by request
  crashes,
  (* observed by a property only *)
  denied       \* requests refused to the agent before its turn ended

rows    == <<job, approval, chosen>>
router  == <<up, run, armed, hosted>>
pipe    == <<toRouter, toPlugin>>
acp     == <<turn, open, polling, picked, anyDenied, reported>>
told    == <<answers, denied>>
vars    == <<rows, router, pipe, plugin, acp, agent, interactive, asked,
             told, crashes>>

-----------------------------------------------------------------------------
(* Options *)

\* The explicit kind wins; the text of the id counts only without one.
Allows(o) == Kind[o] = "allow" \/ (Kind[o] = "unknown" /\ Looks[o] = "allow")

RefusingOptions(r) ==
  LET typed == {o \in Offered[r] : Kind[o] \in {"reject", "cancel"}}
      named == {o \in Offered[r] : Kind[o] = "unknown" /\ Looks[o] \in {"reject", "cancel"}}
  IN IF typed # {} THEN typed ELSE named

\* Without an option to refuse with, the first one offered is taken.
DefaultPositional(r) ==
  IF RefusingOptions(r) # {} THEN RefusingOptions(r) ELSE Offered[r]

\* Without an option to refuse with, nothing is chosen.
DefaultMissing(r) ==
  IF RefusingOptions(r) # {} THEN RefusingOptions(r) ELSE {Undecided}

\* What is answered when nobody decided.  The code takes the first such option.
Default(r) == IF RefusingOptions(r) # {} THEN RefusingOptions(r) ELSE {Cancelled}

-----------------------------------------------------------------------------
(* Answering the agent *)

Refuses(a) == a = Cancelled \/ Kind[a] \in {"reject", "cancel"}

\* Only a living agent is told anything.
Tell(who, a) ==
  IF agent = "live"
  THEN /\ answers' = [r \in Requests |-> IF r \in who THEN answers[r] \cup {a} ELSE answers[r]]
       /\ denied' = IF turn = "on" /\ Refuses(a) THEN denied \cup who ELSE denied
     ELSE UNCHANGED told

\* The questions stay pending after they were answered.
FailAllKeeping ==
  /\ Tell(open, Cancelled)
  /\ anyDenied' = (anyDenied \/ open # {})
  /\ UNCHANGED open

\* The questions are dropped, and nobody is answered.
FailAllSilent ==
  /\ UNCHANGED told
  /\ anyDenied' = (anyDenied \/ open # {})
  /\ open' = {}

\* failAll: every pending question is answered "cancelled".
FailAll ==
  /\ Tell(open, Cancelled)
  /\ anyDenied' = (anyDenied \/ open # {})
  /\ open' = {}

\* The outcome is not looked at.
LooksDeniedNever(a) == FALSE

\* onPermissionOutcome reads the outcome off the text of the option id.
LooksDenied(a) == a = Cancelled \/ Looks[a] \in {"reject", "cancel"}

-----------------------------------------------------------------------------
\* A run has just been dispatched.  A cancel during its launch has settled the job.
Init ==
  /\ job \in {"running", "cancelled"}
  /\ approval = [r \in Requests |-> "none"]
  /\ chosen = [r \in Requests |-> Undecided]
  /\ up = TRUE /\ run = "inflight"
  /\ armed = {} /\ hosted = {}
  /\ toRouter = <<>> /\ toPlugin = <<>>
  /\ plugin = "live" /\ turn = "on"
  /\ open = {} /\ polling = {}
  /\ picked = [r \in Requests |-> Undecided]
  /\ anyDenied = FALSE /\ reported = "none"
  /\ agent = "live"
  /\ interactive \in BOOLEAN
  /\ asked = {}
  /\ answers = [r \in Requests |-> {}]
  /\ crashes = 0
  /\ denied = {}

-----------------------------------------------------------------------------
(* Agent and plugin *)

\* onPermissionRequest: outside interactive mode the request is refused on the
\* spot; in both cases the router gets to see it.
AgentAsks(r) ==
  /\ agent = "live" /\ plugin = "live"
  /\ r \notin asked
  /\ asked' = asked \cup {r}
  /\ toRouter' = Append(toRouter, r)
  /\ IF interactive
     THEN /\ open' = open \cup {r}
          /\ polling' = polling \cup {r}
          /\ UNCHANGED <<anyDenied, told>>
     ELSE /\ LET rejects == {o \in Offered[r] : Kind[o] = "reject"}
             IN \E a \in IF rejects = {} THEN {Cancelled} ELSE rejects : Tell({r}, a)
          /\ anyDenied' = TRUE
          /\ UNCHANGED <<open, polling>>
  /\ UNCHANGED <<rows, router, toPlugin, plugin, turn, picked, reported, agent,
                 interactive, crashes>>

\* respondPermission in the plugin: only a pending question takes an answer.
RespondArrives ==
  /\ plugin = "live" /\ toPlugin # <<>>
  /\ LET m == Head(toPlugin)
     IN /\ toPlugin' = Tail(toPlugin)
        /\ picked' = IF m.req \in open THEN [picked EXCEPT ![m.req] = m.say] ELSE picked
  /\ UNCHANGED <<rows, router, toRouter, plugin, turn, open, polling, anyDenied, reported,
                 agent, interactive, asked, told, crashes>>

\* One round of the decidePermission loop, every 10 ms.
Poll(r) ==
  /\ plugin = "live" /\ r \in polling
  /\ r \in open => picked[r] # Undecided
  /\ polling' = polling \ {r}
  /\ open' = open \ {r}
  /\ IF r \in open
     THEN /\ Tell({r}, picked[r])
          /\ anyDenied' = (anyDenied \/ LooksDenied(picked[r]))
     ELSE UNCHANGED <<told, anyDenied>>
  /\ UNCHANGED <<rows, router, pipe, plugin, turn, picked, reported, agent,
                 interactive, asked, crashes>>

\* The loop's deadline lies after the prompt's.  It no longer looks whether the
\* question is pending, nor for an answer that came since the last round.
PollTimesOut(r) ==
  /\ plugin = "live" /\ r \in polling
  /\ turn # "on"
  /\ polling' = polling \ {r}
  /\ open' = open \ {r}
  /\ Tell({r}, Cancelled)
  /\ anyDenied' = TRUE
  /\ UNCHANGED <<rows, router, pipe, plugin, turn, picked, reported, agent,
                 interactive, asked, crashes>>

\* The agent answers the prompt; the run is classified now, the agent stopped next.
AgentEndsTurn ==
  /\ agent = "live" /\ plugin = "live"
  /\ turn = "on"
  /\ turn' = "ended"
  /\ reported' = IF anyDenied THEN "partial" ELSE "completed"
  /\ UNCHANGED <<rows, router, pipe, plugin, open, polling, picked, anyDenied,
                 agent, interactive, asked, told, crashes>>

\* The prompt call runs into the run's deadline.
PromptTimesOut ==
  /\ plugin = "live" /\ turn = "on"
  /\ turn' = "broken"
  /\ UNCHANGED <<rows, router, pipe, plugin, open, polling, picked, anyDenied,
                 reported, agent, interactive, asked, told, crashes>>

\* A malformed frame or an overlong line fails everything that is pending.
AgentBabbles ==
  /\ agent = "live" /\ plugin = "live"
  /\ FailAll
  /\ turn' = IF turn = "on" THEN "broken" ELSE turn
  /\ UNCHANGED <<rows, router, pipe, plugin, polling, picked, reported, agent,
                 interactive, asked, crashes>>

\* The agent is gone, by itself or stopped by the plugin.
AgentExits ==
  /\ agent = "live"
  /\ agent' = "dead"
  /\ IF plugin = "live"
     THEN /\ open' = {}
          /\ anyDenied' = (anyDenied \/ open # {})
          /\ turn' = IF turn = "on" THEN "broken" ELSE turn
     ELSE UNCHANGED <<open, anyDenied, turn>>
  /\ UNCHANGED <<rows, router, pipe, plugin, polling, picked, reported, interactive,
                 asked, told, crashes>>

\* With the plugin go its memory and what it has not read.
PluginDies ==
  /\ plugin = "live"
  /\ plugin' = "dead"
  /\ toPlugin' = <<>>
  /\ open' = {} /\ polling' = {}
  /\ picked' = [r \in Requests |-> Undecided]
  /\ UNCHANGED <<rows, router, toRouter, turn, anyDenied, reported, agent, interactive,
                 asked, told, crashes>>

-----------------------------------------------------------------------------
(* Router *)

\* handlePermission: job row, approval row, waiter with a timer of the same ttl.
\* The host to answer through is the one of the run in flight, if there is one.
AskArrives ==
  /\ up /\ crashes = 0
  /\ toRouter # <<>>
  /\ toRouter' = Tail(toRouter)
  /\ LET r == Head(toRouter)
     IN IF interactive
        THEN /\ job' = Moved(job, "awaiting_approval")
             /\ approval' = [approval EXCEPT ![r] = "pending"]
             /\ armed' = armed \cup {r}
             /\ hosted' = IF run = "inflight" THEN hosted \cup {r} ELSE hosted
        ELSE UNCHANGED <<job, approval, armed, hosted>>
  /\ UNCHANGED <<chosen, up, run, toPlugin, plugin, acp, agent, interactive, asked,
                 told, crashes>>

\* The waiter goes on without touching the job.
WaiterKeepsJob(r, say) ==
  /\ armed' = armed \ {r}
  /\ hosted' = hosted \ {r}
  /\ UNCHANGED job
  /\ toPlugin' = IF r \in hosted /\ plugin = "live"
                 THEN Append(toPlugin, [req |-> r, say |-> say]) ELSE toPlugin

\* The waiter of request r goes on and answers "say".
Waiter(r, say) ==
  /\ armed' = armed \ {r}
  /\ hosted' = hosted \ {r}
  /\ job' = Moved(job, "running")
  /\ toPlugin' = IF r \in hosted /\ plugin = "live"
                 THEN Append(toPlugin, [req |-> r, say |-> say]) ELSE toPlugin

\* decide, the first time: the row gets the verdict, and the waiter, if it still
\* waits, the operator's very option.
Decide(r, o) ==
  /\ up
  /\ approval[r] = "pending"
  /\ o \in Offered[r]
  /\ approval' = [approval EXCEPT ![r] = IF Allows(o) THEN "approved" ELSE "denied"]
  /\ chosen' = [chosen EXCEPT ![r] = o]
  /\ IF r \in armed THEN Waiter(r, o)
     ELSE UNCHANGED <<armed, hosted, job, toPlugin>>
  /\ UNCHANGED <<up, run, toRouter, plugin, acp, agent, interactive, asked,
                 told, crashes>>

\* decide, too late: nobody is told.
DecideLate(r) ==
  /\ up
  /\ approval[r] = "pending"
  /\ approval' = [approval EXCEPT ![r] = "expired"]
  /\ UNCHANGED <<job, chosen, router, pipe, plugin, acp, agent, interactive, asked,
                 told, crashes>>

\* The broker's timer.
TimerFires(r) ==
  /\ up
  /\ r \in armed
  /\ \E a \in Default(r) : Waiter(r, a)
  /\ UNCHANGED <<approval, chosen, up, run, toRouter, plugin, acp, agent,
                 interactive, asked, told, crashes>>

\* The run settles, with the plugin's answer, the timeout of the call or the plugin's
\* exit: the attempt's row is closed, and the run is not in flight any more.
RunEnds ==
  /\ up /\ run = "inflight"
  /\ run' = "stopping"
  /\ UNCHANGED <<job, approval, chosen, up, armed, hosted, pipe, plugin, acp, agent,
                 interactive, asked, told, crashes>>

\* Plugin and agent were told to stop (PluginDies, AgentExits, or neither); the job
\* settles, unless the loop goes on with another candidate.
StopDone ==
  /\ up /\ run = "stopping"
  /\ run' = "over"
  /\ \E to \in JobEnds \cup {job} : job' = Moved(job, to)
  /\ UNCHANGED <<approval, chosen, up, armed, hosted, pipe, plugin, acp, agent,
                 interactive, asked, told, crashes>>

\* cancel() without a run in flight.
CancelAtOnce ==
  /\ up /\ run # "inflight"
  /\ job \notin Settled
  /\ job' = Moved(job, "cancelled")
  /\ UNCHANGED <<approval, chosen, router, pipe, plugin, acp, agent, interactive,
                 asked, told, crashes>>

\* Decided approvals are invalidated as well.
InvalidatedAll(r) == TRUE

\* invalidatePendingApprovals
Invalidated(r) == approval[r] = "pending"

InvalidatePending ==
  approval' = [r \in Requests |-> IF Invalidated(r) THEN "invalidated" ELSE approval[r]]

\* cancel() with one, after 10 s: everything is killed (PluginDies, AgentExits, or
\* neither) and pending rows are invalidated.  The waiters stay armed.
CancelInvalidates ==
  /\ up /\ crashes = 0
  /\ InvalidatePending
  /\ UNCHANGED <<job, chosen, router, pipe, plugin, acp, agent, interactive, asked,
                 told, crashes>>

\* Waiters are forgotten; what the plugin writes is lost, what was
\* written to it arrives.
Crash ==
  /\ up /\ crashes < MaxCrashes
  /\ crashes' = crashes + 1
  /\ up' = FALSE
  /\ armed' = {} /\ hosted' = {}
  /\ toRouter' = <<>>
  /\ UNCHANGED <<rows, run, toPlugin, plugin, acp, agent, interactive,
                 asked, told>>

\* recoverOnStart looks at the attempt only if its row is not closed.
Restart ==
  /\ ~up
  /\ up' = TRUE
  /\ run' = "over"
  /\ IF run = "inflight"
     THEN job' = Moved(job, "needs_recovery") /\ InvalidatePending
     ELSE UNCHANGED <<job, approval>>
  /\ UNCHANGED <<chosen, armed, hosted, pipe, plugin, acp, agent, interactive,
                 asked, told, crashes>>

-----------------------------------------------------------------------------
AgentStep == AgentEndsTurn \/ AgentBabbles \/ AgentExits \/ \E r \in Requests : AgentAsks(r)

PluginStep ==
  \/ RespondArrives
  \/ PromptTimesOut
  \/ PluginDies
  \/ \E r \in Requests : Poll(r) \/ PollTimesOut(r)

RouterStep ==
  \/ AskArrives
  \/ RunEnds
  \/ StopDone
  \/ CancelAtOnce
  \/ CancelInvalidates
  \/ Crash
  \/ Restart
  \/ \E r \in Requests :
       \/ DecideLate(r)
       \/ TimerFires(r)
       \/ \E o \in Options : Decide(r, o)

Next == AgentStep \/ PluginStep \/ RouterStep

Spec == Init /\ [][Next]_vars

\* Timers of the plugin alone: nothing is assumed of router, operator or agent.
Fairness ==
  /\ WF_vars(PromptTimesOut)
  /\ \A r \in Requests : WF_vars(Poll(r)) /\ WF_vars(PollTimesOut(r))

FairSpec == Spec /\ Fairness

-----------------------------------------------------------------------------
(* Properties *)

ApprovalState == {"none", "pending", "approved", "denied", "expired", "invalidated"}

\* Every variable has its type.
TypeOK ==
  /\ job \in JobState
  /\ approval \in [Requests -> ApprovalState]
  /\ chosen \in [Requests -> Options \cup {Undecided}]
  /\ up \in BOOLEAN /\ run \in {"inflight", "stopping", "over"}
  /\ armed \subseteq Requests /\ hosted \subseteq Requests
  /\ toRouter \in Seq(Requests)
  /\ toPlugin \in Seq([req : Requests, say : Answers])
  /\ plugin \in {"live", "dead"} /\ agent \in {"live", "dead"}
  /\ turn \in {"on", "ended", "broken"}
  /\ open \subseteq Requests /\ polling \subseteq Requests /\ asked \subseteq Requests
  /\ picked \in [Requests -> Answers \cup {Undecided}]
  /\ anyDenied \in BOOLEAN /\ interactive \in BOOLEAN
  /\ reported \in {"none", "completed", "partial"}
  /\ answers \in [Requests -> SUBSET Answers]
  /\ denied \subseteq Requests
  /\ crashes \in 0 .. MaxCrashes

\* Fail-closed: the agent is sent an allowing option only if an operator chose just
\* this option in time, whatever expired, was cancelled, crashed or was retried
\* meanwhile; never outside interactive mode.
AllowedByOperator ==
  \A r \in Requests : \A a \in answers[r] \ {Cancelled} :
    Allows(a) => interactive /\ approval[r] = "approved" /\ chosen[r] = a

\* The agent never gets two different answers to one request, although the decision,
\* the failure of the connection and two deadlines compete to answer it.
AnswersAgree == \A r \in Requests : \A a, b \in answers[r] : a = b

\* docs/plugin-protocol.md:47: soft-denied results are reported as partial.  A turn
\* in which something was refused to the agent is not reported as completed.
DenialReported == reported = "completed" => denied = {}

\* The first decision stands: neither a later one, nor expiry, cancel or recovery
\* rewrites the row.
FirstDecisionStands ==
  [][\A r \in Requests : approval[r] \in {"approved", "denied"}
        => approval'[r] = approval[r] /\ chosen'[r] = chosen[r]]_vars

\* A job awaits approval only while somebody waits for one, so that a decision or a
\* timer will take it further.  (A restarted daemon may find a job whose run ended
\* with a question open; see the run approval_stuck of JobRuntime.)
AwaitingHasWaiter == up /\ crashes = 0 /\ job = "awaiting_approval" => armed # {}

\* No agent waits for ever: every request is or an end is gone.
AgentUnblocked ==
  \A r \in Requests :
    r \in asked ~> answers[r] # {} \/ agent = "dead" \/ plugin = "dead"
=============================================================================
