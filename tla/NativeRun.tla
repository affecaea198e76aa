----------------------------- MODULE NativeRun -----------------------------
(***************************************************************************)
(* One run of a native agent: the router calls a plugin process over       *)
(* JSON-RPC, the plugin drives the agent's process and turns what it said  *)
(* into a RunResult.                                                       *)
(*                                                                         *)
(*   src/src/plugin-sdk/jsonrpc.ts      PluginClient                       *)
(*   src/src/plugin-sdk/plugin-host.ts  run, cancel, stop                  *)
(*   src/src/native/plugin.ts           run, cancel, runDevin, runAgy      *)
(*   src/src/native/acp.ts              AcpClient                          *)
(*   src/src/native/agy.ts              AgyStreamClient                    *)
(*   src/src/native/wire.ts             ChildWireProcess                   *)
(*                                                                         *)
(* Each process reads the other's output frame by frame.  A process may be *)
(* seen to have ended before all it wrote is read: Node announces 'exit'   *)
(* apart from the end of stdout.  Permission requests are in Approvals.    *)
(*                                                                         *)
(* A definition whose comment describes a defect is a faulty variant of    *)
(* the one below it, used to confirm that a property can fail.             *)
(***************************************************************************)
EXTENDS Naturals, Sequences

CONSTANTS
  Kinds,     \* kinds of agent: "devin-acp", "agy-stream"
  MaxFrames  \* bound: frames the agent sends besides answers to the plugin's calls

ASSUME NativeAssumption ==
  Kinds \subseteq {"devin-acp", "agy-stream"} /\ MaxFrames \in Nat

VARIABLES
  kind,     \* cfg.kind of the plugin
  agent,    \* the agent's process: "none", "alive", "dying", "dead"
  owed,     \* the request the agent has to answer
  out,      \* frames of the agent not yet read by the plugin
  sent,     \* bound counter of frames
  plugin,   \* the plugin's process: "up", "crashed", "stopped"
  step,     \* what the run in the plugin awaits
  session,  \* run.sessionId is known
  tools,    \* side effects the observed tools stand for
  degraded, \* toolError, sawStderr or sawMalformed
  heard,    \* resultEvent, or the stop reason of the prompt
  exited,   \* the plugin handled the agent's exit
  cancelSent, killedByUs,
  answer,   \* the result built, while the agent is being stopped
  wire,     \* frames of the plugin not yet read by the router
  rpc, got, \* the router's run call and its answer
  cancel,   \* the router's cancel call
  handled,  \* frames of the run the router acted on
  kids,     \* the agent is in the snapshot taken before the plugin is stopped
  ending,   \* history: how the agent ended its turn
  ran,      \* history: the agent ran a tool
  noise     \* history: it babbled before its turn ended

agentVars  == <<agent, owed, out, sent, ending, ran, noise>>
plugVars   == <<plugin, step, session, tools, degraded, heard, exited,
                cancelSent, killedByUs, answer>>
routerVars == <<rpc, got, cancel, handled, kids>>
nativeVars == <<kind, agentVars, plugVars, wire, routerVars>>

Nothing == "nothing"

-----------------------------------------------------------------------------
(* What the plugin makes of what it heard. *)

Result(outcome, status, effects, retry, confirmed) ==
  [outcome |-> outcome, status |-> status, side_effects |-> effects,
   retry_safety |-> retry, cancel_confirmed |-> confirmed]

NoResult == Result(Nothing, Nothing, Nothing, Nothing, FALSE)

NativeInit ==
  /\ kind \in Kinds
  /\ agent = "none" /\ owed = Nothing /\ out = <<>> /\ sent = 0
  /\ ending = Nothing /\ ran = FALSE /\ noise = FALSE
  /\ plugin = "up" /\ step = "idle" /\ session = FALSE
  /\ tools = "none" /\ degraded = FALSE /\ heard = Nothing /\ exited = FALSE
  /\ cancelSent = FALSE /\ killedByUs = FALSE /\ answer = NoResult
  /\ wire = <<>>
  /\ rpc = "idle" /\ got = NoResult /\ cancel = "no" /\ handled = {} /\ kids = FALSE

RetryAfter(effects) == IF effects = "present" THEN "unsafe" ELSE "unknown"

\* The stop reason alone confirms a cancel.
ConfirmedByWord(reason) == reason = "cancelled"

\* prompt: cancelledConfirmed.
Confirmed(reason) == reason = "cancelled" /\ cancelSent

\* classifyRun, without denials.
DevinResult(reason) ==
  IF reason = "cancelled"
  THEN Result("cancelled", "absent", tools, RetryAfter(tools), Confirmed(reason))
  ELSE Result("completed", IF reason = "end_turn" THEN "completed" ELSE "partial",
              tools, IF reason = "end_turn" THEN RetryAfter(tools) ELSE "unknown", FALSE)

\* A SUCCESS is taken at its word.
CleanAlways == TRUE

\* AgyStreamClient.run: SUCCESS is not proven clean after errors or diagnostics.
Clean == ~ degraded

\* AgyStreamClient.run once a result event, the exit or both were seen.
AgyResult ==
  CASE heard = "SUCCESS"  -> Result("completed", IF Clean THEN "completed" ELSE "partial",
                                    tools, "unknown", FALSE)
    [] heard = "CANCELED" -> Result("cancelled", "absent", tools,
                                    IF tools = "none" THEN "unknown" ELSE "unsafe", TRUE)
    [] heard = Nothing /\ killedByUs
                          -> Result("cancelled", "unknown", tools, "unknown", FALSE)
    [] OTHER              -> Result("failed", "unknown", tools, "unknown", FALSE)

\* A run that broke off during the prompt: a tool may have done anything.
Failed == Result("failed", "unknown", IF tools = "none" THEN "none" ELSE "unknown",
                 "unknown", FALSE)

\* No session yet: nothing was asked of the agent.
FailedHandshake == Result("failed", "unknown", "none", "safe", FALSE)

-----------------------------------------------------------------------------
(* The agent. *)

\* What an agent says after its plugin has ended is read by nobody.
Heeded == agent \in {"alive", "dying"} /\ plugin = "up"

Speak(f) == /\ Heeded /\ sent < MaxFrames
            /\ out' = Append(out, f) /\ sent' = sent + 1

StopReasons == {"end_turn", "cancelled", "max_tokens"}
Statuses    == {"SUCCESS", "CANCELED", "ERROR"}
TurnEnds    == IF kind = "devin-acp" THEN StopReasons ELSE Statuses

\* The answer to initialize or session/new, or an error.
AgentAnswers ==
  /\ owed \in {"initialize", "session"}
  /\ Heeded
  /\ \E f \in {"answer", "error"} : out' = Append(out, f)
  /\ owed' = Nothing
  /\ UNCHANGED <<kind, agent, sent, ending, ran, noise, plugVars, wire, routerVars>>

\* A tool starts, or a mutating one completes.
AgentUsesTool ==
  /\ owed = "prompt"
  /\ \E f \in {"tool", "tool_done"} : Speak(f)
  /\ ran' = TRUE
  /\ UNCHANGED <<kind, agent, owed, ending, noise, plugVars, wire, routerVars>>

AgentEndsTurn ==
  /\ owed = "prompt"
  /\ \E f \in TurnEnds : Speak(f) /\ ending' = f
  /\ owed' = Nothing
  /\ UNCHANGED <<kind, agent, ran, noise, plugVars, wire, routerVars>>

\* A frame that is not JSON; from agy also a line on stderr or a tool that failed.
AgentBabbles ==
  /\ Speak("garbage")
  /\ noise' = (noise \/ ending = Nothing)
  /\ UNCHANGED <<kind, agent, owed, ending, ran, plugVars, wire, routerVars>>

\* A frame past LineDecoder's bounds: whatever follows is not read.
AgentFloods ==
  /\ Heeded /\ sent < MaxFrames
  /\ out' = Append(out, "flood") /\ sent' = MaxFrames
  /\ owed' = Nothing
  /\ UNCHANGED <<kind, agent, ending, ran, noise, plugVars, wire, routerVars>>

\* The process ends by itself, or by a signal.
AgentDies ==
  /\ agent \in {"alive", "dying"}
  /\ agent' = "dead"
  /\ UNCHANGED <<kind, owed, out, sent, ending, ran, noise, plugVars, wire, routerVars>>

-----------------------------------------------------------------------------
(* The plugin. *)

\* A frame for the router: an event, a result or another answer.
Frame(type, result) == [type |-> type, result |-> result]

Emit(type)       == wire' = Append(wire, Frame(type, NoResult))
Respond(result)  == wire' = Append(wire, Frame("result", result))

\* run: the agent is spawned and asked; or the pinned executable does not verify,
\* or a second request finds the run active, and the call fails.
RunArrives ==
  /\ plugin = "up" /\ rpc # "idle" /\ step = "idle"
  /\ \/ /\ agent' = "alive"
        /\ owed' = IF kind = "devin-acp" THEN "initialize" ELSE "prompt"
        /\ step' = owed'
        /\ Emit("started")
     \/ /\ step' = "answered"
        /\ Emit("rpc_error")
        /\ UNCHANGED <<agent, owed>>
  /\ UNCHANGED <<kind, out, sent, ending, ran, noise, plugin, session, tools, degraded, heard,
                 exited, cancelSent, killedByUs, answer, routerVars>>

\* The agent is asked to end, with no second signal if it does not.
StopAgentOnce ==
  IF exited THEN UNCHANGED <<agent, killedByUs>>
  ELSE killedByUs' = TRUE /\ UNCHANGED agent

\* proc.stop: only a process not known to have exited is signalled.
StopAgent ==
  IF exited THEN UNCHANGED <<agent, killedByUs>>
  ELSE /\ killedByUs' = TRUE
       /\ agent' = IF agent = "alive" THEN "dying" ELSE agent

\* The pending call is rejected: failAll, an error answer or its timeout.  Nothing
\* happens if no call is pending.
CallRejected ==
  IF step \in {"initialize", "session", "prompt"}
  THEN /\ step' = "failing"
       /\ answer' = IF step = "prompt" THEN Failed ELSE FailedHandshake
       /\ StopAgent
  ELSE UNCHANGED <<step, answer, agent, killedByUs>>

\* Effects of a tool frame: one that completed changed something, one that merely
\* started may have.
Observed(f) ==
  CASE f = "tool_done" /\ kind = "devin-acp" -> "present"
    [] f \in {"tool", "tool_done"} /\ tools = "none" -> "unknown"
    [] OTHER -> tools

\* onSessionUpdate, onStep: the tool is noted and reported.
ReadTool(f) ==
  /\ f \in {"tool", "tool_done"}
  /\ tools' = Observed(f)
  /\ Emit("tool")
  /\ UNCHANGED <<agent, owed, step, session, degraded, heard, killedByUs, answer>>

\* The answer to the pending call; another one is stale and ignored.
ReadAnswer(f) ==
  /\ f = "answer"
  /\ step' = CASE step = "initialize" -> "session"
               [] step = "session"    -> "prompt"
               [] OTHER               -> step
  /\ session' = (session \/ step = "session")
  /\ owed' = IF step \in {"initialize", "session"} THEN step' ELSE owed
  /\ UNCHANGED <<agent, tools, degraded, heard, killedByUs, answer, wire>>

ReadError(f) ==
  /\ f = "error"
  /\ CallRejected
  /\ UNCHANGED <<owed, session, tools, degraded, heard, wire>>

\* onLine of AcpClient fails every pending call, that of AgyStreamClient notes it.
ReadGarbage(f) ==
  /\ f = "garbage"
  /\ IF kind = "devin-acp"
     THEN CallRejected /\ UNCHANGED degraded
     ELSE degraded' = TRUE /\ UNCHANGED <<step, answer, agent, killedByUs>>
  /\ UNCHANGED <<owed, session, tools, heard, wire>>

\* A stop reason resolves the prompt, a result event sets done; both are acted on
\* later, when the awaiting run wakes up.
ReadTurnEnd(f) ==
  /\ f \in TurnEnds
  /\ IF step = "prompt"
     THEN /\ heard' = f
          /\ step' = IF kind = "devin-acp" THEN "resolved" ELSE step
     ELSE UNCHANGED <<heard, step>>
  /\ UNCHANGED <<agent, owed, session, tools, degraded, killedByUs, answer, wire>>

\* protocol_error: the calls fail or the stream counts as malformed, and the
\* process is stopped.
ReadFlood(f) ==
  /\ f = "flood"
  /\ IF kind = "devin-acp" /\ step \in {"initialize", "session", "prompt"}
     THEN CallRejected ELSE StopAgent /\ UNCHANGED <<step, answer>>
  /\ degraded' = TRUE
  /\ UNCHANGED <<owed, session, tools, heard, wire>>

ReadFrame ==
  /\ plugin = "up" /\ out # <<>>
  /\ out' = Tail(out)
  /\ LET f == Head(out)
     IN  \/ ReadTool(f) \/ ReadAnswer(f) \/ ReadError(f) \/ ReadGarbage(f)
         \/ ReadTurnEnd(f) \/ ReadFlood(f)
  /\ UNCHANGED <<kind, sent, ending, ran, noise, plugin, exited, cancelSent, routerVars>>

\* 'exit' of the agent: AcpClient rejects, AgyStreamClient's loop will see it.
ExitSeen ==
  /\ plugin = "up" /\ agent = "dead" /\ ~ exited
  /\ exited' = TRUE
  /\ IF kind = "devin-acp" /\ step \in {"initialize", "session", "prompt"}
     THEN /\ step' = "failing"
          /\ answer' = IF step = "prompt" THEN Failed ELSE FailedHandshake
     ELSE UNCHANGED <<step, answer>>
  /\ UNCHANGED <<kind, agentVars, plugin, session, tools, degraded, heard, cancelSent,
                 killedByUs, wire, routerVars>>

\* The plugin's own timers: of a call to the agent, or of the whole agy run.
DeadlinePasses ==
  /\ plugin = "up" /\ step \in {"initialize", "session", "prompt"}
  /\ kind = "agy-stream" => heard = Nothing /\ ~ exited
  /\ CallRejected
  /\ UNCHANGED <<kind, owed, out, sent, ending, ran, noise, plugin, session, tools, degraded,
                 heard, exited, cancelSent, wire, routerVars>>

\* The prompt is answered and the run goes on: classifyRun, then stop.
DevinClassifies ==
  /\ plugin = "up" /\ step = "resolved"
  /\ answer' = DevinResult(heard)
  /\ step' = "stopping"
  /\ StopAgent
  /\ UNCHANGED <<kind, owed, out, sent, ending, ran, noise, plugin, session, tools, degraded,
                 heard, exited, cancelSent, wire, routerVars>>

\* The polling loop of AgyStreamClient.run ends.  An agent that neither exited nor
\* was stopped already is stopped before the answer.
AgyPolls ==
  /\ plugin = "up" /\ kind = "agy-stream" /\ step = "prompt"
  /\ heard # Nothing \/ exited
  /\ IF exited \/ killedByUs
     THEN /\ step' = "answered"
          /\ Respond(AgyResult)
          /\ UNCHANGED <<agent, killedByUs, answer>>
     ELSE /\ step' = "stopping"
          /\ answer' = AgyResult
          /\ StopAgent
          /\ UNCHANGED wire
  /\ UNCHANGED <<kind, owed, out, sent, ending, ran, noise, plugin, session, tools, degraded,
                 heard, exited, cancelSent, routerVars>>

\* The prompt cannot be written to the agent: runAgy throws and leaves it running.
AgyPromptLost ==
  /\ plugin = "up" /\ kind = "agy-stream" /\ step = "prompt" /\ heard = Nothing
  /\ step' = "answered"
  /\ Emit("rpc_error")
  /\ UNCHANGED <<kind, agentVars, plugin, session, tools, degraded, heard, exited,
                 cancelSent, killedByUs, answer, routerVars>>

\* The effects are those known when the failure was noticed.
FinalResultEarly == answer

\* The result of a run whose agent has been stopped: effects as known by now.
FinalResult == IF step = "failing" /\ answer # FailedHandshake THEN Failed ELSE answer

\* The agent's exit was seen, and the run is answered.
RunAnswers ==
  /\ plugin = "up" /\ step \in {"failing", "stopping"} /\ exited
  /\ step' = "answered"
  /\ Respond(FinalResult)
  /\ UNCHANGED <<kind, agentVars, plugin, session, tools, degraded, heard, exited,
                 cancelSent, killedByUs, answer, routerVars>>

\* cancel: an ACP session is asked, otherwise the agent is stopped.  Both are
\* acknowledged, the second once the agent has exited.
CancelArrives ==
  /\ plugin = "up" /\ cancel = "sent"
  /\ IF step \in {"idle", "answered"}
     THEN /\ Emit("already_finished") /\ cancel' = "waiting"
          /\ UNCHANGED <<cancelSent, agent, killedByUs>>
     ELSE IF kind = "devin-acp" /\ session
     THEN /\ Emit("accepted") /\ cancel' = "waiting"
          /\ cancelSent' = TRUE
          /\ UNCHANGED <<agent, killedByUs>>
     ELSE /\ cancel' = "stopping"
          /\ StopAgent
          /\ UNCHANGED <<cancelSent, wire>>
  /\ UNCHANGED <<kind, owed, out, sent, ending, ran, noise, plugin, step, session, tools,
                 degraded, heard, exited, answer, rpc, got, handled, kids>>

CancelStopped ==
  /\ plugin = "up" /\ cancel = "stopping" /\ exited
  /\ Emit("accepted") /\ cancel' = "waiting"
  /\ UNCHANGED <<kind, agentVars, plugVars, rpc, got, handled, kids>>

\* With the plugin's process goes what it knew and what it had not read; the agent
\* is left behind.
PluginEnds(how) ==
  /\ plugin' = how
  /\ step' = "idle" /\ session' = FALSE /\ tools' = "none" /\ degraded' = FALSE
  /\ heard' = Nothing /\ exited' = FALSE /\ cancelSent' = FALSE /\ killedByUs' = FALSE
  /\ answer' = NoResult
  /\ out' = <<>> /\ owed' = Nothing

PluginDies ==
  /\ plugin = "up" /\ rpc = "waiting"
  /\ PluginEnds("crashed")
  /\ UNCHANGED <<kind, agent, sent, ending, ran, noise, wire, routerVars>>

-----------------------------------------------------------------------------
(* The router. *)

SendRun ==
  /\ rpc = "idle"
  /\ rpc' = "waiting"
  /\ UNCHANGED <<kind, agentVars, plugVars, wire, got, cancel, handled, kids>>

\* Runtime.cancel with the run in flight.
SendCancel ==
  /\ rpc = "waiting" /\ cancel = "no"
  /\ cancel' = "sent"
  /\ UNCHANGED <<kind, agentVars, plugVars, wire, rpc, got, handled, kids>>

InFlight == {"sent", "stopping", "waiting"}

\* Nothing is looked for before the plugin is stopped.
SnapshotNone == FALSE

\* snapshotPluginChildren.
Snapshot == plugin = "up" /\ agent \in {"alive", "dying"}

\* host.run settled.  In the same turn of the event loop runAttempt takes the snapshot
\* and stops the plugin, which fails a cancel still pending.
RunSettles(result) ==
  /\ rpc' = "stopped" /\ got' = result
  /\ kids' = Snapshot
  /\ PluginEnds(IF plugin = "up" THEN "stopped" ELSE plugin)
  /\ cancel' = IF cancel \in InFlight THEN "failed" ELSE cancel

Awaited(f) == f.type \in {"result", "rpc_error"} /\ rpc = "waiting"

\* An answer finds its call by id, and no call if that one was given up.
TakeAnswer(f) ==
  IF Awaited(f) THEN RunSettles(f.result)
  ELSE /\ cancel' = IF f.type \in {"accepted", "already_finished"} /\ cancel \in InFlight
                    THEN f.type ELSE cancel
       /\ UNCHANGED <<rpc, got, kids, plugVars, out, owed>>

\* run.event: run.started counts only while the agent is provably a child of the
\* plugin, which takes both alive.
TakeEvent(f) ==
  LET counts == \/ f.type = "tool"
                \/ f.type = "started" /\ plugin = "up" /\ agent \in {"alive", "dying"}
  IN  handled' = IF counts THEN handled \cup {f.type} ELSE handled

\* onLine of PluginClient.
ReadPlugin ==
  /\ wire # <<>> /\ rpc # "over"
  /\ wire' = Tail(wire)
  /\ TakeAnswer(Head(wire))
  /\ TakeEvent(Head(wire))
  /\ UNCHANGED <<kind, agent, sent, ending, ran, noise>>

\* 'exit' of the plugin: every pending call fails, frames may be left unread.
PluginExitSeen ==
  /\ plugin = "crashed" /\ rpc = "waiting"
  /\ RunSettles(NoResult)
  /\ UNCHANGED <<kind, agent, sent, ending, ran, noise, wire, handled>>

\* The timer of call, armed with the run's deadline.
RunTimesOut ==
  /\ rpc = "waiting"
  /\ RunSettles(NoResult)
  /\ UNCHANGED <<kind, agent, sent, ending, ran, noise, wire, handled>>

CancelTimesOut ==
  /\ cancel \in InFlight
  /\ cancel' = "failed"
  /\ UNCHANGED <<kind, agentVars, plugVars, wire, rpc, got, handled, kids>>

\* stopVerifiedGroup on the recorded child and on those of the snapshot.
StopChildren ==
  /\ rpc = "stopped"
  /\ rpc' = "over"
  /\ agent' = IF (kids \/ "started" \in handled) /\ agent # "none" THEN "dead" ELSE agent
  /\ UNCHANGED <<kind, owed, out, sent, ending, ran, noise, plugVars, wire, got, cancel,
                 handled, kids>>

NativeNext ==
  \/ AgentAnswers \/ AgentUsesTool \/ AgentEndsTurn \/ AgentBabbles \/ AgentFloods
  \/ AgentDies
  \/ RunArrives \/ ReadFrame \/ ExitSeen \/ DeadlinePasses \/ DevinClassifies
  \/ AgyPolls \/ AgyPromptLost \/ RunAnswers \/ CancelArrives \/ CancelStopped
  \/ PluginDies
  \/ SendRun \/ SendCancel \/ ReadPlugin \/ PluginExitSeen \/ RunTimesOut
  \/ CancelTimesOut \/ StopChildren

\* The plugin's timers fire, pipes of live processes are read, a killed process ends.
\* Nothing is assumed of the agent, and nothing of the router's timers.  The steps of a
\* run are finitely many, so that nothing of this is left undone.
NativeStep ==
  \/ RunArrives \/ ReadFrame \/ ExitSeen \/ (agent = "dying" /\ AgentDies)
  \/ DeadlinePasses \/ DevinClassifies \/ AgyPolls \/ RunAnswers
  \/ CancelArrives \/ CancelStopped \/ ReadPlugin \/ PluginExitSeen \/ StopChildren
NativeFairness == WF_nativeVars(NativeStep)

-----------------------------------------------------------------------------
(* Properties. *)

NativeTypeOK ==
  /\ kind \in Kinds
  /\ agent \in {"none", "alive", "dying", "dead"}
  /\ owed \in {Nothing, "initialize", "session", "prompt"}
  /\ step \in {"idle", "initialize", "session", "prompt", "resolved", "failing",
              "stopping", "answered"}
  /\ tools \in {"none", "unknown", "present"}
  /\ heard \in {Nothing} \cup StopReasons \cup Statuses
  /\ plugin \in {"up", "crashed", "stopped"}
  /\ rpc \in {"idle", "waiting", "stopped", "over"}
  /\ cancel \in InFlight \cup {"no", "accepted", "already_finished", "failed"}
  /\ Len(out) <= MaxFrames + 1

\* A completed run is one whose agent ended its turn well and said nothing that
\* could not be read; without side effects it ran no tool at all, reported or not.
HonestCompletion ==
  got.outcome = "completed" =>
    /\ got.status = "completed" => ending \in {"end_turn", "SUCCESS"} /\ ~ noise
    /\ got.side_effects = "none" => ~ ran

\* Whatever way a run ends, a result that denies side effects is never taken by a
\* router that was told of a tool, although the tool may have been reported while
\* the agent was being stopped.
EffectsAdmitted ==
  [][got' # got /\ got'.side_effects = "none" => "tool" \notin handled]_nativeVars

\* A cancel is confirmed by the agent's own last word, for ACP by its answer to a
\* cancel that was sent; stopping a process confirms nothing.
CancelHonest ==
  got.cancel_confirmed =>
    /\ ending \in {"cancelled", "CANCELED"}
    /\ kind = "devin-acp" => cancel # "no"

\* Once an attempt is over its agent is gone, unless the plugin died by itself before
\* the router could tie the agent to it.
AgentGone ==
  rpc = "over" /\ agent \in {"alive", "dying"} => plugin = "crashed" /\ "started" \notin handled

\* A plugin that lives answers the run and the cancel in time of its own, whatever its
\* agent does or does not do: the router's timers are a second line only.
AttemptEnds == /\ (rpc = "waiting") ~> (rpc = "over")
               /\ (cancel = "sent") ~> (cancel \notin InFlight)
=============================================================================
