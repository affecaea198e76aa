--------------------------- MODULE NativeRunProofs ---------------------------
(***************************************************************************)
(* What a run may report, for any agents and any number of frames.         *)
(*                                                                         *)
(* The pipe from the agent keeps its order, so that when the end of a turn *)
(* is read, everything the agent said before it has been read: the tools   *)
(* are known (Ran, Ends), and what could not be read has left its mark     *)
(* (Noisy).  The pipe to the router keeps its order too: a result that     *)
(* denies side effects was written before any tool was reported            *)
(* (Reported).                                                             *)
(***************************************************************************)
EXTENDS NativeRun, SequenceTheorems, TLAPS

NativeSpec == NativeInit /\ [][NativeNext]_nativeVars

Tools == {"tool", "tool_done"}
Stops == StopReasons \cup Statuses
OutFrames == {"answer", "error", "garbage", "flood"} \cup Tools \cup Stops

Effects == {"none", "unknown", "present"}

RunResults ==
  [ outcome          : {Nothing, "completed", "cancelled", "failed"},
    status           : {Nothing, "completed", "partial", "absent", "unknown"},
    side_effects     : {Nothing} \cup Effects,
    retry_safety     : {Nothing, "safe", "unsafe", "unknown"},
    cancel_confirmed : BOOLEAN ]

FrameTypes == {"started", "tool", "result", "rpc_error", "accepted", "already_finished"}

\* The results that hold what HonestCompletion and CancelHonest ask of them, for good.
GoodResults ==
  { r \in RunResults :
      /\ r.outcome = "completed" =>
           /\ ending # Nothing
           /\ r.status = "completed" => ending \in {"end_turn", "SUCCESS"} /\ ~ noise
           /\ r.side_effects = "none" => ~ ran
      /\ r.cancel_confirmed =>
           /\ ending \in {"cancelled", "CANCELED"}
           /\ kind = "devin-acp" => cancel # "no" }

GoodFrames == [type : FrameTypes, result : GoodResults]

PlainShape ==
  /\ kind \in {"devin-acp", "agy-stream"}
  /\ agent \in {"none", "alive", "dying", "dead"}
  /\ owed \in {Nothing, "initialize", "session", "prompt"}
  /\ out \in Seq(OutFrames)
  /\ plugin \in {"up", "crashed", "stopped"}
  /\ step \in {"idle", "initialize", "session", "prompt", "resolved", "failing", "stopping",
               "answered"}
  /\ tools \in Effects
  /\ heard \in {Nothing} \cup Stops
  /\ ending \in {Nothing} \cup Stops
  /\ degraded \in BOOLEAN /\ noise \in BOOLEAN /\ ran \in BOOLEAN /\ cancelSent \in BOOLEAN
  /\ cancelSent => cancel # "no"
  /\ step = "resolved" => kind = "devin-acp"

NativeShape == PlainShape /\ wire \in Seq(GoodFrames) /\ got \in GoodResults

Lacks(q, S) == \A i \in DOMAIN q : q[i] \notin S

\* Nothing was asked of the agent yet.
Early ==
  plugin = "up" /\ step \in {"idle", "initialize", "session"} =>
    /\ owed # "prompt" /\ tools = "none" /\ ending = Nothing /\ heard = Nothing /\ ~ ran
    /\ Lacks(out, Tools)
    /\ step = "idle" => agent = "none" /\ ~ noise

Ends ==
  /\ ending # Nothing => owed # "prompt"
  /\ \A i \in DOMAIN out : out[i] \in Stops =>
       /\ out[i] = ending
       /\ \A j \in DOMAIN out : j > i => out[j] \notin Tools
  /\ heard # Nothing => heard = ending /\ Lacks(out, Tools)
  /\ step \in {"resolved", "stopping"} => heard # Nothing

Marked == IF kind = "devin-acp" THEN step \in {"failing", "answered"} ELSE degraded

UnreadNoise ==
  \E j \in DOMAIN out : /\ out[j] = "garbage"
                        /\ \A i \in DOMAIN out : i < j => out[i] \notin Stops

Noisy == plugin = "up" /\ noise => Marked \/ (heard = Nothing /\ UnreadNoise)

Ran == plugin = "up" /\ ran => tools # "none" \/ ~ Lacks(out, Tools)

\* A failed handshake denies side effects, and none can follow.
Handshake ==
  plugin = "up" /\ step = "failing" /\ answer = FailedHandshake =>
    tools = "none" /\ owed # "prompt" /\ Lacks(out, Tools)

Stopping ==
  step = "stopping" =>
    answer \in GoodResults /\ (answer.side_effects = "none" => tools = "none")

PluginInv == Early /\ Ends /\ Noisy /\ Ran /\ Handshake /\ Stopping

Reported ==
  /\ plugin = "up" /\ tools = "none" =>
       "tool" \notin handled /\ \A i \in DOMAIN wire : wire[i].type # "tool"
  /\ \A i \in DOMAIN wire : wire[i].result.side_effects = "none" =>
       "tool" \notin handled /\ \A j \in DOMAIN wire : j < i => wire[j].type # "tool"

Gone ==
  /\ plugin = "stopped" => rpc \in {"stopped", "over"}
  /\ rpc \in {"stopped", "over"} => plugin # "up"
  /\ rpc = "stopped" /\ agent \in {"alive", "dying"} => kids \/ plugin = "crashed"
  /\ AgentGone

-----------------------------------------------------------------------------
LEMMA AppendFacts ==
  ASSUME NEW S, NEW q \in Seq(S), NEW x \in S
  PROVE  /\ Append(q, x) \in Seq(S)
         /\ Len(q) + 1 \in DOMAIN Append(q, x) /\ Append(q, x)[Len(q) + 1] = x
         /\ \A i \in DOMAIN q : /\ i \in DOMAIN Append(q, x) /\ Append(q, x)[i] = q[i]
                                /\ i < Len(q) + 1
         /\ \A i \in DOMAIN Append(q, x) : i \in DOMAIN q \/ i = Len(q) + 1
BY AppendProperties, LenProperties

LEMMA TailFacts ==
  ASSUME NEW S, NEW q \in Seq(S), q # <<>>
  PROVE  /\ Tail(q) \in Seq(S) /\ Head(q) = q[1] /\ 1 \in DOMAIN q /\ q[1] \in S
         /\ \A i \in DOMAIN Tail(q) : /\ i \in Nat \ {0} /\ i + 1 \in DOMAIN q
                                      /\ Tail(q)[i] = q[i + 1]
         /\ \A i \in DOMAIN q :
              i = 1 \/ (i - 1 \in DOMAIN Tail(q) /\ Tail(q)[i - 1] = q[i] /\ i > 1)
<1>1. /\ Tail(q) \in Seq(S) /\ Head(q) = q[1] /\ Len(q) \in Nat /\ Len(q) # 0
      /\ Len(Tail(q)) = Len(q) - 1
      /\ \A i \in 1 .. Len(Tail(q)) : Tail(q)[i] = q[i + 1]
  BY HeadTailProperties, EmptySeq, LenProperties
<1>2. DOMAIN q = 1 .. Len(q) /\ DOMAIN Tail(q) = 1 .. (Len(q) - 1)
  BY <1>1, LenProperties
<1>3. 1 \in DOMAIN q /\ q[1] \in S
  BY <1>1, <1>2, ElementOfSeq
<1>4. QED
  BY <1>1, <1>2, <1>3

\* Good results stay good: an agent that ended its turn runs no more tools, and what
\* it babbles then is no noise.
LEMMA GoodStays ==
  ASSUME NativeShape, Ends, [NativeNext]_nativeVars
  PROVE  GoodResults \subseteq GoodResults' /\ kind' = kind
<1>1. kind' = kind
  BY DEF NativeNext, nativeVars, AgentAnswers, AgentUsesTool, AgentEndsTurn, AgentBabbles,
         AgentFloods, AgentDies, RunArrives, ReadFrame, ExitSeen, DeadlinePasses,
         DevinClassifies, AgyPolls, AgyPromptLost, RunAnswers, CancelArrives, CancelStopped,
         PluginDies, SendRun, SendCancel, ReadPlugin, PluginExitSeen, RunTimesOut,
         CancelTimesOut, StopChildren
<1>2. ending # Nothing => ending' = ending /\ noise' = noise /\ ran' = ran
  BY DEF Ends, NativeNext, nativeVars, agentVars, AgentAnswers, AgentUsesTool, AgentEndsTurn,
         AgentBabbles, AgentFloods, AgentDies, RunArrives, ReadFrame, ExitSeen, DeadlinePasses,
         DevinClassifies, AgyPolls, AgyPromptLost, RunAnswers, CancelArrives, CancelStopped,
         PluginDies, SendRun, SendCancel, ReadPlugin, PluginExitSeen, RunTimesOut,
         CancelTimesOut, StopChildren, NativeShape, PlainShape
<1>3. cancel # "no" => cancel' # "no"
  BY DEF NativeNext, nativeVars, routerVars, AgentAnswers, AgentUsesTool, AgentEndsTurn,
         AgentBabbles, AgentFloods, AgentDies, RunArrives, ReadFrame, ExitSeen, DeadlinePasses,
         DevinClassifies, AgyPolls, AgyPromptLost, RunAnswers, CancelArrives, CancelStopped,
         PluginDies, SendRun, SendCancel, ReadPlugin, TakeAnswer, PluginExitSeen, RunTimesOut,
         RunSettles, CancelTimesOut, StopChildren, InFlight
<1>4. QED
  BY <1>1, <1>2, <1>3 DEF GoodResults, Stops, Nothing

-----------------------------------------------------------------------------
(* The plugin. *)

core == <<kind, plugin, step, owed, tools, ending, ran, heard, out, noise, degraded, answer>>

LEMMA CoreKept ==
  ASSUME PluginInv, GoodResults \subseteq GoodResults', UNCHANGED core,
         agent = "none" => agent' = "none"
  PROVE  PluginInv'
<1>1. Early' /\ Handshake'
  BY DEF PluginInv, core, Early, Handshake, Lacks, FailedHandshake, Result
<1>2. Ends' /\ Ran'
  BY DEF PluginInv, core, Ends, Ran, Lacks
<1>3. Noisy'
  BY DEF PluginInv, core, Noisy, Marked, UnreadNoise
<1>4. Stopping'
  BY DEF PluginInv, core, Stopping
<1>5. QED
  BY <1>1, <1>2, <1>3, <1>4 DEF PluginInv

LEMMA PluginOver ==
  ASSUME NEW how \in {"crashed", "stopped"}, PluginEnds(how)
  PROVE  PluginInv'
BY DEF PluginEnds, PluginInv, Early, Ends, Noisy, Ran, Handshake, Stopping, Nothing

\* The agent says f.
Says(f) ==
  /\ f \in OutFrames /\ out' = Append(out, f) /\ Heeded
  /\ UNCHANGED <<kind, agent, plugVars>>
  /\ owed' \in {owed, Nothing}
  /\ IF f \in Tools THEN owed = "prompt" /\ ran' = TRUE ELSE ran' = ran
  /\ IF f \in Stops THEN owed = "prompt" /\ ending' = f /\ owed' = Nothing ELSE ending' = ending
  /\ noise' = IF f = "garbage" THEN noise \/ ending = Nothing ELSE noise

LEMMA Speaking ==
  ASSUME NativeShape,
         \/ AgentAnswers \/ AgentUsesTool \/ AgentEndsTurn \/ AgentBabbles \/ AgentFloods
  PROVE  \E f : Says(f)
<1>1. CASE AgentAnswers
  <2>1. PICK f \in {"answer", "error"} : out' = Append(out, f)
    BY <1>1 DEF AgentAnswers
  <2>2. f \in OutFrames /\ f \notin Tools /\ f \notin Stops /\ f # "garbage"
    BY <2>1 DEF OutFrames, Tools, Stops, StopReasons, Statuses
  <2>3. QED
    BY <1>1, <2>1, <2>2 DEF AgentAnswers, Says
<1>2. CASE AgentUsesTool
  <2>1. PICK f \in Tools : Speak(f)
    BY <1>2 DEF AgentUsesTool, Tools
  <2>2. f \in OutFrames /\ f \notin Stops /\ f # "garbage"
    BY <2>1 DEF OutFrames, Tools, Stops, StopReasons, Statuses
  <2>3. QED
    BY <1>2, <2>1, <2>2 DEF AgentUsesTool, Says, Speak
<1>3. CASE AgentEndsTurn
  <2>1. PICK f \in TurnEnds : Speak(f) /\ ending' = f
    BY <1>3 DEF AgentEndsTurn
  <2>2. f \in OutFrames /\ f \in Stops /\ f \notin Tools /\ f # "garbage"
    BY <2>1 DEF TurnEnds, OutFrames, Tools, Stops, StopReasons, Statuses
  <2>3. QED
    BY <1>3, <2>1, <2>2 DEF AgentEndsTurn, Says, Speak
<1>4. CASE AgentBabbles
  <2>1. "garbage" \in OutFrames /\ "garbage" \notin Stops /\ "garbage" \notin Tools
    BY DEF OutFrames, Tools, Stops, StopReasons, Statuses
  <2>2. QED
    BY <1>4, <2>1 DEF AgentBabbles, Says, Speak
<1>5. CASE AgentFloods
  <2>1. "flood" \in OutFrames /\ "flood" \notin Stops /\ "flood" \notin Tools
    BY DEF OutFrames, Tools, Stops, StopReasons, Statuses
  <2>2. QED
    BY <1>5, <2>1 DEF AgentFloods, Says
<1>6. QED
  BY <1>1, <1>2, <1>3, <1>4, <1>5

LEMMA SaysKeeps ==
  ASSUME NativeShape, PluginInv, GoodResults \subseteq GoodResults', NEW f, Says(f)
  PROVE  PluginInv'
<1>1. /\ plugin = "up" /\ agent # "none" /\ f \in OutFrames
      /\ UNCHANGED <<kind, plugin, agent, step, tools, heard, degraded, answer>>
  BY DEF Says, Heeded, plugVars
<1>2. /\ Len(out) + 1 \in DOMAIN out' /\ out'[Len(out) + 1] = f
      /\ \A i \in DOMAIN out : i \in DOMAIN out' /\ out'[i] = out[i] /\ i < Len(out) + 1
      /\ \A i \in DOMAIN out' : i \in DOMAIN out \/ i = Len(out) + 1
  BY <1>1, AppendFacts DEF Says, NativeShape, PlainShape
<1>3. Nothing \notin Stops /\ \A g \in Tools : g \notin Stops
  BY DEF Nothing, Stops, Tools, StopReasons, Statuses
<1>4. owed = "prompt" => ending = Nothing /\ heard = Nothing /\ Lacks(out, Stops)
  BY <1>3 DEF PluginInv, Ends, Lacks
<1>5. Lacks(out, Tools) /\ f \notin Tools => Lacks(out', Tools)
  BY <1>2 DEF Lacks
<1>6. Early'
  <2> SUFFICES ASSUME step \in {"initialize", "session"}
               PROVE  /\ owed' # "prompt" /\ tools' = "none" /\ ending' = Nothing
                      /\ heard' = Nothing /\ ~ ran' /\ Lacks(out', Tools)
    BY <1>1 DEF PluginInv, Early
  <2>1. /\ owed # "prompt" /\ tools = "none" /\ ending = Nothing /\ heard = Nothing /\ ~ ran
        /\ Lacks(out, Tools)
    BY <1>1 DEF PluginInv, Early
  <2>2. f \notin Tools /\ f \notin Stops
    BY <2>1 DEF Says
  <2>3. QED
    BY <1>1, <1>5, <2>1, <2>2 DEF Says, Nothing
<1>7. Ends'
  <2>1. ending' # Nothing => owed' # "prompt"
    BY DEF PluginInv, Ends, Says, Nothing
  <2>2. \A i \in DOMAIN out' : out'[i] \in Stops => out'[i] = ending'
    BY <1>2, <1>3, <1>4 DEF PluginInv, Ends, Says, Lacks
  <2>3. ASSUME NEW i \in DOMAIN out', NEW j \in DOMAIN out', j > i, out'[i] \in Stops
        PROVE  out'[j] \notin Tools
    <3>1. i \in DOMAIN out
      <4>1. i = Len(out) + 1 => ~ (j > i)
        BY <1>2 DEF NativeShape, PlainShape
      <4>2. QED
        BY <1>2, <2>3, <4>1
    <3>2. CASE j \in DOMAIN out
      BY <1>2, <2>3, <3>1, <3>2 DEF PluginInv, Ends
    <3>3. CASE j = Len(out) + 1
      BY <1>2, <1>4, <2>3, <3>1, <3>3 DEF Says, Lacks
    <3>4. QED
      BY <1>2, <3>2, <3>3
  <2>4. heard' # Nothing => heard' = ending' /\ Lacks(out', Tools)
    BY <1>1, <1>4, <1>5 DEF PluginInv, Ends, Says
  <2>5. step' \in {"resolved", "stopping"} => heard' # Nothing
    BY <1>1 DEF PluginInv, Ends
  <2>6. QED
    BY <2>1, <2>2, <2>3, <2>4, <2>5 DEF Ends
<1>8. Noisy'
  <2>1. Marked => Marked'
    BY <1>1 DEF Marked
  <2>2. UnreadNoise => UnreadNoise'
    <3>1. ASSUME NEW j \in DOMAIN out, out[j] = "garbage",
                 \A i \in DOMAIN out : i < j => out[i] \notin Stops
          PROVE  UnreadNoise'
      <4>1. \A i \in DOMAIN out' : i < j => i \in DOMAIN out
        BY <1>2 DEF NativeShape, PlainShape
      <4>2. QED
        BY <1>2, <3>1, <4>1 DEF UnreadNoise
    <3>2. QED
      BY <3>1 DEF UnreadNoise
  <2>3. CASE noise' # noise
    <3>1. f = "garbage" /\ ending = Nothing
      BY <2>3 DEF Says, NativeShape, PlainShape
    <3>2. heard' = Nothing /\ Lacks(out, Stops)
      BY <1>1, <1>3, <3>1 DEF PluginInv, Ends, Lacks
    <3>3. \A i \in DOMAIN out' : i < Len(out) + 1 => i \in DOMAIN out
      BY <1>2 DEF NativeShape, PlainShape
    <3>4. UnreadNoise'
      BY <1>2, <3>1, <3>2, <3>3 DEF UnreadNoise, Lacks
    <3>5. QED
      BY <3>2, <3>4 DEF Noisy
  <2>4. CASE noise' = noise
    BY <1>1, <2>1, <2>2, <2>4 DEF PluginInv, Noisy
  <2>5. QED
    BY <2>3, <2>4
<1>9. Ran'
  BY <1>1, <1>2 DEF PluginInv, Ran, Says, Lacks
<1>10. Handshake'
  BY <1>1, <1>5 DEF PluginInv, Handshake, Says, Nothing, FailedHandshake, Result
<1>11. Stopping'
  BY <1>1 DEF PluginInv, Stopping
<1>12. QED
  BY <1>6, <1>7, <1>8, <1>9, <1>10, <1>11 DEF PluginInv

-----------------------------------------------------------------------------
(* What the plugin reads. *)

\* What is left of the pipe when its first frame was read.
LEMMA Shifted ==
  ASSUME NativeShape, out # <<>>, out' = Tail(out)
  PROVE  /\ Head(out) = out[1] /\ 1 \in DOMAIN out /\ out[1] \in OutFrames
         /\ \A S : Lacks(out, S) => out[1] \notin S /\ Lacks(out', S)
         /\ Lacks(out', Tools) /\ out[1] \notin Tools => Lacks(out, Tools)
<1>1. /\ Head(out) = out[1] /\ 1 \in DOMAIN out /\ out[1] \in OutFrames
      /\ \A i \in DOMAIN out' : /\ i \in Nat \ {0} /\ i + 1 \in DOMAIN out
                                 /\ out'[i] = out[i + 1]
      /\ \A i \in DOMAIN out :
           i = 1 \/ (i - 1 \in DOMAIN out' /\ out'[i - 1] = out[i] /\ i > 1)
  BY TailFacts DEF NativeShape, PlainShape
<1>2. QED
  BY <1>1 DEF Lacks

LEMMA ShiftedEnds ==
  ASSUME NativeShape, Ends, out # <<>>, out' = Tail(out), ending' = ending
  PROVE  /\ \A i \in DOMAIN out' : out'[i] \in Stops =>
              /\ out'[i] = ending'
              /\ \A j \in DOMAIN out' : j > i => out'[j] \notin Tools
         /\ out[1] \in Stops => out[1] = ending /\ Lacks(out', Tools) /\ ~ UnreadNoise
         /\ out[1] \notin Stops /\ out[1] # "garbage" /\ UnreadNoise => UnreadNoise'
<1>1. /\ 1 \in DOMAIN out /\ DOMAIN out \subseteq Nat \ {0}
      /\ \A i \in DOMAIN out' : /\ i \in Nat \ {0} /\ i + 1 \in DOMAIN out
                                 /\ out'[i] = out[i + 1]
      /\ \A i \in DOMAIN out :
           i = 1 \/ (i - 1 \in DOMAIN out' /\ out'[i - 1] = out[i] /\ i > 1)
  BY TailFacts, LenProperties DEF NativeShape, PlainShape
<1>2. ASSUME NEW i \in DOMAIN out', out'[i] \in Stops
      PROVE  /\ out'[i] = ending'
             /\ \A j \in DOMAIN out' : j > i => out'[j] \notin Tools
  BY <1>1, <1>2 DEF Ends
<1>3. ASSUME out[1] \in Stops
      PROVE  out[1] = ending /\ Lacks(out', Tools) /\ ~ UnreadNoise
  <2>1. out[1] = ending /\ \A j \in DOMAIN out : j > 1 => out[j] \notin Tools
    BY <1>1, <1>3 DEF Ends
  <2>2. Lacks(out', Tools)
    BY <1>1, <2>1 DEF Lacks
  <2>3. ASSUME NEW j \in DOMAIN out, out[j] = "garbage",
               \A i \in DOMAIN out : i < j => out[i] \notin Stops
        PROVE  FALSE
    <3>1. j = 1
      BY <1>1, <1>3, <2>3
    <3>2. QED
      BY <1>3, <2>3, <3>1 DEF Stops, StopReasons, Statuses
  <2>4. QED
    BY <2>1, <2>2, <2>3 DEF UnreadNoise
<1>4. ASSUME out[1] # "garbage", UnreadNoise
      PROVE  UnreadNoise'
  <2>1. PICK j \in DOMAIN out : /\ out[j] = "garbage"
                                /\ \A i \in DOMAIN out : i < j => out[i] \notin Stops
    BY <1>4 DEF UnreadNoise
  <2>2. j - 1 \in DOMAIN out' /\ out'[j - 1] = "garbage"
    BY <1>1, <1>4, <2>1
  <2>3. \A i \in DOMAIN out' : i < j - 1 => out'[i] \notin Stops
    BY <1>1, <2>1
  <2>4. QED
    BY <2>2, <2>3 DEF UnreadNoise
<1>5. QED
  BY <1>2, <1>3, <1>4

\* What a frame may change besides.
LEMMA ReadKinds ==
  ASSUME NativeShape, ReadFrame
  PROVE  /\ plugin = "up" /\ out # <<>> /\ out' = Tail(out)
         /\ UNCHANGED <<kind, plugin, sent, ending, ran, noise>>
         /\ agent = "none" => agent' = "none"
         /\ \/ ReadTool(Head(out)) \/ ReadAnswer(Head(out)) \/ ReadError(Head(out))
            \/ ReadGarbage(Head(out)) \/ ReadTurnEnd(Head(out)) \/ ReadFlood(Head(out))
BY DEF ReadFrame, ReadTool, ReadAnswer, ReadError, ReadGarbage, ReadTurnEnd, ReadFlood,
       CallRejected, StopAgent

Pending == {"initialize", "session", "prompt"}

\* What the reading of frame f does to the run.
LEMMA Reading ==
  ASSUME NativeShape, NEW f \in OutFrames,
         \/ ReadTool(f) \/ ReadAnswer(f) \/ ReadError(f)
         \/ ReadGarbage(f) \/ ReadTurnEnd(f) \/ ReadFlood(f)
  PROVE  /\ f \in Tools => tools' # "none" /\ UNCHANGED <<step, owed, heard, answer>>
         /\ f \notin Tools => tools' = tools
         /\ owed' = owed \/ (step \in {"initialize", "session"} /\ owed' = step')
         /\ heard' = heard \/ (f \in Stops /\ heard' = f)
         /\ \/ UNCHANGED <<step, answer>>
            \/ step = "initialize" /\ step' = "session" /\ UNCHANGED <<answer, heard>>
            \/ step = "session" /\ step' = "prompt" /\ UNCHANGED <<answer, heard>>
            \/ /\ step = "prompt" /\ step' = "resolved" /\ kind = "devin-acp"
               /\ f \in Stops /\ heard' = f
            \/ /\ step \in Pending /\ step' = "failing" /\ UNCHANGED <<heard, owed>>
               /\ answer' = IF step = "prompt" THEN Failed ELSE FailedHandshake
         /\ degraded => degraded'
         /\ f = "garbage" =>
              IF kind = "devin-acp" THEN step \notin Pending \/ step' = "failing" ELSE degraded'
<1>1. /\ \A t \in Tools : t \notin Stops /\ t # "garbage"
      /\ "garbage" \notin Stops /\ "garbage" \notin Tools
      /\ \A x \in TurnEnds : x \in Stops /\ x \notin Tools
      /\ \A x \in {"answer", "error", "flood"} : x \notin Tools /\ x # "garbage"
  BY DEF Stops, Tools, StopReasons, Statuses, TurnEnds
<1>2. CASE ReadTool(f)
  BY <1>1, <1>2 DEF ReadTool, Observed, NativeShape, PlainShape, Effects, Tools
<1>3. CASE ReadAnswer(f)
  BY <1>1, <1>3 DEF ReadAnswer, NativeShape, PlainShape
<1>4. CASE ReadError(f)
  BY <1>1, <1>4 DEF ReadError, CallRejected, Pending, NativeShape, PlainShape
<1>5. CASE ReadGarbage(f)
  BY <1>1, <1>5 DEF ReadGarbage, CallRejected, Pending, NativeShape, PlainShape
<1>6. CASE ReadTurnEnd(f)
  BY <1>1, <1>6 DEF ReadTurnEnd, NativeShape, PlainShape
<1>7. CASE ReadFlood(f)
  BY <1>1, <1>7 DEF ReadFlood, CallRejected, Pending, NativeShape, PlainShape
<1>8. QED
  BY <1>2, <1>3, <1>4, <1>5, <1>6, <1>7

LEMMA ReadKeeps ==
  ASSUME NativeShape, PluginInv, GoodResults \subseteq GoodResults', ReadFrame
  PROVE  PluginInv'
<1> DEFINE f == out[1]
<1>1. /\ plugin = "up" /\ out # <<>> /\ out' = Tail(out)
      /\ UNCHANGED <<kind, plugin, ending, ran, noise>>
      /\ agent = "none" => agent' = "none"
  BY ReadKinds
<1>2. /\ f \in OutFrames
      /\ Lacks(out, Tools) => f \notin Tools /\ Lacks(out', Tools)
      /\ Lacks(out', Tools) /\ f \notin Tools => Lacks(out, Tools)
  BY <1>1, Shifted
<1>3. /\ \A i \in DOMAIN out' : out'[i] \in Stops =>
           /\ out'[i] = ending'
           /\ \A j \in DOMAIN out' : j > i => out'[j] \notin Tools
      /\ f \in Stops => f = ending /\ Lacks(out', Tools) /\ ~ UnreadNoise
      /\ f \notin Stops /\ f # "garbage" /\ UnreadNoise => UnreadNoise'
  BY <1>1, ShiftedEnds DEF PluginInv
<1>4. \/ ReadTool(f) \/ ReadAnswer(f) \/ ReadError(f)
      \/ ReadGarbage(f) \/ ReadTurnEnd(f) \/ ReadFlood(f)
  BY <1>1, ReadKinds, Shifted
<1>5. /\ f \in Tools => tools' # "none" /\ UNCHANGED <<step, owed, heard, answer>>
      /\ f \notin Tools => tools' = tools
      /\ owed' = owed \/ (step \in {"initialize", "session"} /\ owed' = step')
      /\ heard' = heard \/ (f \in Stops /\ heard' = f)
      /\ \/ UNCHANGED <<step, answer>>
         \/ step = "initialize" /\ step' = "session" /\ UNCHANGED <<answer, heard>>
         \/ step = "session" /\ step' = "prompt" /\ UNCHANGED <<answer, heard>>
         \/ /\ step = "prompt" /\ step' = "resolved" /\ kind = "devin-acp"
            /\ f \in Stops /\ heard' = f
         \/ /\ step \in Pending /\ step' = "failing" /\ UNCHANGED <<heard, owed>>
            /\ answer' = IF step = "prompt" THEN Failed ELSE FailedHandshake
      /\ degraded => degraded'
      /\ f = "garbage" =>
           IF kind = "devin-acp" THEN step \notin Pending \/ step' = "failing" ELSE degraded'
  BY <1>2, <1>4, Reading
<1>6. Nothing \notin Stops
  BY DEF Nothing, Stops, StopReasons, Statuses
<1> HIDE DEF f
<1>7. step \in {"idle", "initialize", "session"} =>
        /\ owed # "prompt" /\ tools = "none" /\ ending = Nothing /\ heard = Nothing /\ ~ ran
        /\ Lacks(out, Tools) /\ (step = "idle" => agent = "none" /\ ~ noise)
        /\ f \notin Tools /\ f \notin Stops /\ Lacks(out', Tools)
  BY <1>1, <1>2, <1>3, <1>6 DEF PluginInv, Early
<1>8. Early'
  BY <1>1, <1>5, <1>7 DEF Early, Pending
<1>9. Ends'
  <2>1. ending' # Nothing => owed' # "prompt"
    BY <1>1, <1>5, <1>7 DEF PluginInv, Ends
  <2>2. heard' # Nothing => heard' = ending' /\ Lacks(out', Tools)
    BY <1>1, <1>2, <1>3, <1>5 DEF PluginInv, Ends
  <2>3. step' \in {"resolved", "stopping"} => heard' # Nothing
    BY <1>5, <1>6 DEF PluginInv, Ends
  <2>4. QED
    BY <1>3, <2>1, <2>2, <2>3 DEF Ends
<1>10. Noisy'
  <2> SUFFICES ASSUME noise, ~ Marked'
               PROVE  heard' = Nothing /\ UnreadNoise'
    BY <1>1 DEF Noisy
  <2>1. ~ Marked
    BY <1>1, <1>5 DEF Marked, Pending
  <2>2. heard = Nothing /\ UnreadNoise
    BY <1>1, <2>1 DEF PluginInv, Noisy
  <2>3. f \notin Stops
    BY <1>3, <2>2
  <2>4. f # "garbage"
    <3>1. step \notin {"resolved", "stopping", "idle"}
      BY <1>1, <1>7, <2>2 DEF PluginInv, Ends
    <3>2. kind = "devin-acp" => step \in Pending /\ step' # "failing"
      BY <1>1, <2>1, <3>1 DEF Marked, Pending, NativeShape, PlainShape
    <3>3. QED
      BY <1>1, <1>5, <3>2 DEF Marked
  <2>5. QED
    BY <1>3, <1>5, <2>2, <2>3, <2>4
<1>11. Ran'
  BY <1>1, <1>2, <1>5 DEF PluginInv, Ran
<1>12. Handshake'
  <2> SUFFICES ASSUME step' = "failing", answer' = FailedHandshake
               PROVE  tools' = "none" /\ owed' # "prompt" /\ Lacks(out', Tools)
    BY DEF Handshake
  <2>1. Failed # FailedHandshake
    BY DEF Failed, FailedHandshake, Result
  <2>2. CASE UNCHANGED <<step, answer>>
    BY <1>1, <1>2, <1>5, <2>2 DEF PluginInv, Handshake
  <2>3. CASE step \in {"initialize", "session"} /\ owed' = owed
    BY <1>5, <1>7, <2>3
  <2>4. QED
    BY <1>5, <2>1, <2>2, <2>3 DEF Pending
<1>13. Stopping'
  BY <1>2, <1>5 DEF PluginInv, Stopping, Ends
<1>14. QED
  BY <1>8, <1>9, <1>10, <1>11, <1>12, <1>13 DEF PluginInv

-----------------------------------------------------------------------------
(* The other steps of the plugin. *)

LEMMA ArrivalKeeps ==
  ASSUME NativeShape, PluginInv, RunArrives
  PROVE  PluginInv'
<1>1. /\ owed # "prompt" /\ tools = "none" /\ ending = Nothing /\ heard = Nothing /\ ~ ran
      /\ Lacks(out, Tools) /\ ~ noise
  BY DEF PluginInv, Early, RunArrives
<1>2. /\ UNCHANGED <<kind, plugin, tools, ending, heard, ran, out, noise>>
      /\ step' \in {"initialize", "prompt", "answered"}
      /\ step' = "initialize" => owed' = "initialize"
  BY DEF RunArrives
<1>3. Early' /\ Noisy' /\ Ran' /\ Handshake' /\ Stopping'
  BY <1>1, <1>2 DEF Early, Noisy, Ran, Handshake, Stopping, Lacks
<1>4. Ends'
  BY <1>1, <1>2 DEF PluginInv, Ends
<1>5. QED
  BY <1>3, <1>4 DEF PluginInv

heldByStep == <<kind, plugin, owed, tools, ending, ran, heard, out, noise, degraded>>

\* The pending call is rejected: of an ACP agent that is the mark of whatever was garbled.
LEMMA FailKeeps ==
  ASSUME NativeShape, PluginInv, UNCHANGED heldByStep, plugin = "up",
         step \in Pending, step' = "failing",
         answer' = IF step = "prompt" THEN Failed ELSE FailedHandshake
  PROVE  PluginInv'
<1>1. Failed # FailedHandshake
  BY DEF Failed, FailedHandshake, Result
<1>2. Early' /\ Ends' /\ Ran' /\ Stopping'
  BY DEF PluginInv, heldByStep, Early, Ends, Ran, Stopping, Lacks
<1>3. Noisy'
  BY DEF PluginInv, heldByStep, Noisy, Marked, UnreadNoise, Pending
<1>4. Handshake'
  <2>1. answer' = FailedHandshake => step \in {"initialize", "session"}
    BY <1>1 DEF Pending
  <2>2. QED
    BY <2>1 DEF PluginInv, Early, Handshake, heldByStep, Lacks
<1>5. QED
  BY <1>2, <1>3, <1>4 DEF PluginInv

LEMMA AnsweredKeeps ==
  ASSUME NativeShape, PluginInv, UNCHANGED heldByStep, step' = "answered"
  PROVE  PluginInv'
<1>1. Early' /\ Ends' /\ Ran' /\ Stopping' /\ Handshake'
  BY DEF PluginInv, heldByStep, Early, Ends, Ran, Stopping, Handshake, Lacks
<1>2. Noisy'
  BY DEF PluginInv, heldByStep, Noisy, Marked, UnreadNoise
<1>3. QED
  BY <1>1, <1>2 DEF PluginInv

\* The turn has ended: the result is built from all the agent said in it.
LEMMA StoppingKeeps ==
  ASSUME NativeShape, PluginInv, UNCHANGED heldByStep, step' = "stopping",
         step \in {"resolved", "prompt"}, heard # Nothing,
         answer' \in GoodResults', answer'.side_effects = "none" => tools = "none"
  PROVE  PluginInv'
<1>1. Early' /\ Ends' /\ Ran' /\ Stopping' /\ Handshake'
  BY DEF PluginInv, heldByStep, Early, Ends, Ran, Stopping, Handshake, Lacks
<1>2. Noisy'
  BY DEF PluginInv, heldByStep, Noisy, Marked, UnreadNoise
<1>3. QED
  BY <1>1, <1>2 DEF PluginInv

\* What is known once the end of the turn was read.
LEMMA TurnKnown ==
  ASSUME NativeShape, PluginInv, plugin = "up", heard # Nothing
  PROVE  /\ heard = ending /\ (tools = "none" => ~ ran)
         /\ noise => Marked
BY DEF PluginInv, Ends, Ran, Noisy

LEMMA PlainResults ==
  ASSUME NativeShape
  PROVE  /\ NoResult \in GoodResults /\ Failed \in GoodResults /\ FailedHandshake \in GoodResults
         /\ NoResult.side_effects # "none" /\ (Failed.side_effects = "none" => tools = "none")
BY DEF NoResult, Failed, FailedHandshake, Result, GoodResults, RunResults, Effects, NativeShape,
       PlainShape, Nothing

LEMMA DevinGood ==
  ASSUME NativeShape, PluginInv, plugin = "up", step = "resolved"
  PROVE  DevinResult(heard) \in GoodResults /\ DevinResult(heard).side_effects = tools
<1>1. kind = "devin-acp" /\ heard # Nothing
  BY DEF NativeShape, PlainShape, PluginInv, Ends
<1>2. heard = ending /\ (tools = "none" => ~ ran) /\ ~ noise
  BY <1>1, TurnKnown DEF Marked
<1>3. DevinResult(heard) \in RunResults /\ DevinResult(heard).side_effects = tools
  BY DEF DevinResult, Result, RetryAfter, Confirmed, RunResults, NativeShape, PlainShape, Effects
<1>4. QED
  BY <1>1, <1>2, <1>3 DEF GoodResults, DevinResult, Result, Confirmed, NativeShape, PlainShape

LEMMA AgyGood ==
  ASSUME NativeShape, PluginInv, plugin = "up", kind = "agy-stream"
  PROVE  AgyResult \in GoodResults /\ AgyResult.side_effects = tools
<1>1. AgyResult \in RunResults /\ AgyResult.side_effects = tools
  BY DEF AgyResult, Result, Clean, RunResults, NativeShape, PlainShape, Effects
<1>2. heard # Nothing => heard = ending /\ (tools = "none" => ~ ran) /\ (noise => degraded)
  BY TurnKnown DEF Marked
<1>3. CASE heard = "SUCCESS"
  BY <1>1, <1>2, <1>3 DEF GoodResults, AgyResult, Result, Clean, NativeShape, PlainShape, Nothing
<1>4. CASE heard = "CANCELED"
  BY <1>1, <1>2, <1>4 DEF GoodResults, AgyResult, Result, Clean, NativeShape, PlainShape, Nothing
<1>5. CASE heard \notin {"SUCCESS", "CANCELED"}
  BY <1>1, <1>5 DEF GoodResults, AgyResult, Result
<1>6. QED
  BY <1>3, <1>4, <1>5

LEMMA FinalGood ==
  ASSUME NativeShape, PluginInv, plugin = "up", step \in {"failing", "stopping"}
  PROVE  FinalResult \in GoodResults /\ (FinalResult.side_effects = "none" => tools = "none")
BY PlainResults DEF FinalResult, PluginInv, Handshake, Stopping

LEMMA PluginStep ==
  ASSUME NativeShape, PluginInv, [NativeNext]_nativeVars
  PROVE  PluginInv'
<1>0. GoodResults \subseteq GoodResults'
  BY GoodStays DEF PluginInv
<1>1. CASE AgentAnswers \/ AgentUsesTool \/ AgentEndsTurn \/ AgentBabbles \/ AgentFloods
  BY <1>0, <1>1, Speaking, SaysKeeps
<1>2. CASE AgentDies
  BY <1>0, <1>2, CoreKept DEF AgentDies, core, plugVars
<1>3. CASE RunArrives
  BY <1>3, ArrivalKeeps
<1>4. CASE ReadFrame
  BY <1>0, <1>4, ReadKeeps
<1>5. CASE ExitSeen
  <2>1. CASE kind = "devin-acp" /\ step \in {"initialize", "session", "prompt"}
    BY <1>5, <2>1, FailKeeps DEF ExitSeen, heldByStep, agentVars, Pending
  <2>2. CASE ~ (kind = "devin-acp" /\ step \in {"initialize", "session", "prompt"})
    BY <1>0, <1>5, <2>2, CoreKept DEF ExitSeen, core, agentVars
  <2>3. QED
    BY <2>1, <2>2
<1>6. CASE DeadlinePasses
  BY <1>6, FailKeeps DEF DeadlinePasses, CallRejected, heldByStep, Pending
<1>7. CASE DevinClassifies
  <2>1. /\ UNCHANGED heldByStep /\ step' = "stopping" /\ answer' = DevinResult(heard)
        /\ plugin = "up" /\ step = "resolved"
    BY <1>7 DEF DevinClassifies, heldByStep
  <2>2. heard # Nothing
    BY <2>1 DEF PluginInv, Ends
  <2>3. answer' \in GoodResults' /\ answer'.side_effects = tools
    BY <1>0, <2>1, DevinGood
  <2>4. QED
    BY <2>1, <2>2, <2>3, StoppingKeeps
<1>8. CASE AgyPolls
  <2>1. /\ UNCHANGED heldByStep /\ plugin = "up" /\ kind = "agy-stream" /\ step = "prompt"
    BY <1>8 DEF AgyPolls, heldByStep
  <2>2. CASE step' = "answered"
    BY <2>1, <2>2, AnsweredKeeps
  <2>3. CASE step' # "answered"
    <3>1. step' = "stopping" /\ answer' = AgyResult /\ heard # Nothing
      BY <1>8, <2>3 DEF AgyPolls
    <3>2. answer' \in GoodResults' /\ answer'.side_effects = tools
      BY <1>0, <2>1, <3>1, AgyGood
    <3>3. QED
      BY <2>1, <3>1, <3>2, StoppingKeeps
  <2>4. QED
    BY <2>2, <2>3
<1>9. CASE AgyPromptLost
  BY <1>9, AnsweredKeeps DEF AgyPromptLost, heldByStep, agentVars
<1>10. CASE RunAnswers
  BY <1>10, AnsweredKeeps DEF RunAnswers, heldByStep, agentVars
<1>11. CASE CancelArrives
  BY <1>0, <1>11, CoreKept DEF CancelArrives, StopAgent, core
<1>12. CASE CancelStopped \/ SendRun \/ SendCancel \/ CancelTimesOut
  BY <1>0, <1>12, CoreKept DEF CancelStopped, SendRun, SendCancel, CancelTimesOut, core,
                               agentVars, plugVars
<1>13. CASE PluginDies
  BY <1>13, PluginOver DEF PluginDies
<1>14. CASE ReadPlugin
  <2>1. CASE Awaited(Head(wire))
    BY <1>14, <2>1, PluginOver DEF ReadPlugin, TakeAnswer, RunSettles, NativeShape, PlainShape
  <2>2. CASE ~ Awaited(Head(wire))
    BY <1>0, <1>14, <2>2, CoreKept DEF ReadPlugin, TakeAnswer, core, plugVars
  <2>3. QED
    BY <2>1, <2>2
<1>15. CASE PluginExitSeen \/ RunTimesOut
  BY <1>15, PluginOver DEF PluginExitSeen, RunTimesOut, RunSettles, NativeShape, PlainShape
<1>16. CASE StopChildren
  BY <1>0, <1>16, CoreKept DEF StopChildren, core, plugVars
<1>17. CASE UNCHANGED nativeVars
  BY <1>0, <1>17, CoreKept DEF nativeVars, core, agentVars, plugVars
<1>18. QED
  BY <1>1, <1>2, <1>3, <1>4, <1>5, <1>6, <1>7, <1>8, <1>9, <1>10, <1>11, <1>12, <1>13,
     <1>14, <1>15, <1>16, <1>17 DEF NativeNext

-----------------------------------------------------------------------------
(* The pipe to the router. *)

Written(t, r) ==
  /\ t \in FrameTypes /\ r \in GoodResults'
  /\ wire' = Append(wire, Frame(t, r)) /\ handled' = handled
  /\ r.side_effects = "none" => plugin = "up" /\ tools = "none" /\ t # "tool"
  /\ t = "tool" => tools' # "none"

LEMMA EmitWrites ==
  ASSUME NativeShape, GoodResults \subseteq GoodResults', NEW t \in FrameTypes, Emit(t),
         handled' = handled, t = "tool" => tools' # "none"
  PROVE  Written(t, NoResult)
BY PlainResults DEF Emit, Written

\* Every step leaves the pipe as it is, takes the first frame or adds one.
LEMMA Writes ==
  ASSUME NativeShape, PluginInv, [NativeNext]_nativeVars
  PROVE  \/ wire' = wire /\ handled' = handled
         \/ wire # <<>> /\ wire' = Tail(wire) /\ TakeEvent(Head(wire))
         \/ \E t, r : Written(t, r)
<1>0. GoodResults \subseteq GoodResults'
  BY GoodStays DEF PluginInv
<1>1. "tool" \in FrameTypes /\ {"started", "rpc_error", "accepted", "already_finished", "result"}
        \subseteq FrameTypes
  BY DEF FrameTypes
<1>2. CASE AgentAnswers \/ AgentUsesTool \/ AgentEndsTurn \/ AgentBabbles \/ AgentFloods
           \/ AgentDies \/ SendRun \/ SendCancel
  BY <1>2 DEF AgentAnswers, AgentUsesTool, AgentEndsTurn, AgentBabbles, AgentFloods, AgentDies,
              SendRun, SendCancel, routerVars
<1>3. CASE RunArrives
  <2>1. PICK t \in {"started", "rpc_error"} : Emit(t)
    BY <1>3 DEF RunArrives
  <2>2. QED
    BY <1>0, <1>1, <1>3, <2>1, EmitWrites DEF RunArrives, routerVars
<1>4. CASE ReadFrame
  <2>1. handled' = handled
    BY <1>4 DEF ReadFrame, routerVars
  <2>2. CASE ReadTool(Head(out))
    <3>1. Emit("tool") /\ tools' # "none"
      BY <2>2 DEF ReadTool, Observed, NativeShape, PlainShape, Effects
    <3>2. QED
      BY <1>0, <1>1, <2>1, <3>1, EmitWrites
  <2>3. CASE ~ ReadTool(Head(out))
    BY <1>4, <2>1, <2>3 DEF ReadFrame, ReadAnswer, ReadError, ReadGarbage, ReadTurnEnd, ReadFlood
  <2>4. QED
    BY <2>2, <2>3
<1>5. CASE ExitSeen \/ DeadlinePasses \/ DevinClassifies \/ PluginDies
           \/ CancelTimesOut \/ StopChildren \/ PluginExitSeen \/ RunTimesOut
  BY <1>5 DEF ExitSeen, DeadlinePasses, DevinClassifies, PluginDies, CancelTimesOut, StopChildren,
              PluginExitSeen, RunTimesOut, routerVars
<1>6. CASE AgyPolls
  <2>1. handled' = handled /\ plugin = "up" /\ kind = "agy-stream"
    BY <1>6 DEF AgyPolls, routerVars
  <2>2. AgyResult \in GoodResults' /\ AgyResult.side_effects = tools
    BY <1>0, <2>1, AgyGood
  <2>3. CASE Respond(AgyResult)
    <3>1. Written("result", AgyResult)
      BY <1>1, <2>1, <2>2, <2>3 DEF Written, Respond
    <3>2. QED
      BY <3>1
  <2>4. QED
    BY <1>6, <2>1, <2>3 DEF AgyPolls
<1>7. CASE AgyPromptLost
  <2>1. Emit("rpc_error") /\ handled' = handled
    BY <1>7 DEF AgyPromptLost, routerVars
  <2>2. QED
    BY <1>0, <1>1, <2>1, EmitWrites
<1>8. CASE RunAnswers
  <2>1. /\ handled' = handled /\ plugin = "up" /\ step \in {"failing", "stopping"}
        /\ Respond(FinalResult)
    BY <1>8 DEF RunAnswers, routerVars
  <2>2. FinalResult \in GoodResults' /\ (FinalResult.side_effects = "none" => tools = "none")
    BY <1>0, <2>1, FinalGood
  <2>3. Written("result", FinalResult)
    BY <1>1, <2>1, <2>2 DEF Written, Respond
  <2>4. QED
    BY <2>3
<1>9. CASE CancelArrives
  <2>1. /\ handled' = handled
        /\ wire' = wire \/ \E t \in {"accepted", "already_finished"} : Emit(t)
    BY <1>9 DEF CancelArrives
  <2>2. QED
    BY <1>0, <1>1, <2>1, EmitWrites
<1>10. CASE CancelStopped
  <2>1. handled' = handled /\ Emit("accepted")
    BY <1>10 DEF CancelStopped
  <2>2. QED
    BY <1>0, <1>1, <2>1, EmitWrites
<1>11. CASE ReadPlugin
  BY <1>11 DEF ReadPlugin
<1>12. CASE UNCHANGED nativeVars
  BY <1>12 DEF nativeVars, routerVars
<1>13. QED
  BY <1>2, <1>3, <1>4, <1>5, <1>6, <1>7, <1>8, <1>9, <1>10, <1>11, <1>12 DEF NativeNext

\* Where the answer of the run comes from.
LEMMA Settles ==
  ASSUME [NativeNext]_nativeVars
  PROVE  \/ got' = got
         \/ got' = NoResult
         \/ wire # <<>> /\ wire' = Tail(wire) /\ got' = Head(wire).result
BY DEF NativeNext, nativeVars, routerVars, AgentAnswers, AgentUsesTool, AgentEndsTurn, AgentBabbles,
       AgentFloods, AgentDies, RunArrives, ReadFrame, ExitSeen, DeadlinePasses,
       DevinClassifies, AgyPolls, AgyPromptLost, RunAnswers, CancelArrives, CancelStopped,
       PluginDies, SendRun, SendCancel, ReadPlugin, TakeAnswer, PluginExitSeen, RunTimesOut,
       RunSettles, CancelTimesOut, StopChildren

LEMMA WireShape ==
  ASSUME NativeShape, PluginInv, [NativeNext]_nativeVars
  PROVE  wire' \in Seq(GoodFrames') /\ got' \in GoodResults'
<1>1. GoodResults \subseteq GoodResults'
  BY GoodStays DEF PluginInv
<1>2. wire \in Seq(GoodFrames')
  <2>1. GoodFrames \subseteq GoodFrames'
    BY <1>1 DEF GoodFrames
  <2>2. QED
    BY <2>1, LenProperties, ElementOfSeq, IsASeq, SeqDef DEF NativeShape, PlainShape
<1>3. wire # <<>> => Head(wire) \in GoodFrames /\ Tail(wire) \in Seq(GoodFrames')
  BY <1>2, TailFacts DEF NativeShape, PlainShape
<1>4. wire' \in Seq(GoodFrames')
  <2>1. ASSUME NEW t, NEW r, Written(t, r)
        PROVE  wire' \in Seq(GoodFrames')
    <3>1. Frame(t, r) \in GoodFrames'
      BY <2>1 DEF Written, Frame, GoodFrames
    <3>2. QED
      BY <1>2, <2>1, <3>1, AppendFacts DEF Written
  <2>2. QED
    BY <1>2, <1>3, <2>1, Writes
<1>5. got' \in GoodResults'
  BY <1>1, <1>3, Settles, PlainResults DEF NativeShape, PlainShape, GoodFrames
<1>6. QED
  BY <1>4, <1>5

LEMMA PlainSaid ==
  ASSUME NativeShape, NEW f, Says(f), cancel' = cancel
  PROVE  PlainShape'
<1>1. out' \in Seq(OutFrames)
  BY AppendFacts DEF Says, NativeShape, PlainShape
<1>2. noise' \in BOOLEAN /\ ran' \in BOOLEAN
  BY DEF Says, NativeShape, PlainShape
<1>3. ending' \in {Nothing} \cup Stops /\ owed' \in {Nothing, "initialize", "session", "prompt"}
  BY DEF Says, NativeShape, PlainShape
<1>4. UNCHANGED <<kind, agent, plugin, step, tools, heard, degraded, cancelSent>>
  BY DEF Says, plugVars
<1>5. QED
  BY <1>1, <1>2, <1>3, <1>4 DEF NativeShape, PlainShape

LEMMA PlainEnded ==
  ASSUME NativeShape, NEW how \in {"crashed", "stopped"}, PluginEnds(how),
         UNCHANGED <<kind, agent, ending, ran, noise>>
  PROVE  PlainShape'
<1>1. out' \in Seq(OutFrames)
  BY EmptySeq DEF PluginEnds
<1>2. step' = "idle" /\ tools' = "none" /\ heard' = Nothing /\ owed' = Nothing /\ plugin' = how
      /\ ~ degraded' /\ ~ cancelSent' /\ degraded' \in BOOLEAN /\ cancelSent' \in BOOLEAN
  BY DEF PluginEnds
<1>3. QED
  BY <1>1, <1>2 DEF NativeShape, PlainShape, Effects

LEMMA PlainRead ==
  ASSUME NativeShape, ReadFrame
  PROVE  PlainShape'
<1>1. /\ out # <<>> /\ out' = Tail(out)
      /\ UNCHANGED <<kind, plugin, ending, ran, noise, cancelSent, cancel>>
      /\ \/ ReadTool(out[1]) \/ ReadAnswer(out[1]) \/ ReadError(out[1])
         \/ ReadGarbage(out[1]) \/ ReadTurnEnd(out[1]) \/ ReadFlood(out[1])
  BY Shifted DEF ReadFrame, routerVars
<1>2. out' \in Seq(OutFrames)
  BY <1>1, TailFacts DEF NativeShape, PlainShape
<1>3. \A x \in TurnEnds : x \in Stops
  BY DEF TurnEnds, Stops, StopReasons, Statuses
<1>4. agent' \in {"none", "alive", "dying", "dead"} /\ degraded' \in BOOLEAN
  BY <1>1 DEF ReadTool, ReadAnswer, ReadError, ReadGarbage, ReadTurnEnd, ReadFlood, CallRejected,
              StopAgent, NativeShape, PlainShape
<1>5. tools' \in Effects /\ heard' \in {Nothing} \cup Stops
  BY <1>1, <1>3 DEF ReadTool, Observed, ReadAnswer, ReadError, ReadGarbage, ReadTurnEnd, ReadFlood,
                    NativeShape, PlainShape, Effects
<1>6. /\ step' \in {"idle", "initialize", "session", "prompt", "resolved", "failing", "stopping",
                    "answered"}
      /\ owed' \in {Nothing, "initialize", "session", "prompt"}
      /\ step' = "resolved" => kind = "devin-acp"
  BY <1>1 DEF ReadTool, ReadAnswer, ReadError, ReadGarbage, ReadTurnEnd, ReadFlood, CallRejected,
              NativeShape, PlainShape
<1>7. QED
  BY <1>1, <1>2, <1>4, <1>5, <1>6 DEF NativeShape, PlainShape

LEMMA ShapeStep ==
  ASSUME NativeShape, PluginInv, [NativeNext]_nativeVars
  PROVE  NativeShape'
<1> SUFFICES PlainShape'
  BY WireShape DEF PlainShape, NativeShape, PlainShape
<1>1. CASE AgentAnswers \/ AgentUsesTool \/ AgentEndsTurn \/ AgentBabbles \/ AgentFloods
  <2>1. cancel' = cancel
    BY <1>1 DEF AgentAnswers, AgentUsesTool, AgentEndsTurn, AgentBabbles, AgentFloods, routerVars
  <2>2. QED
    BY <1>1, <2>1, Speaking, PlainSaid
<1>2. CASE AgentDies \/ CancelStopped \/ SendRun \/ SendCancel \/ CancelTimesOut \/ StopChildren
  BY <1>2 DEF AgentDies, CancelStopped, SendRun, SendCancel, CancelTimesOut, StopChildren,
              agentVars, plugVars, routerVars, NativeShape, PlainShape
<1>3. CASE RunArrives
  BY <1>3 DEF RunArrives, routerVars, NativeShape, PlainShape
<1>4. CASE ReadFrame
  BY <1>4, PlainRead
<1>5. CASE ExitSeen
  BY <1>5 DEF ExitSeen, agentVars, routerVars, NativeShape, PlainShape
<1>6. CASE DeadlinePasses
  BY <1>6 DEF DeadlinePasses, CallRejected, StopAgent, routerVars, NativeShape, PlainShape
<1>7. CASE DevinClassifies
  BY <1>7 DEF DevinClassifies, StopAgent, routerVars, NativeShape, PlainShape
<1>8. CASE AgyPolls
  BY <1>8 DEF AgyPolls, StopAgent, routerVars, NativeShape, PlainShape
<1>9. CASE AgyPromptLost \/ RunAnswers
  BY <1>9 DEF AgyPromptLost, RunAnswers, agentVars, routerVars, NativeShape, PlainShape
<1>10. CASE CancelArrives
  <2>1. /\ UNCHANGED <<kind, owed, out, plugin, step, tools, heard, ending, degraded, noise, ran>>
        /\ agent' \in {agent, "dying"}
        /\ cancel' # "no"
    BY <1>10 DEF CancelArrives, StopAgent
  <2>2. cancelSent' \in BOOLEAN
    BY <1>10 DEF CancelArrives, NativeShape, PlainShape
  <2>3. QED
    BY <2>1, <2>2 DEF NativeShape, PlainShape
<1>11. CASE PluginDies
  BY <1>11, PlainEnded DEF PluginDies
<1>12. CASE ReadPlugin
  <2>1. CASE Awaited(Head(wire))
    BY <1>12, <2>1, PlainEnded DEF ReadPlugin, TakeAnswer, RunSettles, NativeShape, PlainShape
  <2>2. CASE ~ Awaited(Head(wire))
    BY <1>12, <2>2 DEF ReadPlugin, TakeAnswer, plugVars, NativeShape, PlainShape, InFlight
  <2>3. QED
    BY <2>1, <2>2
<1>13. CASE PluginExitSeen \/ RunTimesOut
  BY <1>13, PlainEnded DEF PluginExitSeen, RunTimesOut, RunSettles, NativeShape, PlainShape
<1>14. CASE UNCHANGED nativeVars
  BY <1>14 DEF nativeVars, agentVars, plugVars, routerVars, NativeShape, PlainShape
<1>15. QED
  BY <1>1, <1>2, <1>3, <1>4, <1>5, <1>6, <1>7, <1>8, <1>9, <1>10, <1>11, <1>12, <1>13,
     <1>14 DEF NativeNext

-----------------------------------------------------------------------------
(* The router. *)

\* A plugin that knows of no tool never knew of one.
LEMMA ToolsStay ==
  ASSUME [NativeNext]_nativeVars, plugin' = "up", tools' = "none"
  PROVE  plugin = "up" /\ tools = "none"
<1>1. CASE ReadFrame
  BY <1>1 DEF ReadFrame, ReadTool, Observed, ReadAnswer, ReadError, ReadGarbage, ReadTurnEnd,
              ReadFlood
<1>2. CASE ~ ReadFrame
  BY <1>2 DEF NativeNext, nativeVars, plugVars, AgentAnswers, AgentUsesTool, AgentEndsTurn,
       AgentBabbles, AgentFloods, AgentDies, RunArrives, ExitSeen, DeadlinePasses,
       DevinClassifies, AgyPolls, AgyPromptLost, RunAnswers, CancelArrives, CancelStopped,
       PluginDies, SendRun, SendCancel, ReadPlugin, TakeAnswer, PluginExitSeen, RunTimesOut,
       RunSettles, PluginEnds, CancelTimesOut, StopChildren
<1>3. QED
  BY <1>1, <1>2

LEMMA ReportedStep ==
  ASSUME NativeShape, PluginInv, Reported, [NativeNext]_nativeVars
  PROVE  Reported'
<1>1. plugin' = "up" /\ tools' = "none" => plugin = "up" /\ tools = "none"
  BY ToolsStay
<1>2. CASE wire' = wire /\ handled' = handled
  BY <1>1, <1>2 DEF Reported
<1>3. CASE wire # <<>> /\ wire' = Tail(wire) /\ TakeEvent(Head(wire))
  <2>1. /\ Head(wire) = wire[1] /\ 1 \in DOMAIN wire
        /\ \A i \in DOMAIN wire' : /\ i \in Nat \ {0} /\ i + 1 \in DOMAIN wire
                                    /\ wire'[i] = wire[i + 1]
    BY <1>3, TailFacts DEF NativeShape
  <2>2. "tool" \in handled' => "tool" \in handled \/ wire[1].type = "tool"
    BY <1>3, <2>1 DEF TakeEvent
  <2>3. plugin' = "up" /\ tools' = "none" =>
          "tool" \notin handled' /\ \A i \in DOMAIN wire' : wire'[i].type # "tool"
    BY <1>1, <2>1, <2>2 DEF Reported
  <2>4. ASSUME NEW i \in DOMAIN wire', wire'[i].result.side_effects = "none"
        PROVE  "tool" \notin handled' /\ \A j \in DOMAIN wire' : j < i => wire'[j].type # "tool"
    <3>1. /\ "tool" \notin handled
          /\ \A j \in DOMAIN wire : j < i + 1 => wire[j].type # "tool"
      BY <2>1, <2>4 DEF Reported
    <3>2. 1 < i + 1
      BY <2>1
    <3>3. QED
      BY <2>1, <2>2, <3>1, <3>2
  <2>5. QED
    BY <2>3, <2>4 DEF Reported
<1>4. ASSUME NEW t, NEW r, Written(t, r)
      PROVE  Reported'
  <2> DEFINE n == Len(wire) + 1
  <2>0. wire \in Seq(GoodFrames')
    <3>1. GoodFrames \subseteq GoodFrames'
      BY GoodStays DEF GoodFrames, PluginInv
    <3>2. QED
      BY <3>1, LenProperties, ElementOfSeq, IsASeq, SeqDef DEF NativeShape
  <2>1. Frame(t, r) \in GoodFrames' /\ Frame(t, r).type = t /\ Frame(t, r).result = r
    BY <1>4 DEF Written, Frame, GoodFrames
  <2>2. /\ n \in DOMAIN wire' /\ wire'[n].type = t /\ wire'[n].result = r
        /\ \A i \in DOMAIN wire : i \in DOMAIN wire' /\ wire'[i] = wire[i] /\ i < n
        /\ \A i \in DOMAIN wire' : i \in DOMAIN wire \/ i = n
    BY <1>4, <2>0, <2>1, AppendFacts DEF Written
  <2>3. n \in Nat
    BY LenProperties DEF NativeShape
  <2> HIDE DEF n
  <2>4. plugin' = "up" /\ tools' = "none" =>
          "tool" \notin handled' /\ \A i \in DOMAIN wire' : wire'[i].type # "tool"
    BY <1>1, <1>4, <2>2 DEF Reported, Written
  <2>5. ASSUME NEW i \in DOMAIN wire', wire'[i].result.side_effects = "none"
        PROVE  "tool" \notin handled' /\ \A j \in DOMAIN wire' : j < i => wire'[j].type # "tool"
    <3>1. CASE i \in DOMAIN wire
      <4>1. \A j \in DOMAIN wire' : j < i => j \in DOMAIN wire
        <5>1. n < i => FALSE
          BY <2>2, <2>3, <3>1, LenProperties DEF NativeShape
        <5>2. QED
          BY <2>2, <5>1
      <4>2. QED
        BY <1>4, <2>2, <2>5, <3>1, <4>1 DEF Reported, Written
    <3>2. CASE i = n
      <4>1. plugin = "up" /\ tools = "none"
        BY <1>4, <2>2, <2>5, <3>2 DEF Written
      <4>2. \A j \in DOMAIN wire' : j < i => j \in DOMAIN wire
        BY <2>2, <2>3, <3>2
      <4>3. QED
        BY <1>4, <2>2, <4>1, <4>2 DEF Reported, Written
    <3>3. QED
      BY <2>2, <3>1, <3>2
  <2>6. QED
    BY <2>4, <2>5 DEF Reported
<1>5. QED
  BY <1>2, <1>3, <1>4, Writes

LEMMA GoneStep ==
  ASSUME NativeShape, Gone, [NativeNext]_nativeVars
  PROVE  Gone'
<1>1. CASE AgentAnswers \/ AgentUsesTool \/ AgentEndsTurn \/ AgentBabbles \/ AgentFloods
  BY <1>1 DEF AgentAnswers, AgentUsesTool, AgentEndsTurn, AgentBabbles, AgentFloods, plugVars,
              routerVars, Gone, AgentGone
<1>2. CASE AgentDies \/ SendRun \/ SendCancel \/ CancelTimesOut \/ CancelStopped
  BY <1>2 DEF AgentDies, SendRun, SendCancel, CancelTimesOut, CancelStopped, agentVars, plugVars,
              routerVars, Gone, AgentGone
<1>3. CASE RunArrives \/ ReadFrame \/ ExitSeen \/ DeadlinePasses \/ DevinClassifies
           \/ AgyPolls \/ AgyPromptLost \/ RunAnswers
  <2>1. plugin = "up" /\ plugin' = "up" /\ UNCHANGED <<rpc, kids, handled>>
    BY <1>3 DEF RunArrives, ReadFrame, ExitSeen, DeadlinePasses, DevinClassifies, AgyPolls,
                AgyPromptLost, RunAnswers, routerVars
  <2>2. QED
    BY <2>1 DEF Gone, AgentGone
<1>4. CASE CancelArrives
  <2>1. plugin = "up" /\ plugin' = "up" /\ UNCHANGED <<rpc, kids, handled>>
    BY <1>4 DEF CancelArrives
  <2>2. QED
    BY <2>1 DEF Gone, AgentGone
<1>5. CASE PluginDies
  BY <1>5 DEF PluginDies, PluginEnds, routerVars, Gone, AgentGone
<1>6. ASSUME NEW r, RunSettles(r), rpc = "waiting", agent' = agent
      PROVE  Gone'
  BY <1>6 DEF RunSettles, PluginEnds, Snapshot, Gone, AgentGone, NativeShape, PlainShape
<1>7. CASE ReadPlugin
  <2>1. CASE Awaited(Head(wire))
    BY <1>6, <1>7, <2>1 DEF ReadPlugin, TakeAnswer, Awaited
  <2>2. CASE ~ Awaited(Head(wire))
    BY <1>7, <2>2 DEF ReadPlugin, TakeAnswer, plugVars, Gone, AgentGone
  <2>3. QED
    BY <2>1, <2>2
<1>8. CASE PluginExitSeen \/ RunTimesOut
  BY <1>6, <1>8 DEF PluginExitSeen, RunTimesOut
<1>9. CASE StopChildren
  BY <1>9 DEF StopChildren, plugVars, Gone, AgentGone
<1>10. CASE UNCHANGED nativeVars
  BY <1>10 DEF nativeVars, agentVars, plugVars, routerVars, Gone, AgentGone
<1>11. QED
  BY <1>1, <1>2, <1>3, <1>4, <1>5, <1>7, <1>8, <1>9, <1>10 DEF NativeNext

-----------------------------------------------------------------------------
NativeInv == NativeShape /\ PluginInv /\ Reported /\ Gone

LEMMA NativeStarts ==
  ASSUME NativeInit
  PROVE  NativeInv
<1>1. out \in Seq(OutFrames) /\ wire \in Seq(GoodFrames)
  BY EmptySeq DEF NativeInit
<1>2. DOMAIN out = {} /\ DOMAIN wire = {}
  BY EmptySeq, LenProperties DEF NativeInit
<1>3. PlainShape
  BY <1>1, NativeAssumption DEF NativeInit, PlainShape, Effects
<1>4. got \in GoodResults
  BY DEF NativeInit, NoResult, Result, GoodResults, RunResults, Nothing
<1>5. PluginInv
  BY <1>2 DEF NativeInit, PluginInv, Early, Ends, Noisy, Ran, Handshake, Stopping, Lacks, Nothing
<1>6. Reported /\ Gone
  BY <1>2 DEF NativeInit, Reported, Gone, AgentGone
<1>7. QED
  BY <1>1, <1>3, <1>4, <1>5, <1>6 DEF NativeInv, NativeShape

LEMMA NativeInvariant == NativeSpec => []NativeInv
<1>1. NativeInv /\ [NativeNext]_nativeVars => NativeInv'
  BY ShapeStep, PluginStep, ReportedStep, GoneStep DEF NativeInv
<1>2. QED
  BY <1>1, NativeStarts, PTL DEF NativeSpec

-----------------------------------------------------------------------------
(* The bound of the pipe. *)

Asking == {"initialize", "session"}

\* The agent answers one call at a time: besides what it says of itself the pipe holds one
\* answer, or room for the one it owes.
NativeBounds ==
  /\ rpc \in {"idle", "waiting", "stopped", "over"}
  /\ cancel \in InFlight \cup {"no", "accepted", "already_finished", "failed"}
  /\ sent \in 0 .. MaxFrames
  /\ IF owed \in Asking THEN Len(out) <= sent ELSE Len(out) <= sent + 1
  /\ plugin = "up" /\ step = "idle" => out = <<>>

LEMMA PipeEmptied ==
  ASSUME NativeBounds, PluginEnds("crashed") \/ PluginEnds("stopped"), sent' = sent,
         rpc' \in {"idle", "waiting", "stopped", "over"},
         cancel' \in InFlight \cup {"no", "accepted", "already_finished", "failed"}
  PROVE  NativeBounds'
<1>1. out' = <<>> /\ owed' = Nothing
  BY DEF PluginEnds
<1>2. Len(<<>>) = 0
  OBVIOUS
<1>3. QED
  BY <1>1, <1>2 DEF NativeBounds, Nothing, Asking, InFlight

LEMMA PipeSpoken ==
  ASSUME NativeShape, PluginInv, NativeBounds,
         \/ AgentAnswers \/ AgentUsesTool \/ AgentEndsTurn \/ AgentBabbles \/ AgentFloods
  PROVE  NativeBounds'
<1>1. PICK f : Says(f)
  BY Speaking
<1>2. Len(out') = Len(out) + 1 /\ Len(out) \in Nat
  BY <1>1 DEF Says, NativeShape, PlainShape
<1>3. ~ (plugin' = "up" /\ step' = "idle")
  BY <1>1 DEF Says, Heeded, plugVars, PluginInv, Early
<1>4. UNCHANGED <<rpc, cancel>>
  BY DEF AgentAnswers, AgentUsesTool, AgentEndsTurn, AgentBabbles, AgentFloods, routerVars
<1>5. MaxFrames \in Nat
  BY NativeAssumption DEF NativeAssumption
<1>6. CASE AgentAnswers
  BY <1>2, <1>3, <1>4, <1>5, <1>6 DEF AgentAnswers, NativeBounds, Asking, Nothing
<1>7. CASE AgentUsesTool \/ AgentEndsTurn \/ AgentBabbles
  <2>1. sent < MaxFrames /\ sent' = sent + 1 /\ owed' \in {owed, Nothing}
    BY <1>7 DEF AgentUsesTool, AgentEndsTurn, AgentBabbles, Speak
  <2>2. QED
    BY <1>2, <1>3, <1>4, <1>5, <2>1 DEF NativeBounds, Asking, Nothing
<1>8. CASE AgentFloods
  BY <1>2, <1>3, <1>4, <1>5, <1>8 DEF AgentFloods, NativeBounds, Asking, Nothing
<1>9. QED
  BY <1>6, <1>7, <1>8

LEMMA PipeRead ==
  ASSUME NativeShape, NativeBounds, ReadFrame
  PROVE  NativeBounds'
<1>1. /\ plugin = "up" /\ out # <<>> /\ out' = Tail(out) /\ plugin' = "up" /\ sent' = sent
      /\ UNCHANGED <<rpc, cancel>>
  BY DEF ReadFrame, routerVars
<1>2. Len(out') + 1 = Len(out) /\ Len(out') \in Nat /\ Len(out) \in Nat
  BY <1>1 DEF NativeShape, PlainShape
<1>3. step # "idle"
  BY <1>1 DEF NativeBounds
<1>4. step' # "idle"
  <2>1. step' = step \/ step' \in {"session", "prompt", "resolved", "failing"}
    BY DEF ReadFrame, ReadTool, ReadAnswer, ReadError, ReadGarbage, ReadTurnEnd, ReadFlood,
           CallRejected
  <2>2. QED
    BY <1>3, <2>1
<1>5. Len(out') <= sent'
  BY <1>1, <1>2 DEF NativeBounds
<1>6. QED
  BY <1>1, <1>2, <1>4, <1>5 DEF NativeBounds

LEMMA BoundsStep ==
  ASSUME NativeShape, PluginInv, NativeBounds, [NativeNext]_nativeVars
  PROVE  NativeBounds'
<1>1. CASE AgentAnswers \/ AgentUsesTool \/ AgentEndsTurn \/ AgentBabbles \/ AgentFloods
  BY <1>1, PipeSpoken
<1>2. CASE ReadFrame
  BY <1>2, PipeRead
<1>3. CASE RunArrives
  <2>1. plugin = "up" /\ step = "idle" /\ step' # "idle" /\ out' = out /\ sent' = sent
        /\ UNCHANGED <<rpc, cancel>>
    BY <1>3 DEF RunArrives, routerVars
  <2>2. out = <<>> /\ Len(<<>>) = 0
    BY <2>1 DEF NativeBounds
  <2>3. QED
    BY <2>1, <2>2 DEF NativeBounds
<1>4. CASE ExitSeen \/ DeadlinePasses \/ DevinClassifies \/ AgyPolls \/ AgyPromptLost \/ RunAnswers
  <2>1. /\ UNCHANGED <<out, owed, sent, plugin, rpc, cancel>>
        /\ step' = step \/ step' \in {"failing", "stopping", "answered"}
    BY <1>4 DEF ExitSeen, DeadlinePasses, DevinClassifies, AgyPolls, AgyPromptLost, RunAnswers,
                CallRejected, agentVars, routerVars
  <2>2. QED
    BY <2>1 DEF NativeBounds
<1>5. CASE CancelArrives \/ CancelStopped \/ SendRun \/ SendCancel \/ CancelTimesOut
           \/ StopChildren \/ AgentDies
  <2>1. UNCHANGED <<out, owed, sent, plugin, step>>
    BY <1>5 DEF CancelArrives, CancelStopped, SendRun, SendCancel, CancelTimesOut, StopChildren,
                AgentDies, agentVars, plugVars
  <2>2. /\ rpc' = rpc \/ rpc' \in {"waiting", "over"}
        /\ cancel' = cancel \/ cancel' \in {"sent", "stopping", "waiting", "failed"}
    BY <1>5 DEF CancelArrives, CancelStopped, SendRun, SendCancel, CancelTimesOut, StopChildren,
                AgentDies, routerVars
  <2>3. QED
    BY <2>1, <2>2 DEF NativeBounds, InFlight
<1>6. CASE PluginDies
  BY <1>6, PipeEmptied DEF PluginDies, routerVars, NativeBounds
<1>7. ASSUME NEW r, RunSettles(r), sent' = sent
      PROVE  NativeBounds'
  <2>1. PluginEnds("crashed") \/ PluginEnds("stopped")
    BY <1>7 DEF RunSettles, NativeShape, PlainShape
  <2>2. rpc' = "stopped" /\ cancel' \in {cancel, "failed"}
    BY <1>7 DEF RunSettles
  <2>3. QED
    BY <1>7, <2>1, <2>2, PipeEmptied DEF NativeBounds
<1>8. CASE ReadPlugin
  <2>1. CASE Awaited(Head(wire))
    BY <1>7, <1>8, <2>1 DEF ReadPlugin, TakeAnswer
  <2>2. CASE ~ Awaited(Head(wire))
    <3>1. /\ UNCHANGED <<rpc, plugin, step, out, owed, sent>>
          /\ cancel' \in {cancel, "accepted", "already_finished"}
      BY <1>8, <2>2 DEF ReadPlugin, TakeAnswer, plugVars
    <3>2. QED
      BY <3>1 DEF NativeBounds
  <2>3. QED
    BY <2>1, <2>2
<1>9. CASE PluginExitSeen \/ RunTimesOut
  BY <1>7, <1>9 DEF PluginExitSeen, RunTimesOut
<1>10. CASE UNCHANGED nativeVars
  BY <1>10 DEF nativeVars, agentVars, plugVars, routerVars, NativeBounds
<1>11. QED
  BY <1>1, <1>2, <1>3, <1>4, <1>5, <1>6, <1>8, <1>9, <1>10 DEF NativeNext

\* What a run is made of stays in its ranges, and the pipe of a plugin that falls behind
\* grows by no more than the agent's own frames and a single answer.
THEOREM NativeTyped == NativeSpec => []NativeTypeOK
<1>1. NativeInit => NativeBounds
  <2>1. Len(<<>>) = 0 /\ MaxFrames \in Nat
    BY NativeAssumption DEF NativeAssumption
  <2>2. QED
    BY <2>1 DEF NativeInit, NativeBounds, Nothing, Asking
<1>2. NativeInv /\ NativeBounds /\ [NativeNext]_nativeVars => NativeBounds'
  BY BoundsStep DEF NativeInv
<1>3. kind \in Kinds /\ [NativeNext]_nativeVars => (kind \in Kinds)'
  BY DEF NativeNext, nativeVars, AgentAnswers, AgentUsesTool, AgentEndsTurn, AgentBabbles,
         AgentFloods, AgentDies, RunArrives, ReadFrame, ExitSeen, DeadlinePasses,
         DevinClassifies, AgyPolls, AgyPromptLost, RunAnswers, CancelArrives, CancelStopped,
         PluginDies, SendRun, SendCancel, ReadPlugin, PluginExitSeen, RunTimesOut,
         CancelTimesOut, StopChildren
<1>4. NativeInv /\ NativeBounds /\ kind \in Kinds => NativeTypeOK
  <2> SUFFICES ASSUME NativeInv, NativeBounds, kind \in Kinds PROVE NativeTypeOK
    OBVIOUS
  <2>1. Len(out) <= MaxFrames + 1
    <3>1. Len(out) \in Nat /\ MaxFrames \in Nat
      BY NativeAssumption DEF NativeAssumption, NativeInv, NativeShape, PlainShape
    <3>2. QED
      BY <3>1 DEF NativeBounds
  <2>2. QED
    BY <2>1 DEF NativeInv, NativeShape, PlainShape, NativeBounds, NativeTypeOK, Effects, Stops
<1>5. NativeInit => kind \in Kinds
  BY DEF NativeInit
<1>6. QED
  BY <1>1, <1>2, <1>3, <1>4, <1>5, NativeInvariant, PTL DEF NativeSpec

\* Completion is honest whatever the agent says, when it dies and however many frames
\* it sends: a completed status comes from its own end of turn with nothing unreadable
\* before it, and a denial of effects from an agent that ran no tool (classifyRun,
\* AgyStreamClient.run).
THEOREM CompletionHonest == NativeSpec => []HonestCompletion
<1>1. NativeInv => HonestCompletion
  BY DEF NativeInv, NativeShape, GoodResults, HonestCompletion
<1>2. QED
  BY <1>1, NativeInvariant, PTL

\* A cancel is reported as confirmed on the agent's word only, never because its
\* process was stopped (cancelledConfirmed, CANCELED).
THEOREM CancelConfirmedByAgent == NativeSpec => []CancelHonest
<1>1. NativeInv => CancelHonest
  BY DEF NativeInv, NativeShape, GoodResults, CancelHonest
<1>2. QED
  BY <1>1, NativeInvariant, PTL

\* An agent outlives its attempt only if its plugin died by itself before run.started
\* had tied the agent to it (snapshotPluginChildren, stopVerifiedGroup).
THEOREM NoAgentLeft == NativeSpec => []AgentGone
<1>1. NativeInv => AgentGone
  BY DEF NativeInv, Gone
<1>2. QED
  BY <1>1, NativeInvariant, PTL

\* The pipe keeps its order: a result without side effects is taken only by a router
\* that was told of no tool (onLine of PluginClient, sideEffects of the clients).
THEOREM EffectsNeverDenied == NativeSpec => EffectsAdmitted
<1>1. NativeInv /\ [NativeNext]_nativeVars =>
        [got' # got /\ got'.side_effects = "none" => "tool" \notin handled]_nativeVars
  <2> SUFFICES ASSUME NativeInv, [NativeNext]_nativeVars, got' # got, got'.side_effects = "none"
               PROVE  "tool" \notin handled
    OBVIOUS
  <2>1. wire # <<>> /\ got' = Head(wire).result
    BY Settles, PlainResults DEF NativeInv
  <2>2. 1 \in DOMAIN wire /\ Head(wire) = wire[1]
    BY <2>1, TailFacts DEF NativeInv, NativeShape
  <2>3. QED
    BY <2>1, <2>2 DEF NativeInv, Reported
<1>2. QED
  BY <1>1, NativeInvariant, PTL DEF EffectsAdmitted, NativeSpec

-----------------------------------------------------------------------------
(* What a run waits for at its end. *)

\* Whenever the plugin waits for its agent to exit, before it answers a run that failed or
\* ended or acknowledges a cancel, it has signalled the agent (proc.stop) or the agent is
\* gone already.
AgentToldToStop ==
  plugin = "up" /\ (step \in {"failing", "stopping"} \/ cancel = "stopping")
    => agent \in {"dying", "dead"}

\* The await of a run only moves on: no call to the agent is made or answered twice, and
\* the run itself is answered once.
StepNo == [idle |-> 0, initialize |-> 1, session |-> 2, prompt |-> 3, resolved |-> 4,
           failing |-> 5, stopping |-> 5, answered |-> 6]
RunMovesOn ==
  [][plugin' = "up" /\ step' # step => StepNo[step'] > StepNo[step]]_nativeVars

\* What the plugin knows of its agent's end is true, and it has an agent to wait for.
Told ==
  plugin = "up" =>
    /\ step \notin {"idle", "answered"} => agent # "none"
    /\ agent = "none" => out = <<>> /\ ~ exited /\ ~ killedByUs
    /\ exited => agent = "dead"
    /\ killedByUs => agent # "alive"
    /\ AgentToldToStop

LEMMA StopsAgent ==
  ASSUME NativeShape, Told, plugin = "up", agent # "none", StopAgent
  PROVE  /\ agent' \in {"dying", "dead"}
         /\ exited => agent' = "dead"
BY DEF Told, StopAgent, NativeShape, PlainShape

\* The agent was stopped, and what it was to do next does not matter.
LEMMA StoppedTold ==
  ASSUME NativeShape, Told, plugin = "up", plugin' = "up", agent # "none", StopAgent,
         exited' = exited
  PROVE  Told'
BY StopsAgent DEF Told, AgentToldToStop

LEMMA RejectedTold ==
  ASSUME NativeShape, Told, plugin = "up", plugin' = "up", step \in Pending, CallRejected,
         exited' = exited
  PROVE  Told'
<1>1. StopAgent
  BY DEF CallRejected, Pending
<1>2. agent # "none"
  BY DEF Told, Pending
<1>3. QED
  BY <1>1, <1>2, StoppedTold

\* Agent, plugin and cancel stay as they are, and no wait for the exit begins.
LEMMA ToldUntouched ==
  ASSUME Told, plugin = "up", plugin' = "up", UNCHANGED <<agent, exited, killedByUs>>,
         cancel' = cancel \/ cancel' # "stopping",
         step' = step \/ step' = "answered" \/ (step \in Pending /\ step' \in Pending \cup {"resolved"}),
         out' = out \/ agent # "none"
  PROVE  Told'
BY DEF Told, AgentToldToStop, Pending

LEMMA ToldRead ==
  ASSUME NativeShape, PluginInv, Told, ReadFrame
  PROVE  Told'
<1>1. /\ plugin = "up" /\ plugin' = "up" /\ exited' = exited /\ cancel' = cancel
      /\ agent # "none"
  BY DEF ReadFrame, Told, routerVars
<1>2. ASSUME UNCHANGED <<step, agent, killedByUs>> PROVE Told'
  BY <1>1, <1>2, ToldUntouched
<1>3. PICK f \in {Head(out)} : \/ ReadTool(f) \/ ReadAnswer(f) \/ ReadError(f) \/ ReadGarbage(f)
                               \/ ReadTurnEnd(f) \/ ReadFlood(f)
  BY DEF ReadFrame
<1>4. ASSUME CallRejected PROVE Told'
  BY <1>1, <1>2, <1>4, RejectedTold DEF CallRejected, Pending
<1>5. CASE ReadTool(f)
  BY <1>2, <1>5 DEF ReadTool
<1>6. CASE ReadAnswer(f)
  <2>1. /\ UNCHANGED <<agent, killedByUs>>
        /\ step' = step \/ (step \in Pending /\ step' \in Pending)
    BY <1>6 DEF ReadAnswer, Pending
  <2>2. QED
    BY <1>1, <2>1, ToldUntouched
<1>7. CASE ReadError(f)
  BY <1>4, <1>7 DEF ReadError
<1>8. CASE ReadGarbage(f)
  BY <1>2, <1>4, <1>8 DEF ReadGarbage
<1>9. CASE ReadTurnEnd(f)
  <2>1. /\ UNCHANGED <<agent, killedByUs>>
        /\ step' = step \/ (step \in Pending /\ step' \in Pending \cup {"resolved"})
    BY <1>9 DEF ReadTurnEnd, Pending
  <2>2. QED
    BY <1>1, <2>1, ToldUntouched
<1>10. CASE ReadFlood(f)
  BY <1>1, <1>4, <1>10, StoppedTold DEF ReadFlood
<1>11. QED
  BY <1>3, <1>5, <1>6, <1>7, <1>8, <1>9, <1>10

LEMMA ToldOver ==
  ASSUME NEW how \in {"crashed", "stopped"}, PluginEnds(how)
  PROVE  Told'
BY DEF PluginEnds, Told

LEMMA ToldStep ==
  ASSUME NativeShape, PluginInv, Told, [NativeNext]_nativeVars
  PROVE  Told'
<1>1. CASE AgentAnswers \/ AgentUsesTool \/ AgentEndsTurn \/ AgentBabbles \/ AgentFloods
  <2>1. agent # "none" /\ UNCHANGED <<agent, plugin, step, exited, killedByUs, cancel>>
    BY <1>1 DEF AgentAnswers, AgentUsesTool, AgentEndsTurn, AgentBabbles, AgentFloods, Speak, Heeded,
                plugVars, routerVars
  <2>2. QED
    BY <2>1 DEF Told, AgentToldToStop
<1>2. CASE AgentDies
  BY <1>2 DEF AgentDies, plugVars, routerVars, Told, AgentToldToStop
<1>3. CASE RunArrives
  BY <1>3 DEF RunArrives, routerVars, Told, AgentToldToStop, PluginInv, Early
<1>4. CASE ReadFrame
  BY <1>4, ToldRead
<1>5. CASE ExitSeen
  BY <1>5 DEF ExitSeen, agentVars, routerVars, Told, AgentToldToStop
<1>6. CASE DeadlinePasses
  BY <1>6, RejectedTold DEF DeadlinePasses, Pending
<1>7. CASE DevinClassifies
  <2>1. plugin = "up" /\ plugin' = "up" /\ agent # "none" /\ StopAgent /\ exited' = exited
    BY <1>7 DEF DevinClassifies, Told
  <2>2. QED
    BY <2>1, StoppedTold
<1>8. CASE AgyPolls
  <2>1. plugin = "up" /\ plugin' = "up" /\ agent # "none" /\ exited' = exited /\ UNCHANGED <<cancel, out>>
    BY <1>8 DEF AgyPolls, Told, routerVars
  <2>2. StopAgent \/ (UNCHANGED <<agent, killedByUs>> /\ step' = "answered")
    BY <1>8 DEF AgyPolls
  <2>3. QED
    BY <2>1, <2>2, StoppedTold, ToldUntouched
<1>9. CASE AgyPromptLost \/ RunAnswers
  <2>1. /\ plugin = "up" /\ plugin' = "up" /\ step' = "answered"
        /\ UNCHANGED <<agent, exited, killedByUs, cancel, out>>
    BY <1>9 DEF AgyPromptLost, RunAnswers, agentVars, routerVars
  <2>2. QED
    BY <2>1, ToldUntouched
<1>10. CASE CancelArrives
  <2>1. plugin = "up" /\ plugin' = "up" /\ UNCHANGED <<exited, step, out>>
    BY <1>10 DEF CancelArrives
  <2>2. \/ UNCHANGED <<agent, killedByUs>> /\ cancel' = "waiting"
        \/ StopAgent /\ step \notin {"idle", "answered"}
    BY <1>10 DEF CancelArrives
  <2>3. QED
    BY <2>1, <2>2, ToldUntouched, StoppedTold DEF Told
<1>11. CASE CancelStopped \/ CancelTimesOut \/ SendRun \/ SendCancel
  <2>1. UNCHANGED <<agent, exited, killedByUs, plugin, step, out>> /\ (cancel' = cancel \/ cancel' # "stopping")
    BY <1>11 DEF CancelStopped, CancelTimesOut, SendRun, SendCancel, agentVars, plugVars
  <2>2. QED
    BY <2>1 DEF Told, AgentToldToStop
<1>12. CASE PluginDies
  BY <1>12, ToldOver DEF PluginDies
<1>13. ASSUME NEW r, RunSettles(r) PROVE Told'
  BY <1>13, ToldOver DEF RunSettles, NativeShape, PlainShape
<1>14. CASE ReadPlugin
  <2>1. CASE UNCHANGED <<plugVars, out>>
    <3>1. agent' = agent /\ (cancel' = cancel \/ cancel' # "stopping" \/ \E r : RunSettles(r))
      BY <1>14 DEF ReadPlugin, TakeAnswer
    <3>2. QED
      BY <1>13, <2>1, <3>1 DEF Told, AgentToldToStop, plugVars
  <2>2. CASE ~ UNCHANGED <<plugVars, out>>
    BY <1>13, <1>14, <2>2 DEF ReadPlugin, TakeAnswer
  <2>3. QED
    BY <2>1, <2>2
<1>15. CASE PluginExitSeen \/ RunTimesOut
  BY <1>13, <1>15 DEF PluginExitSeen, RunTimesOut
<1>16. CASE StopChildren
  BY <1>16 DEF StopChildren, plugVars, Told, AgentToldToStop
<1>17. CASE UNCHANGED nativeVars
  BY <1>17 DEF nativeVars, agentVars, plugVars, routerVars, Told, AgentToldToStop
<1>18. QED
  BY <1>1, <1>2, <1>3, <1>4, <1>5, <1>6, <1>7, <1>8, <1>9, <1>10, <1>11, <1>12, <1>14, <1>15,
     <1>16, <1>17 DEF NativeNext

\* A run that is to be answered and a cancel that is to be acknowledged wait for nothing but
\* the death of a process that was killed, however the run came to its end: the part of
\* AttemptEnds that does not rest on fairness.
THEOREM AgentsAreStopped == NativeSpec => []AgentToldToStop
<1>1. NativeInit => Told
  BY DEF NativeInit, Told, AgentToldToStop
<1>2. NativeInv /\ Told /\ [NativeNext]_nativeVars => Told'
  BY ToldStep DEF NativeInv
<1>3. Told => AgentToldToStop
  BY DEF Told, AgentToldToStop
<1>4. QED
  BY <1>1, <1>2, <1>3, NativeInvariant, PTL DEF NativeSpec

LEMMA MovesOn ==
  ASSUME NativeShape, [NativeNext]_nativeVars, plugin' = "up", step' # step
  PROVE  StepNo[step'] > StepNo[step]
<1>1. CASE RunArrives
  BY <1>1 DEF RunArrives, StepNo
<1>2. CASE ReadFrame
  <2>1. \/ step = "initialize" /\ step' = "session"
        \/ step = "session" /\ step' = "prompt"
        \/ step = "prompt" /\ step' = "resolved"
        \/ step \in Pending /\ step' = "failing"
    BY <1>2 DEF ReadFrame, ReadTool, ReadAnswer, ReadError, ReadGarbage, ReadTurnEnd, ReadFlood,
                CallRejected, Pending
  <2>2. QED
    BY <2>1 DEF StepNo, Pending
<1>3. CASE ExitSeen \/ DeadlinePasses
  BY <1>3 DEF ExitSeen, DeadlinePasses, CallRejected, StepNo
<1>4. CASE DevinClassifies \/ AgyPolls \/ AgyPromptLost \/ RunAnswers
  BY <1>4 DEF DevinClassifies, AgyPolls, AgyPromptLost, RunAnswers, StepNo
<1>5. CASE ReadPlugin
  BY <1>5 DEF ReadPlugin, TakeAnswer, RunSettles, PluginEnds, plugVars, NativeShape, PlainShape
<1>6. QED
  BY <1>1, <1>2, <1>3, <1>4, <1>5
     DEF NativeNext, nativeVars, plugVars, NativeShape, PlainShape, AgentAnswers, AgentUsesTool,
         AgentEndsTurn, AgentBabbles, AgentFloods, AgentDies, CancelArrives, CancelStopped,
         PluginDies, PluginEnds, SendRun, SendCancel, PluginExitSeen, RunTimesOut, RunSettles,
         CancelTimesOut, StopChildren

\* Whatever the agent says, in whatever order and however often, it cannot take a run back
\* or have it answered a second time (pending calls by id, AcpClient and AgyStreamClient).
THEOREM RunsMoveOn == NativeSpec => RunMovesOn
<1>1. NativeInv /\ [NativeNext]_nativeVars
        => [plugin' = "up" /\ step' # step => StepNo[step'] > StepNo[step]]_nativeVars
  BY MovesOn DEF NativeInv
<1>2. QED
  BY <1>1, NativeInvariant, PTL DEF NativeSpec, RunMovesOn
=============================================================================
