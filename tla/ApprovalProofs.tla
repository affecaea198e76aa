--------------------------- MODULE ApprovalProofs ---------------------------
(***************************************************************************)
(* The safety properties of Approvals, for any requests, options, bounds   *)
(* on crashes and ways in which a job may end.                             *)
(*                                                                         *)
(*   Asked      a request is on its way to the router once, before it has  *)
(*              a row, and only an interactive run has rows                *)
(*   Backed     whatever allows something, on the way to the agent or      *)
(*              there, is the option of an approved row                    *)
(*   Answering  who may still answer a request                             *)
(*   Denials    what the plugin remembers of refusals                      *)
(*                                                                         *)
(* NobodyForgotten is the part of AgentUnblocked that needs no fairness,   *)
(* DecidedInVain what becomes of approvals a dead daemon left pending.     *)
(***************************************************************************)
EXTENDS Approvals, SequenceTheorems, TLAPS

Asked ==
  /\ \A i \in DOMAIN toRouter : toRouter[i] \in asked /\ approval[toRouter[i]] = "none"
  /\ \A i, j \in DOMAIN toRouter : toRouter[i] = toRouter[j] => i = j
  /\ \A r \in Requests : r \notin asked => approval[r] = "none"
  /\ \A r \in Requests : approval[r] # "none" => interactive

Justified(r, a) ==
  a # Cancelled /\ Allows(a) => interactive /\ approval[r] = "approved" /\ chosen[r] = a

JustifiedNext(r, a) ==
  a # Cancelled /\ Allows(a) => interactive' /\ approval'[r] = "approved" /\ chosen'[r] = a

Backed ==
  /\ \A r \in Requests : \A a \in answers[r] : Justified(r, a)
  /\ \A r \in Requests : picked[r] # Undecided => Justified(r, picked[r])
  /\ \A i \in DOMAIN toPlugin : Justified(toPlugin[i].req, toPlugin[i].say)

\* A pending question was not answered; a loop that polls for one that is not pending
\* any more can only repeat the answer of failAll.
Answering ==
  /\ \A r \in open : r \in polling /\ answers[r] = {}
  /\ \A r \in polling : r \in asked /\ answers[r] \subseteq {Cancelled}
  /\ \A r \in Requests : r \notin asked => answers[r] = {}
  /\ AnswersAgree

\* The ids of the options tell what their kinds say; see the run opaque.
IdsTell == \A o \in Options : Kind[o] \in {"reject", "cancel"} => Looks[o] \in {"reject", "cancel"}

Denials ==
  /\ denied # {} => anyDenied
  /\ reported # "none" => turn # "on"
  /\ DenialReported

Waiting == (~ up => crashes > 0) /\ AwaitingHasWaiter

-----------------------------------------------------------------------------
LEMMA MovedBetween ==
  ASSUME NEW from, NEW to
  PROVE  Moved(from, to) \in {from, to}
BY DEF Moved

LEMMA DefaultRefuses ==
  ASSUME NEW r \in Requests, NEW a \in Default(r)
  PROVE  a \in Answers /\ (a # Cancelled => ~ Allows(a))
BY ApprovalAssumption
   DEF ApprovalAssumption, Default, RefusingOptions, Allows, Answers

LEMMA TellType ==
  ASSUME TypeOK, NEW who \in SUBSET Requests, NEW a \in Answers, Tell(who, a)
  PROVE  answers' \in [Requests -> SUBSET Answers] /\ denied' \subseteq Requests
BY DEF TypeOK, Tell, told

Message == [req : Requests, say : Answers]

LEMMA MessageType ==
  ASSUME NEW r \in Requests, NEW a \in Answers
  PROVE  [req |-> r, say |-> a] \in Message
BY DEF Message

LEMMA QueueType ==
  ASSUME TypeOK
  PROVE  /\ toPlugin \in Seq(Message) /\ DOMAIN toPlugin = 1 .. Len(toPlugin)
         /\ \A i \in DOMAIN toPlugin :
              /\ toPlugin[i] \in Message
              /\ toPlugin[i].req \in Requests /\ toPlugin[i].say \in Answers
<1>1. toPlugin \in Seq(Message) /\ DOMAIN toPlugin = 1 .. Len(toPlugin)
  BY LenProperties DEF TypeOK, Message
<1>2. \A i \in DOMAIN toPlugin : toPlugin[i] \in Message
  BY <1>1, ElementOfSeq
<1>3. \A m \in Message : m.req \in Requests /\ m.say \in Answers
  BY DEF Message
<1>4. QED
  BY <1>1, <1>2, <1>3

LEMMA WaiterType ==
  ASSUME TypeOK, NEW r \in Requests, NEW a \in Answers, Waiter(r, a)
  PROVE  /\ armed' \subseteq Requests /\ hosted' \subseteq Requests
         /\ job' \in JobState
         /\ toPlugin' \in Seq([req : Requests, say : Answers])
<1>1. Moved(job, "running") \in JobState
  BY MovedBetween DEF TypeOK, JobState
<1>2. toPlugin' \in Seq(Message)
  <2>1. Append(toPlugin, [req |-> r, say |-> a]) \in Seq(Message)
    BY QueueType, MessageType, AppendProperties
  <2>2. QED
    BY <2>1, QueueType DEF Waiter
<1>3. QED
  BY <1>1, <1>2 DEF TypeOK, Waiter, Message

LEMMA InvalidateType ==
  ASSUME TypeOK, InvalidatePending
  PROVE  approval' \in [Requests -> ApprovalState]
BY DEF TypeOK, InvalidatePending, ApprovalState

LEMMA TypeStep ==
  ASSUME TypeOK, [Next]_vars
  PROVE  TypeOK'
<1>0. Cancelled \in Answers /\ Options \subseteq Answers
  BY DEF Answers
<1>1. CASE UNCHANGED vars
  BY <1>1 DEF TypeOK, vars, rows, router, pipe, acp, told
<1>2. ASSUME NEW r \in Requests, AgentAsks(r) PROVE TypeOK'
  <2>1. answers' \in [Requests -> SUBSET Answers] /\ denied' \subseteq Requests
    <3>1. CASE interactive
      BY <1>2, <3>1 DEF AgentAsks, TypeOK, told
    <3>2. CASE ~ interactive
      <4>1. PICK a \in Answers : Tell({r}, a)
        BY <1>0, <1>2, <3>2, ApprovalAssumption DEF AgentAsks, ApprovalAssumption
      <4>2. QED
        BY <4>1, TellType
    <3>3. QED
      BY <3>1, <3>2
  <2>2. anyDenied' \in BOOLEAN /\ open' \subseteq Requests /\ polling' \subseteq Requests
    BY <1>2 DEF AgentAsks, TypeOK
  <2>3. QED
    BY <1>2, <2>1, <2>2 DEF AgentAsks, TypeOK, rows, router
<1>3. CASE RespondArrives
  <2>1. Head(toPlugin) \in Message /\ Tail(toPlugin) \in Seq(Message)
    BY <1>3, QueueType, HeadTailProperties DEF RespondArrives
  <2>2. picked' \in [Requests -> Answers \cup {Undecided}]
    BY <1>3, <2>1 DEF RespondArrives, TypeOK, Message
  <2>3. toPlugin' \in Seq([req : Requests, say : Answers])
    BY <1>3, <2>1 DEF RespondArrives, Message
  <2>4. QED
    BY <1>3, <2>2, <2>3 DEF RespondArrives, TypeOK, rows, router, told
<1>4. ASSUME NEW r \in Requests, Poll(r) PROVE TypeOK'
  <2>1. answers' \in [Requests -> SUBSET Answers] /\ denied' \subseteq Requests
    <3>1. CASE r \in open
      <4>1. picked[r] \in Answers /\ Tell({r}, picked[r])
        BY <1>4, <3>1 DEF Poll, TypeOK
      <4>2. QED
        BY <4>1, TellType
    <3>2. CASE r \notin open
      BY <1>4, <3>2 DEF Poll, TypeOK, told
    <3>3. QED
      BY <3>1, <3>2
  <2>2. anyDenied' \in BOOLEAN
    BY <1>4 DEF Poll, TypeOK
  <2>3. QED
    BY <1>4, <2>1, <2>2 DEF Poll, TypeOK, rows, router, pipe
<1>5. ASSUME NEW r \in Requests, PollTimesOut(r) PROVE TypeOK'
  <2>1. answers' \in [Requests -> SUBSET Answers] /\ denied' \subseteq Requests
    BY <1>0, <1>5, TellType DEF PollTimesOut
  <2>2. QED
    BY <1>5, <2>1 DEF PollTimesOut, TypeOK, rows, router, pipe
<1>6. CASE AgentBabbles
  <2>1. answers' \in [Requests -> SUBSET Answers] /\ denied' \subseteq Requests
    BY <1>0, <1>6, TellType DEF AgentBabbles, FailAll, TypeOK
  <2>2. anyDenied' \in BOOLEAN /\ open' = {} /\ turn' \in {"on", "ended", "broken"}
    BY <1>6 DEF AgentBabbles, FailAll, TypeOK
  <2>3. QED
    BY <1>6, <2>1, <2>2 DEF AgentBabbles, TypeOK, rows, router, pipe
<1>7. CASE AgentEndsTurn \/ PromptTimesOut
  BY <1>7 DEF AgentEndsTurn, PromptTimesOut, TypeOK, rows, router, pipe, told
<1>8. CASE AgentExits
  <2>1. anyDenied' \in BOOLEAN /\ open' \subseteq Requests /\ turn' \in {"on", "ended", "broken"}
    BY <1>8 DEF AgentExits, TypeOK
  <2>2. QED
    BY <1>8, <2>1 DEF AgentExits, TypeOK, rows, router, pipe, told
<1>9. CASE PluginDies
  <2>1. picked' \in [Requests -> Answers \cup {Undecided}]
        /\ toPlugin' \in Seq([req : Requests, say : Answers])
    BY <1>9 DEF PluginDies
  <2>2. QED
    BY <1>9, <2>1 DEF PluginDies, TypeOK, rows, router, told
<1>10. CASE AskArrives
  <2>1. Head(toRouter) \in Requests /\ toRouter' \in Seq(Requests)
    BY <1>10 DEF AskArrives, TypeOK
  <2>2. Moved(job, "awaiting_approval") \in JobState
    BY MovedBetween DEF TypeOK, JobState
  <2>3. /\ job' \in JobState /\ approval' \in [Requests -> ApprovalState]
        /\ armed' \subseteq Requests /\ hosted' \subseteq Requests
    BY <1>10, <2>1, <2>2 DEF AskArrives, TypeOK, ApprovalState
  <2>4. QED
    BY <1>10, <2>1, <2>3 DEF AskArrives, TypeOK, acp, told
<1>11. ASSUME NEW r \in Requests, NEW o \in Options, Decide(r, o) PROVE TypeOK'
  <2>1. approval' \in [Requests -> ApprovalState]
    BY <1>11 DEF Decide, TypeOK, ApprovalState
  <2>2. chosen' \in [Requests -> Options \cup {Undecided}]
    BY <1>11 DEF Decide, TypeOK
  <2>3. /\ armed' \subseteq Requests /\ hosted' \subseteq Requests /\ job' \in JobState
        /\ toPlugin' \in Seq([req : Requests, say : Answers])
    <3>1. CASE r \in armed
      BY <1>0, <1>11, <3>1, WaiterType DEF Decide
    <3>2. CASE r \notin armed
      BY <1>11, <3>2 DEF Decide, TypeOK
    <3>3. QED
      BY <3>1, <3>2
  <2>4. QED
    BY <1>11, <2>1, <2>2, <2>3 DEF Decide, TypeOK, acp, told
<1>12. ASSUME NEW r \in Requests, DecideLate(r) PROVE TypeOK'
  <2>1. approval' \in [Requests -> ApprovalState]
    BY <1>12 DEF DecideLate, TypeOK, ApprovalState
  <2>2. QED
    BY <1>12, <2>1 DEF DecideLate, TypeOK, router, pipe, acp, told
<1>13. ASSUME NEW r \in Requests, TimerFires(r) PROVE TypeOK'
  <2>1. PICK a \in Default(r) : Waiter(r, a)
    BY <1>13 DEF TimerFires
  <2>2. /\ armed' \subseteq Requests /\ hosted' \subseteq Requests /\ job' \in JobState
        /\ toPlugin' \in Seq([req : Requests, say : Answers])
    BY <2>1, DefaultRefuses, WaiterType
  <2>3. QED
    BY <1>13, <2>2 DEF TimerFires, TypeOK, acp, told
<1>14. CASE RunEnds \/ StopDone \/ CancelAtOnce
  <2>1. job' \in JobState
    <3>1. JobEnds \cup {job} \subseteq JobState
      BY ApprovalAssumption DEF ApprovalAssumption, TypeOK, Settled, Terminal, JobState
    <3>2. \A to \in JobState : Moved(job, to) \in JobState
      BY MovedBetween DEF TypeOK
    <3>3. "cancelled" \in JobState
      BY DEF JobState
    <3>4. QED
      BY <1>14, <3>1, <3>2, <3>3 DEF RunEnds, StopDone, CancelAtOnce, TypeOK
  <2>2. QED
    BY <1>14, <2>1 DEF RunEnds, StopDone, CancelAtOnce, TypeOK, router, pipe, acp, told
<1>15. CASE CancelInvalidates
  BY <1>15, InvalidateType DEF CancelInvalidates, TypeOK, router, pipe, acp, told
<1>16. CASE Crash
  <2>1. crashes' \in 0 .. MaxCrashes /\ <<>> \in Seq(Requests)
    BY <1>16, ApprovalAssumption, EmptySeq DEF Crash, TypeOK, ApprovalAssumption
  <2>2. QED
    BY <1>16, <2>1 DEF Crash, TypeOK, rows, acp, told
<1>17. CASE Restart
  <2>1. job' \in JobState /\ approval' \in [Requests -> ApprovalState]
    BY <1>17, InvalidateType, MovedBetween DEF Restart, TypeOK, JobState
  <2>2. QED
    BY <1>17, <2>1 DEF Restart, TypeOK, pipe, acp, told
<1>18. QED
  BY <1>1, <1>2, <1>3, <1>4, <1>5, <1>6, <1>7, <1>8, <1>9, <1>10, <1>11, <1>12, <1>13, <1>14,
     <1>15, <1>16, <1>17 DEF Next, AgentStep, PluginStep, RouterStep

-----------------------------------------------------------------------------
(* What the rows say stays said. *)

LEMMA RowsStand ==
  ASSUME TypeOK, Asked, [Next]_vars, NEW r \in Requests, approval[r] \in {"approved", "denied"}
  PROVE  approval'[r] = approval[r] /\ chosen'[r] = chosen[r]
<1>1. CASE AskArrives
  <2>1. Head(toRouter) = toRouter[1] /\ 1 \in DOMAIN toRouter
    BY <1>1 DEF AskArrives, TypeOK
  <2>2. Head(toRouter) # r
    BY <2>1 DEF Asked
  <2>3. QED
    BY <1>1, <2>2 DEF AskArrives, TypeOK
<1>2. ASSUME NEW s \in Requests, NEW o \in Options, Decide(s, o)
      PROVE  approval'[r] = approval[r] /\ chosen'[r] = chosen[r]
  <2>1. r # s
    BY <1>2 DEF Decide
  <2>2. QED
    BY <1>2, <2>1 DEF Decide, TypeOK
<1>3. ASSUME NEW s \in Requests, DecideLate(s)
      PROVE  approval'[r] = approval[r] /\ chosen'[r] = chosen[r]
  BY <1>3 DEF DecideLate, TypeOK
<1>4. CASE CancelInvalidates \/ Restart
  BY <1>4 DEF CancelInvalidates, Restart, InvalidatePending, Invalidated, TypeOK
<1>5. CASE UNCHANGED <<approval, chosen>>
  BY <1>5
<1>6. QED
  BY <1>1, <1>2, <1>3, <1>4, <1>5
     DEF Next, AgentStep, PluginStep, RouterStep, vars, rows, AgentEndsTurn, AgentBabbles,
         AgentExits, AgentAsks, RespondArrives, PromptTimesOut, PluginDies, Poll, PollTimesOut,
         RunEnds, StopDone, CancelAtOnce, Crash, TimerFires

LEMMA AskedStep ==
  ASSUME TypeOK, Asked, [Next]_vars
  PROVE  Asked'
<1>1. CASE UNCHANGED <<toRouter, asked, approval, interactive>>
  BY <1>1 DEF Asked
<1>2. ASSUME NEW r \in Requests, AgentAsks(r) PROVE Asked'
  <2>1. /\ r \notin asked /\ asked' = asked \cup {r} /\ UNCHANGED <<approval, interactive>>
        /\ toRouter' = Append(toRouter, r)
    BY <1>2 DEF AgentAsks, rows
  <2>2. /\ DOMAIN toRouter' = DOMAIN toRouter \cup {Len(toRouter) + 1}
        /\ toRouter'[Len(toRouter) + 1] = r
        /\ \A i \in DOMAIN toRouter : toRouter'[i] = toRouter[i]
    BY <2>1 DEF TypeOK
  <2>3. approval[r] = "none"
    BY <2>1 DEF Asked
  <2>4. \A i \in DOMAIN toRouter' : toRouter'[i] \in asked' /\ approval'[toRouter'[i]] = "none"
    BY <2>1, <2>2, <2>3 DEF Asked
  <2>5. \A i, j \in DOMAIN toRouter' : toRouter'[i] = toRouter'[j] => i = j
    BY <2>1, <2>2 DEF Asked
  <2>6. QED
    BY <2>1, <2>4, <2>5 DEF Asked
<1>3. CASE AskArrives
  <2>1. /\ toRouter' = Tail(toRouter) /\ UNCHANGED <<asked, interactive>>
        /\ Len(toRouter) > 0 /\ Head(toRouter) = toRouter[1] /\ toRouter[1] \in Requests
    BY <1>3 DEF AskArrives, TypeOK
  <2>2. \A i \in DOMAIN toRouter' :
          i \in Nat \ {0} /\ i + 1 \in DOMAIN toRouter /\ toRouter'[i] = toRouter[i + 1]
    BY <2>1 DEF TypeOK
  <2>3. /\ \A s \in Requests : s # toRouter[1] => approval'[s] = approval[s]
        /\ approval'[toRouter[1]] # "none" => interactive
    BY <1>3, <2>1 DEF AskArrives, Asked, TypeOK
  <2>4. \A i \in DOMAIN toRouter' : toRouter'[i] # toRouter[1] /\ toRouter'[i] \in Requests
    <3>1. 1 \in DOMAIN toRouter /\ \A i \in DOMAIN toRouter : toRouter[i] \in Requests
      BY <2>1 DEF TypeOK
    <3>2. \A i \in Nat \ {0} : i + 1 # 1
      OBVIOUS
    <3>3. QED
      BY <2>2, <3>1, <3>2 DEF Asked
  <2>5. \A i \in DOMAIN toRouter' : toRouter'[i] \in asked' /\ approval'[toRouter'[i]] = "none"
    BY <2>1, <2>2, <2>3, <2>4 DEF Asked
  <2>6. \A i, j \in DOMAIN toRouter' : toRouter'[i] = toRouter'[j] => i = j
    <3>1. \A i, j \in DOMAIN toRouter' : toRouter'[i] = toRouter'[j] => i + 1 = j + 1
      BY <2>2 DEF Asked
    <3>2. QED
      BY <2>2, <3>1
  <2>7. \A s \in Requests : s \notin asked' => approval'[s] = "none"
    <3>1. toRouter[1] \in asked
      BY <2>1 DEF Asked, TypeOK
    <3>2. QED
      BY <2>1, <2>3, <3>1 DEF Asked
  <2>8. QED
    BY <2>1, <2>3, <2>5, <2>6, <2>7 DEF Asked
<1>4. ASSUME UNCHANGED <<toRouter, asked, interactive>>,
             \A s \in Requests : approval[s] = "none" <=> approval'[s] = "none"
      PROVE  Asked'
  BY <1>4 DEF Asked, TypeOK
<1>5. ASSUME NEW r \in Requests, DecideLate(r) \/ \E o \in Options : Decide(r, o)
      PROVE  Asked'
  <2>1. /\ UNCHANGED <<toRouter, asked, interactive>> /\ approval[r] = "pending"
        /\ \E v \in {"approved", "denied", "expired"} : approval' = [approval EXCEPT ![r] = v]
    BY <1>5 DEF DecideLate, Decide, pipe
  <2>2. QED
    BY <1>4, <2>1 DEF TypeOK
<1>6. CASE CancelInvalidates \/ Restart
  <2>1. /\ UNCHANGED <<toRouter, asked, interactive>>
        /\ approval' = approval \/ InvalidatePending
    BY <1>6 DEF CancelInvalidates, Restart, pipe
  <2>2. QED
    BY <1>4, <2>1 DEF InvalidatePending, Invalidated, TypeOK
<1>7. CASE Crash
  BY <1>7 DEF Crash, Asked, rows
<1>8. QED
  BY <1>1, <1>2, <1>3, <1>5, <1>6, <1>7
     DEF Next, AgentStep, PluginStep, RouterStep, vars, rows, pipe, AgentEndsTurn, AgentBabbles,
         AgentExits, RespondArrives, PromptTimesOut, PluginDies, Poll, PollTimesOut,
         RunEnds, StopDone, CancelAtOnce, TimerFires

-----------------------------------------------------------------------------
(* What reaches the agent. *)

\* A justification holds for good.
LEMMA JustifiedStays ==
  ASSUME TypeOK, Asked, [Next]_vars, NEW r \in Requests, NEW a, Justified(r, a)
  PROVE  JustifiedNext(r, a)
<1>1. interactive' = interactive
  BY DEF Next, AgentStep, PluginStep, RouterStep, vars, rows, AgentEndsTurn, AgentBabbles,
         AgentExits, AgentAsks, RespondArrives, PromptTimesOut, PluginDies, Poll, PollTimesOut,
         AskArrives, RunEnds, StopDone, CancelAtOnce, CancelInvalidates, Crash, Restart,
         DecideLate, Decide, TimerFires
<1>2. QED
  BY <1>1, RowsStand DEF Justified, JustifiedNext, Allows

LEMMA SaysWhatRowsSay ==
  ASSUME TypeOK, NEW r \in Requests, NEW o \in Options, Asked, Decide(r, o)
  PROVE  JustifiedNext(r, o)
<1>1. approval[r] = "pending" /\ interactive' = interactive /\ interactive
  BY DEF Decide, Asked
<1>2. approval'[r] = (IF Allows(o) THEN "approved" ELSE "denied") /\ chosen'[r] = o
  BY DEF Decide, TypeOK
<1>3. QED
  BY <1>1, <1>2 DEF Justified, JustifiedNext, Allows

LEMMA RefusalJustified ==
  ASSUME NEW r, NEW a, a # Cancelled => ~ Allows(a)
  PROVE  Justified(r, a) /\ JustifiedNext(r, a)
BY DEF Justified, JustifiedNext, Allows

LEMMA BackedNext ==
  ASSUME \A r \in Requests : \A a \in answers'[r] : JustifiedNext(r, a),
         \A r \in Requests : picked'[r] # Undecided => JustifiedNext(r, picked'[r]),
         \A i \in DOMAIN toPlugin' : JustifiedNext(toPlugin'[i].req, toPlugin'[i].say)
  PROVE  Backed'
BY DEF Backed, Justified, JustifiedNext, Allows

LEMMA BackedStep ==
  ASSUME TypeOK, Asked, Backed, [Next]_vars
  PROVE  Backed'
<1> DEFINE Queue(q) == \A i \in DOMAIN q : JustifiedNext(q[i].req, q[i].say)
<1>1. /\ \A r \in Requests : \A a \in answers[r] : JustifiedNext(r, a)
      /\ \A r \in Requests : picked[r] # Undecided => JustifiedNext(r, picked[r])
  BY JustifiedStays DEF Backed
<1>2. \A i \in DOMAIN toPlugin : /\ toPlugin[i] \in Message
                                 /\ JustifiedNext(toPlugin[i].req, toPlugin[i].say)
  <2>1. \A i \in DOMAIN toPlugin : toPlugin[i] \in Message /\ toPlugin[i].req \in Requests
    BY QueueType
  <2>2. QED
    BY <2>1, JustifiedStays DEF Backed
<1>3. ASSUME NEW r \in Requests, NEW a, JustifiedNext(r, a), Waiter(r, a)
      PROVE  Queue(toPlugin')
  <2>1. CASE toPlugin' = toPlugin
    BY <1>2, <2>1
  <2>2. CASE toPlugin' = Append(toPlugin, [req |-> r, say |-> a])
    <3>1. \A i \in DOMAIN toPlugin' : \/ i \in DOMAIN toPlugin /\ toPlugin'[i] = toPlugin[i]
                                      \/ toPlugin'[i] = [req |-> r, say |-> a]
      BY <2>2, QueueType, AppendProperties, MessageType DEF Message
    <3>2. QED
      BY <1>2, <1>3, <3>1
  <2>3. QED
    BY <1>3, <2>1, <2>2 DEF Waiter
<1>4. ASSUME NEW who \in SUBSET Requests, NEW a, Tell(who, a) \/ UNCHANGED told,
             \A r \in who : JustifiedNext(r, a)
      PROVE  \A r \in Requests : \A b \in answers'[r] : JustifiedNext(r, b)
  BY <1>1, <1>4 DEF Tell, told, TypeOK
<1>5. CASE UNCHANGED <<answers, picked, toPlugin>>
  BY <1>1, <1>2, <1>5, BackedNext
<1>6. ASSUME NEW r \in Requests, AgentAsks(r) PROVE Backed'
  <2>1. picked' = picked /\ toPlugin' = toPlugin
    BY <1>6 DEF AgentAsks
  <2>2. CASE UNCHANGED told
    BY <1>5, <2>1, <2>2 DEF told
  <2>3. CASE \E a : Tell({r}, a) /\ (a = Cancelled \/ Kind[a] = "reject")
    <3>1. PICK a : Tell({r}, a) /\ (a = Cancelled \/ Kind[a] = "reject")
      BY <2>3
    <3>2. JustifiedNext(r, a)
      BY <3>1, RefusalJustified DEF Allows
    <3>3. \A s \in Requests : \A b \in answers'[s] : JustifiedNext(s, b)
      BY <1>4, <3>1, <3>2
    <3>4. QED
      BY <1>1, <1>2, <2>1, <3>3, BackedNext
  <2>4. QED
    BY <1>6, <2>2, <2>3 DEF AgentAsks
<1>7. CASE RespondArrives
  <2>1. /\ toPlugin' = Tail(toPlugin) /\ Len(toPlugin) > 0 /\ answers' = answers
        /\ Head(toPlugin) = toPlugin[1] /\ 1 \in DOMAIN toPlugin
    BY <1>7, QueueType, HeadTailProperties DEF RespondArrives, told
  <2>2. \A i \in DOMAIN toPlugin' : i + 1 \in DOMAIN toPlugin /\ toPlugin'[i] = toPlugin[i + 1]
    BY <2>1, QueueType, HeadTailProperties
  <2>3. \A r \in Requests : \/ picked'[r] = picked[r]
                            \/ r = toPlugin[1].req /\ picked'[r] = toPlugin[1].say
    BY <1>7, <2>1 DEF RespondArrives, TypeOK
  <2>4. \A r \in Requests : picked'[r] # Undecided => JustifiedNext(r, picked'[r])
    BY <1>1, <1>2, <2>1, <2>3
  <2>5. \A i \in DOMAIN toPlugin' : JustifiedNext(toPlugin'[i].req, toPlugin'[i].say)
    BY <1>2, <2>2
  <2>6. QED
    BY <1>1, <2>1, <2>4, <2>5, BackedNext
<1>8. ASSUME NEW r \in Requests, Poll(r) PROVE Backed'
  <2>1. picked' = picked /\ toPlugin' = toPlugin
    BY <1>8 DEF Poll, pipe
  <2>2. \A s \in Requests : \A b \in answers'[s] : JustifiedNext(s, b)
    <3>1. CASE r \in open
      BY <1>1, <1>4, <1>8, <3>1 DEF Poll
    <3>2. CASE r \notin open
      BY <1>1, <1>8, <3>2 DEF Poll, told
    <3>3. QED
      BY <3>1, <3>2
  <2>3. QED
    BY <1>1, <1>2, <2>1, <2>2, BackedNext
<1>9. ASSUME NEW r \in Requests, PollTimesOut(r) PROVE Backed'
  <2>1. picked' = picked /\ toPlugin' = toPlugin /\ Tell({r}, Cancelled)
    BY <1>9 DEF PollTimesOut, pipe
  <2>2. \A s \in Requests : \A b \in answers'[s] : JustifiedNext(s, b)
    BY <1>4, <2>1, RefusalJustified
  <2>3. QED
    BY <1>1, <1>2, <2>1, <2>2, BackedNext
<1>10. CASE AgentBabbles
  <2>1. picked' = picked /\ toPlugin' = toPlugin /\ Tell(open, Cancelled)
    BY <1>10 DEF AgentBabbles, FailAll, pipe
  <2>2. \A s \in Requests : \A b \in answers'[s] : JustifiedNext(s, b)
    BY <1>4, <2>1, RefusalJustified DEF TypeOK
  <2>3. QED
    BY <1>1, <1>2, <2>1, <2>2, BackedNext
<1>11. CASE PluginDies
  <2>1. /\ answers' = answers /\ toPlugin' = <<>>
        /\ \A r \in Requests : picked'[r] = Undecided
    BY <1>11 DEF PluginDies, told
  <2>2. QED
    BY <1>1, <2>1, BackedNext
<1>12. ASSUME NEW r \in Requests, NEW o \in Options, Decide(r, o) PROVE Backed'
  <2>1. answers' = answers /\ picked' = picked /\ JustifiedNext(r, o)
    BY <1>12, SaysWhatRowsSay DEF Decide, told, acp
  <2>2. Queue(toPlugin')
    <3>1. CASE r \in armed
      BY <1>3, <1>12, <2>1, <3>1 DEF Decide
    <3>2. CASE r \notin armed
      BY <1>2, <1>12, <3>2 DEF Decide
    <3>3. QED
      BY <3>1, <3>2
  <2>3. QED
    BY <1>1, <2>1, <2>2, BackedNext
<1>13. ASSUME NEW r \in Requests, TimerFires(r) PROVE Backed'
  <2>1. PICK a \in Default(r) : Waiter(r, a)
    BY <1>13 DEF TimerFires
  <2>2. JustifiedNext(r, a)
    BY DefaultRefuses, RefusalJustified
  <2>3. Queue(toPlugin')
    BY <1>3, <2>1, <2>2
  <2>4. answers' = answers /\ picked' = picked
    BY <1>13 DEF TimerFires, told, acp
  <2>5. QED
    BY <1>1, <2>3, <2>4, BackedNext
<1>14. QED
  BY <1>5, <1>6, <1>7, <1>8, <1>9, <1>10, <1>11, <1>12, <1>13
     DEF Next, AgentStep, PluginStep, RouterStep, vars, pipe, acp, told, AgentEndsTurn,
         AgentExits, PromptTimesOut, AskArrives, RunEnds, StopDone, CancelAtOnce,
         CancelInvalidates, Crash, Restart, DecideLate

-----------------------------------------------------------------------------
(* Who answers the agent. *)

\* A request that nobody is left to answer.
LEMMA Answered ==
  ASSUME Answering, TypeOK, NEW r \in Requests,
         open' = open \ {r}, polling' = polling \ {r}, asked' = asked \cup {r},
         \A s \in Requests : s # r => answers'[s] = answers[s],
         \A a, b \in answers'[r] : a = b
  PROVE  Answering'
<1>1. /\ \A s \in open' : s \in Requests /\ s \in open /\ s \in polling' /\ answers'[s] = answers[s]
      /\ \A s \in polling' : s \in Requests /\ s \in polling /\ answers'[s] = answers[s]
  BY DEF Answering, TypeOK
<1>2. /\ \A s \in open' : s \in polling' /\ answers'[s] = {}
      /\ \A s \in polling' : s \in asked' /\ answers'[s] \subseteq {Cancelled}
  BY <1>1 DEF Answering
<1>3. \A s \in Requests : s \notin asked' => answers'[s] = {}
  BY DEF Answering
<1>4. \A s \in Requests : \A a, b \in answers'[s] : a = b
  BY DEF Answering, AnswersAgree
<1>5. QED
  BY <1>2, <1>3, <1>4 DEF Answering, AnswersAgree

LEMMA AnsweringStep ==
  ASSUME TypeOK, Answering, [Next]_vars
  PROVE  Answering'
<1>1. CASE UNCHANGED <<open, polling, asked, answers>>
  BY <1>1 DEF Answering, AnswersAgree
<1>2. ASSUME NEW r \in Requests, AgentAsks(r) PROVE Answering'
  <2>1. r \notin asked /\ asked' = asked \cup {r} /\ answers[r] = {}
    BY <1>2 DEF AgentAsks, Answering
  <2>2. CASE interactive
    <3>1. open' = open \cup {r} /\ polling' = polling \cup {r} /\ answers' = answers
      BY <1>2, <2>2 DEF AgentAsks, told
    <3>2. QED
      BY <2>1, <3>1 DEF Answering, AnswersAgree
  <2>3. CASE ~ interactive
    <3>1. open' = open /\ polling' = polling /\ r \notin polling
      BY <1>2, <2>1, <2>3 DEF AgentAsks, Answering
    <3>2. \E a : answers'[r] \subseteq {a}
      BY <1>2, <2>1, <2>3 DEF AgentAsks, Tell, told, TypeOK
    <3>3. \A s \in Requests : s # r => answers'[s] = answers[s]
      BY <1>2, <2>3 DEF AgentAsks, Tell, told, TypeOK
    <3>4. r \notin open
      BY <3>1 DEF Answering
    <3>5. open' = open \ {r} /\ polling' = polling \ {r}
      BY <3>1, <3>4
    <3>6. QED
      BY <2>1, <3>2, <3>3, <3>5, Answered
  <2>4. QED
    BY <2>2, <2>3
<1>3. ASSUME NEW r \in Requests, Poll(r) PROVE Answering'
  <2>1. open' = open \ {r} /\ polling' = polling \ {r} /\ asked' = asked \cup {r}
    BY <1>3 DEF Poll, Answering
  <2>2. /\ \A s \in Requests : s # r => answers'[s] = answers[s]
        /\ answers'[r] = answers[r] \/ (answers[r] = {} /\ \E a : answers'[r] \subseteq {a})
    BY <1>3 DEF Poll, Tell, told, TypeOK, Answering
  <2>3. \A a, b \in answers'[r] : a = b
    BY <2>2 DEF Answering, AnswersAgree
  <2>4. QED
    BY <2>1, <2>2, <2>3, Answered
<1>4. ASSUME NEW r \in Requests, PollTimesOut(r) PROVE Answering'
  <2>1. open' = open \ {r} /\ polling' = polling \ {r} /\ asked' = asked \cup {r}
    BY <1>4 DEF PollTimesOut, Answering
  <2>2. /\ \A s \in Requests : s # r => answers'[s] = answers[s]
        /\ answers'[r] \subseteq {Cancelled}
    BY <1>4 DEF PollTimesOut, Tell, told, TypeOK, Answering
  <2>3. QED
    BY <2>1, <2>2, Answered
<1>5. CASE AgentBabbles
  <2>1. open' = {} /\ polling' = polling /\ asked' = asked
    BY <1>5 DEF AgentBabbles, FailAll
  <2>2. \A s \in Requests : \/ answers'[s] = answers[s]
                            \/ s \in open /\ answers'[s] = {Cancelled}
    BY <1>5 DEF AgentBabbles, FailAll, Tell, told, TypeOK, Answering
  <2>3. QED
    BY <2>1, <2>2 DEF Answering, AnswersAgree, TypeOK
<1>6. CASE AgentExits \/ PluginDies
  <2>1. /\ open' = open \/ open' = {}
        /\ (polling' = polling \/ (polling' = {} /\ open' = {}))
        /\ UNCHANGED <<asked, answers>>
    BY <1>6 DEF AgentExits, PluginDies, told
  <2>2. QED
    BY <2>1 DEF Answering, AnswersAgree
<1>7. QED
  BY <1>1, <1>2, <1>3, <1>4, <1>5, <1>6
     DEF Next, AgentStep, PluginStep, RouterStep, vars, acp, told, AgentEndsTurn,
         RespondArrives, PromptTimesOut, AskArrives, RunEnds, StopDone, CancelAtOnce,
         CancelInvalidates, Crash, Restart, DecideLate, Decide, TimerFires

\* A turn that is over stays over, and what the agent is told then is no news to it.
LEMMA DenialsStep ==
  ASSUME IdsTell, TypeOK, Denials, [Next]_vars
  PROVE  Denials'
<1>1. CASE UNCHANGED <<denied, anyDenied, reported, turn>>
  BY <1>1 DEF Denials, DenialReported
<1>2. ASSUME reported' = reported, turn' = turn, anyDenied => anyDenied',
             denied' # denied => turn = "on" /\ anyDenied'
      PROVE  Denials'
  BY <1>2 DEF Denials, DenialReported
<1>3. ASSUME NEW r \in Requests, AgentAsks(r) PROVE Denials'
  <2>1. reported' = reported /\ turn' = turn /\ (anyDenied => anyDenied')
    BY <1>3 DEF AgentAsks
  <2>2. denied' # denied => turn = "on" /\ anyDenied'
    BY <1>3 DEF AgentAsks, Tell, told
  <2>3. QED
    BY <1>2, <2>1, <2>2
<1>4. ASSUME NEW r \in Requests, Poll(r) PROVE Denials'
  <2>1. reported' = reported /\ turn' = turn /\ (anyDenied => anyDenied')
    BY <1>4 DEF Poll, told
  <2>2. r \in open => (Refuses(picked[r]) => LooksDenied(picked[r]))
    BY <1>4, ApprovalAssumption
       DEF Poll, Refuses, LooksDenied, IdsTell, TypeOK, Answers, ApprovalAssumption
  <2>3. denied' # denied => turn = "on" /\ anyDenied'
    BY <1>4, <2>2 DEF Poll, Tell, told
  <2>4. QED
    BY <1>2, <2>1, <2>3
<1>5. ASSUME NEW r \in Requests, PollTimesOut(r) PROVE Denials'
  <2>1. /\ reported' = reported /\ turn' = turn /\ anyDenied' = TRUE
        /\ denied' = denied
    BY <1>5 DEF PollTimesOut, Tell, told
  <2>2. QED
    BY <1>2, <2>1
<1>6. CASE AgentBabbles
  <2>1. /\ reported' = reported /\ (anyDenied => anyDenied')
        /\ turn' = (IF turn = "on" THEN "broken" ELSE turn)
    BY <1>6 DEF AgentBabbles, FailAll
  <2>2. denied' # denied => turn = "on" /\ anyDenied'
    <3>1. denied' # denied => turn = "on" /\ denied' = denied \cup open
      BY <1>6 DEF AgentBabbles, FailAll, Tell, told
    <3>2. open # {} => anyDenied'
      BY <1>6 DEF AgentBabbles, FailAll
    <3>3. QED
      BY <3>1, <3>2
  <2>3. QED
    BY <2>1, <2>2 DEF Denials, DenialReported
<1>7. CASE AgentExits \/ PromptTimesOut
  <2>1. reported' = reported /\ denied' = denied
    BY <1>7 DEF AgentExits, PromptTimesOut, told
  <2>2. turn' = turn \/ (turn = "on" /\ turn' = "broken")
    BY <1>7 DEF AgentExits, PromptTimesOut
  <2>3. anyDenied => anyDenied'
    BY <1>7 DEF AgentExits, PromptTimesOut
  <2>4. QED
    BY <2>1, <2>2, <2>3 DEF Denials, DenialReported
<1>8. CASE AgentEndsTurn
  <2>1. /\ turn = "on" /\ turn' = "ended" /\ UNCHANGED <<denied, anyDenied>>
        /\ reported' = (IF anyDenied THEN "partial" ELSE "completed")
    BY <1>8 DEF AgentEndsTurn, told
  <2>2. QED
    BY <2>1 DEF Denials, DenialReported
<1>9. QED
  BY <1>1, <1>3, <1>4, <1>5, <1>6, <1>7, <1>8
     DEF Next, AgentStep, PluginStep, RouterStep, vars, acp, told, RespondArrives, PluginDies,
         AskArrives, RunEnds, StopDone, CancelAtOnce, CancelInvalidates, Crash, Restart,
         DecideLate, Decide, TimerFires

-----------------------------------------------------------------------------
(* The job that waits. *)

LEMMA WaitingStep ==
  ASSUME TypeOK, Waiting, [Next]_vars
  PROVE  Waiting'
<1>1. CASE UNCHANGED <<up, crashes, job, armed>>
  BY <1>1 DEF Waiting, AwaitingHasWaiter
<1>2. CASE AskArrives
  <2>1. \/ armed' # {} /\ UNCHANGED <<up, crashes>>
        \/ UNCHANGED <<up, crashes, job, armed>>
    BY <1>2 DEF AskArrives
  <2>2. QED
    BY <2>1 DEF Waiting, AwaitingHasWaiter
<1>3. ASSUME NEW r \in Requests, NEW a, Waiter(r, a), UNCHANGED <<up, crashes>>
      PROVE  Waiting'
  <2>1. job' # "awaiting_approval"
    BY <1>3 DEF Waiter, Moved, Transitions, TypeOK, JobState
  <2>2. QED
    BY <1>3, <2>1 DEF Waiting, AwaitingHasWaiter
<1>4. ASSUME NEW r \in Requests, TimerFires(r) \/ \E o \in Options : Decide(r, o)
      PROVE  Waiting'
  <2>1. UNCHANGED <<up, crashes>>
    BY <1>4 DEF TimerFires, Decide
  <2>2. UNCHANGED <<job, armed>> \/ \E a : Waiter(r, a)
    BY <1>4 DEF TimerFires, Decide
  <2>3. QED
    BY <1>1, <1>3, <2>1, <2>2
<1>5. CASE StopDone \/ CancelAtOnce
  <2>1. PICK to \in JobEnds \cup {job, "cancelled"} : job' = Moved(job, to)
    BY <1>5 DEF StopDone, CancelAtOnce
  <2>2. job' = job \/ job' # "awaiting_approval"
    BY <2>1, MovedBetween, ApprovalAssumption
       DEF ApprovalAssumption, Settled, Terminal
  <2>3. UNCHANGED <<up, crashes, armed>>
    BY <1>5 DEF StopDone, CancelAtOnce, router
  <2>4. QED
    BY <2>2, <2>3 DEF Waiting, AwaitingHasWaiter
<1>6. CASE Crash
  BY <1>6 DEF Crash, Waiting, AwaitingHasWaiter, TypeOK
<1>7. CASE Restart
  BY <1>7 DEF Restart, Waiting, AwaitingHasWaiter, TypeOK
<1>8. QED
  BY <1>1, <1>2, <1>4, <1>5, <1>6, <1>7
     DEF Next, AgentStep, PluginStep, RouterStep, vars, rows, router, AgentEndsTurn,
         AgentBabbles, AgentExits, AgentAsks, RespondArrives, PromptTimesOut, PluginDies, Poll,
         PollTimesOut, RunEnds, CancelInvalidates, DecideLate

-----------------------------------------------------------------------------
(* The theorems. *)

LEMMA InitHolds == Init => TypeOK /\ Asked /\ Backed /\ Answering /\ Denials /\ Waiting
<1> SUFFICES ASSUME Init PROVE TypeOK /\ Asked /\ Backed /\ Answering /\ Denials /\ Waiting
  OBVIOUS
<1>1. TypeOK
  <2>1. toRouter \in Seq(Requests) /\ toPlugin \in Seq([req : Requests, say : Answers])
    BY EmptySeq DEF Init
  <2>2. crashes \in 0 .. MaxCrashes
    BY ApprovalAssumption DEF Init, ApprovalAssumption
  <2>3. QED
    BY <2>1, <2>2 DEF Init, TypeOK, JobState, ApprovalState
<1>2. Asked /\ Backed
  BY DEF Init, Asked, Backed
<1>3. Answering
  BY DEF Init, Answering, AnswersAgree
<1>4. Denials /\ Waiting
  BY DEF Init, Denials, Waiting, DenialReported, AwaitingHasWaiter
<1>5. QED
  BY <1>1, <1>2, <1>3, <1>4

\* Every variable keeps its type, in particular whatever is on its way between router,
\* plugin and agent.
THEOREM ApprovalTypes == Spec => []TypeOK
<1>1. TypeOK /\ [Next]_vars => TypeOK'
  BY TypeStep
<1>2. QED
  BY <1>1, InitHolds, PTL DEF Spec

LEMMA AskedAlways == Spec => [](TypeOK /\ Asked)
<1>1. TypeOK /\ Asked /\ [Next]_vars => (TypeOK /\ Asked)'
  BY TypeStep, AskedStep
<1>2. QED
  BY <1>1, InitHolds, PTL DEF Spec

\* Fail-closed for any options, requests and crashes: an option that allows something
\* reaches the agent only if an operator chose it in time.
THEOREM FailsClosed == Spec => []AllowedByOperator
<1>1. TypeOK /\ Asked /\ Backed /\ [Next]_vars => (TypeOK /\ Asked /\ Backed)'
  BY TypeStep, AskedStep, BackedStep
<1>2. TypeOK /\ Backed => AllowedByOperator
  BY DEF Backed, Justified, AllowedByOperator, TypeOK
<1>3. QED
  BY <1>1, <1>2, InitHolds, PTL DEF Spec

\* Operator, failing connection and two deadlines never answer one request differently.
THEOREM OneAnswer == Spec => []AnswersAgree
<1>1. TypeOK /\ Answering /\ [Next]_vars => (TypeOK /\ Answering)'
  BY TypeStep, AnsweringStep
<1>2. Answering => AnswersAgree
  BY DEF Answering
<1>3. QED
  BY <1>1, <1>2, InitHolds, PTL DEF Spec

\* Provided that the ids of the options say what their kinds say, a turn with a refusal
\* is never reported as completed.
THEOREM DenialsTold == IdsTell => (Spec => []DenialReported)
<1> SUFFICES ASSUME IdsTell PROVE Spec => []DenialReported
  OBVIOUS
<1>1. TypeOK /\ Denials /\ [Next]_vars => (TypeOK /\ Denials)'
  BY TypeStep, DenialsStep
<1>2. Denials => DenialReported
  BY DEF Denials
<1>3. QED
  BY <1>1, <1>2, InitHolds, PTL DEF Spec

\* Before a restart a job awaits an approval only while a waiter is armed.
THEOREM SomebodyWaits == Spec => []AwaitingHasWaiter
<1>1. TypeOK /\ Waiting /\ [Next]_vars => (TypeOK /\ Waiting)'
  BY TypeStep, WaitingStep
<1>2. Waiting => AwaitingHasWaiter
  BY DEF Waiting
<1>3. QED
  BY <1>1, <1>2, InitHolds, PTL DEF Spec

\* No later decision, expiry, cancel, repeated request or recovery rewrites a decided row.
THEOREM DecisionStands == Spec => FirstDecisionStands
<1>1. TypeOK /\ Asked /\ [Next]_vars
        => [\A r \in Requests : approval[r] \in {"approved", "denied"}
              => approval'[r] = approval[r] /\ chosen'[r] = chosen[r]]_vars
  BY RowsStand
<1>2. QED
  BY <1>1, AskedAlways, PTL DEF Spec, FirstDecisionStands

-----------------------------------------------------------------------------
(* Who still hears of an answer, and who does not. *)

\* While agent and plugin live, a request that was made was answered, or it is pending and
\* its decidePermission loop runs, which has a deadline of its own.
NobodyForgotten ==
  agent = "live" /\ plugin = "live"
    => \A r \in asked : answers[r] # {} \/ r \in open \cap polling

\* A router that was restarted tells no plugin anything about a request of before: the
\* rows it may still decide have neither a waiter nor a host.
DecidedInVain ==
  [][crashes # 0 => /\ armed = {} /\ armed' = {}
                    /\ Len(toPlugin') <= Len(toPlugin)]_vars

\* A step that only answers requests.
LEMMA TellsOnly ==
  ASSUME TypeOK, NEW who \in SUBSET Requests, NEW a, Tell(who, a), agent = "live"
  PROVE  \A r \in Requests : answers'[r] = (IF r \in who THEN answers[r] \cup {a} ELSE answers[r])
BY DEF TypeOK, Tell

LEMMA ForgottenStep ==
  ASSUME TypeOK, Answering, NobodyForgotten, [Next]_vars
  PROVE  NobodyForgotten'
<1> SUFFICES ASSUME agent' = "live", plugin' = "live", NEW r \in asked'
             PROVE  answers'[r] # {} \/ (r \in open' /\ r \in polling')
  BY DEF NobodyForgotten
<1>1. ASSUME UNCHANGED <<open, polling, asked, answers>>, agent = "live", plugin = "live"
      PROVE  answers'[r] # {} \/ (r \in open' /\ r \in polling')
  BY <1>1 DEF NobodyForgotten
<1>2. ASSUME NEW s \in Requests, AgentAsks(s) PROVE answers'[r] # {} \/ (r \in open' /\ r \in polling')
  <2>1. CASE interactive
    BY <1>2, <2>1 DEF AgentAsks, NobodyForgotten, told
  <2>2. CASE ~ interactive
    <3>1. PICK a : Tell({s}, a)
      BY <1>2, <2>2 DEF AgentAsks
    <3>2. \A q \in Requests : answers'[q] = (IF q \in {s} THEN answers[q] \cup {a} ELSE answers[q])
      <4>1. agent = "live" /\ {s} \in SUBSET Requests
        BY <1>2 DEF AgentAsks
      <4>2. QED
        BY <3>1, <4>1, TellsOnly
    <3>3. QED
      BY <1>2, <2>2, <3>2 DEF AgentAsks, NobodyForgotten, TypeOK
  <2>3. QED
    BY <2>1, <2>2
<1>3. ASSUME NEW s \in Requests, Poll(s) \/ PollTimesOut(s)
      PROVE  answers'[r] # {} \/ (r \in open' /\ r \in polling')
  <2>1. /\ open' = open \ {s} /\ polling' = polling \ {s} /\ asked' = asked
        /\ agent = "live" /\ plugin = "live" /\ s \in asked
    BY <1>3 DEF Poll, PollTimesOut, Answering
  <2>2. CASE s \notin open /\ Poll(s)
    BY <2>1, <2>2 DEF Poll, told, NobodyForgotten
  <2>3. CASE ~ (s \notin open /\ Poll(s))
    <3>1. PICK a : Tell({s}, a)
      BY <1>3, <2>3 DEF Poll, PollTimesOut
    <3>2. \A q \in Requests : answers'[q] = (IF q \in {s} THEN answers[q] \cup {a} ELSE answers[q])
      BY <2>1, <3>1, TellsOnly
    <3>3. QED
      BY <2>1, <3>2 DEF NobodyForgotten, TypeOK
  <2>4. QED
    BY <2>2, <2>3
<1>4. CASE AgentBabbles
  <2>1. /\ Tell(open, Cancelled) /\ open' = {} /\ agent = "live" /\ plugin = "live" /\ asked' = asked
    BY <1>4 DEF AgentBabbles, FailAll
  <2>2. \A q \in Requests : answers'[q] = (IF q \in open THEN answers[q] \cup {Cancelled} ELSE answers[q])
    BY <2>1, TellsOnly DEF TypeOK
  <2>3. QED
    BY <2>1, <2>2 DEF NobodyForgotten, TypeOK
<1>5. QED
  BY <1>1, <1>2, <1>3, <1>4
     DEF Next, AgentStep, PluginStep, RouterStep, vars, acp, told, AgentEndsTurn, AgentExits,
         RespondArrives, PromptTimesOut, PluginDies, AskArrives, RunEnds, StopDone, CancelAtOnce,
         CancelInvalidates, Crash, Restart, DecideLate, TimerFires, Decide

\* While both ends live no request is dropped: failAll, the two deadlines and the loop
\* leave only answered requests behind.  It is the part of AgentUnblocked that does not
\* rest on fairness.
THEOREM NoneForgotten == Spec => []NobodyForgotten
<1>1. Init => NobodyForgotten
  BY DEF Init, NobodyForgotten
<1>2. TypeOK /\ Answering /\ NobodyForgotten /\ [Next]_vars => (TypeOK /\ Answering /\ NobodyForgotten)'
  BY TypeStep, AnsweringStep, ForgottenStep
<1>3. QED
  BY <1>1, <1>2, InitHolds, PTL DEF Spec

WaitersGone == crashes # 0 => armed = {}

LEMMA ToldNothing ==
  ASSUME TypeOK, WaitersGone, [Next]_vars
  PROVE  WaitersGone' /\ (crashes # 0 => Len(toPlugin') <= Len(toPlugin))
<1>1. toPlugin \in Seq(Message)
  BY QueueType
<1>2. CASE UNCHANGED <<toPlugin, armed, crashes>>
  BY <1>1, <1>2, LenProperties DEF WaitersGone
<1>3. CASE RespondArrives
  <2>1. toPlugin # <<>> /\ toPlugin' = Tail(toPlugin) /\ UNCHANGED <<armed, crashes>>
    BY <1>3 DEF RespondArrives, router
  <2>2. Len(Tail(toPlugin)) = Len(toPlugin) - 1 /\ Len(toPlugin) \in Nat
    BY <1>1, <2>1, HeadTailProperties, LenProperties
  <2>3. QED
    BY <2>1, <2>2 DEF WaitersGone
<1>4. CASE PluginDies
  <2>1. toPlugin' = <<>> /\ UNCHANGED <<armed, crashes>>
    BY <1>4 DEF PluginDies, router
  <2>2. QED
    BY <1>1, <2>1, LenProperties, EmptySeq DEF WaitersGone
<1>5. CASE AskArrives
  BY <1>5 DEF AskArrives, WaitersGone
<1>6. ASSUME NEW r \in Requests, r \in armed,
             TimerFires(r) \/ \E o \in Options : Decide(r, o)
      PROVE  WaitersGone' /\ (crashes # 0 => Len(toPlugin') <= Len(toPlugin))
  BY <1>6 DEF WaitersGone, TimerFires, Decide
<1>7. CASE Crash
  BY <1>1, <1>7, LenProperties DEF Crash, WaitersGone
<1>8. QED
  BY <1>2, <1>3, <1>4, <1>5, <1>6, <1>7
     DEF Next, AgentStep, PluginStep, RouterStep, vars, router, pipe, AgentEndsTurn, AgentBabbles,
         AgentExits, AgentAsks, PromptTimesOut, Poll, PollTimesOut, RunEnds, StopDone, CancelAtOnce,
         CancelInvalidates, Restart, DecideLate, TimerFires, Decide

\* An approval left pending by the daemon that died can still be decided, and the answer
\* is recorded, but the agent that asked never hears of it.
THEOREM DecisionUnheard == Spec => DecidedInVain
<1>1. Init => WaitersGone
  BY DEF Init, WaitersGone
<1>2. TypeOK /\ WaitersGone /\ [Next]_vars => (TypeOK /\ WaitersGone)'
  BY TypeStep, ToldNothing
<1>3. TypeOK /\ WaitersGone /\ [Next]_vars
        => [crashes # 0 => /\ armed = {} /\ armed' = {}
                           /\ Len(toPlugin') <= Len(toPlugin)]_vars
  <2>1. ASSUME TypeOK, Next, crashes # 0 PROVE crashes' # 0
    <3>1. CASE Crash
      BY <2>1, <3>1 DEF Crash, TypeOK
    <3>2. CASE ~ Crash
      <4>1. crashes' = crashes
        BY <2>1, <3>2
           DEF Next, AgentStep, PluginStep, RouterStep, AgentEndsTurn, AgentBabbles, AgentExits,
               AgentAsks, PromptTimesOut, Poll, PollTimesOut, RunEnds, StopDone, CancelAtOnce,
               CancelInvalidates, Restart, DecideLate, TimerFires, Decide, RespondArrives,
               PluginDies, AskArrives
      <4>2. QED
        BY <2>1, <4>1
    <3>3. QED
      BY <3>1, <3>2
  <2>2. QED
    BY <2>1, ToldNothing DEF WaitersGone
<1>4. QED
  BY <1>1, <1>2, <1>3, InitHolds, PTL DEF Spec, DecidedInVain
=============================================================================
