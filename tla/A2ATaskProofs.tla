---------------------------- MODULE A2ATaskProofs ----------------------------
(***************************************************************************)
(* A2ATask proved for every capacity of the queue, number of messages and  *)
(* clarifications, and length of a run.                                    *)
(***************************************************************************)
EXTENDS A2ATask, SequenceTheorems, TLAPS

Kinds == Statuses \cup {"artifact"}
Outcomes == {"artifact", "completed", "failed"}

-----------------------------------------------------------------------------
(* What is published is one more event at the end. *)
LEMMA AppendedEvent ==
    ASSUME NEW s \in Seq(Kinds), NEW e \in Kinds
    PROVE  /\ Append(s, e) \in Seq(Kinds)
           /\ Len(s) \in Nat /\ DOMAIN s = 1 .. Len(s)
           /\ Len(Append(s, e)) = Len(s) + 1
           /\ DOMAIN Append(s, e) = 1 .. Len(s) + 1
           /\ \A i \in 1 .. Len(s) : Append(s, e)[i] = s[i]
           /\ Append(s, e)[Len(s) + 1] = e
           /\ Range(Append(s, e)) = Range(s) \cup {e}
<1>1. /\ Append(s, e) \in Seq(Kinds)
      /\ Len(Append(s, e)) = Len(s) + 1
      /\ \A i \in 1 .. Len(s) : Append(s, e)[i] = s[i]
      /\ Append(s, e)[Len(s) + 1] = e
  BY AppendProperties
<1>2. Len(s) \in Nat /\ DOMAIN s = 1 .. Len(s)
  OBVIOUS
<1>3. DOMAIN Append(s, e) = 1 .. Len(s) + 1
  BY <1>1
<1>4. Range(Append(s, e)) = Range(s) \cup {e}
  <2>1. ASSUME NEW x \in Range(Append(s, e)) PROVE x \in Range(s) \cup {e}
    BY <1>1, <1>2, <1>3 DEF Range
  <2>2. ASSUME NEW x \in Range(s) PROVE x \in Range(Append(s, e))
    BY <1>1, <1>2, <1>3 DEF Range
  <2>3. e \in Range(Append(s, e))
    BY <1>1, <1>2, <1>3 DEF Range
  <2> QED BY <2>1, <2>2, <2>3
<1> QED BY <1>1, <1>2, <1>3, <1>4

(* Publishing keeps the types, and a terminal status stays. *)
LEMMA PublishedType ==
    ASSUME TypeOK, NEW e \in Kinds, Publish(e)
    PROVE  /\ events' \in Seq(Kinds)
           /\ Range(events') = Range(events) \cup {e}
           /\ state' \in {"none"} \cup Statuses
           /\ state \in Terminal => state' = state
           /\ e \in Terminal => state' \in Terminal
           /\ e # "artifact" /\ state \notin Terminal => state' = e
           /\ state = "none" /\ e # "artifact" => state' # "none"
           /\ e # "artifact" => state' \in Terminal \cup {e}
           /\ e = "artifact" => state' = state
  BY AppendedEvent DEF TypeOK, Publish, Kinds, Statuses, Terminal

(* A queue that is not full can take one more, and loses one when it is read. *)
LEMMA QueueType ==
    ASSUME NEW S, NEW q \in Seq(S), NEW x \in S, NEW N \in Nat, Len(q) <= N
    PROVE  /\ Len(q) < N => Append(q, x) \in Seq(S) /\ Len(Append(q, x)) <= N
           /\ q # <<>> => Tail(q) \in Seq(S) /\ Len(Tail(q)) <= N
<1>1. Len(q) \in Nat
  OBVIOUS
<1>2. Append(q, x) \in Seq(S) /\ Len(Append(q, x)) = Len(q) + 1
  BY AppendProperties
<1>3. q # <<>> => Tail(q) \in Seq(S) /\ Len(Tail(q)) = Len(q) - 1
  BY HeadTailProperties
<1> QED BY <1>1, <1>2, <1>3

(* Every reachable state has its type. *)
THEOREM TypeCorrect == Spec => []TypeOK
<1>1. Init => TypeOK
  <2> SUFFICES ASSUME Init PROVE TypeOK OBVIOUS
  <2>1. Len(phases) = 0 /\ Capacity \in Nat /\ MaxClarifications \in Nat
    BY A2AAssumption DEF Init
  <2>2. clarifications \in 0 .. MaxClarifications /\ Len(phases) <= Capacity
    BY <2>1 DEF Init
  <2>3. /\ inbox \in Seq(Scopes) /\ events \in Seq(Statuses \cup {"artifact"})
        /\ phases \in Seq(Labels \cup {"end"})
    BY DEF Init
  <2> QED BY <2>2, <2>3 DEF Init, TypeOK, Places, Scopes
<1>2. TypeOK /\ [Next]_vars => TypeOK'
  <2> SUFFICES ASSUME TypeOK, [Next]_vars PROVE TypeOK' OBVIOUS
  <2>c. /\ MaxClarifications \in Nat /\ Capacity \in Nat
        /\ clarifications \in Nat /\ clarifications <= MaxClarifications
    BY A2AAssumption DEF TypeOK
  <2>q. Kinds = Statuses \cup {"artifact"}
    BY DEF Kinds
  <2>1. ASSUME NEW m \in Scopes, Send(m) PROVE TypeOK'
    <3>1. inbox' \in Seq(Scopes) /\ sent' \in Nat
      BY <2>1 DEF TypeOK, Send
    <3> QED BY <2>1, <3>1 DEF Send, TypeOK, runVars, progressVars
  <2>2. CASE Cancel
    BY <2>2, <2>q, PublishedType
       DEF Cancel, TypeOK, requestVars, runVars, progressVars, Statuses, Terminal
  <2>3. CASE Begin
    <3>1. /\ inbox' \in Seq(Scopes) /\ Head(inbox) \in Scopes
          /\ pc' \in Places /\ scope' \in Scopes
      BY <2>3, HeadTailProperties DEF Begin, TypeOK, Places
    <3>2. state' \in {"none"} \cup Statuses /\ events' \in Seq(Kinds)
      BY <2>3, <2>q, PublishedType DEF Begin, TypeOK, Statuses
    <3> QED BY <2>3, <3>1, <3>2, <2>q DEF Begin, TypeOK, runVars, progressVars
  <2>4. CASE Route
    <3>1. clarifications' \in 0 .. MaxClarifications /\ pc' \in Places
      BY <2>4, <2>c DEF Route, AskForScope, RejectScope, AcceptScope, Places
    <3>2. state' \in {"none"} \cup Statuses /\ events' \in Seq(Kinds)
      BY <2>4, <2>q, PublishedType
         DEF Route, AskForScope, RejectScope, AcceptScope, Statuses, Terminal
    <3> QED BY <2>4, <3>1, <3>2, <2>q DEF Route, TypeOK, runVars, progressVars
  <2>5. CASE StartRun
    <3>1. runs' \in Nat
      BY <2>5 DEF StartRun, TypeOK
    <3> QED BY <2>5, <3>1 DEF StartRun, TypeOK, requestVars, Places
  <2>6. ASSUME NEW label \in Labels, Observe(label) PROVE TypeOK'
    <3>1. observed' \in Nat
      BY <2>6 DEF Observe, TypeOK
    <3>2. phases' \in Seq(Labels \cup {"end"}) /\ Len(phases') <= Capacity
      BY <2>6, <2>c, QueueType DEF Observe, TypeOK
    <3> QED BY <2>6, <3>1, <3>2 DEF Observe, TypeOK, requestVars, runVars
  <2>7. ASSUME NEW ending \in Endings, RunEnds(ending) PROVE TypeOK'
    BY <2>7 DEF RunEnds, TypeOK, requestVars, progressVars
  <2>8. CASE RunReturns
    <3>1. /\ phases' \in Seq(Labels \cup {"end"}) /\ Len(phases') <= Capacity
          /\ drain' \in {"off", "waiting", "ended"}
      BY <2>8, <2>c, QueueType DEF RunReturns, FinishDrain, TypeOK
    <3> QED BY <2>8, <3>1 DEF RunReturns, TypeOK, requestVars, Places
  <2>9. CASE PublishResult
    BY <2>9, <2>q, PublishedType
       DEF PublishResult, TypeOK, requestVars, runVars, progressVars, Places,
           Statuses, Terminal
  <2>10. CASE PublishCompleted
    BY <2>10, <2>q, PublishedType
       DEF PublishCompleted, TypeOK, requestVars, runVars, progressVars,
           Places, Statuses, Terminal
  <2>11. CASE Unwind
    BY <2>11 DEF Unwind, TypeOK, requestVars, runVars, Places
  <2>12. CASE DrainSends
    <3>1. phases' \in Seq(Labels \cup {"end"}) /\ Len(phases') <= Capacity
      BY <2>12, <2>c, QueueType DEF DrainSends, TypeOK
    <3>2. state' \in {"none"} \cup Statuses /\ events' \in Seq(Kinds)
      BY <2>12, <2>q, PublishedType DEF DrainSends, Statuses
    <3> QED BY <2>12, <3>1, <3>2, <2>q DEF DrainSends, TypeOK, requestVars, runVars
  <2>13. CASE DrainStops
    <3>1. phases' \in Seq(Labels \cup {"end"}) /\ Len(phases') <= Capacity
      BY <2>13, <2>c, QueueType DEF DrainStops, TypeOK
    <3> QED BY <2>13, <3>1 DEF DrainStops, TypeOK, requestVars, runVars
  <2>14. CASE CancelledLeaves
    BY <2>14 DEF CancelledLeaves, TypeOK, requestVars, Places, Endings
  <2>15. CASE CancelledInFlush
    BY <2>15 DEF CancelledInFlush, TypeOK, requestVars, runVars
  <2>16. CASE UNCHANGED vars
    BY <2>16 DEF vars, requestVars, runVars, progressVars, TypeOK
  <2> QED BY <2>1, <2>2, <2>3, <2>4, <2>5, <2>6, <2>7, <2>8, <2>9, <2>10,
             <2>11, <2>12, <2>13, <2>14, <2>15, <2>16
          DEF Next, ExecuteStep, DrainStep, RunStep
<1> QED BY <1>1, <1>2, PTL DEF Spec

-----------------------------------------------------------------------------
(***************************************************************************)
(* One run: before it the task has not left the statuses a run starts from *)
(* (so no message finds a task with a run waiting for input), and a place  *)
(* that leads to a run has none behind it.                                 *)
(***************************************************************************)
RunInv ==
    /\ state = "none" => pc = "idle"
    /\ pc \in {"route", "accepted"} => runs = 0
    /\ pc \in {"research", "flush", "artifact", "unwind"} => runs = 1
    /\ state \in {"none", "submitted", "input_required"} => runs = 0
    /\ pc = "accepted" => state \in Terminal \cup {"working"}
    /\ runs <= 1
    /\ runs = 0 => journal = "none" /\ drain = "off" /\ result = "none"
    /\ cancelled => state \in Terminal
    /\ pc = "unwind" => state \in Terminal
    /\ pc = "flush" => journal # "none"
    /\ pc \in {"flush", "artifact"} /\ result = "answer" => journal \in Answers
    /\ pc = "artifact" => result = "answer"

(***************************************************************************)
(* An outcome is published only where the drain has ended and no run can   *)
(* follow.                                                                 *)
(***************************************************************************)
OutcomeInv ==
    /\ drain = "waiting" => pc \in {"research", "flush"}
    /\ Range(events) \cap Outcomes # {} =>
         pc \in {"artifact", "unwind", "idle"} /\ drain # "waiting"
    /\ Range(events) \cap Outcomes # {} /\ pc = "idle" => state \in Terminal
    /\ pc = "artifact" =>
         /\ events # <<>>
         /\ cancelled \/ events[Len(events)] = "artifact"
    /\ OutcomeFollowsRun
    /\ ProgressPrecedesOutcome

TaskInv == TypeOK /\ RunInv /\ OutcomeInv

(* No step starts a second run. *)
LEMMA RunStepKeepsRunInv ==
    ASSUME TypeOK, TypeOK', RunInv, [Next]_vars PROVE RunInv'
<1> USE DEF RunInv, Terminal, Statuses, Kinds
<1>1. ASSUME NEW m \in Scopes, Send(m) PROVE RunInv'
  BY <1>1 DEF Send, runVars, progressVars
<1>2. CASE Cancel
  BY <1>2, PublishedType DEF Cancel, requestVars, runVars, progressVars
<1>3. CASE Begin
  BY <1>3, PublishedType DEF Begin, IsNew, IsReply, runVars, progressVars
<1>4. CASE Route
  BY <1>4, PublishedType
     DEF Route, AskForScope, RejectScope, AcceptScope, runVars, progressVars
<1>5. CASE StartRun
  BY <1>5 DEF StartRun
<1>6. ASSUME NEW label \in Labels, Observe(label) PROVE RunInv'
  BY <1>6 DEF Observe, runVars
<1>7. ASSUME NEW ending \in Endings, RunEnds(ending) PROVE RunInv'
  BY <1>7 DEF RunEnds, progressVars
<1>8. CASE RunReturns
  BY <1>8 DEF RunReturns, Answers
<1>9. CASE PublishResult
  BY <1>9, PublishedType DEF PublishResult, TypeOK, runVars, progressVars
<1>10. CASE PublishCompleted
  BY <1>10, PublishedType DEF PublishCompleted, runVars, progressVars
<1>11. CASE Unwind
  BY <1>11 DEF Unwind, runVars
<1>12. CASE DrainSends
  BY <1>12, PublishedType DEF DrainSends, runVars
<1>13. CASE DrainStops
  BY <1>13 DEF DrainStops, runVars
<1>14. CASE CancelledLeaves
  BY <1>14 DEF CancelledLeaves
<1>15. CASE CancelledInFlush
  BY <1>15 DEF CancelledInFlush, runVars
<1>16. CASE UNCHANGED vars
  BY <1>16 DEF vars, runVars, progressVars
<1> QED BY <1>1, <1>2, <1>3, <1>4, <1>5, <1>6, <1>7, <1>8, <1>9, <1>10,
           <1>11, <1>12, <1>13, <1>14, <1>15, <1>16
        DEF Next, ExecuteStep, DrainStep, RunStep

(* At most one run of the task is ever started. *)
THEOREM OneRun == Spec => []OneRunPerTask
<1>1. Init => RunInv
  BY DEF Init, RunInv, Terminal
<1>2. TypeOK /\ TypeOK' /\ RunInv /\ [Next]_vars => RunInv'
  BY RunStepKeepsRunInv
<1>3. TypeOK /\ RunInv => OneRunPerTask
  BY DEF TypeOK, RunInv, OneRunPerTask
<1> QED BY <1>1, <1>2, <1>3, TypeCorrect, PTL DEF Spec

-----------------------------------------------------------------------------
CompletedAfterArtifact ==
    \A i \in DOMAIN events :
        events[i] = "completed" => i > 1 /\ events[i - 1] = "artifact"

(* The order of events is kept by publishing progress before any outcome,  *)
(* and a completion right after an artifact.                               *)
LEMMA OrderKept ==
    ASSUME TypeOK, CompletedAfterArtifact, ProgressPrecedesOutcome,
           NEW e \in Kinds, Publish(e),
           e = "completed" => events # <<>> /\ events[Len(events)] = "artifact",
           e = "working" => Range(events) \cap Outcomes = {}
    PROVE  CompletedAfterArtifact' /\ ProgressPrecedesOutcome'
<1>1. events \in Seq(Kinds) /\ events' = Append(events, e)
  BY DEF TypeOK, Kinds, Publish
<1>2. /\ Len(events) \in Nat /\ DOMAIN events = 1 .. Len(events)
      /\ DOMAIN events' = 1 .. Len(events) + 1
      /\ \A i \in 1 .. Len(events) : events'[i] = events[i]
      /\ events'[Len(events) + 1] = e
  BY <1>1, AppendedEvent
<1>3. events # <<>> => Len(events) > 0
  BY <1>1, EmptySeq
<1>4. CompletedAfterArtifact'
  <2> SUFFICES ASSUME NEW i \in DOMAIN events', events'[i] = "completed"
               PROVE  i > 1 /\ events'[i - 1] = "artifact"
    BY DEF CompletedAfterArtifact
  <2>1. CASE i \in 1 .. Len(events)
    <3>1. i > 1 /\ events[i - 1] = "artifact"
      BY <1>2, <2>1 DEF CompletedAfterArtifact
    <3>2. i - 1 \in 1 .. Len(events)
      BY <1>2, <2>1, <3>1
    <3> QED BY <1>2, <3>1, <3>2
  <2>2. CASE i = Len(events) + 1
    <3>1. Len(events) > 0 /\ events[Len(events)] = "artifact"
      BY <1>2, <1>3, <2>2
    <3> QED BY <1>2, <2>2, <3>1
  <2> QED BY <1>2, <2>1, <2>2
<1>5. ProgressPrecedesOutcome'
  <2> SUFFICES ASSUME NEW i \in DOMAIN events', NEW j \in DOMAIN events',
                      i < j, events'[i] \in Outcomes
               PROVE  events'[j] # "working"
    BY DEF ProgressPrecedesOutcome, Outcomes
  <2>1. i \in 1 .. Len(events) /\ events[i] \in Outcomes
    BY <1>2
  <2>2. CASE j \in 1 .. Len(events)
    BY <1>2, <2>1, <2>2 DEF ProgressPrecedesOutcome, Outcomes
  <2>3. CASE j = Len(events) + 1
    <3>1. events[i] \in Range(events)
      BY <1>2, <2>1 DEF Range
    <3> QED BY <1>2, <2>1, <2>3, <3>1
  <2> QED BY <1>2, <2>2, <2>3
<1> QED BY <1>4, <1>5

(* Steps that publish nothing leave the order as it is. *)
LEMMA QuietStep ==
    ASSUME OutcomeFollowsRun, ProgressPrecedesOutcome,
           UNCHANGED <<events, runs>>,
           Published("artifact") => journal' = journal
    PROVE  /\ OutcomeFollowsRun' /\ ProgressPrecedesOutcome'
           /\ Range(events') = Range(events)
  BY DEF OutcomeFollowsRun, ProgressPrecedesOutcome, Published

(* What publishing e does to the second half of the invariant. *)
LEMMA PublishingStep ==
    ASSUME TypeOK, OutcomeFollowsRun, ProgressPrecedesOutcome,
           NEW e \in Kinds, Publish(e), UNCHANGED <<runs, journal>>,
           e = "completed" => events # <<>> /\ events[Len(events)] = "artifact",
           e \in {"working", "failed", "artifact"}
             => Range(events) \cap Outcomes = {},
           e = "artifact" => runs = 1 /\ journal \in Answers
    PROVE  OutcomeFollowsRun' /\ ProgressPrecedesOutcome'
<1>1. CompletedAfterArtifact
  BY DEF OutcomeFollowsRun, CompletedAfterArtifact
<1>2. CompletedAfterArtifact' /\ ProgressPrecedesOutcome'
  BY <1>1, OrderKept
<1>3. Range(events') = Range(events) \cup {e}
  BY PublishedType
<1>4. /\ Published("artifact")' => runs' = 1 /\ journal' \in Answers
      /\ ~(Published("artifact") /\ Published("failed"))'
  BY <1>3 DEF OutcomeFollowsRun, Published, Outcomes
<1> QED BY <1>2, <1>4 DEF OutcomeFollowsRun, CompletedAfterArtifact

(* Outcomes come after all progress and follow the run. *)
LEMMA StepKeepsOutcomeInv ==
    ASSUME TypeOK, TypeOK', RunInv, OutcomeInv, [Next]_vars
    PROVE  OutcomeInv'
<1> DEFINE Quiet == Range(events) \cap Outcomes = {}
<1>a. OutcomeFollowsRun /\ ProgressPrecedesOutcome
  BY DEF OutcomeInv
<1>b. events \in Seq(Kinds)
  BY DEF TypeOK, Kinds
<1>c. \/ Range(events) \cap Outcomes = {}
      \/ pc \in {"artifact", "unwind", "idle"} /\ drain # "waiting"
  BY DEF OutcomeInv
<1>1. ASSUME NEW m \in Scopes, Send(m) PROVE OutcomeInv'
  BY <1>1, <1>a, QuietStep DEF Send, OutcomeInv, runVars, progressVars
<1>2. CASE Cancel
  <2>1. Publish("canceled") /\ "canceled" \in Kinds /\ UNCHANGED <<runs, journal>>
        /\ UNCHANGED <<pc, drain>> /\ "canceled" \notin Outcomes
    BY <1>2 DEF Cancel, Kinds, Statuses, Terminal, runVars, progressVars, Outcomes
  <2>2. OutcomeFollowsRun' /\ ProgressPrecedesOutcome'
    BY <2>1, <1>a, PublishingStep
  <2>3. Range(events') = Range(events) \cup {"canceled"} /\ state' \in Terminal
    BY <2>1, PublishedType DEF Terminal
  <2>4. pc' = "artifact" => events' # <<>> /\ cancelled'
    <3>1. events' # <<>>
      BY <1>b, <2>1, AppendProperties DEF Publish
    <3>2. pc' = "artifact" => cancelled'
      BY <1>2, <2>1 DEF Cancel
    <3> QED BY <3>1, <3>2
  <2> QED BY <2>1, <2>2, <2>3, <2>4 DEF OutcomeInv
<1>3. CASE Begin
  <2>1. CASE UNCHANGED <<events, runs, journal, drain, pc, state, cancelled>>
    BY <2>1, <1>a, QuietStep DEF OutcomeInv
  <2>2. CASE IsReply /\ pc' = "route"
             /\ UNCHANGED <<events, runs, journal, drain, state>>
    <3>1. state \notin Terminal /\ pc = "idle"
      BY <1>3, <2>2 DEF Begin, IsReply, Terminal
    <3> QED BY <2>2, <3>1, <1>a, QuietStep DEF OutcomeInv
  <2>3. CASE IsNew /\ Publish("submitted") /\ pc' = "route"
             /\ UNCHANGED <<runs, journal, drain>>
    <3>1. "submitted" \in Kinds /\ "submitted" \notin Outcomes
      BY DEF Kinds, Statuses, Outcomes
    <3>2. OutcomeFollowsRun' /\ ProgressPrecedesOutcome'
      BY <2>3, <3>1, <1>a, PublishingStep
    <3>3. state \notin Terminal /\ pc = "idle"
      BY <1>3, <2>3 DEF Begin, IsNew, Terminal
    <3>4. Range(events') = Range(events) \cup {"submitted"}
      BY <2>3, <3>1, PublishedType
    <3> QED BY <2>3, <3>1, <3>2, <3>3, <3>4 DEF OutcomeInv
  <2> QED BY <1>3, <2>1, <2>2, <2>3 DEF Begin, runVars, progressVars
<1>4. CASE Route
  <2>1. PICK e \in {"failed", "input_required", "working"} :
           /\ Publish(e)
           /\ pc' \in {"idle", "accepted"} /\ (e = "working" => pc' = "accepted")
           /\ (pc' = "accepted" => e = "working")
    BY <1>4 DEF Route, AskForScope, RejectScope, AcceptScope
  <2>2. e \in Kinds /\ e # "completed" /\ e # "artifact"
    BY <2>1 DEF Kinds, Statuses, Terminal
  <2>3. pc = "route" /\ drain # "waiting" /\ Range(events) \cap Outcomes = {}
        /\ UNCHANGED <<runs, journal, drain, cancelled>>
    BY <1>4, <1>c DEF Route, OutcomeInv, runVars, progressVars
  <2>4. OutcomeFollowsRun' /\ ProgressPrecedesOutcome'
    BY <2>1, <2>2, <2>3, <1>a, PublishingStep
  <2>5. Range(events') = Range(events) \cup {e}
        /\ (e \in Terminal => state' \in Terminal)
    BY <2>1, <2>2, PublishedType
  <2>6. Range(events') \cap Outcomes # {} => e = "failed"
    BY <2>1, <2>3, <2>5 DEF Outcomes
  <2> QED BY <2>1, <2>3, <2>4, <2>5, <2>6 DEF OutcomeInv, Terminal
<1>5. CASE StartRun
  <2>1. Range(events) \cap Outcomes = {} /\ ~Published("artifact")
    BY <1>5, <1>c DEF StartRun, Published, Outcomes
  <2>2. UNCHANGED <<events, journal>> /\ pc' = "research"
    BY <1>5 DEF StartRun
  <2>3. OutcomeFollowsRun' /\ ProgressPrecedesOutcome'
    BY <1>a, <2>1, <2>2
       DEF OutcomeFollowsRun, ProgressPrecedesOutcome, Published
  <2> QED BY <2>1, <2>2, <2>3 DEF OutcomeInv
<1>6. ASSUME NEW label \in Labels, Observe(label) PROVE OutcomeInv'
  BY <1>6, <1>a, QuietStep DEF Observe, OutcomeInv, runVars
<1>7. ASSUME NEW ending \in Endings, RunEnds(ending) PROVE OutcomeInv'
  <2>1. pc = "research" /\ ~Published("artifact")
        /\ UNCHANGED <<events, runs, pc, drain, state, cancelled>>
    BY <1>7, <1>c DEF RunEnds, Published, Outcomes, progressVars
  <2> QED BY <2>1, <1>a, QuietStep DEF OutcomeInv
<1>8. CASE RunReturns
  <2>1. /\ Range(events) \cap Outcomes = {}
        /\ UNCHANGED <<events, runs, journal>> /\ pc' = "flush"
    BY <1>8, <1>c DEF RunReturns
  <2> QED BY <2>1, <1>a, QuietStep DEF OutcomeInv
<1>9. CASE PublishResult
  <2>1. PICK e \in {"artifact", "failed"} :
           /\ Publish(e)
           /\ e = "artifact" => pc' = "artifact" /\ result = "answer"
           /\ e = "failed" => pc' = "unwind"
    BY <1>9 DEF PublishResult
  <2>2. e \in Kinds /\ e # "completed"
    BY <2>1 DEF Kinds, Statuses, Terminal
  <2>3. pc = "flush" /\ drain = "ended" /\ Range(events) \cap Outcomes = {}
        /\ UNCHANGED <<runs, journal, drain, cancelled>>
    BY <1>9, <1>c DEF PublishResult, Flushed, runVars, progressVars
  <2>4. e = "artifact" => runs = 1 /\ journal \in Answers
    BY <2>1, <2>3 DEF RunInv
  <2>5. OutcomeFollowsRun' /\ ProgressPrecedesOutcome'
    BY <2>1, <2>2, <2>3, <2>4, <1>a, PublishingStep
  <2>6. events' # <<>> /\ events'[Len(events')] = e
    BY <2>1, <2>2, <1>b, AppendedEvent, AppendProperties DEF Publish
  <2> QED BY <2>1, <2>3, <2>5, <2>6 DEF OutcomeInv
<1>10. CASE PublishCompleted
  <2>1. /\ Publish("completed") /\ pc = "artifact" /\ pc' = "unwind"
        /\ ~cancelled /\ UNCHANGED <<runs, journal, drain>>
    BY <1>10 DEF PublishCompleted, runVars, progressVars
  <2>2. events # <<>> /\ events[Len(events)] = "artifact" /\ drain # "waiting"
    BY <2>1 DEF OutcomeInv
  <2>3. "completed" \in Kinds
    BY DEF Kinds, Statuses, Terminal
  <2>4. OutcomeFollowsRun' /\ ProgressPrecedesOutcome'
    BY <2>1, <2>2, <2>3, <1>a, PublishingStep
  <2> QED BY <2>1, <2>2, <2>4 DEF OutcomeInv
<1>11. CASE Unwind
  <2>1. UNCHANGED <<events, runs, journal, state>> /\ pc' = "idle"
        /\ drain' = "ended" /\ state \in Terminal
    BY <1>11 DEF Unwind, RunInv, runVars
  <2> QED BY <2>1, <1>a, QuietStep DEF OutcomeInv
<1>12. CASE DrainSends
  <2>1. /\ Publish("working") /\ drain = "waiting"
        /\ UNCHANGED <<runs, journal, drain, pc>>
    BY <1>12 DEF DrainSends, runVars
  <2>2. Range(events) \cap Outcomes = {} /\ pc \in {"research", "flush"}
    BY <2>1, <1>c DEF OutcomeInv
  <2>3. "working" \in Kinds /\ "working" \notin Outcomes
    BY DEF Kinds, Statuses, Outcomes
  <2>4. OutcomeFollowsRun' /\ ProgressPrecedesOutcome'
    BY <2>1, <2>2, <2>3, <1>a, PublishingStep
  <2>5. Range(events') \cap Outcomes = {}
    BY <2>1, <2>2, <2>3, PublishedType
  <2> QED BY <2>1, <2>2, <2>4, <2>5 DEF OutcomeInv
<1>13. CASE DrainStops
  <2>1. UNCHANGED <<events, runs, journal, state, pc, cancelled>> /\ drain' = "ended"
    BY <1>13 DEF DrainStops, runVars
  <2> QED BY <2>1, <1>a, QuietStep DEF OutcomeInv
<1>14. CASE CancelledLeaves
  <2>1. /\ UNCHANGED <<events, runs, state>> /\ pc' = "idle"
        /\ drain' # "waiting" /\ state \in Terminal
    BY <1>14 DEF CancelledLeaves, RunInv
  <2>2. Published("artifact") => journal' = journal
    BY <1>14, <1>c DEF CancelledLeaves, Published, Outcomes
  <2> QED BY <2>1, <2>2, <1>a, QuietStep DEF OutcomeInv
<1>15. CASE CancelledInFlush
  <2>1. UNCHANGED <<events, runs, journal, pc>> /\ drain' = "ended" /\ pc = "flush"
    BY <1>15 DEF CancelledInFlush, runVars
  <2>2. Range(events) \cap Outcomes = {}
    BY <2>1, <1>c
  <2> QED BY <2>1, <2>2, <1>a, QuietStep DEF OutcomeInv
<1>16. CASE UNCHANGED vars
  <2>1. UNCHANGED <<events, runs, journal, state, pc, cancelled, drain>>
    BY <1>16 DEF vars, runVars, progressVars
  <2> QED BY <2>1, <1>a, QuietStep DEF OutcomeInv
<1> QED BY <1>1, <1>2, <1>3, <1>4, <1>5, <1>6, <1>7, <1>8, <1>9, <1>10,
           <1>11, <1>12, <1>13, <1>14, <1>15, <1>16
        DEF Next, ExecuteStep, DrainStep, RunStep

(* The invariant holds in every reachable state. *)
LEMMA TaskInvariant == Spec => []TaskInv
<1>1. Init => RunInv /\ OutcomeInv
  <2> SUFFICES ASSUME Init PROVE RunInv /\ OutcomeInv OBVIOUS
  <2>1. RunInv
    BY DEF Init, RunInv, Terminal
  <2>2. Range(events) = {} /\ DOMAIN events = {}
    BY DEF Init, Range
  <2> QED BY <2>1, <2>2
          DEF Init, OutcomeInv, OutcomeFollowsRun, ProgressPrecedesOutcome,
              Published
<1>2. TypeOK /\ TypeOK' /\ RunInv /\ OutcomeInv /\ [Next]_vars
        => RunInv' /\ OutcomeInv'
  BY RunStepKeepsRunInv, StepKeepsOutcomeInv
<1> QED BY <1>1, <1>2, TypeCorrect, PTL DEF Spec, TaskInv

(* A task completes right after the artifact of an answer or abstention. *)
THEOREM OutcomesFollowRuns == Spec => []OutcomeFollowsRun
<1>1. TaskInv => OutcomeFollowsRun
  BY DEF TaskInv, OutcomeInv
<1> QED BY <1>1, TaskInvariant, PTL

(* No progress is published after an outcome. *)
THEOREM ProgressComesFirst == Spec => []ProgressPrecedesOutcome
<1>1. TaskInv => ProgressPrecedesOutcome
  BY DEF TaskInv, OutcomeInv
<1> QED BY <1>1, TaskInvariant, PTL

===============================================================================
