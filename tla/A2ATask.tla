------------------------------- MODULE A2ATask -------------------------------
(***************************************************************************)
(* One A2A task of app/a2a/executor.py: the messages sent to it, at most   *)
(* one execute() at a time, the drain task that forwards the progress of   *)
(* the research run through a bounded queue, and the cancellation of the   *)
(* task at any moment.  Tasks share nothing but the corpus.                *)
(*                                                                         *)
(* The SDK is external: it runs the messages of a task one after another,  *)
(* stores the statuses that are published, and on a cancel request cancels *)
(* execute() and calls cancel() of the executor.  A message is what        *)
(* execute reads of it: no scope, a scope in the corpus, an unknown one.   *)
(* A message without a question is refused before a task exists.           *)
(***************************************************************************)
EXTENDS Naturals, Sequences, SequencesExt

CONSTANTS
    ManyDocuments,       \* the corpus holds more than one document
    MaxClarifications,   \* how often a task asks for a scope
    Capacity,            \* maxsize of the progress queue
    Labels,              \* phases of a run that are shown
    MaxMessages,         \* bound on the messages sent to the task
    MaxObserved          \* bound on the states a run shows its observer

ASSUME A2AAssumption ==
    /\ ManyDocuments \in BOOLEAN
    /\ MaxClarifications \in Nat
    /\ Capacity \in Nat \ {0}
    /\ MaxMessages \in Nat
    /\ MaxObserved \in Nat
    /\ "end" \notin Labels /\ "none" \notin Labels

VARIABLES
    inbox,            \* messages the SDK holds for the task
    sent,             \* how many were sent
    state,            \* the task's status in the SDK's store
    events,           \* everything published for the task, in order
    pc,               \* where execute() is
    scope,            \* document_ids of the message it handles
    clarifications,   \* rounds of clarification
    cancelled,        \* a CancelledError waits for execute()
    runs,             \* research runs started
    journal,          \* terminal event of the run
    result,           \* what research() gave back
    phases,           \* the progress queue
    last,             \* the last label the observer saw change
    observed,         \* how many states it was shown
    drain             \* the drain task

requestVars == <<inbox, sent, scope, clarifications>>
runVars == <<runs, journal, result>>
progressVars == <<phases, last, observed, drain>>
vars == <<requestVars, state, events, pc, cancelled, runVars, progressVars>>

Scopes == {"none", "known", "unknown"}
Answers == {"run_completed", "run_abstained"}
Endings == Answers \cup {"run_failed", "run_cancelled"}
Terminal == {"completed", "failed", "canceled"}
Statuses == {"submitted", "input_required", "working"} \cup Terminal
Places == {"idle", "route", "accepted", "research", "flush", "artifact",
           "unwind"}

TypeOK ==
    /\ inbox \in Seq(Scopes) /\ sent \in Nat
    /\ state \in {"none"} \cup Statuses
    /\ events \in Seq(Statuses \cup {"artifact"})
    /\ pc \in Places /\ scope \in Scopes
    /\ clarifications \in 0 .. MaxClarifications
    /\ cancelled \in BOOLEAN
    /\ runs \in Nat
    /\ journal \in {"none"} \cup Endings
    /\ result \in {"none", "answer", "failure"}
    /\ phases \in Seq(Labels \cup {"end"}) /\ Len(phases) <= Capacity
    /\ last \in Labels \cup {"none"} /\ observed \in Nat
    /\ drain \in {"off", "waiting", "ended"}

Init ==
    /\ inbox = <<>> /\ sent = 0 /\ scope = "none" /\ clarifications = 0
    /\ state = "none" /\ events = <<>>
    /\ pc = "idle" /\ cancelled = FALSE
    /\ runs = 0 /\ journal = "none" /\ result = "none"
    /\ phases = <<>> /\ last = "none" /\ observed = 0 /\ drain = "off"

-----------------------------------------------------------------------------
(***************************************************************************)
(* What the SDK does with a task.                                          *)
(***************************************************************************)

\* A status is stored unless the task already has a terminal one; an
\* artifact is not a status.
Publish(e) ==
    /\ events' = Append(events, e)
    /\ state' = IF state \in Terminal \/ e = "artifact" THEN state ELSE e

Send(m) ==
    /\ sent < MaxMessages
    /\ inbox' = Append(inbox, m)
    /\ sent' = sent + 1
    /\ UNCHANGED <<scope, clarifications, state, events, pc, cancelled,
                   runVars, progressVars>>

\* A cancel request: execute() will see a CancelledError at the await it is
\* in, and cancel() publishes the status before that.
Cancel ==
    /\ state \notin Terminal \cup {"none"}
    /\ cancelled' = (pc # "idle")
    /\ Publish("canceled")
    /\ UNCHANGED <<requestVars, pc, runVars, progressVars>>

-----------------------------------------------------------------------------
(***************************************************************************)
(* execute(): a new task, a reply to a clarification, or a late message.   *)
(***************************************************************************)

IsNew == state = "none"
IsReplyInAnyState == state # "none"   \* mutant: a late message runs again
IsReply == state = "input_required"

Begin ==
    /\ pc = "idle" /\ inbox # <<>>
    /\ inbox' = Tail(inbox)
    /\ \/ /\ IsNew
          /\ Publish("submitted")
          /\ pc' = "route" /\ scope' = Head(inbox)
       \/ /\ IsReply
          /\ pc' = "route" /\ scope' = Head(inbox)
          /\ UNCHANGED <<state, events>>
       \/ /\ ~IsNew /\ ~IsReply
          /\ UNCHANGED <<state, events, pc, scope>>
    /\ UNCHANGED <<sent, clarifications, cancelled, runVars, progressVars>>

AskForScope ==
    /\ scope = "none" /\ ManyDocuments
    /\ IF clarifications >= MaxClarifications
       THEN clarifications' = 0 /\ Publish("failed")
       ELSE clarifications' = clarifications + 1 /\ Publish("input_required")
    /\ pc' = "idle"

RejectScope ==
    /\ scope = "unknown"
    /\ clarifications' = 0
    /\ Publish("failed")
    /\ pc' = "idle"

AcceptScope ==
    /\ scope = "known" \/ (scope = "none" /\ ~ManyDocuments)
    /\ clarifications' = 0
    /\ Publish("working")
    /\ pc' = "accepted"

Route ==
    /\ pc = "route" /\ ~cancelled
    /\ AskForScope \/ RejectScope \/ AcceptScope
    /\ UNCHANGED <<inbox, sent, scope, cancelled, runVars, progressVars>>

-----------------------------------------------------------------------------
(***************************************************************************)
(* run(): the research run, its observer and its drain.                    *)
(***************************************************************************)

StartRun ==
    /\ pc = "accepted" /\ ~cancelled
    /\ runs' = runs + 1
    /\ drain' = "waiting"
    /\ pc' = "research"
    /\ UNCHANGED <<requestVars, state, events, cancelled, journal, result,
                   phases, last, observed>>

\* The observer forgets a label it has just seen, and one the queue has no
\* room for.
Observe(label) ==
    /\ pc = "research" /\ journal = "none" /\ ~cancelled
    /\ observed < MaxObserved
    /\ observed' = observed + 1
    /\ last' = label
    /\ phases' = IF label # last /\ Len(phases) < Capacity
                 THEN Append(phases, label) ELSE phases
    /\ UNCHANGED <<requestVars, state, events, pc, cancelled, runVars, drain>>

RunEnds(ending) ==
    /\ pc = "research" /\ journal = "none" /\ ~cancelled
    /\ journal' = ending
    /\ UNCHANGED <<requestVars, state, events, pc, cancelled, runs, result,
                   progressVars>>

\* Mutant: a full queue does not take the end, and the drain is kept.
FinishDrainWaiting ==
    /\ phases' = IF Len(phases) < Capacity THEN Append(phases, "end") ELSE phases
    /\ UNCHANGED drain

\* finish_drain up to its await.
FinishDrain ==
    IF Len(phases) < Capacity
    THEN phases' = Append(phases, "end") /\ UNCHANGED drain
    ELSE drain' = "ended" /\ UNCHANGED phases

\* research() returns, or raises although the journal is closed.
RunReturns ==
    /\ pc = "research" /\ journal # "none" /\ ~cancelled
    /\ \/ result' = "answer" /\ journal \in Answers
       \/ result' = "failure"
    /\ FinishDrain
    /\ pc' = "flush"
    /\ UNCHANGED <<requestVars, state, events, cancelled, runs, journal, last,
                   observed>>

FlushedAtOnce == TRUE   \* mutant: the drain is not awaited
Flushed == drain = "ended"

\* Mutant: what research returned is an answer whatever its status.
PublishAnyResult ==
    /\ pc = "flush" /\ Flushed /\ ~cancelled
    /\ Publish("artifact") /\ pc' = "artifact"
    /\ UNCHANGED <<requestVars, cancelled, runVars, progressVars>>

\* publish() up to its first await.
PublishResult ==
    /\ pc = "flush" /\ Flushed /\ ~cancelled
    /\ IF result = "answer"
       THEN Publish("artifact") /\ pc' = "artifact"
       ELSE Publish("failed") /\ pc' = "unwind"
    /\ UNCHANGED <<requestVars, cancelled, runVars, progressVars>>

PublishCompleted ==
    /\ pc = "artifact" /\ ~cancelled
    /\ Publish("completed")
    /\ pc' = "unwind"
    /\ UNCHANGED <<requestVars, cancelled, runVars, progressVars>>

\* The finally block of run().
Unwind ==
    /\ pc = "unwind" /\ ~cancelled
    /\ drain' = "ended"
    /\ pc' = "idle"
    /\ UNCHANGED <<requestVars, state, events, cancelled, runVars, phases,
                   last, observed>>

DrainSends ==
    /\ drain = "waiting" /\ phases # <<>> /\ Head(phases) # "end"
    /\ phases' = Tail(phases)
    /\ Publish("working")
    /\ UNCHANGED <<requestVars, pc, cancelled, runVars, last, observed, drain>>

DrainStops ==
    /\ drain = "waiting" /\ phases # <<>> /\ Head(phases) = "end"
    /\ phases' = Tail(phases)
    /\ drain' = "ended"
    /\ UNCHANGED <<requestVars, state, events, pc, cancelled, runVars, last,
                   observed>>

-----------------------------------------------------------------------------
(***************************************************************************)
(* The CancelledError reaches execute().                                   *)
(***************************************************************************)

\* Before the run and after its result was published it just leaves; during
\* research v2_states closes the journal unless the run did.
CancelledLeaves ==
    /\ cancelled /\ pc \notin {"idle", "flush"}
    /\ journal' = IF pc = "research" /\ journal = "none"
                  THEN "run_cancelled" ELSE journal
    /\ drain' = IF drain = "waiting" THEN "ended" ELSE drain
    /\ cancelled' = FALSE
    /\ pc' = "idle"
    /\ UNCHANGED <<requestVars, state, events, runs, result, phases, last,
                   observed>>

\* While it awaits the drain the error cancels the drain, and finish_drain
\* suppresses it: execute() goes on.
CancelledInFlush ==
    /\ cancelled /\ pc = "flush"
    /\ drain' = "ended"
    /\ cancelled' = FALSE
    /\ UNCHANGED <<requestVars, state, events, pc, runVars, phases, last,
                   observed>>

-----------------------------------------------------------------------------
ExecuteStep == Begin \/ Route \/ StartRun \/ RunReturns \/ PublishResult
               \/ PublishCompleted \/ Unwind \/ CancelledLeaves
               \/ CancelledInFlush
DrainStep == DrainSends \/ DrainStops
RunStep == \E ending \in Endings \ {"run_cancelled"} : RunEnds(ending)

Next ==
    \/ \E m \in Scopes : Send(m)
    \/ Cancel
    \/ ExecuteStep
    \/ \E label \in Labels : Observe(label)
    \/ RunStep
    \/ DrainStep

Spec == Init /\ [][Next]_vars

\* The event loop runs ready tasks, and a V2 run ends (RunTerminates of
\* V2Graph).
FairSpec == Spec /\ WF_vars(ExecuteStep) /\ WF_vars(DrainStep) /\ WF_vars(RunStep)

-----------------------------------------------------------------------------
Published(e) == e \in Range(events)

\* However many messages are sent, and whenever they arrive, a task starts at
\* most one research run, and none while it waits for a scope or once it was
\* failed for not getting one (execute's one-run rule).
OneRunPerTask ==
    /\ runs <= 1
    /\ runs = 1 => state \notin {"none", "submitted", "input_required"}

\* A task is completed right after its artifact was published, an artifact
\* is only published for a run that ended with an answer or an abstention,
\* and a failed task shows none.
OutcomeFollowsRun ==
    /\ \A i \in DOMAIN events :
         events[i] = "completed" => i > 1 /\ events[i - 1] = "artifact"
    /\ Published("artifact") => runs = 1 /\ journal \in Answers
    /\ ~(Published("artifact") /\ Published("failed"))

\* Progress the drain still holds goes out before the outcome or never, also
\* when the queue is full at the end (finish_drain).
ProgressPrecedesOutcome ==
    \A i, j \in DOMAIN events :
        i < j /\ events[i] \in {"artifact", "completed", "failed"}
        => events[j] # "working"

\* Every execution ends, and leaves the task with an outcome or a question to
\* the caller, also when it is cancelled in the middle.
EveryExecutionSettles ==
    pc # "idle" ~> pc = "idle" /\ state \in Terminal \cup {"input_required"}

\* A task that was canceled on request gets no result and no second terminal
\* status ("a terminal state is final", finish_drain).
CanceledIsFinal ==
    \A i, j \in DOMAIN events :
        i < j /\ events[i] = "canceled"
        => events[j] \notin {"artifact", "completed", "failed"}

===============================================================================
