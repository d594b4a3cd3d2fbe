----------------------------- MODULE BudgetLedger -----------------------------
(***************************************************************************)
(* The spend ledger of a paid experiment: every provider call of a         *)
(* BudgetedClient reserves its estimate before it is sent and settles it   *)
(* afterwards, and the ledger's file is rewritten after each of the two.   *)
(*                                                                         *)
(* Calls overlap: reserve and settle hold the ledger's lock, the provider  *)
(* call between them does not.  The process may die at any point and be    *)
(* resumed from the file, and a rewrite of the file may fail, which leaves *)
(* the old one (os.replace) and the new counters in memory.  Prices are    *)
(* whole numbers here, floats in the code.                                 *)
(***************************************************************************)
EXTENDS Integers, FiniteSets, Functions

CONSTANTS
    Calls,            \* provider calls an experiment attempts
    Estimate,         \* input estimate of each, overhead included
    Usages,           \* token counts a provider may report
    MaxAttempts, MaxInputPerCall, MaxOutputPerCall,
    MaxTotalInput, MaxTotalOutput, MaxCost,
    InputPrice, OutputPrice,
    OlderLedgers,     \* files an earlier version may have left
    MaxInterrupts     \* bound on deaths and failed rewrites

Usage == [input: Nat, output: Nat]
Caps == {"attempt_cap", "cost_cap", "input_token_cap", "output_token_cap",
         "per_call_input_cap", "per_call_output_cap"}
Reasons == Caps \cup {"none", "over_reservation"}

(* LedgerState *)
Ledger ==
    [attempts: Nat, refused: Nat,
     reservedInput: Int, reservedOutput: Int, reservedCost: Int,
     settledInput: Nat, settledOutput: Nat, settledCost: Nat,
     unknownUsage: Nat, overruns: Nat,
     breaches: SUBSET Caps, exhausted: Reasons]

ASSUME LedgerAssumption ==
    /\ IsFiniteSet(Calls)
    /\ Estimate \in [Calls -> Nat]
    /\ Usages \subseteq Usage
    /\ {MaxAttempts, MaxTotalInput, MaxTotalOutput, MaxCost} \subseteq Nat
    /\ {MaxInputPerCall, MaxOutputPerCall} \subseteq Nat \ {0}
    /\ {InputPrice, OutputPrice} \subseteq Nat \ {0}
    /\ MaxInterrupts \in Nat

Cost(input, output) == input * InputPrice + output * OutputPrice

Input(s) == s.reservedInput + s.settledInput
Output(s) == s.reservedOutput + s.settledOutput
Spend(s) == s.reservedCost + s.settledCost

WithinCaps(s) ==
    /\ s.attempts <= MaxAttempts
    /\ s.overruns = 0 => /\ Input(s) <= MaxTotalInput
                         /\ Output(s) <= MaxTotalOutput
                         /\ Spend(s) <= MaxCost

(* What reserve let through: only an overrun can have passed a cap. *)
ASSUME OlderLedgersAssumption ==
    OlderLedgers \subseteq Ledger /\ \A s \in OlderLedgers : WithinCaps(s)

VARIABLES
    state,      \* Ledger.state of the running process
    file,        \* the ledger file
    running,          \* the process runs
    phase,          \* where each call is
    interrupts,  \* deaths and failed rewrites so far
    sent,        \* history: calls handed to the provider
    reported,    \* history: tokens of earlier runs and those providers reported
    overran      \* history: a provider reported more than was reserved

ledgerVars == <<state, file, running, phase, interrupts, sent, reported, overran>>

NewLedger ==
    [attempts |-> 0, refused |-> 0,
     reservedInput |-> 0, reservedOutput |-> 0, reservedCost |-> 0,
     settledInput |-> 0, settledOutput |-> 0, settledCost |-> 0,
     unknownUsage |-> 0, overruns |-> 0, breaches |-> {}, exhausted |-> "none"]

-------------------------------------------------------------------------------
(* _settled_cap_breaches, without the usage of a call. *)
TotalBreaches(s) ==
    s.breaches
    \cup (IF s.settledInput > MaxTotalInput THEN {"input_token_cap"} ELSE {})
    \cup (IF s.settledOutput > MaxTotalOutput THEN {"output_token_cap"} ELSE {})
    \cup (IF s.settledCost > MaxCost THEN {"cost_cap"} ELSE {})

CallBreaches(u) ==
    (IF u.input > MaxInputPerCall THEN {"per_call_input_cap"} ELSE {})
    \cup (IF u.output > MaxOutputPerCall THEN {"per_call_output_cap"} ELSE {})

(* Why the experiment is stopped: the first reason sticks, an overrun comes *)
(* before a breach; which of several breaches is named is left open.         *)
ReasonsToStop(s, isOverrun, breaches) ==
    IF s.exhausted # "none" THEN {s.exhausted}
    ELSE IF isOverrun THEN {"over_reservation"}
    ELSE IF breaches # {} THEN breaches ELSE {"none"}

(* Ledger.__init__ on an existing file *)
Resumed(s) ==
    {[s EXCEPT !.breaches = TotalBreaches(s), !.exhausted = why] :
        why \in ReasonsToStop(s, s.overruns > 0, TotalBreaches(s))}

(* The file is rewritten when the resumed ledger is stopped or differs, and  *)
(* keeps what it holds otherwise, which is the same.                         *)
LedgerInit ==
    /\ \E s \in {NewLedger} \cup OlderLedgers : state \in Resumed(s)
    /\ file = state
    /\ running = TRUE
    /\ phase = [c \in Calls |-> "idle"]
    /\ interrupts = 0
    /\ sent = 0
    /\ reported = [input |-> Input(file), output |-> Output(file)]
    /\ overran = FALSE

(* _save *)
Save == file' = state' /\ UNCHANGED interrupts
SaveFails ==
    /\ interrupts < MaxInterrupts
    /\ interrupts' = interrupts + 1
    /\ UNCHANGED file

-------------------------------------------------------------------------------
(* Ledger.reserve *)

TooLong(c) == Estimate[c] > MaxInputPerCall

\* Mutation: what is in flight is not counted against the caps.
CapsReachedSettledOnly(c) ==
    (IF state.attempts + 1 > MaxAttempts THEN {"attempt_cap"} ELSE {})
    \cup (IF state.settledInput + Estimate[c] > MaxTotalInput
          THEN {"input_token_cap"} ELSE {})
    \cup (IF state.settledOutput + MaxOutputPerCall > MaxTotalOutput
          THEN {"output_token_cap"} ELSE {})
    \cup (IF state.settledCost + Cost(Estimate[c], MaxOutputPerCall) > MaxCost
          THEN {"cost_cap"} ELSE {})

(* The caps a reservation would breach; the code names the first. *)
CapsReached(c) ==
    (IF state.attempts + 1 > MaxAttempts THEN {"attempt_cap"} ELSE {})
    \cup (IF Input(state) + Estimate[c] > MaxTotalInput
          THEN {"input_token_cap"} ELSE {})
    \cup (IF Output(state) + MaxOutputPerCall > MaxTotalOutput
          THEN {"output_token_cap"} ELSE {})
    \cup (IF Spend(state) + Cost(Estimate[c], MaxOutputPerCall) > MaxCost
          THEN {"cost_cap"} ELSE {})

(* A single oversized prompt is refused; a cumulative cap ends the experiment. *)
Refuse(c) ==
    /\ running /\ phase[c] = "idle"
    /\ \/ /\ state.exhausted # "none" \/ TooLong(c)
          /\ state' = [state EXCEPT !.refused = @ + 1]
       \/ /\ state.exhausted = "none" /\ ~ TooLong(c)
          /\ \E why \in CapsReached(c) :
                state' = [state EXCEPT !.refused = @ + 1, !.exhausted = why]
    /\ phase' = [phase EXCEPT ![c] = "refused"]
    /\ Save \/ SaveFails
    /\ UNCHANGED <<running, sent, reported, overran>>

Reservation(c) ==
    [state EXCEPT !.attempts = @ + 1,
                   !.reservedInput = @ + Estimate[c],
                   !.reservedOutput = @ + MaxOutputPerCall,
                   !.reservedCost = @ + Cost(Estimate[c], MaxOutputPerCall)]

\* Mutation: a sticky stop is only looked at for the caps themselves.
MayReserveThoughExhausted(c) == ~ TooLong(c) /\ CapsReached(c) = {}

MayReserve(c) ==
    /\ state.exhausted = "none"
    /\ ~ TooLong(c)
    /\ CapsReached(c) = {}

\* Mutation: the call is sent before its reservation is written.
ReserveUnsaved(c) ==
    /\ running /\ phase[c] = "idle"
    /\ MayReserve(c)
    /\ state' = Reservation(c)
    /\ UNCHANGED <<file, interrupts>>
    /\ phase' = [phase EXCEPT ![c] = "sent"]
    /\ sent' = sent + 1
    /\ UNCHANGED <<running, reported, overran>>

(* The call is sent only once its reservation is in the file. *)
Reserve(c) ==
    /\ running /\ phase[c] = "idle"
    /\ MayReserve(c)
    /\ state' = Reservation(c)
    /\ \/ /\ Save
          /\ phase' = [phase EXCEPT ![c] = "sent"]
          /\ sent' = sent + 1
       \/ /\ SaveFails
          /\ phase' = [phase EXCEPT ![c] = "unsent"]
          /\ UNCHANGED sent
    /\ UNCHANGED <<running, reported, overran>>

-------------------------------------------------------------------------------
(* Ledger.settle *)

\* The reservation leaves the reserved totals, what it cost is settled.
Released(c, input, output) ==
    [state EXCEPT !.reservedInput = @ - Estimate[c],
                   !.reservedOutput = @ - MaxOutputPerCall,
                   !.reservedCost = @ - Cost(Estimate[c], MaxOutputPerCall),
                   !.settledInput = @ + input,
                   !.settledOutput = @ + output,
                   !.settledCost = @ + Cost(input, output)]

(* A breach found while settling stops the experiment. *)
StopsFor(s, isOverrun, breaches) ==
    \E why \in ReasonsToStop(s, isOverrun, breaches) :
        state' = [s EXCEPT !.breaches = breaches, !.exhausted = why,
                            !.overruns = @ + (IF isOverrun THEN 1 ELSE 0)]

Overran(c, u) == u.input > Estimate[c] \/ u.output > MaxOutputPerCall

Settle(c) ==
    /\ running /\ phase[c] = "sent"
    /\ \E u \in Usages :
        LET s == Released(c, u.input, u.output) IN
        /\ StopsFor(s, Overran(c, u), TotalBreaches(s) \cup CallBreaches(u))
        /\ reported' = [input |-> reported.input + u.input,
                        output |-> reported.output + u.output]
        /\ overran' = (overran \/ Overran(c, u))
    /\ phase' = [phase EXCEPT ![c] = "settled"]
    /\ Save \/ SaveFails
    /\ UNCHANGED <<running, sent>>

\* Mutation: a call that failed is released as if it had cost nothing.
SettleUnknownAsZero(c) ==
    /\ running /\ phase[c] = "sent"
    /\ LET s == [Released(c, 0, 0) EXCEPT !.unknownUsage = @ + 1] IN
        StopsFor(s, FALSE, TotalBreaches(s))
    /\ phase' = [phase EXCEPT ![c] = "unknown"]
    /\ Save \/ SaveFails
    /\ UNCHANGED <<running, sent, reported, overran>>

(* Timeout, provider error, cancellation: the reservation is settled whole. *)
SettleUnknown(c) ==
    /\ running /\ phase[c] = "sent"
    /\ LET s == [Released(c, Estimate[c], MaxOutputPerCall)
                    EXCEPT !.unknownUsage = @ + 1] IN
        StopsFor(s, FALSE, TotalBreaches(s))
    /\ phase' = [phase EXCEPT ![c] = "unknown"]
    /\ Save \/ SaveFails
    /\ UNCHANGED <<running, sent, reported, overran>>

-------------------------------------------------------------------------------
(* The process dies; its calls in flight may or may not have been served. *)
LoseProcess ==
    /\ running
    /\ interrupts < MaxInterrupts
    /\ interrupts' = interrupts + 1
    /\ running' = FALSE
    /\ phase' = [c \in Calls |-> IF phase[c] = "sent" THEN "lost" ELSE phase[c]]
    /\ UNCHANGED <<state, file, sent, reported, overran>>

(* A resumed run attempts the calls again that ended without an answer. *)
Resume ==
    /\ ~ running
    /\ running' = TRUE
    /\ state' \in Resumed(file)
    /\ file' = state'
    /\ UNCHANGED <<phase, interrupts, sent, reported, overran>>

LedgerNext ==
    \/ \E c \in Calls : Refuse(c) \/ Reserve(c) \/ Settle(c) \/ SettleUnknown(c)
    \/ LoseProcess \/ Resume

LedgerSpec == LedgerInit /\ [][LedgerNext]_ledgerVars

-------------------------------------------------------------------------------
LedgerTypeOK ==
    /\ state \in Ledger
    /\ file \in Ledger
    /\ running \in BOOLEAN
    /\ phase \in [Calls -> {"idle", "refused", "unsent", "sent", "settled",
                         "unknown", "lost"}]
    /\ interrupts \in Nat
    /\ sent \in Nat
    /\ reported \in [input : Int, output : Int]
    /\ overran \in BOOLEAN

(***************************************************************************)
(* However calls overlap, fail and are resumed, attempts and estimated     *)
(* spend, in flight and settled, stay within every cap until a provider    *)
(* reports more than was reserved.                                         *)
(***************************************************************************)
CapsHold == WithinCaps(state) /\ WithinCaps(file)

(***************************************************************************)
(* "An interruption can never reset the budget": at every moment the file  *)
(* counts every call that was sent, whatever was lost with the process.    *)
(***************************************************************************)
FileCountsSends == sent <= file.attempts

(***************************************************************************)
(* "Any reservation overrun stops subsequent attempts", and so does a      *)
(* settled total above its cap, in the run that saw it and in every run    *)
(* resumed from its file.                                                  *)
(***************************************************************************)
StoppedStaysStopped ==
    [][state.overruns > 0 \/ TotalBreaches(state) # {} => sent' = sent]_ledgerVars

(***************************************************************************)
(* The books balance: what the ledger holds is what providers reported and *)
(* the estimates of the calls without a report, sent, failed or lost       *)
(* ("unknown is not zero").  The file never holds less, although the       *)
(* rewrite that settles a call may fail and the process may die: the       *)
(* reservation written before the call stands in for it, unless a provider *)
(* reports more than was reserved.                                         *)
(***************************************************************************)
LedgerAddsUp ==
    LET unreported == {c \in Calls : phase[c] \in {"sent", "unknown", "lost"}}
        input == reported.input + FoldFunctionOnSet(+, 0, Estimate, unreported)
        output == reported.output + Cardinality(unreported) * MaxOutputPerCall
    IN /\ running /\ interrupts = 0 => Input(state) = input /\ Output(state) = output
       /\ ~ overran => Input(file) >= input /\ Output(file) >= output

===============================================================================
