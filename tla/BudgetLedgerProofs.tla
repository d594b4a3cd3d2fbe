-------------------------- MODULE BudgetLedgerProofs --------------------------
(***************************************************************************)
(* BudgetLedger proved for every set of calls, estimates, caps and prices, *)
(* with any number of failed rewrites and deaths.  Of ToolPolicyProofs     *)
(* only the facts about totals are used, which no constant or assumption   *)
(* of the tool policy enters.                                              *)
(***************************************************************************)
EXTENDS BudgetLedger, ToolPolicyProofs

(* Assumed constants, as facts a leaf can cite one by one. *)
Numbers ==
    /\ Estimate \in [Calls -> Nat]
    /\ \A u \in Usages : u.input \in Nat /\ u.output \in Nat
    /\ MaxAttempts \in Nat /\ MaxTotalInput \in Nat
    /\ MaxTotalOutput \in Nat /\ MaxCost \in Nat
    /\ MaxOutputPerCall \in Nat /\ InputPrice \in Nat /\ OutputPrice \in Nat

(* The constants are natural numbers. *)
LEMMA ConstantsAreNumbers == Numbers
  BY LedgerAssumption DEF Numbers, Usage

(* Preflight.cost: more tokens of either kind never cost less. *)
LEMMA CostGrows ==
    ASSUME NEW a \in Nat, NEW b \in Nat, NEW i \in Nat, NEW o \in Nat,
           i <= a, o <= b
    PROVE  /\ Cost(i, o) \in Nat
           /\ Cost(a, b) \in Nat
           /\ Cost(i, o) <= Cost(a, b)
<1>0. InputPrice \in Nat /\ OutputPrice \in Nat
  BY ConstantsAreNumbers DEF Numbers
<1>1. /\ i * InputPrice \in Nat /\ o * OutputPrice \in Nat
      /\ a * InputPrice \in Nat /\ b * OutputPrice \in Nat
  BY <1>0
<1>2. PICK d \in Nat : a = i + d
  <2>1. a - i \in Nat /\ a = i + (a - i)
    OBVIOUS
  <2> QED BY <2>1
<1>3. PICK e \in Nat : b = o + e
  <2>1. b - o \in Nat /\ b = o + (b - o)
    OBVIOUS
  <2> QED BY <2>1
<1>4. a * InputPrice = i * InputPrice + d * InputPrice /\ d * InputPrice \in Nat
  BY <1>0, <1>2
<1>5. b * OutputPrice = o * OutputPrice + e * OutputPrice /\ e * OutputPrice \in Nat
  BY <1>0, <1>3
<1> QED BY <1>1, <1>4, <1>5 DEF Cost

(* Any token counts have a cost in whole numbers. *)
LEMMA CostType ==
    ASSUME NEW i \in Nat, NEW o \in Nat PROVE Cost(i, o) \in Nat
  BY CostGrows

-------------------------------------------------------------------------------
(* Totals over a cap are breaches by name, and only those are added. *)
LEMMA BreachType ==
    ASSUME NEW s \in Ledger
    PROVE  TotalBreaches(s) \in SUBSET Caps /\ s.breaches \in SUBSET Caps
  BY DEF TotalBreaches, Ledger, Caps

(* The first reason to stop is one of the reasons, and there is one as soon *)
(* as there is an overrun or a breach.                                      *)
LEMMA StopReasonType ==
    ASSUME NEW s \in Ledger, NEW isOverrun \in BOOLEAN,
           NEW breaches \in SUBSET Caps,
           NEW why \in ReasonsToStop(s, isOverrun, breaches)
    PROVE  /\ why \in Reasons
           /\ isOverrun \/ breaches # {} \/ s.exhausted # "none" => why # "none"
<1>1. s.exhausted \in Reasons
  BY DEF Ledger
<1>2. Caps \subseteq Reasons /\ "none" \notin Caps
      /\ "over_reservation" \in Reasons /\ "none" \in Reasons
      /\ "over_reservation" # "none"
  BY DEF Caps, Reasons
<1>3. CASE s.exhausted # "none"
  BY <1>1, <1>3 DEF ReasonsToStop
<1>4. CASE s.exhausted = "none" /\ isOverrun
  BY <1>2, <1>4 DEF ReasonsToStop
<1>5. CASE s.exhausted = "none" /\ ~ isOverrun /\ breaches # {}
  BY <1>2, <1>5 DEF ReasonsToStop
<1>6. CASE s.exhausted = "none" /\ ~ isOverrun /\ breaches = {}
  BY <1>2, <1>6 DEF ReasonsToStop
<1> QED BY <1>3, <1>4, <1>5, <1>6

(* What is left when the exhausted reason, the breaches and the overrun *)
(* count are set aside: the counters of tokens, cost and attempts.      *)
SameCounters(s, t) ==
    /\ t.attempts = s.attempts
    /\ t.reservedInput = s.reservedInput /\ t.settledInput = s.settledInput
    /\ t.reservedOutput = s.reservedOutput /\ t.settledOutput = s.settledOutput
    /\ t.reservedCost = s.reservedCost /\ t.settledCost = s.settledCost

(* A ledger with an overrun or a total above its cap is stopped. *)
StopsWhenBreached(s) ==
    s.overruns > 0 \/ TotalBreaches(s) # {} => s.exhausted # "none"

(* Ledger.__init__ keeps every counter and stops a breached ledger. *)
LEMMA ResumeKeepsCounters ==
    ASSUME NEW s \in Ledger, NEW t \in Resumed(s)
    PROVE  /\ t \in Ledger
           /\ SameCounters(s, t)
           /\ t.overruns = s.overruns
           /\ StopsWhenBreached(t)
<1>1. PICK why \in ReasonsToStop(s, s.overruns > 0, TotalBreaches(s)) :
        t = [s EXCEPT !.breaches = TotalBreaches(s), !.exhausted = why]
  BY DEF Resumed
<1>2. TotalBreaches(s) \in SUBSET Caps
  BY BreachType
<1>3. (s.overruns > 0) \in BOOLEAN
  OBVIOUS
<1>4. /\ why \in Reasons
      /\ s.overruns > 0 \/ TotalBreaches(s) # {} => why # "none"
  BY <1>1, <1>2, <1>3, StopReasonType
<1>5. t \in Ledger /\ SameCounters(s, t) /\ t.overruns = s.overruns
  BY <1>1, <1>2, <1>4 DEF Ledger, SameCounters
<1>6. t.exhausted = why /\ t.breaches = TotalBreaches(s)
  BY <1>1 DEF Ledger
<1>7. TotalBreaches(t) = TotalBreaches(s)
  BY <1>5, <1>6 DEF TotalBreaches, SameCounters
<1> QED BY <1>4, <1>5, <1>6, <1>7 DEF StopsWhenBreached

(* settle's last lines keep every counter, count the overrun and stop a *)
(* breached ledger.                                                     *)
LEMMA StopKeepsCounters ==
    ASSUME NEW s \in Ledger, NEW isOverrun \in BOOLEAN,
           NEW breaches \in SUBSET Caps,
           s.overruns > 0 => s.exhausted # "none",
           TotalBreaches(s) \subseteq breaches,
           StopsFor(s, isOverrun, breaches)
    PROVE  /\ state' \in Ledger
           /\ SameCounters(s, state')
           /\ state'.overruns = s.overruns + (IF isOverrun THEN 1 ELSE 0)
           /\ StopsWhenBreached(state')
<1>1. PICK why \in ReasonsToStop(s, isOverrun, breaches) :
        state' = [s EXCEPT !.breaches = breaches, !.exhausted = why,
                            !.overruns = @ + (IF isOverrun THEN 1 ELSE 0)]
  BY DEF StopsFor
<1>2. /\ why \in Reasons
      /\ isOverrun \/ breaches # {} \/ s.exhausted # "none" => why # "none"
  BY <1>1, StopReasonType
<1>3. s.overruns \in Nat
  BY DEF Ledger
<1>4. s.overruns + (IF isOverrun THEN 1 ELSE 0) \in Nat
  BY <1>3
<1>5. /\ state' \in Ledger /\ SameCounters(s, state')
      /\ state'.overruns = s.overruns + (IF isOverrun THEN 1 ELSE 0)
      /\ state'.exhausted = why /\ state'.breaches = breaches
  BY <1>1, <1>2, <1>4 DEF Ledger, SameCounters
<1>6. TotalBreaches(state') \subseteq breaches \cup TotalBreaches(s)
  BY <1>5 DEF TotalBreaches, SameCounters
<1>7. state'.overruns > 0 => isOverrun \/ s.overruns > 0
  BY <1>3, <1>5
<1> QED BY <1>2, <1>5, <1>6, <1>7 DEF StopsWhenBreached

(* A reservation adds the call's estimate to what is reserved. *)
LEMMA ReservationAdds ==
    ASSUME state \in Ledger, NEW c \in Calls
    PROVE  LET t == Reservation(c) IN
           /\ t \in Ledger
           /\ t.attempts = state.attempts + 1
           /\ Input(t) = Input(state) + Estimate[c]
           /\ Output(t) = Output(state) + MaxOutputPerCall
           /\ Spend(t) = Spend(state) + Cost(Estimate[c], MaxOutputPerCall)
           /\ t.overruns = state.overruns
           /\ t.exhausted = state.exhausted
           /\ TotalBreaches(t) = TotalBreaches(state)
<1> DEFINE t == Reservation(c)
<1>1. Estimate[c] \in Nat /\ MaxOutputPerCall \in Nat
  BY ConstantsAreNumbers DEF Numbers
<1>2. Cost(Estimate[c], MaxOutputPerCall) \in Nat
  BY <1>1, CostType
<1>3. /\ t \in Ledger
      /\ t.attempts = state.attempts + 1
      /\ t.reservedInput = state.reservedInput + Estimate[c]
      /\ t.reservedOutput = state.reservedOutput + MaxOutputPerCall
      /\ t.reservedCost = state.reservedCost + Cost(Estimate[c], MaxOutputPerCall)
      /\ t.settledInput = state.settledInput
      /\ t.settledOutput = state.settledOutput
      /\ t.settledCost = state.settledCost
      /\ t.overruns = state.overruns
      /\ t.exhausted = state.exhausted
      /\ t.breaches = state.breaches
  <2> DEFINE cost == Cost(Estimate[c], MaxOutputPerCall)
  <2>1. /\ state.attempts + 1 \in Nat
        /\ state.reservedInput + Estimate[c] \in Int
        /\ state.reservedOutput + MaxOutputPerCall \in Int
        /\ state.reservedCost + cost \in Int
    BY <1>1, <1>2 DEF Ledger
  <2>2. t = [state EXCEPT !.attempts = @ + 1,
                           !.reservedInput = @ + Estimate[c],
                           !.reservedOutput = @ + MaxOutputPerCall,
                           !.reservedCost = @ + cost]
    BY DEF Reservation
  <2> HIDE DEF cost, t
  <2>3. /\ t \in Ledger
        /\ t.attempts = state.attempts + 1
        /\ t.reservedInput = state.reservedInput + Estimate[c]
        /\ t.reservedOutput = state.reservedOutput + MaxOutputPerCall
        /\ t.reservedCost = state.reservedCost + cost
        /\ t.settledInput = state.settledInput
        /\ t.settledOutput = state.settledOutput
        /\ t.settledCost = state.settledCost
        /\ t.overruns = state.overruns
        /\ t.exhausted = state.exhausted
        /\ t.breaches = state.breaches
    BY <2>1, <2>2 DEF Ledger
  <2> QED BY <2>3 DEF cost
<1>4. TotalBreaches(t) = TotalBreaches(state)
  BY <1>3 DEF TotalBreaches
<1>5. /\ Input(t) = Input(state) + Estimate[c]
      /\ Output(t) = Output(state) + MaxOutputPerCall
      /\ Spend(t) = Spend(state) + Cost(Estimate[c], MaxOutputPerCall)
  BY <1>1, <1>2, <1>3 DEF Input, Output, Spend, Ledger
<1> HIDE DEF t
<1>6. /\ t \in Ledger
      /\ t.attempts = state.attempts + 1
      /\ Input(t) = Input(state) + Estimate[c]
      /\ Output(t) = Output(state) + MaxOutputPerCall
      /\ Spend(t) = Spend(state) + Cost(Estimate[c], MaxOutputPerCall)
      /\ t.overruns = state.overruns
      /\ t.exhausted = state.exhausted
      /\ TotalBreaches(t) = TotalBreaches(state)
  BY <1>3, <1>4, <1>5
<1> QED BY <1>6 DEF t

(* Settling within the estimate never raises a total. *)
LEMMA ReleaseNeverAdds ==
    ASSUME state \in Ledger, NEW c \in Calls, NEW i \in Nat, NEW o \in Nat
    PROVE  LET t == Released(c, i, o) IN
           /\ t \in Ledger
           /\ t.attempts = state.attempts
           /\ t.overruns = state.overruns
           /\ t.exhausted = state.exhausted
           /\ t.unknownUsage = state.unknownUsage
           /\ Input(t) = Input(state) - Estimate[c] + i
           /\ Output(t) = Output(state) - MaxOutputPerCall + o
           /\ i <= Estimate[c] /\ o <= MaxOutputPerCall =>
                /\ Input(t) <= Input(state)
                /\ Output(t) <= Output(state)
                /\ Spend(t) <= Spend(state)
<1> DEFINE t == Released(c, i, o)
<1>1. Estimate[c] \in Nat /\ MaxOutputPerCall \in Nat
  BY ConstantsAreNumbers DEF Numbers
<1>2. /\ Cost(Estimate[c], MaxOutputPerCall) \in Nat
      /\ Cost(i, o) \in Nat
  BY <1>1, CostType
<1>3. /\ t \in Ledger
      /\ t.attempts = state.attempts
      /\ t.overruns = state.overruns
      /\ t.exhausted = state.exhausted
      /\ t.unknownUsage = state.unknownUsage
      /\ t.reservedInput = state.reservedInput - Estimate[c]
      /\ t.reservedOutput = state.reservedOutput - MaxOutputPerCall
      /\ t.reservedCost = state.reservedCost - Cost(Estimate[c], MaxOutputPerCall)
      /\ t.settledInput = state.settledInput + i
      /\ t.settledOutput = state.settledOutput + o
      /\ t.settledCost = state.settledCost + Cost(i, o)
  <2> DEFINE cost == Cost(Estimate[c], MaxOutputPerCall)
             used == Cost(i, o)
  <2>1. /\ state.reservedInput - Estimate[c] \in Int
        /\ state.reservedOutput - MaxOutputPerCall \in Int
        /\ state.reservedCost - cost \in Int
        /\ state.settledInput + i \in Nat
        /\ state.settledOutput + o \in Nat
        /\ state.settledCost + used \in Nat
    BY <1>1, <1>2 DEF Ledger
  <2>2. t = [state EXCEPT !.reservedInput = @ - Estimate[c],
                           !.reservedOutput = @ - MaxOutputPerCall,
                           !.reservedCost = @ - cost,
                           !.settledInput = @ + i,
                           !.settledOutput = @ + o,
                           !.settledCost = @ + used]
    BY DEF Released
  <2> HIDE DEF cost, used, t
  <2>3. /\ t \in Ledger
        /\ t.attempts = state.attempts
        /\ t.overruns = state.overruns
        /\ t.exhausted = state.exhausted
        /\ t.unknownUsage = state.unknownUsage
        /\ t.reservedInput = state.reservedInput - Estimate[c]
        /\ t.reservedOutput = state.reservedOutput - MaxOutputPerCall
        /\ t.reservedCost = state.reservedCost - cost
        /\ t.settledInput = state.settledInput + i
        /\ t.settledOutput = state.settledOutput + o
        /\ t.settledCost = state.settledCost + used
    BY <2>1, <2>2 DEF Ledger
  <2> QED BY <2>3 DEF cost, used
<1>4. ASSUME i <= Estimate[c], o <= MaxOutputPerCall
      PROVE  /\ Input(t) <= Input(state)
             /\ Output(t) <= Output(state)
             /\ Spend(t) <= Spend(state)
  <2>1. Cost(i, o) <= Cost(Estimate[c], MaxOutputPerCall)
    BY <1>1, <1>4, CostGrows
  <2> QED BY <1>1, <1>2, <1>3, <1>4, <2>1 DEF Input, Output, Spend, Ledger
<1>5. /\ Input(t) = Input(state) - Estimate[c] + i
      /\ Output(t) = Output(state) - MaxOutputPerCall + o
  BY <1>1, <1>3 DEF Input, Output, Ledger
<1> HIDE DEF t
<1>6. /\ t \in Ledger
      /\ t.attempts = state.attempts
      /\ t.overruns = state.overruns
      /\ t.exhausted = state.exhausted
      /\ t.unknownUsage = state.unknownUsage
      /\ Input(t) = Input(state) - Estimate[c] + i
      /\ Output(t) = Output(state) - MaxOutputPerCall + o
      /\ i <= Estimate[c] /\ o <= MaxOutputPerCall =>
           /\ Input(t) <= Input(state)
           /\ Output(t) <= Output(state)
           /\ Spend(t) <= Spend(state)
  BY <1>3, <1>4, <1>5
<1> QED BY <1>6 DEF t

-------------------------------------------------------------------------------
(***************************************************************************)
(* The inductive invariant.  CapsHold alone is not inductive for what is   *)
(* sent: a send is covered because it was written before it happened, so   *)
(* the file must be compared with the history and the ledger with the      *)
(* file; and a stopped ledger must be known to be marked as such.          *)
(***************************************************************************)
LedgerInv ==
    /\ LedgerTypeOK
    /\ CapsHold
    /\ StopsWhenBreached(state)
    /\ sent <= file.attempts
    /\ file.attempts <= state.attempts

(* What an operation must leave of the ledger for LedgerInv to survive it. *)
LedgerKept ==
    /\ state' \in Ledger
    /\ WithinCaps(state)'
    /\ StopsWhenBreached(state)'
    /\ state.attempts <= state'.attempts

(* Equal counters are within the same caps. *)
LEMMA CapsCarryOver ==
    ASSUME NEW s \in Ledger, NEW t \in Ledger,
           SameCounters(s, t), t.overruns = s.overruns, WithinCaps(s)
    PROVE  WithinCaps(t)
  BY DEF SameCounters, WithinCaps, Input, Output, Spend

(* A refusal counts itself and stops the run at most. *)
LEMMA RefuseKeeps ==
    ASSUME LedgerInv, NEW c \in Calls, Refuse(c)
    PROVE  LedgerKept
<1> USE DEF LedgerInv, LedgerTypeOK, CapsHold
<1>1. PICK why \in Reasons :
        /\ state' = [state EXCEPT !.refused = @ + 1, !.exhausted = why]
        /\ state.exhausted # "none" => why # "none"
  <2>1. CASE state' = [state EXCEPT !.refused = @ + 1]
    <3>1. state' = [state EXCEPT !.refused = @ + 1,
                                   !.exhausted = state.exhausted]
      BY <2>1 DEF Ledger
    <3> QED BY <3>1 DEF Ledger
  <2>2. CASE /\ state.exhausted = "none"
             /\ \E why \in CapsReached(c) :
                    state' = [state EXCEPT !.refused = @ + 1, !.exhausted = why]
    <3>1. CapsReached(c) \subseteq Reasons
      BY DEF CapsReached, Reasons, Caps
    <3> QED BY <2>2, <3>1
  <2> QED BY <2>1, <2>2 DEF Refuse
<1>2. /\ state' \in Ledger /\ SameCounters(state, state')
      /\ state'.overruns = state.overruns
      /\ state'.breaches = state.breaches
      /\ state'.exhausted = why
  <2>1. state.refused + 1 \in Nat
    BY DEF Ledger
  <2>2. state' \in Ledger
    BY <1>1, <2>1 DEF Ledger
  <2> QED BY <1>1, <2>2 DEF Ledger, SameCounters
<1>3. WithinCaps(state)'
  BY <1>2, CapsCarryOver
<1>4. TotalBreaches(state') = TotalBreaches(state)
  BY <1>2 DEF TotalBreaches, SameCounters
<1>5. StopsWhenBreached(state)'
  BY <1>1, <1>2, <1>4 DEF StopsWhenBreached
<1>6. state.attempts <= state'.attempts
  BY <1>2 DEF SameCounters, Ledger
<1> QED BY <1>2, <1>3, <1>5, <1>6 DEF LedgerKept

(* The caps reserve looks at are the caps that hold afterwards. *)
LEMMA ReserveKeeps ==
    ASSUME LedgerInv, NEW c \in Calls, Reserve(c)
    PROVE  LedgerKept /\ state'.attempts = state.attempts + 1
<1> USE DEF LedgerInv, LedgerTypeOK, CapsHold
<1>1. state' = Reservation(c) /\ MayReserve(c)
  BY DEF Reserve
<1>2. /\ state' \in Ledger
      /\ state'.attempts = state.attempts + 1
      /\ Input(state') = Input(state) + Estimate[c]
      /\ Output(state') = Output(state) + MaxOutputPerCall
      /\ Spend(state') = Spend(state) + Cost(Estimate[c], MaxOutputPerCall)
      /\ state'.overruns = state.overruns
      /\ state'.exhausted = state.exhausted
      /\ TotalBreaches(state') = TotalBreaches(state)
  BY <1>1, ReservationAdds
<1>3. /\ ~ (state.attempts + 1 > MaxAttempts)
      /\ ~ (Input(state) + Estimate[c] > MaxTotalInput)
      /\ ~ (Output(state) + MaxOutputPerCall > MaxTotalOutput)
      /\ ~ (Spend(state) + Cost(Estimate[c], MaxOutputPerCall) > MaxCost)
  BY <1>1 DEF MayReserve, CapsReached
<1>4. /\ Estimate[c] \in Nat /\ MaxOutputPerCall \in Nat
      /\ MaxAttempts \in Nat /\ MaxTotalInput \in Nat
      /\ MaxTotalOutput \in Nat /\ MaxCost \in Nat
  BY ConstantsAreNumbers DEF Numbers
<1>5. Cost(Estimate[c], MaxOutputPerCall) \in Nat
  BY <1>4, CostType
<1>6. /\ state.attempts \in Nat /\ Input(state) \in Int
      /\ Output(state) \in Int
  BY DEF Ledger, Input, Output
<1>6a. Spend(state) \in Int
  BY DEF Ledger, Spend
<1>7. /\ state'.attempts <= MaxAttempts
      /\ Input(state') <= MaxTotalInput
      /\ Output(state') <= MaxTotalOutput
      /\ Spend(state') <= MaxCost
  BY <1>2, <1>3, <1>4, <1>5, <1>6, <1>6a
<1>8. WithinCaps(state)'
  BY <1>7 DEF WithinCaps
<1>9. StopsWhenBreached(state)'
  BY <1>2 DEF StopsWhenBreached
<1>10. state.attempts <= state'.attempts
  BY <1>2, <1>6
<1> QED BY <1>2, <1>8, <1>9, <1>10 DEF LedgerKept

(***************************************************************************)
(* Settling with usage i and o: within the estimate no total rises, and    *)
(* above it the overrun releases the caps and stops the run.               *)
(***************************************************************************)
LEMMA SettleKeeps ==
    ASSUME LedgerInv, NEW c \in Calls, NEW s \in Ledger,
           NEW i \in Nat, NEW o \in Nat,
           NEW isOverrun \in BOOLEAN, NEW breaches \in SUBSET Caps,
           SameCounters(Released(c, i, o), s),
           s.overruns = state.overruns, s.exhausted = state.exhausted,
           TotalBreaches(s) \subseteq breaches,
           ~ isOverrun => i <= Estimate[c] /\ o <= MaxOutputPerCall,
           StopsFor(s, isOverrun, breaches)
    PROVE  LedgerKept
<1> USE DEF LedgerInv, LedgerTypeOK, CapsHold
<1> DEFINE r == Released(c, i, o)
<1>1. /\ r \in Ledger
      /\ r.attempts = state.attempts
      /\ r.overruns = state.overruns
      /\ ~ isOverrun => /\ Input(r) <= Input(state)
                        /\ Output(r) <= Output(state)
                        /\ Spend(r) <= Spend(state)
  BY ReleaseNeverAdds
<1> HIDE DEF r
<1>2. SameCounters(r, s)
  BY DEF r
<1>3. s.overruns > 0 => s.exhausted # "none"
  BY DEF StopsWhenBreached
<1>4. /\ state' \in Ledger
      /\ SameCounters(s, state')
      /\ state'.overruns = s.overruns + (IF isOverrun THEN 1 ELSE 0)
      /\ StopsWhenBreached(state')
  BY <1>3, StopKeepsCounters
<1>5. /\ Input(state') = Input(r) /\ Output(state') = Output(r)
      /\ Spend(state') = Spend(r) /\ state'.attempts = state.attempts
  BY <1>1, <1>2, <1>4 DEF SameCounters, Input, Output, Spend
<1>6. s.overruns \in Nat /\ state.attempts \in Nat
  BY DEF Ledger
<1>7. state'.attempts <= MaxAttempts
  BY <1>5 DEF WithinCaps
<1>8. ASSUME state'.overruns = 0
      PROVE  /\ Input(state') <= MaxTotalInput
             /\ Output(state') <= MaxTotalOutput
             /\ Spend(state') <= MaxCost
  <2>1. ~ isOverrun /\ state.overruns = 0
    BY <1>4, <1>6, <1>8
  <2>2. /\ Input(state) <= MaxTotalInput
        /\ Output(state) <= MaxTotalOutput
        /\ Spend(state) <= MaxCost
    BY <2>1 DEF WithinCaps
  <2>3. /\ Input(r) \in Int /\ Input(state) \in Int
        /\ Output(r) \in Int /\ Output(state) \in Int
    BY <1>1 DEF Input, Output, Ledger
  <2>4. Spend(r) \in Int /\ Spend(state) \in Int
    BY <1>1 DEF Spend, Ledger
  <2>5. MaxTotalInput \in Nat /\ MaxTotalOutput \in Nat /\ MaxCost \in Nat
    BY ConstantsAreNumbers DEF Numbers
  <2> QED BY <1>1, <1>5, <2>1, <2>2, <2>3, <2>4, <2>5
<1>9. WithinCaps(state)'
  BY <1>7, <1>8 DEF WithinCaps
<1>10. state.attempts <= state'.attempts
  BY <1>5, <1>6
<1> QED BY <1>4, <1>9, <1>10 DEF LedgerKept

(* A reported usage is an overrun exactly when it passes the reservation. *)
LEMMA SettleStep ==
    ASSUME LedgerInv, NEW c \in Calls, Settle(c)
    PROVE  LedgerKept
<1>1. PICK u \in Usages :
        StopsFor(Released(c, u.input, u.output), Overran(c, u),
                TotalBreaches(Released(c, u.input, u.output)) \cup CallBreaches(u))
  BY DEF Settle
<1> DEFINE s == Released(c, u.input, u.output)
           breaches == TotalBreaches(s) \cup CallBreaches(u)
<1>2. /\ u.input \in Nat /\ u.output \in Nat
      /\ Estimate[c] \in Nat /\ MaxOutputPerCall \in Nat
  BY ConstantsAreNumbers DEF Numbers
<1>3. s \in Ledger /\ s.overruns = state.overruns /\ s.exhausted = state.exhausted
  BY <1>2, ReleaseNeverAdds DEF LedgerInv, LedgerTypeOK
<1>4. ~ Overran(c, u) => u.input <= Estimate[c] /\ u.output <= MaxOutputPerCall
  BY <1>2 DEF Overran
<1>5. SameCounters(s, s)
  BY DEF SameCounters
<1>6. TotalBreaches(s) \in SUBSET Caps /\ CallBreaches(u) \in SUBSET Caps
  BY <1>3, BreachType DEF CallBreaches, Caps
<1>7. StopsFor(s, Overran(c, u), breaches)
  BY <1>1
<1>8. Overran(c, u) \in BOOLEAN
  BY DEF Overran
<1>9. breaches \in SUBSET Caps /\ TotalBreaches(s) \subseteq breaches
  BY <1>6
<1>10. SameCounters(Released(c, u.input, u.output), s)
  BY <1>5
<1> HIDE DEF s, breaches
<1> QED BY <1>2, <1>3, <1>4, <1>7, <1>8, <1>9, <1>10, SettleKeeps

(* Unknown usage settles the whole reservation and is no overrun. *)
LEMMA SettleUnknownStep ==
    ASSUME LedgerInv, NEW c \in Calls, SettleUnknown(c)
    PROVE  LedgerKept
<1> DEFINE r == Released(c, Estimate[c], MaxOutputPerCall)
           s == [r EXCEPT !.unknownUsage = @ + 1]
<1>1. StopsFor(s, FALSE, TotalBreaches(s))
  BY DEF SettleUnknown
<1>2. Estimate[c] \in Nat /\ MaxOutputPerCall \in Nat
  BY ConstantsAreNumbers DEF Numbers
<1>3. r \in Ledger /\ r.overruns = state.overruns /\ r.exhausted = state.exhausted
  BY <1>2, ReleaseNeverAdds DEF LedgerInv, LedgerTypeOK
<1> HIDE DEF r
<1>4. s \in Ledger /\ SameCounters(r, s)
      /\ s.overruns = state.overruns /\ s.exhausted = state.exhausted
  BY <1>3 DEF Ledger, SameCounters
<1> HIDE DEF s
<1>5. TotalBreaches(s) \in SUBSET Caps /\ TotalBreaches(s) \subseteq TotalBreaches(s)
  BY <1>4, BreachType
<1>6. Estimate[c] <= Estimate[c] /\ MaxOutputPerCall <= MaxOutputPerCall
  BY <1>2
<1>7. SameCounters(Released(c, Estimate[c], MaxOutputPerCall), s)
  BY <1>4 DEF r
<1> QED BY <1>1, <1>2, <1>4, <1>5, <1>6, <1>7, SettleKeeps

-------------------------------------------------------------------------------
(* A new ledger and the ledgers an earlier version left start the invariant. *)
LEMMA LedgerInvInit == LedgerInit => LedgerInv
<1> SUFFICES ASSUME LedgerInit PROVE LedgerInv
  OBVIOUS
<1>1. PICK s \in {NewLedger} \cup OlderLedgers : state \in Resumed(s)
  BY DEF LedgerInit
<1>2. NewLedger \in Ledger
  BY DEF NewLedger, Ledger, Reasons
<1>3. WithinCaps(NewLedger)
  BY ConstantsAreNumbers DEF NewLedger, WithinCaps, Input, Output, Spend, Numbers
<1>4. s \in Ledger /\ WithinCaps(s)
  BY <1>1, <1>2, <1>3, OlderLedgersAssumption
<1>5. /\ state \in Ledger /\ SameCounters(s, state)
      /\ state.overruns = s.overruns /\ StopsWhenBreached(state)
  BY <1>1, <1>4, ResumeKeepsCounters
<1>6. WithinCaps(state) /\ file = state
  BY <1>4, <1>5, CapsCarryOver DEF LedgerInit
<1>7. LedgerTypeOK
  <2>1. /\ file.reservedInput \in Int /\ file.settledInput \in Int
        /\ file.reservedOutput \in Int /\ file.settledOutput \in Int
    BY <1>5, <1>6 DEF Ledger
  <2>2. Input(file) \in Int /\ Output(file) \in Int
    BY <2>1 DEF Input, Output
  <2>3. reported \in [input : Int, output : Int]
    BY <2>2 DEF LedgerInit
  <2> QED BY <1>5, <1>6, <2>3 DEF LedgerInit, LedgerTypeOK
<1>8. sent <= file.attempts /\ file.attempts <= state.attempts
  BY <1>5, <1>6 DEF LedgerInit, Ledger
<1> QED BY <1>5, <1>6, <1>7, <1>8 DEF LedgerInv, CapsHold

(* An operation that keeps the ledger keeps the invariant, whether its rewrite *)
(* of the file succeeds or fails, if it sends nothing the file does not count. *)
LEMMA WriteStep ==
    ASSUME LedgerInv, LedgerKept, Save \/ SaveFails,
           sent' \in Nat, sent' <= file'.attempts
    PROVE  /\ state' \in Ledger /\ file' \in Ledger /\ interrupts' \in Nat
           /\ CapsHold' /\ StopsWhenBreached(state)'
           /\ sent' <= file'.attempts
           /\ file'.attempts <= state'.attempts
<1>1. CASE Save
  BY <1>1 DEF LedgerInv, LedgerKept, LedgerTypeOK, CapsHold, Save, Ledger
<1>2. CASE SaveFails
  <2>1. file' = file /\ interrupts' = interrupts + 1
    BY <1>2 DEF SaveFails
  <2>2. /\ file.attempts \in Nat /\ state.attempts \in Nat
        /\ state'.attempts \in Nat
    BY DEF LedgerInv, LedgerKept, LedgerTypeOK, Ledger
  <2>3. file'.attempts <= state'.attempts
    BY <2>1, <2>2 DEF LedgerInv, LedgerKept
  <2>4. file' \in Ledger /\ interrupts' \in Nat
    BY <2>1 DEF LedgerInv, LedgerTypeOK
  <2>5. CapsHold'
    BY <2>1 DEF LedgerInv, LedgerKept, CapsHold, WithinCaps
  <2> QED BY <2>3, <2>4, <2>5 DEF LedgerKept
<1> QED BY <1>1, <1>2

(* Every step keeps the invariant. *)
LEMMA LedgerInvStep == LedgerInv /\ [LedgerNext]_ledgerVars => LedgerInv'
<1> SUFFICES ASSUME LedgerInv, [LedgerNext]_ledgerVars PROVE LedgerInv'
  OBVIOUS
<1>0. /\ sent \in Nat /\ file.attempts \in Nat /\ state.attempts \in Nat
      /\ interrupts \in Nat /\ sent <= file.attempts
      /\ file.attempts <= state.attempts
  BY DEF LedgerInv, LedgerTypeOK, Ledger
<1> DEFINE Rest == /\ running' \in BOOLEAN /\ overran' \in BOOLEAN
                   /\ phase' \in [Calls -> {"idle", "refused", "unsent", "sent",
                                         "settled", "unknown", "lost"}]
                   /\ sent' \in Nat /\ reported' \in [input : Int, output : Int]
<1>a. ASSUME LedgerKept, Save \/ SaveFails, Rest, sent' <= file'.attempts
      PROVE  LedgerInv'
  BY <1>a, WriteStep DEF LedgerInv, LedgerTypeOK
<1>b. ASSUME Save \/ SaveFails, LedgerKept PROVE sent <= file'.attempts
  BY <1>0, <1>b DEF Save, SaveFails, LedgerKept, Ledger
<1>1. ASSUME NEW c \in Calls, Refuse(c) PROVE LedgerInv'
  <2>1. LedgerKept
    BY <1>1, RefuseKeeps
  <2>2. (Save \/ SaveFails) /\ sent' = sent
    BY <1>1 DEF Refuse
  <2>3. Rest
    BY <1>1 DEF Refuse, LedgerInv, LedgerTypeOK
  <2> QED BY <1>a, <1>b, <2>1, <2>2, <2>3
<1>2. ASSUME NEW c \in Calls, Reserve(c) PROVE LedgerInv'
  <2>1. LedgerKept /\ state'.attempts = state.attempts + 1
    BY <1>2, ReserveKeeps
  <2>2. Save \/ SaveFails
    BY <1>2 DEF Reserve
  <2>3. Rest
    BY <1>0, <1>2 DEF Reserve, LedgerInv, LedgerTypeOK
  <2>4. CASE Save /\ sent' = sent + 1
    <3>1. file'.attempts = state.attempts + 1
      BY <2>1, <2>4 DEF Save
    <3>2. sent' <= file'.attempts
      BY <1>0, <2>4, <3>1
    <3> QED BY <1>a, <2>1, <2>2, <2>3, <3>2
  <2>5. CASE sent' = sent
    BY <1>a, <1>b, <2>1, <2>2, <2>3, <2>5
  <2> QED BY <1>2, <2>4, <2>5 DEF Reserve
<1>3. ASSUME NEW c \in Calls, Settle(c) PROVE LedgerInv'
  <2>1. LedgerKept
    BY <1>3, SettleStep
  <2>2. (Save \/ SaveFails) /\ sent' = sent
    BY <1>3 DEF Settle
  <2>3. reported' \in [input : Int, output : Int]
    <3>1. PICK u \in Usages : reported' = [input |-> reported.input + u.input,
                                           output |-> reported.output + u.output]
      BY <1>3 DEF Settle
    <3>2. u.input \in Nat /\ u.output \in Nat
      BY ConstantsAreNumbers DEF Numbers
    <3>3. reported.input \in Int /\ reported.output \in Int
      BY DEF LedgerInv, LedgerTypeOK
    <3> QED BY <3>1, <3>2, <3>3
  <2>4. overran' \in BOOLEAN
    BY <1>3 DEF Settle, LedgerInv, LedgerTypeOK, Overran
  <2>5. Rest
    BY <1>3, <2>3, <2>4 DEF Settle, LedgerInv, LedgerTypeOK
  <2> QED BY <1>a, <1>b, <2>1, <2>2, <2>5
<1>4. ASSUME NEW c \in Calls, SettleUnknown(c) PROVE LedgerInv'
  <2>1. LedgerKept
    BY <1>4, SettleUnknownStep
  <2>2. (Save \/ SaveFails) /\ sent' = sent
    BY <1>4 DEF SettleUnknown
  <2>3. Rest
    BY <1>4 DEF SettleUnknown, LedgerInv, LedgerTypeOK
  <2> QED BY <1>a, <1>b, <2>1, <2>2, <2>3
<1>5. CASE LoseProcess
  <2>1. /\ phase' \in [Calls -> {"idle", "refused", "unsent", "sent", "settled",
                              "unknown", "lost"}]
        /\ interrupts' \in Nat /\ running' = FALSE
    BY <1>0, <1>5 DEF LoseProcess, LedgerInv, LedgerTypeOK
  <2>2. UNCHANGED <<state, file, sent, reported, overran>>
    BY <1>5 DEF LoseProcess
  <2>3. CapsHold' /\ StopsWhenBreached(state)'
    BY <2>2 DEF LedgerInv, CapsHold, WithinCaps, StopsWhenBreached
  <2>4. LedgerTypeOK'
    BY <2>1, <2>2 DEF LedgerInv, LedgerTypeOK
  <2>5. sent' <= file'.attempts /\ file'.attempts <= state'.attempts
    BY <1>0, <2>2
  <2> QED BY <2>3, <2>4, <2>5 DEF LedgerInv
<1>6. CASE Resume
  <2>1. /\ state' \in Resumed(file) /\ file' = state' /\ running' = TRUE
        /\ UNCHANGED <<phase, interrupts, sent, reported, overran>>
    BY <1>6 DEF Resume
  <2>2. file \in Ledger /\ WithinCaps(file)
    BY DEF LedgerInv, LedgerTypeOK, CapsHold
  <2>3. /\ state' \in Ledger /\ SameCounters(file, state')
        /\ state'.overruns = file.overruns /\ StopsWhenBreached(state')
    BY <2>1, <2>2, ResumeKeepsCounters
  <2>4. WithinCaps(state')
    BY <2>2, <2>3, CapsCarryOver
  <2>5. CapsHold'
    BY <2>1, <2>4 DEF CapsHold, WithinCaps
  <2>6. state'.attempts = file.attempts
    BY <2>3 DEF SameCounters
  <2>7. sent' <= file'.attempts /\ file'.attempts <= state'.attempts
    BY <1>0, <2>1, <2>6
  <2>8. LedgerTypeOK'
    BY <2>1, <2>3 DEF LedgerInv, LedgerTypeOK
  <2> QED BY <2>3, <2>5, <2>7, <2>8 DEF LedgerInv
<1>7. CASE UNCHANGED ledgerVars
  BY <1>7 DEF ledgerVars, LedgerInv, LedgerTypeOK, CapsHold, WithinCaps, StopsWhenBreached
<1> QED BY <1>1, <1>2, <1>3, <1>4, <1>5, <1>6, <1>7 DEF LedgerNext

(* LedgerInv holds of every reachable state. *)
LEMMA LedgerInvHolds == LedgerSpec => []LedgerInv
  BY LedgerInvInit, LedgerInvStep, PTL DEF LedgerSpec

-------------------------------------------------------------------------------
(* The books: what providers reported, and the estimates of the calls they   *)
(* reported nothing of.                                                      *)
Unreported == {c \in Calls : phase[c] \in {"sent", "unknown", "lost"}}
InputDue == reported.input + Total(Estimate, Unreported)
OutputDue == reported.output + Cardinality(Unreported) * MaxOutputPerCall

Covers(s) == Input(s) >= InputDue /\ Output(s) >= OutputDue

(* LedgerAddsUp is not inductive: a resumed ledger is the file's, and a file  *)
(* rewritten later is the ledger, so each must cover the books for the other. *)
BooksInv ==
    /\ interrupts = 0 => /\ running
                         /\ Input(state) = InputDue
                         /\ Output(state) = OutputDue
    /\ ~ overran => Covers(state) /\ Covers(file)

(* What is due is a number. *)
LEMMA DueType ==
    ASSUME LedgerTypeOK
    PROVE  InputDue \in Int /\ OutputDue \in Int
<1>1. IsFiniteSet(Unreported) /\ Unreported \subseteq Calls
  BY FS_Subset, LedgerAssumption DEF Unreported
<1>2. Total(Estimate, Unreported) \in Nat
  BY <1>1, TotalType, ConstantsAreNumbers DEF Numbers
<1>3. Cardinality(Unreported) \in Nat
  BY <1>1, FS_CardinalityType
<1>4. MaxOutputPerCall \in Nat
  BY ConstantsAreNumbers DEF Numbers
<1>5. Cardinality(Unreported) * MaxOutputPerCall \in Nat
  BY <1>3, <1>4
<1>6. reported.input \in Int /\ reported.output \in Int
  BY DEF LedgerTypeOK
<1> QED BY <1>2, <1>5, <1>6 DEF InputDue, OutputDue

(* One more call without a report adds its estimate to the books. *)
LEMMA EstimateAdds ==
    ASSUME NEW S, S \subseteq Calls, NEW c \in Calls, c \notin S
    PROVE  /\ Total(Estimate, S \cup {c}) = Total(Estimate, S) + Estimate[c]
           /\ Total(Estimate, S) \in Nat
           /\ Cardinality(S \cup {c}) * MaxOutputPerCall
                = Cardinality(S) * MaxOutputPerCall + MaxOutputPerCall
           /\ Cardinality(S) * MaxOutputPerCall \in Nat
<1>1. IsFiniteSet(S)
  BY FS_Subset, LedgerAssumption
<1>2. /\ \A x \in Calls : Estimate[x] \in Nat
      /\ MaxOutputPerCall \in Nat
  BY ConstantsAreNumbers DEF Numbers
<1>3. \A x \in S \cup {c} : Estimate[x] \in Nat
  BY <1>2
<1>4. Total(Estimate, S \cup {c}) = Total(Estimate, S) + Estimate[c]
  BY <1>1, <1>3, TotalAdd
<1>5. Total(Estimate, S) \in Nat
  BY <1>1, <1>2, TotalType
<1>6. Cardinality(S \cup {c}) = Cardinality(S) + 1 /\ Cardinality(S) \in Nat
  BY <1>1, FS_AddElement, FS_CardinalityType
<1>7. \A n \in Nat, m \in Nat : (n + 1) * m = n * m + m /\ n * m \in Nat
  OBVIOUS
<1> QED BY <1>2, <1>4, <1>5, <1>6, <1>7

(* Nothing moves in the books while the same calls lack a report. *)
LEMMA DueStays ==
    ASSUME UNCHANGED reported, Unreported' = Unreported
    PROVE  InputDue' = InputDue /\ OutputDue' = OutputDue
BY DEF InputDue, OutputDue

(* A call that is sent comes to be due. *)
LEMMA DueAdds ==
    ASSUME LedgerTypeOK, UNCHANGED reported, NEW c \in Calls, c \notin Unreported,
           Unreported' = Unreported \cup {c}
    PROVE  /\ InputDue' = InputDue + Estimate[c]
           /\ OutputDue' = OutputDue + MaxOutputPerCall
<1> DEFINE T == Total(Estimate, Unreported)
           D == Cardinality(Unreported) * MaxOutputPerCall
<1>1. /\ T' = T + Estimate[c] /\ T \in Nat
      /\ D' = D + MaxOutputPerCall /\ D \in Nat
  BY EstimateAdds DEF Unreported
<1>2. /\ reported.input \in Int /\ reported.output \in Int
      /\ Estimate[c] \in Nat /\ MaxOutputPerCall \in Nat
  BY ConstantsAreNumbers DEF LedgerTypeOK, Numbers
<1>3. /\ InputDue = reported.input + T /\ OutputDue = reported.output + D
      /\ InputDue' = reported.input + T' /\ OutputDue' = reported.output + D'
  BY DEF InputDue, OutputDue
<1> HIDE DEF T, D
<1> QED BY <1>1, <1>2, <1>3

(* A call that is reported is due what was reported of it. *)
LEMMA DueSettles ==
    ASSUME LedgerTypeOK, NEW c \in Unreported, Unreported' = Unreported \ {c},
           NEW i \in Nat, NEW o \in Nat,
           reported' = [input |-> reported.input + i,
                        output |-> reported.output + o]
    PROVE  /\ InputDue' = InputDue - Estimate[c] + i
           /\ OutputDue' = OutputDue - MaxOutputPerCall + o
<1> DEFINE T == Total(Estimate, Unreported)
           D == Cardinality(Unreported) * MaxOutputPerCall
<1>1. /\ T = T' + Estimate[c] /\ T' \in Nat
      /\ D = D' + MaxOutputPerCall /\ D' \in Nat
  <2>1. c \in Calls /\ Unreported' \subseteq Calls /\ c \notin Unreported'
    BY DEF Unreported
  <2>2. Unreported = Unreported' \cup {c}
    OBVIOUS
  <2> HIDE DEF T, D
  <2>3. \A S : S \subseteq Calls /\ c \notin S =>
            /\ Total(Estimate, S \cup {c}) = Total(Estimate, S) + Estimate[c]
            /\ Total(Estimate, S) \in Nat
            /\ Cardinality(S \cup {c}) * MaxOutputPerCall
                 = Cardinality(S) * MaxOutputPerCall + MaxOutputPerCall
            /\ Cardinality(S) * MaxOutputPerCall \in Nat
    BY <2>1, EstimateAdds
  <2> QED BY <2>1, <2>2, <2>3 DEF T, D
<1>2. /\ reported.input \in Int /\ reported.output \in Int
      /\ Estimate[c] \in Nat /\ MaxOutputPerCall \in Nat
  BY ConstantsAreNumbers DEF LedgerTypeOK, Numbers, Unreported
<1>3. /\ InputDue = reported.input + T /\ OutputDue = reported.output + D
      /\ InputDue' = reported.input + i + T'
      /\ OutputDue' = reported.output + o + D'
  BY DEF InputDue, OutputDue
<1> HIDE DEF T, D
<1> QED BY <1>1, <1>2, <1>3

(* Ledgers and what is due, as numbers a leaf can compare. *)
LEMMA TotalsType ==
    ASSUME NEW s \in Ledger PROVE Input(s) \in Int /\ Output(s) \in Int
BY DEF Input, Output, Ledger

(* An operation that moves the ledger as much as the books keeps them, if a   *)
(* rewrite that fails leaves the file with no less than is due.               *)
LEMMA BooksMove ==
    ASSUME LedgerTypeOK, LedgerTypeOK', BooksInv, running' = running, overran => overran',
           NEW a \in Int, NEW b \in Int, NEW i \in Int, NEW o \in Int,
           Input(state') = Input(state) + a,
           Output(state') = Output(state) + b,
           InputDue' = InputDue + i, OutputDue' = OutputDue + o,
           \/ Save /\ a = i /\ b = o
           \/ /\ SaveFails /\ i <= a /\ o <= b
              /\ ~ overran' => i <= 0 /\ o <= 0
    PROVE  BooksInv'
<1>1. /\ Input(state) \in Int /\ Output(state) \in Int
      /\ Input(file) \in Int /\ Output(file) \in Int
      /\ InputDue \in Int /\ OutputDue \in Int /\ interrupts \in Nat
  BY TotalsType, DueType DEF LedgerTypeOK
<1>2. ~ overran => /\ Input(state) >= InputDue /\ Output(state) >= OutputDue
                   /\ Input(file) >= InputDue /\ Output(file) >= OutputDue
  BY DEF BooksInv, Covers
<1>3. interrupts = 0 => /\ running /\ Input(state) = InputDue
                        /\ Output(state) = OutputDue
  BY DEF BooksInv
<1>4. CASE Save /\ a = i /\ b = o
  <2>1. interrupts' = interrupts /\ file' = state'
    BY <1>4 DEF Save
  <2>2. interrupts' = 0 => /\ running' /\ Input(state') = InputDue'
                           /\ Output(state') = OutputDue'
    BY <1>1, <1>3, <1>4, <2>1
  <2>3. ~ overran' => Input(state') >= InputDue' /\ Output(state') >= OutputDue'
    BY <1>1, <1>2, <1>4
  <2> QED BY <2>1, <2>2, <2>3 DEF BooksInv, Covers, Input, Output
<1>5. CASE /\ SaveFails /\ i <= a /\ o <= b
           /\ ~ overran' => i <= 0 /\ o <= 0
  <2>1. interrupts' # 0 /\ file' = file
    BY <1>1, <1>5 DEF SaveFails
  <2>2. ~ overran' => /\ Input(state') >= InputDue'
                      /\ Output(state') >= OutputDue'
                      /\ Input(file) >= InputDue'
                      /\ Output(file) >= OutputDue'
    BY <1>1, <1>2, <1>5
  <2> QED BY <2>1, <2>2 DEF BooksInv, Covers, Input, Output
<1> QED BY <1>4, <1>5

(* Counters that stay the same come to the same totals. *)
LEMMA SameTotals ==
    ASSUME NEW s, NEW t, SameCounters(s, t)
    PROVE  Input(t) = Input(s) /\ Output(t) = Output(s)
BY DEF SameCounters, Input, Output

(* A reservation is due once it was sent, and is in the file then. *)
LEMMA ReserveBooks ==
    ASSUME LedgerTypeOK, LedgerTypeOK', BooksInv, NEW c \in Calls, Reserve(c)
    PROVE  BooksInv'
<1>1. state \in Ledger /\ state' = Reservation(c)
  BY DEF LedgerTypeOK, Reserve
<1>2. /\ Input(state') = Input(state) + Estimate[c]
      /\ Output(state') = Output(state) + MaxOutputPerCall
  BY <1>1, ReservationAdds
<1>3. Estimate[c] \in Nat /\ MaxOutputPerCall \in Nat
  BY ConstantsAreNumbers DEF Numbers
<1>4. running' = running /\ overran' = overran /\ reported' = reported
  BY DEF Reserve
<1>5. InputDue \in Int /\ OutputDue \in Int
  BY DueType
<1>6. phase[c] = "idle" /\ c \notin Unreported
  BY DEF Reserve, Unreported
<1>7. CASE Save /\ phase' = [phase EXCEPT ![c] = "sent"]
  <2>1. Unreported' = Unreported \cup {c}
    BY <1>7 DEF Unreported, LedgerTypeOK
  <2>2. /\ InputDue' = InputDue + Estimate[c]
        /\ OutputDue' = OutputDue + MaxOutputPerCall
    BY <1>4, <1>6, <2>1, DueAdds
  <2> QED BY <1>2, <1>3, <1>4, <1>7, <2>2, BooksMove
<1>8. CASE SaveFails /\ phase' = [phase EXCEPT ![c] = "unsent"]
  <2>1. Unreported' = Unreported
    BY <1>6, <1>8 DEF Unreported, LedgerTypeOK
  <2>2. InputDue' = InputDue + 0 /\ OutputDue' = OutputDue + 0
    BY <1>4, <1>5, <2>1, DueStays
  <2>3. 0 <= Estimate[c] /\ 0 <= MaxOutputPerCall
    BY <1>3
  <2> QED BY <1>2, <1>3, <1>4, <1>8, <2>2, <2>3, BooksMove
<1> QED BY <1>7, <1>8 DEF Reserve

(* What is reported replaces the estimate, in the ledger and in the books. *)
LEMMA SettleBooks ==
    ASSUME LedgerTypeOK, LedgerTypeOK', LedgerInv, BooksInv, NEW c \in Calls, Settle(c)
    PROVE  BooksInv'
<1>1. PICK u \in Usages :
        /\ StopsFor(Released(c, u.input, u.output), Overran(c, u),
                   TotalBreaches(Released(c, u.input, u.output)) \cup CallBreaches(u))
        /\ reported' = [input |-> reported.input + u.input,
                        output |-> reported.output + u.output]
        /\ overran' = (overran \/ Overran(c, u))
  BY DEF Settle
<1> DEFINE r == Released(c, u.input, u.output)
           i == u.input - Estimate[c]
           o == u.output - MaxOutputPerCall
<1>2. /\ u.input \in Nat /\ u.output \in Nat
      /\ Estimate[c] \in Nat /\ MaxOutputPerCall \in Nat
  BY ConstantsAreNumbers DEF Numbers
<1>3. SameCounters(r, state')
  BY <1>1 DEF StopsFor, SameCounters, Released
<1>4. /\ Input(r) = Input(state) - Estimate[c] + u.input
      /\ Output(r) = Output(state) - MaxOutputPerCall + u.output
  BY <1>2, ReleaseNeverAdds DEF LedgerTypeOK
<1>5. /\ Input(state) \in Int /\ Output(state) \in Int
      /\ InputDue \in Int /\ OutputDue \in Int
  BY TotalsType, DueType DEF LedgerTypeOK
<1>6. c \in Unreported /\ Unreported' = Unreported \ {c}
  BY DEF Settle, Unreported, LedgerTypeOK
<1>7. /\ InputDue' = InputDue - Estimate[c] + u.input
      /\ OutputDue' = OutputDue - MaxOutputPerCall + u.output
  BY <1>1, <1>2, <1>6, DueSettles
<1>8. ~ overran' => u.input <= Estimate[c] /\ u.output <= MaxOutputPerCall
  <2>1. ~ overran' => ~ Overran(c, u)
    BY <1>1, Zenon
  <2> QED BY <1>2, <2>1 DEF Overran
<1>9. /\ Input(state') = Input(state) + i /\ Output(state') = Output(state) + o
      /\ InputDue' = InputDue + i /\ OutputDue' = OutputDue + o
      /\ i \in Int /\ o \in Int /\ i <= i /\ o <= o
      /\ ~ overran' => i <= 0 /\ o <= 0
  <2>1. Input(state') = Input(r) /\ Output(state') = Output(r)
    BY <1>3, SameTotals
  <2> HIDE DEF r
  <2> QED BY <1>2, <1>4, <1>5, <1>7, <1>8, <2>1
<1>10. running' = running /\ (Save \/ SaveFails) /\ (overran => overran')
  BY <1>1 DEF Settle
<1> HIDE DEF i, o, r
<1> QED BY <1>9, <1>10, BooksMove

(* A refusal, and a call whose usage is unknown, leave the books alone. *)
LEMMA UnreportedBooks ==
    ASSUME LedgerTypeOK, LedgerTypeOK', LedgerInv, BooksInv, NEW c \in Calls,
           Refuse(c) \/ SettleUnknown(c)
    PROVE  BooksInv'
<1>1. Input(state') = Input(state) /\ Output(state') = Output(state)
  <2>1. CASE Refuse(c)
    <3>1. SameCounters(state, state')
      BY <2>1 DEF Refuse, SameCounters, LedgerTypeOK, Ledger
    <3> QED BY <3>1, SameTotals
  <2>2. CASE SettleUnknown(c)
    <3> DEFINE r == Released(c, Estimate[c], MaxOutputPerCall)
               s == [r EXCEPT !.unknownUsage = @ + 1]
    <3>1. Estimate[c] \in Nat /\ MaxOutputPerCall \in Nat
      BY ConstantsAreNumbers DEF Numbers
    <3>2. /\ Input(r) = Input(state) - Estimate[c] + Estimate[c]
          /\ Output(r) = Output(state) - MaxOutputPerCall + MaxOutputPerCall
      BY <3>1, ReleaseNeverAdds DEF LedgerTypeOK
    <3>3. SameCounters(r, s)
      BY DEF SameCounters, Released
    <3>4. StopsFor(s, FALSE, TotalBreaches(s))
      BY <2>2 DEF SettleUnknown
    <3>5. SameCounters(s, state')
      BY <3>4 DEF StopsFor, SameCounters, Released
    <3>6. Input(state) \in Int /\ Output(state) \in Int
      BY TotalsType DEF LedgerTypeOK
    <3>7. Input(state') = Input(r) /\ Output(state') = Output(r)
      BY <3>3, <3>5, SameTotals
    <3> HIDE DEF r, s
    <3> QED BY <3>1, <3>2, <3>6, <3>7
  <2> QED BY <2>1, <2>2
<1>2. Unreported' = Unreported
  BY DEF Refuse, SettleUnknown, Unreported, LedgerTypeOK
<1>3. /\ running' = running /\ (Save \/ SaveFails) /\ overran' = overran
      /\ reported' = reported
  BY DEF Refuse, SettleUnknown
<1>4. /\ InputDue' = InputDue + 0 /\ OutputDue' = OutputDue + 0
      /\ Input(state') = Input(state) + 0 /\ Output(state') = Output(state) + 0
  BY <1>1, <1>2, <1>3, DueStays, DueType, TotalsType DEF LedgerTypeOK
<1>5. 0 \in Int /\ 0 <= 0
  OBVIOUS
<1> QED BY <1>3, <1>4, <1>5, BooksMove

(* Every step keeps the books. *)
LEMMA BooksStep ==
    ASSUME LedgerInv, LedgerInv', BooksInv, [LedgerNext]_ledgerVars
    PROVE  BooksInv'
<1>0. LedgerTypeOK /\ LedgerTypeOK'
  BY DEF LedgerInv
<1>1. CASE LoseProcess
  <2>1. UNCHANGED <<state, file, reported, overran>> /\ interrupts' # 0
    BY <1>0, <1>1 DEF LoseProcess, LedgerTypeOK
  <2>2. Unreported' = Unreported
    BY <1>0, <1>1 DEF LoseProcess, Unreported, LedgerTypeOK
  <2>3. InputDue' = InputDue /\ OutputDue' = OutputDue
    BY <2>1, <2>2, DueStays
  <2> QED BY <2>1, <2>3 DEF BooksInv, Covers, Input, Output
<1>2. CASE Resume
  <2>1. /\ ~ running /\ state' \in Resumed(file) /\ file' = state'
        /\ UNCHANGED <<phase, interrupts, reported, overran>>
    BY <1>2 DEF Resume
  <2>2. SameCounters(file, state')
    BY <1>0, <2>1, ResumeKeepsCounters DEF LedgerTypeOK
  <2>3. Input(state') = Input(file) /\ Output(state') = Output(file)
    BY <2>2, SameTotals
  <2>4. InputDue' = InputDue /\ OutputDue' = OutputDue
    BY <2>1, DueStays DEF Unreported
  <2>5. interrupts' # 0
    BY <2>1 DEF BooksInv
  <2> QED BY <2>1, <2>3, <2>4, <2>5 DEF BooksInv, Covers, Input, Output
<1>3. CASE UNCHANGED ledgerVars
  <2>1. InputDue' = InputDue /\ OutputDue' = OutputDue
    BY <1>3, DueStays DEF ledgerVars, Unreported
  <2> QED BY <1>3, <2>1 DEF ledgerVars, BooksInv, Covers, Input, Output
<1> QED BY <1>0, <1>1, <1>2, <1>3, ReserveBooks, SettleBooks, UnreportedBooks
        DEF LedgerNext

(* The books balance, for every experiment, provider and death: the ledger   *)
(* is what was reported and the estimates of the calls that were not, and no *)
(* failed rewrite leaves the file with less, until a provider overran.       *)
THEOREM BooksBalance == LedgerSpec => []LedgerAddsUp
<1>1. ASSUME LedgerInit PROVE BooksInv
  <2>1. LedgerTypeOK
    BY <1>1, LedgerInvInit DEF LedgerInv
  <2>2. /\ file = state /\ running /\ interrupts = 0
        /\ reported = [input |-> Input(file), output |-> Output(file)]
    BY <1>1 DEF LedgerInit
  <2>3. Unreported = {}
    BY <1>1 DEF LedgerInit, Unreported
  <2>4. \A x \in {} : Estimate[x] = 0
    OBVIOUS
  <2>5. Total(Estimate, {}) = 0 /\ Cardinality({}) = 0
    BY <2>4, TotalNothing, FS_EmptySet
  <2>6. 0 * MaxOutputPerCall = 0
    BY ConstantsAreNumbers DEF Numbers
  <2>7. Input(file) \in Int /\ Output(file) \in Int
    BY <2>1, TotalsType DEF LedgerTypeOK
  <2>8. InputDue = Input(file) /\ OutputDue = Output(file)
    BY <2>2, <2>3, <2>5, <2>6, <2>7 DEF InputDue, OutputDue
  <2>9. Input(file) >= Input(file) /\ Output(file) >= Output(file)
    BY <2>7
  <2> QED BY <2>2, <2>8, <2>9 DEF BooksInv, Covers
<1>2. BooksInv => LedgerAddsUp
  BY DEF BooksInv, Covers, LedgerAddsUp, InputDue, OutputDue, Unreported,
     Total, SumFunctionOnSet
<1>3. LedgerInv /\ LedgerInv' /\ BooksInv /\ [LedgerNext]_ledgerVars => BooksInv'
  BY BooksStep
<1> QED BY <1>1, <1>2, <1>3, LedgerInvHolds, PTL DEF LedgerSpec

-------------------------------------------------------------------------------
(* Ledger and file keep the form of LedgerState. *)
THEOREM TypeCorrect == LedgerSpec => []LedgerTypeOK
<1>1. LedgerInv => LedgerTypeOK
  BY DEF LedgerInv
<1> QED BY <1>1, LedgerInvHolds, PTL

(* Ledger.reserve: whatever overlaps, fails or is resumed, attempts and     *)
(* spend, in flight and settled, stay within every cap until an overrun.    *)
THEOREM CapsAreKept == LedgerSpec => []CapsHold
<1>1. LedgerInv => CapsHold
  BY DEF LedgerInv
<1> QED BY <1>1, LedgerInvHolds, PTL

(* Ledger._save: no interruption makes the file forget a call that was sent. *)
THEOREM SendsAreCounted == LedgerSpec => []FileCountsSends
<1>1. LedgerInv => FileCountsSends
  BY DEF LedgerInv, FileCountsSends
<1> QED BY <1>1, LedgerInvHolds, PTL

(* Ledger.settle and __init__: after an overrun, or with a total above its *)
(* cap, nothing is sent, in this run or in one resumed from its file.      *)
THEOREM StopsAreFinal == LedgerSpec => StoppedStaysStopped
<1>1. ASSUME LedgerInv, [LedgerNext]_ledgerVars,
             state.overruns > 0 \/ TotalBreaches(state) # {}
      PROVE  sent' = sent
  <2>1. state.exhausted # "none"
    BY <1>1 DEF LedgerInv, StopsWhenBreached
  <2>2. ~ \E c \in Calls : Reserve(c)
    BY <2>1 DEF Reserve, MayReserve
  <2> QED
    BY <1>1, <2>2
    DEF LedgerNext, Refuse, Settle, SettleUnknown, LoseProcess, Resume, ledgerVars
<1>2. LedgerInv /\ [LedgerNext]_ledgerVars =>
        [state.overruns > 0 \/ TotalBreaches(state) # {} => sent' = sent]_ledgerVars
  BY <1>1
<1>3. LedgerSpec => [][state.overruns > 0 \/ TotalBreaches(state) # {} => sent' = sent]_ledgerVars
  BY <1>2, LedgerInvHolds, PTL DEF LedgerSpec
<1> QED BY <1>3 DEF StoppedStaysStopped

===============================================================================
