--------------------------- MODULE ToolPolicyProofs ---------------------------
(***************************************************************************)
(* What the operators of ToolPolicy preserve, for every value of the       *)
(* limits: facts McpSessionProofs and V2GraphProofs cite by name.  Before  *)
(* them, totals of functions over finite sets, as SumFunctionOnSet adds    *)
(* them up; of this module the proofs of the spend ledger use these alone. *)
(***************************************************************************)
EXTENDS ToolPolicy, FiniteSetTheorems, SequenceTheorems, WellFoundedInduction, TLAPS

(***************************************************************************)
(* Totals.  The fold is a recursive function over the subsets; each fact   *)
(* is proved on a smallest subset where it would fail.                     *)
(***************************************************************************)
Total(f, S) == SumFunctionOnSet(f, S)

(* Among sets of subsets of a finite set there is a smallest one. *)
LEMMA SmallestSubset ==
    ASSUME NEW S, IsFiniteSet(S), NEW D, D \subseteq SUBSET S, D # {}
    PROVE  \E m \in D : \A t \in D : t \subseteq m => t = m
<1>1. D \subseteq FiniteSubsetsOf(S)
  BY FS_Subset DEF FiniteSubsetsOf
<1>2. IsWellFoundedOn(StrictSubsetOrdering(S), FiniteSubsetsOf(S))
  BY FS_StrictSubsetOrderingWellFounded
<1>3. PICK m \in D : \A t \in D : ~ (<<t, m>> \in StrictSubsetOrdering(S))
  BY <1>1, <1>2, WFMin
<1>4. ASSUME NEW t \in D, t \subseteq m, t # m PROVE FALSE
  BY <1>3, <1>4 DEF StrictSubsetOrdering
<1> QED BY <1>4

-----------------------------------------------------------------------------
(* The fold's function over the subsets of S, and the member it takes next. *)
Pick(s) == CHOOSE x \in s : TRUE
Adds(f, S, g) ==
    g = [s \in SUBSET S |-> IF s = {} THEN 0 ELSE f[Pick(s)] + g[s \ {Pick(s)}]]

(* A total is what adding the members one after the other gives. *)
LEMMA TotalIsFold ==
    ASSUME NEW f, NEW S
    PROVE  Total(f, S) = (CHOOSE g : Adds(f, S, g))[S]
BY DEF Total, SumFunctionOnSet, FoldFunctionOnSet, MapThenFoldSet, Adds, Pick

(* What a fold says of one subset. *)
LEMMA AddsAt ==
    ASSUME NEW f, NEW S, NEW g, Adds(f, S, g), NEW s \in SUBSET S
    PROVE  /\ s = {} => g[s] = 0
           /\ s # {} => /\ Pick(s) \in s
                        /\ s \ {Pick(s)} \in SUBSET S
                        /\ g[s] = f[Pick(s)] + g[s \ {Pick(s)}]
<1>1. s # {} => Pick(s) \in s
  BY DEF Pick
<1>2. g[s] = IF s = {} THEN 0 ELSE f[Pick(s)] + g[s \ {Pick(s)}]
  BY DEF Adds
<1> QED BY <1>1, <1>2

(* Folds over two sets agree on the subsets of both. *)
LEMMA AddsOnce ==
    ASSUME NEW f, NEW S, IsFiniteSet(S), NEW U \in SUBSET S, NEW V \in SUBSET S,
           NEW g, Adds(f, U, g), NEW h, Adds(f, V, h),
           NEW T, T \subseteq U, T \subseteq V
    PROVE  g[T] = h[T]
<1> DEFINE D == {s \in SUBSET S : s \subseteq U /\ s \subseteq V /\ g[s] # h[s]}
<1>1. SUFFICES ASSUME D # {} PROVE FALSE
  <2>1. T \in SUBSET S
    OBVIOUS
  <2> QED BY <1>1, <2>1
<1>2. PICK m \in D : \A t \in D : t \subseteq m => t = m
  <2>1. D \subseteq SUBSET S
    OBVIOUS
  <2> HIDE DEF D
  <2> QED BY <1>1, <2>1, SmallestSubset
<1>3. m \in SUBSET S /\ m \in SUBSET U /\ m \in SUBSET V /\ g[m] # h[m]
  BY <1>2
<1>4. m # {}
  BY <1>3, AddsAt
<1> DEFINE t == m \ {Pick(m)}
<1>5. /\ Pick(m) \in m
      /\ g[m] = f[Pick(m)] + g[t] /\ h[m] = f[Pick(m)] + h[t]
  BY <1>3, <1>4, AddsAt, SMTT(30)
<1>6. t \subseteq m /\ t # m
  BY <1>5
<1>7. t \notin D
  BY <1>2, <1>6
<1>8. g[t] = h[t]
  BY <1>3, <1>6, <1>7
<1> QED BY <1>3, <1>5, <1>8

(* There is a function that adds, for every finite set. *)
LEMMA AddsExists ==
    ASSUME NEW f, NEW S, IsFiniteSet(S)
    PROVE  \E g : Adds(f, S, g)
<1> DEFINE D == {s \in SUBSET S : ~ \E g : Adds(f, s, g)}
<1>1. SUFFICES ASSUME D # {} PROVE FALSE
  BY <1>1
<1>2. PICK m \in D : \A t \in D : t \subseteq m => t = m
  <2>1. D \subseteq SUBSET S
    OBVIOUS
  <2> HIDE DEF D
  <2> QED BY <1>1, <2>1, SmallestSubset
<1> DEFINE G(s) == CHOOSE g : Adds(f, s, g)
           h == [s \in SUBSET m |->
                   IF s = {} THEN 0
                   ELSE f[Pick(s)] + G(s \ {Pick(s)})[s \ {Pick(s)}]]
<1>3. ASSUME NEW t \in SUBSET m, t # m PROVE Adds(f, t, G(t))
  <2>1. t \in SUBSET S /\ t \notin D
    BY <1>2, <1>3
  <2>2. \E g : Adds(f, t, g)
    BY <2>1
  <2> QED BY <2>2
<1> HIDE DEF G
<1>4. ASSUME NEW t \in SUBSET m, t # m PROVE h[t] = G(t)[t]
  <2>1. Adds(f, t, G(t))
    BY <1>3, <1>4
  <2>2. CASE t = {}
    BY <2>1, <2>2, AddsAt
  <2>3. CASE t # {}
    <3> DEFINE u == t \ {Pick(t)}
    <3>1. Pick(t) \in t /\ G(t)[t] = f[Pick(t)] + G(t)[u]
      BY <2>1, <2>3, AddsAt
    <3>2. u \in SUBSET m /\ u # m
      BY <1>4, <3>1
    <3>3. Adds(f, u, G(u))
      BY <1>3, <3>2
    <3>4. G(t)[u] = G(u)[u]
      <4>1. u \in SUBSET S /\ t \in SUBSET S
        BY <1>2, <3>2
      <4>2. u \subseteq t /\ u \subseteq u
        OBVIOUS
      <4> HIDE DEF u
      <4> QED BY <2>1, <3>3, <4>1, <4>2, AddsOnce, SMTT(30)
    <3>5. h[t] = f[Pick(t)] + G(u)[u]
      BY <2>3
    <3> QED BY <3>1, <3>4, <3>5
  <2> QED BY <2>2, <2>3
<1>5. ASSUME NEW s \in SUBSET m, s # {}
      PROVE  h[s] = f[Pick(s)] + h[s \ {Pick(s)}]
  <2> DEFINE t == s \ {Pick(s)}
  <2>1. Pick(s) \in s
    BY <1>5, AddsAt DEF Pick
  <2>2. t \in SUBSET m /\ t # m
    BY <1>5, <2>1
  <2>3. h[t] = G(t)[t]
    BY <1>4, <2>2
  <2>4. h[s] = f[Pick(s)] + G(t)[t]
    BY <1>5
  <2> QED BY <2>3, <2>4
<1>6. Adds(f, m, h)
  <2>1. \A s \in SUBSET m :
          h[s] = IF s = {} THEN 0 ELSE f[Pick(s)] + h[s \ {Pick(s)}]
    BY <1>5
  <2>2. h = [s \in SUBSET m |-> h[s]]
    OBVIOUS
  <2> HIDE DEF h
  <2> QED BY <2>1, <2>2 DEF Adds
<1> QED BY <1>2, <1>6

-----------------------------------------------------------------------------
(* A total is that of the rest and of the member the fold takes first. *)
LEMMA TotalPicked ==
    ASSUME NEW f, NEW S, IsFiniteSet(S)
    PROVE  /\ S = {} => Total(f, S) = 0
           /\ S # {} => /\ Pick(S) \in S
                        /\ Total(f, S) = f[Pick(S)] + Total(f, S \ {Pick(S)})
<1> DEFINE G(s) == CHOOSE g : Adds(f, s, g)
<1>1. \A s \in SUBSET S : Adds(f, s, G(s))
  <2> SUFFICES ASSUME NEW s \in SUBSET S PROVE Adds(f, s, G(s))
    OBVIOUS
  <2>1. \E g : Adds(f, s, g)
    BY FS_Subset, AddsExists
  <2> QED BY <2>1
<1>2. \A s : Total(f, s) = G(s)[s]
  BY TotalIsFold
<1> HIDE DEF G
<1>3. Adds(f, S, G(S))
  BY <1>1
<1>4. ASSUME S = {} PROVE Total(f, S) = 0
  <2>1. S \in SUBSET S
    OBVIOUS
  <2>2. G(S)[S] = 0
    BY <1>3, <1>4, <2>1, AddsAt
  <2> QED BY <1>2, <2>2
<1>5. ASSUME S # {}
      PROVE  Pick(S) \in S /\ Total(f, S) = f[Pick(S)] + Total(f, S \ {Pick(S)})
  <2> DEFINE t == S \ {Pick(S)}
  <2>1. Pick(S) \in S /\ G(S)[S] = f[Pick(S)] + G(S)[t]
    BY <1>3, <1>5, AddsAt
  <2>2. t \in SUBSET S /\ t \subseteq t
    OBVIOUS
  <2>3. Adds(f, t, G(t))
    BY <1>1, <2>2
  <2> HIDE DEF t
  <2>4. G(S)[t] = G(t)[t]
    BY <1>3, <2>2, <2>3, AddsOnce
  <2> QED BY <1>2, <2>1, <2>4 DEF t
<1> QED BY <1>4, <1>5

(* Natural numbers add up to one. *)
LEMMA TotalType ==
    ASSUME NEW f, NEW S, IsFiniteSet(S), \A x \in S : f[x] \in Nat
    PROVE  Total(f, S) \in Nat
<1> DEFINE D == {s \in SUBSET S : Total(f, s) \notin Nat}
<1>1. SUFFICES ASSUME D # {} PROVE FALSE
  <2>1. S \in SUBSET S
    OBVIOUS
  <2> QED BY <1>1, <2>1
<1>2. PICK m \in D : \A t \in D : t \subseteq m => t = m
  <2>1. D \subseteq SUBSET S
    OBVIOUS
  <2> HIDE DEF D
  <2> QED BY <1>1, <2>1, SmallestSubset
<1>3. m \in SUBSET S /\ Total(f, m) \notin Nat /\ IsFiniteSet(m)
  BY <1>2, FS_Subset
<1>4. m # {}
  <2>1. m = {} => Total(f, m) = 0
    BY <1>3, TotalPicked
  <2> QED BY <1>3, <2>1
<1>5. Pick(m) \in m /\ Total(f, m) = f[Pick(m)] + Total(f, m \ {Pick(m)})
  BY <1>3, <1>4, TotalPicked
<1>6. m \ {Pick(m)} \in SUBSET S /\ m \ {Pick(m)} \notin D
  BY <1>2, <1>3, <1>5
<1>7. Total(f, m \ {Pick(m)}) \in Nat /\ f[Pick(m)] \in Nat
  BY <1>3, <1>5, <1>6
<1> QED BY <1>3, <1>5, <1>7

(* Functions that agree on a set have one total on it. *)
LEMMA TotalSame ==
    ASSUME NEW f, NEW g, NEW S, IsFiniteSet(S), \A x \in S : f[x] = g[x]
    PROVE  Total(f, S) = Total(g, S)
<1> DEFINE D == {s \in SUBSET S : Total(f, s) # Total(g, s)}
<1>1. SUFFICES ASSUME D # {} PROVE FALSE
  <2>1. S \in SUBSET S
    OBVIOUS
  <2> QED BY <1>1, <2>1
<1>2. PICK m \in D : \A t \in D : t \subseteq m => t = m
  <2>1. D \subseteq SUBSET S
    OBVIOUS
  <2> HIDE DEF D
  <2> QED BY <1>1, <2>1, SmallestSubset
<1>3. m \in SUBSET S /\ Total(f, m) # Total(g, m) /\ IsFiniteSet(m)
  BY <1>2, FS_Subset
<1>4. m # {}
  BY <1>3, TotalPicked
<1>5. /\ Pick(m) \in m /\ Total(f, m) = f[Pick(m)] + Total(f, m \ {Pick(m)})
      /\ Total(g, m) = g[Pick(m)] + Total(g, m \ {Pick(m)})
  BY <1>3, <1>4, TotalPicked
<1>6. m \ {Pick(m)} \in SUBSET S /\ m \ {Pick(m)} \notin D
  BY <1>2, <1>3, <1>5
<1>7. Total(f, m \ {Pick(m)}) = Total(g, m \ {Pick(m)}) /\ f[Pick(m)] = g[Pick(m)]
  BY <1>3, <1>5, <1>6
<1> QED BY <1>3, <1>5, <1>7

(* Any member may be taken out, not only the one the fold takes first. *)
LEMMA TotalTakeOut ==
    ASSUME NEW f, NEW S, IsFiniteSet(S), \A x \in S : f[x] \in Nat, NEW y \in S
    PROVE  Total(f, S) = f[y] + Total(f, S \ {y})
<1> DEFINE Fails(s) == \E z \in s : Total(f, s) # f[z] + Total(f, s \ {z})
           D == {s \in SUBSET S : Fails(s)}
<1>1. SUFFICES ASSUME D # {} PROVE FALSE
  <2>1. S \in SUBSET S
    OBVIOUS
  <2> QED BY <1>1, <2>1
<1>2. PICK m \in D : \A t \in D : t \subseteq m => t = m
  <2>1. D \subseteq SUBSET S
    OBVIOUS
  <2> HIDE DEF D
  <2> QED BY <1>1, <2>1, SmallestSubset
<1>3. PICK z \in m : Total(f, m) # f[z] + Total(f, m \ {z})
  BY <1>2
<1> DEFINE p == Pick(m)
           rest == (m \ {z}) \ {p}
<1>4. /\ m \in SUBSET S /\ IsFiniteSet(m) /\ IsFiniteSet(m \ {p})
      /\ IsFiniteSet(rest)
  BY <1>2, FS_Subset
<1>5. p \in m /\ Total(f, m) = f[p] + Total(f, m \ {p})
  BY <1>3, <1>4, TotalPicked
<1>6. p # z
  BY <1>3, <1>5
<1>7. Total(f, m \ {p}) = f[z] + Total(f, rest)
  <2>1. m \ {p} \in SUBSET S /\ m \ {p} \notin D /\ z \in m \ {p}
    BY <1>2, <1>4, <1>5, <1>6
  <2>2. Total(f, m \ {p}) = f[z] + Total(f, (m \ {p}) \ {z})
    BY <2>1
  <2>3. (m \ {p}) \ {z} = rest
    OBVIOUS
  <2> QED BY <2>2, <2>3
<1>8. Total(f, m \ {z}) = f[p] + Total(f, rest)
  <2>1. m \ {z} \in SUBSET S /\ m \ {z} \notin D /\ p \in m \ {z}
    BY <1>2, <1>3, <1>4, <1>5, <1>6
  <2> QED BY <2>1
<1>9. f[p] \in Nat /\ f[z] \in Nat
  BY <1>3, <1>4, <1>5
<1>10. Total(f, rest) \in Nat
  <2>1. \A x \in rest : f[x] \in Nat
    BY <1>4
  <2> HIDE DEF rest
  <2> QED BY <1>4, <2>1, TotalType
<1> HIDE DEF p, rest
<1> QED BY <1>3, <1>5, <1>7, <1>8, <1>9, <1>10

(* One more member adds its value. *)
LEMMA TotalAdd ==
    ASSUME NEW f, NEW S, IsFiniteSet(S), NEW y, y \notin S,
           \A x \in S \cup {y} : f[x] \in Nat
    PROVE  Total(f, S \cup {y}) = Total(f, S) + f[y]
<1>1. IsFiniteSet(S \cup {y}) /\ (S \cup {y}) \ {y} = S
  BY FS_AddElement
<1>2. Total(f, S \cup {y}) = f[y] + Total(f, S)
  BY <1>1, TotalTakeOut
<1>3. Total(f, S) \in Nat /\ f[y] \in Nat
  BY TotalType
<1> QED BY <1>2, <1>3

(* One member's value goes up: the total goes up by as much, where the     *)
(* member counts.                                                          *)
LEMMA TotalRaise ==
    ASSUME NEW f, NEW g, NEW S, IsFiniteSet(S), \A x \in S : f[x] \in Nat,
           NEW y, NEW n \in Nat,
           \A x \in S \ {y} : g[x] = f[x], y \in S => g[y] = f[y] + n
    PROVE  Total(g, S) = IF y \in S THEN Total(f, S) + n ELSE Total(f, S)
<1>1. CASE y \notin S
  <2>1. \A x \in S : g[x] = f[x]
    BY <1>1
  <2> QED BY <1>1, <2>1, TotalSame
<1>2. CASE y \in S
  <2>1. IsFiniteSet(S \ {y}) /\ \A x \in S : g[x] \in Nat
    BY FS_RemoveElement
  <2>2. Total(g, S) = g[y] + Total(g, S \ {y}) /\ Total(f, S) = f[y] + Total(f, S \ {y})
    BY <1>2, <2>1, TotalTakeOut
  <2>3. Total(g, S \ {y}) = Total(f, S \ {y})
    BY <2>1, TotalSame
  <2>4. Total(f, S \ {y}) \in Nat /\ f[y] \in Nat
    BY <1>2, <2>1, TotalType
  <2> QED BY <1>2, <2>2, <2>3, <2>4
<1> QED BY <1>1, <1>2

(* A member that counts nothing may be left out. *)
LEMMA TotalWithout ==
    ASSUME NEW f, NEW S, IsFiniteSet(S), \A x \in S : f[x] \in Nat,
           NEW y, y \in S => f[y] = 0
    PROVE  Total(f, S \ {y}) = Total(f, S)
<1>1. CASE y \notin S
  <2>1. S \ {y} = S
    BY <1>1
  <2> QED BY <2>1
<1>2. CASE y \in S
  <2>1. Total(f, S) = f[y] + Total(f, S \ {y})
    BY <1>2, TotalTakeOut
  <2>2. Total(f, S \ {y}) \in Nat
    BY FS_RemoveElement, TotalType
  <2> QED BY <1>2, <2>1, <2>2
<1> QED BY <1>1, <1>2

(* If no member counts anything, the total is nothing. *)
LEMMA TotalNothing ==
    ASSUME NEW f, NEW S, IsFiniteSet(S), \A x \in S : f[x] = 0
    PROVE  Total(f, S) = 0
<1> DEFINE D == {s \in SUBSET S : Total(f, s) # 0}
<1>1. SUFFICES ASSUME D # {} PROVE FALSE
  <2>1. S \in SUBSET S
    OBVIOUS
  <2> QED BY <1>1, <2>1
<1>2. PICK m \in D : \A t \in D : t \subseteq m => t = m
  <2>1. D \subseteq SUBSET S
    OBVIOUS
  <2> HIDE DEF D
  <2> QED BY <1>1, <2>1, SmallestSubset
<1>3. m \in SUBSET S /\ Total(f, m) # 0 /\ IsFiniteSet(m)
  BY <1>2, FS_Subset
<1>4. m # {}
  BY <1>3, TotalPicked
<1>5. Pick(m) \in m /\ Total(f, m) = f[Pick(m)] + Total(f, m \ {Pick(m)})
  BY <1>3, <1>4, TotalPicked
<1>6. m \ {Pick(m)} \in SUBSET S /\ m \ {Pick(m)} \notin D
  BY <1>2, <1>3, <1>5
<1>7. Total(f, m \ {Pick(m)}) = 0 /\ f[Pick(m)] = 0
  BY <1>3, <1>5, <1>6
<1> QED BY <1>3, <1>5, <1>7

-----------------------------------------------------------------------------
(***************************************************************************)
(* Sessions.                                                               *)
(***************************************************************************)

(* A session within its limits. *)
WithinLimits(s) ==
    /\ s.toolCalls <= MaxToolCalls
    /\ s.searchesUsed <= MaxSearches
    /\ IsFiniteSet(s.evidenceById)
    /\ Cardinality(s.evidenceById) <= MaxEvidenceItems
    /\ EvidenceChars(s) <= MaxEvidenceChars

(* The characters of a session's evidence are those of its places. *)
Chars(h) == [i \in DOMAIN h |-> Size[h[i]]]

(* The characters of a list of evidence are numbers, and their sum a total. *)
LEMMA CharsType ==
    ASSUME NEW h \in Seq(Evidence)
    PROVE  /\ IsFiniteSet(DOMAIN h)
           /\ \A i \in DOMAIN h : Chars(h)[i] \in Nat
           /\ SumFunction(Chars(h)) = Total(Chars(h), DOMAIN h)
<1>1. DOMAIN h = 1 .. Len(h) /\ Len(h) \in Nat
  OBVIOUS
<1>2. IsFiniteSet(1 .. Len(h))
  BY <1>1, FS_Interval
<1>3. \A i \in DOMAIN h : h[i] \in Evidence
  OBVIOUS
<1>4. \A i \in DOMAIN h : Size[h[i]] \in Nat
  BY <1>3, ScopeAssumption
<1>5. DOMAIN Chars(h) = DOMAIN h
  BY DEF Chars
<1>6. SumFunction(Chars(h)) = Total(Chars(h), DOMAIN h)
  BY <1>5 DEF SumFunction, Total
<1> QED BY <1>1, <1>2, <1>4, <1>6 DEF Chars

(* They depend on the evidence alone, and an empty session has none. *)
LEMMA EvidenceCharsType ==
    ASSUME NEW s \in Session
    PROVE  /\ EvidenceChars(s) \in Nat
           /\ EvidenceChars(s) = SumFunction(Chars(s.evidence))
<1>1. s.evidence \in Seq(Evidence)
  BY DEF Session
<1>2. EvidenceChars(s) = SumFunction(Chars(s.evidence))
  BY DEF EvidenceChars, Chars
<1>3. SumFunction(Chars(s.evidence)) \in Nat
  BY <1>1, CharsType, TotalType
<1> QED BY <1>2, <1>3

(* A new session has no characters of evidence. *)
LEMMA NoEvidenceNoChars == EvidenceChars(NewSession) = 0
<1>1. EvidenceChars(NewSession) = SumFunction(Chars(<<>>))
  BY DEF EvidenceChars, Chars, NewSession
<1>2. <<>> \in Seq(Evidence) /\ DOMAIN <<>> = {}
  OBVIOUS
<1>3. SumFunction(Chars(<<>>)) = Total(Chars(<<>>), {})
  BY <1>2, CharsType
<1>4. Total(Chars(<<>>), {}) = 0
  BY FS_EmptySet, TotalPicked
<1> QED BY <1>1, <1>3, <1>4

(* One more chunk adds its own characters. *)
LEMMA AppendedChars ==
    ASSUME NEW h \in Seq(Evidence), NEW e \in Evidence
    PROVE  SumFunction(Chars(Append(h, e))) = SumFunction(Chars(h)) + Size[e]
<1> DEFINE g == Append(h, e)
           n == Len(h) + 1
<1>1. /\ g \in Seq(Evidence) /\ Len(h) \in Nat
      /\ DOMAIN h = 1 .. Len(h) /\ DOMAIN g = 1 .. n
      /\ g[n] = e /\ \A i \in 1 .. Len(h) : g[i] = h[i]
  BY AppendProperties
<1>2. /\ DOMAIN g = DOMAIN h \cup {n} /\ n \notin DOMAIN h
  BY <1>1
<1>3. Chars(g)[n] = Size[e] /\ \A i \in DOMAIN h : Chars(g)[i] = Chars(h)[i]
  BY <1>1, <1>2 DEF Chars
<1> HIDE DEF g, n
<1>4. /\ IsFiniteSet(DOMAIN h) /\ \A i \in DOMAIN g : Chars(g)[i] \in Nat
      /\ SumFunction(Chars(g)) = Total(Chars(g), DOMAIN g)
      /\ SumFunction(Chars(h)) = Total(Chars(h), DOMAIN h)
  BY <1>1, CharsType
<1>5. Total(Chars(g), DOMAIN h \cup {n}) = Total(Chars(g), DOMAIN h) + Chars(g)[n]
  BY <1>2, <1>4, TotalAdd
<1>6. Total(Chars(g), DOMAIN h) = Total(Chars(h), DOMAIN h)
  BY <1>3, <1>4, TotalSame
<1> QED BY <1>2, <1>3, <1>4, <1>5, <1>6 DEF g

(* A reservation keeps a session well typed. *)
LEMMA ReservedType ==
    ASSUME NEW s \in Session, NEW r, NEW a \in {0, 1}
    PROVE  Reserved(s, r, a) \in Session
<1> DEFINE retries == IF a > 0 THEN s.retries + 1 ELSE s.retries
           searches == IF IsSearch(r) THEN s.searchesUsed + 1
                       ELSE s.searchesUsed
<1>1. s.toolCalls + 1 \in Nat /\ retries \in Nat /\ searches \in Nat
  BY DEF Session
<1>2. Reserved(s, r, a) = [s EXCEPT !.toolCalls = s.toolCalls + 1,
                                    !.retries = retries,
                                    !.searchesUsed = searches]
  BY DEF Reserved
<1> HIDE DEF retries, searches
<1> QED BY <1>1, <1>2 DEF Session

(* An attempt that is not refused stays within the limits. *)
LEMMA ReservedWithinLimits ==
    ASSUME NEW s \in Session, NEW r, NEW a \in {0, 1},
           WithinLimits(s), Refusal(s, r) = "none"
    PROVE  WithinLimits(Reserved(s, r, a))
<1>1. s.toolCalls < MaxToolCalls - ReservedToolCalls
  BY LimitAssumption DEF Refusal, Session
<1>2. IsSearch(r) => s.searchesUsed < MaxSearches
  BY LimitAssumption DEF Refusal, Session
<1>3. Reserved(s, r, a).evidence = s.evidence
  BY DEF Reserved, Session
<1>4. EvidenceChars(Reserved(s, r, a)) = EvidenceChars(s)
  BY <1>3 DEF EvidenceChars
<1> QED BY <1>1, <1>2, <1>4, LimitAssumption DEF WithinLimits, Reserved, Session

(* Only tool calls, searches and retries change, and none goes down. *)
LEMMA ReservedSpends ==
    ASSUME NEW s \in Session, NEW r, NEW a \in {0, 1}
    PROVE  /\ Reserved(s, r, a).toolCalls = s.toolCalls + 1
           /\ Reserved(s, r, a).searchesUsed >= s.searchesUsed
           /\ Reserved(s, r, a).evidenceById = s.evidenceById
           /\ Reserved(s, r, a).evidence = s.evidence
BY DEF Session, Reserved

(* Admission keeps a session well typed, spends nothing and forgets nothing. *)
LEMMA AdmittedType ==
    ASSUME NEW s \in Session, NEW e \in Evidence
    PROVE  /\ Admitted(s, e) \in Session
           /\ Admitted(s, e).toolCalls = s.toolCalls
           /\ Admitted(s, e).searchesUsed = s.searchesUsed
           /\ s.evidenceById \subseteq Admitted(s, e).evidenceById
           /\ Admitted(s, e).evidenceById \subseteq s.evidenceById \cup {e}
<1>1. CASE ~ Admissible(s, e)
  BY <1>1 DEF Admitted
<1>2. CASE Admissible(s, e)
  <2> DEFINE t == [s EXCEPT !.evidenceById = @ \cup {e},
                            !.evidence = Append(@, e)]
  <2>1. Admitted(s, e) = t
    BY <1>2 DEF Admitted
  <2>2. Append(s.evidence, e) \in Seq(Evidence)
    BY DEF Session
  <2>3. t \in Session /\ t.evidenceById = s.evidenceById \cup {e}
        /\ t.toolCalls = s.toolCalls /\ t.searchesUsed = s.searchesUsed
    BY <2>2 DEF Session
  <2> QED BY <2>1, <2>3
<1> QED BY <1>1, <1>2

(* No schedule of admissions exceeds the number of evidence items, nor of   *)
(* their characters.                                                        *)
LEMMA AdmittedWithinLimits ==
    ASSUME NEW s \in Session, NEW e \in Evidence, WithinLimits(s)
    PROVE  WithinLimits(Admitted(s, e))
<1>1. CASE ~ Admissible(s, e)
  BY <1>1 DEF Admitted
<1>2. CASE Admissible(s, e)
  <2>1. e \notin s.evidenceById /\ Cardinality(s.evidenceById) < MaxEvidenceItems
    BY <1>2 DEF Admissible
  <2>2. Admitted(s, e).evidenceById = s.evidenceById \cup {e}
    BY <1>2 DEF Admitted, Session
  <2>3. /\ IsFiniteSet(s.evidenceById \cup {e})
        /\ Cardinality(s.evidenceById \cup {e}) = Cardinality(s.evidenceById) + 1
    BY <2>1, FS_AddElement DEF WithinLimits
  <2>4. Cardinality(s.evidenceById) \in Nat
    BY FS_CardinalityType DEF WithinLimits
  <2>5. EvidenceChars(Admitted(s, e)) = EvidenceChars(s) + Size[e]
    <3>1. Admitted(s, e).evidence = Append(s.evidence, e)
      BY <1>2 DEF Admitted, Session
    <3>2. s.evidence \in Seq(Evidence)
      BY DEF Session
    <3> QED BY <3>1, <3>2, AdmittedType, EvidenceCharsType, AppendedChars, ZenonT(40)
  <2>6. EvidenceChars(Admitted(s, e)) <= MaxEvidenceChars
    BY <1>2, <2>5 DEF Admissible
  <2>7. /\ Admitted(s, e).toolCalls = s.toolCalls
        /\ Admitted(s, e).searchesUsed = s.searchesUsed
    BY AdmittedType
  <2> QED BY <2>1, <2>2, <2>3, <2>4, <2>6, <2>7, LimitAssumption DEF WithinLimits
<1> QED BY <1>1, <1>2

(* A bounded sequence is a sequence. *)
LEMMA BoundedSeqIsSeq ==
    ASSUME NEW S, NEW n \in Nat, NEW h \in BoundedSeq(S, n)
    PROVE  h \in Seq(S)
BY DEF BoundedSeq, SeqOf

(* What a sequence over S contains is in S. *)
LEMMA RangeInSet ==
    ASSUME NEW S, NEW h \in Seq(S)
    PROVE  Range(h) \subseteq S
<1>1. \A i \in DOMAIN h : h[i] \in S
  OBVIOUS
<1>2. Range(h) = {h[i] : i \in DOMAIN h}
  BY DEF Range
<1>3. QED
  BY <1>1, <1>2

(* Appending an element keeps a sequence's elements and adds that one. *)
LEMMA RangeWithAppend ==
    ASSUME NEW S, NEW h \in Seq(S), NEW e \in S
    PROVE  Range(Append(h, e)) = Range(h) \cup {e}
<1>1. /\ DOMAIN Append(h, e) = 1 .. Len(h) + 1
      /\ Append(h, e)[Len(h) + 1] = e
      /\ DOMAIN h = 1 .. Len(h)
      /\ \A i \in 1 .. Len(h) : Append(h, e)[i] = h[i]
  OBVIOUS
<1>2. Len(h) \in Nat
  OBVIOUS
<1>3. 1 .. Len(h) + 1 = (1 .. Len(h)) \cup {Len(h) + 1}
  BY <1>2
<1>4. Range(h) = {h[i] : i \in DOMAIN h}
      /\ Range(Append(h, e)) = {Append(h, e)[i] : i \in DOMAIN Append(h, e)}
  BY DEF Range
<1> QED BY <1>1, <1>3, <1>4

(* Every refusal has one of the listed codes. *)
LEMMA AuthorizeErrorType ==
    ASSUME NEW s, NEW r
    PROVE  AuthorizeError(s, r) \in AuthorizeErrors \cup {"none"}
<1> DEFINE A == ~ r.wellFormed
           B == r.tool \in Lookups \cup {"document_search"}
                /\ ~ r.docs \subseteq Granted
           C == r.tool \in Lookups /\ ~ r.current
           D == r.tool = "calculate_date"
                /\ (r.cites = {} \/ ~ r.cites \subseteq s.evidenceById)
<1>1. AuthorizeError(s, r) =
        CASE A -> "invalid_arguments" [] B -> "document_not_allowed"
          [] C -> "version_not_allowed" [] D -> "missing_governing_evidence"
          [] OTHER -> "none"
  BY DEF AuthorizeError
<1> HIDE DEF A, B, C, D
<1> QED BY <1>1 DEF AuthorizeErrors

(* A request is refused with one of the codes of the policy, or accepted. *)
LEMMA RefusalType ==
    ASSUME NEW s, NEW r
    PROVE  Refusal(s, r) \in Refusals \cup {"none"}
<1> DEFINE A == s.toolCalls >= MaxToolCalls - ReservedToolCalls
           B == IsSearch(r) /\ s.searchesUsed >= MaxSearches
<1>1. Refusal(s, r) = CASE A -> "tool_budget_exhausted"
                        [] B -> "search_budget_exhausted"
                        [] OTHER -> "none"
  BY DEF Refusal
<1> HIDE DEF A, B
<1> QED BY <1>1 DEF Refusals

===============================================================================
