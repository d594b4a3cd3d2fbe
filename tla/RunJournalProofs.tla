---------------------------- MODULE RunJournalProofs ----------------------------
(***************************************************************************)
(* RunJournal proved for every length of a run and every number of later   *)
(* processes, also of several that recover one dead run at a time.         *)
(***************************************************************************)
EXTENDS RunJournal, SequenceTheorems, FiniteSetTheorems,
        WellFoundedInduction, TLAPS

(* Facts about the lines. *)

(* A journal that is not empty has a last line. *)
LEMMA LastType ==
    ASSUME journal \in Seq(Line)
    PROVE  /\ Len(journal) \in Nat /\ DOMAIN journal = 1 .. Len(journal)
           /\ journal # <<>> => /\ Len(journal) \in DOMAIN journal /\ Last \in Line
                                /\ Last.sequence \in Nat
<1>1. Len(journal) \in Nat /\ DOMAIN journal = 1 .. Len(journal)
  OBVIOUS
<1>2. ASSUME journal # <<>> PROVE Len(journal) \in DOMAIN journal /\ Last \in Line
  <2>1. Len(journal) # 0
    BY <1>2
  <2>2. Len(journal) \in 1 .. Len(journal)
    BY <1>1, <2>1
  <2> QED BY <1>1, <2>2 DEF Last
<1> QED BY <1>1, <1>2 DEF Line

(* A set of naturals up to some number has a greatest element. *)
LEMMA GreatestLine ==
    ASSUME NEW n \in Nat, NEW T, T \subseteq 0 .. n, T # {}
    PROVE  Max(T) \in T /\ \A y \in T : Max(T) >= y
<1> DEFINE U == {n - y : y \in T}
           R == OpToRel(<, Nat)
<1>1. IsWellFoundedOn(R, Nat)
  BY NatLessThanWellFounded
<1>2. U \subseteq Nat /\ U # {}
  <2>1. \A y \in T : y \in 0 .. n /\ n - y \in Nat
    OBVIOUS
  <2> QED BY <2>1
<1>3. R = {p \in Nat \X Nat : p[1] < p[2]}
  BY DEF R, OpToRel
<1> HIDE DEF R, U
<1>4. PICK u \in U : \A v \in U : ~ (<<v, u>> \in R)
  BY <1>1, <1>2, WFMin
<1>5. \A v \in U : ~ (v < u)
  BY <1>2, <1>3, <1>4
<1>6. PICK x \in T : u = n - x
  BY DEF U
<1>7. ASSUME NEW y \in T PROVE x >= y
  <2>1. n - y \in U
    BY DEF U
  <2>2. ~ (n - y < n - x) /\ x \in Nat /\ y \in Nat
    BY <1>5, <1>6, <2>1
  <2> QED BY <2>2
<1>8. \E z \in T : \A y \in T : z >= y
  BY <1>7
<1> QED BY <1>8 DEF Max

(* Writing the first part of a line appends it. *)
LEMMA BeginLineType ==
    ASSUME journal \in Seq(Line), NEW n \in Nat, NEW e \in Events, BeginLine(n, e)
    PROVE  /\ journal' \in Seq(Line) /\ journal' # <<>>
           /\ Len(journal') = Len(journal) + 1
           /\ \A i \in 1 .. Len(journal) : journal'[i] = journal[i]
           /\ Last' = [sequence |-> n, event |-> e, whole |-> FALSE]
<1> DEFINE line == [sequence |-> n, event |-> e, whole |-> FALSE]
<1>1. line \in Line /\ journal' = Append(journal, line)
  BY DEF Line, BeginLine
<1> HIDE DEF line
<1>2. /\ journal' \in Seq(Line) /\ Len(journal') = Len(journal) + 1
      /\ \A i \in 1 .. Len(journal) : journal'[i] = journal[i]
      /\ journal'[Len(journal) + 1] = line
  BY <1>1, AppendProperties
<1>3. Len(journal) \in Nat
  OBVIOUS
<1>4. journal' # <<>>
  BY <1>2, <1>3
<1> QED BY <1>2, <1>4 DEF Last, line

(* Writing the rest of a line changes nothing but that it is whole. *)
LEMMA FinishLineType ==
    ASSUME journal \in Seq(Line), NEW n, FinishLine(n)
    PROVE  /\ journal' \in Seq(Line) /\ Len(journal') = Len(journal)
           /\ DOMAIN journal' = DOMAIN journal
           /\ \A i \in DOMAIN journal : /\ journal'[i].sequence = journal[i].sequence
                                        /\ journal'[i].event = journal[i].event
                                        /\ i # n => journal'[i] = journal[i]
                                        /\ i = n => journal'[i].whole = TRUE
<1>1. Len(journal) \in Nat /\ DOMAIN journal = 1 .. Len(journal)
  OBVIOUS
<1>2. \A i \in DOMAIN journal : journal[i] \in Line
  OBVIOUS
<1>3. DOMAIN journal' = DOMAIN journal
      /\ \A i \in DOMAIN journal :
            journal'[i] = IF i = n THEN [journal[i] EXCEPT !.whole = TRUE]
                          ELSE journal[i]
  BY DEF FinishLine
<1>4. ASSUME NEW i \in DOMAIN journal
      PROVE  /\ journal'[i] \in Line
             /\ journal'[i].sequence = journal[i].sequence
             /\ journal'[i].event = journal[i].event
             /\ i # n => journal'[i] = journal[i]
             /\ i = n => journal'[i].whole = TRUE
  BY <1>2, <1>3 DEF Line
<1>5. journal' \in [1 .. Len(journal) -> Line]
  BY <1>1, <1>4 DEF FinishLine
<1>6. journal' \in Seq(Line) /\ Len(journal') = Len(journal)
  BY <1>1, <1>5
<1> QED BY <1>3, <1>4, <1>6

(* Every step keeps the types. *)
LEMMA TypeStep ==
    ASSUME TypeOK, [Next]_vars
    PROVE  TypeOK'
<1> USE DEF TypeOK, runVars, streamVars, startVars, RunStates, StreamStates
<1>0. /\ journal \in Seq(Line) /\ Len(journal) \in Nat
      /\ journal # <<>> => Last.sequence \in Nat
  BY LastType
<1>1. CASE BeginManifest \/ FinishManifest \/ CloseGenerator \/ GraphRaises
  BY <1>1 DEF BeginManifest, FinishManifest, CloseGenerator, GraphRaises
<1>2. ASSUME NEW e \in Events, GraphEvent(e) PROVE TypeOK'
  <2>1. sequence + 1 \in Nat /\ sequence' = sequence + 1
        /\ BeginLine(sequence + 1, e)
    BY <1>2 DEF GraphEvent
  <2>2. journal' \in Seq(Line)
    BY <2>1, BeginLineType
  <2> QED BY <1>2, <2>1, <2>2 DEF GraphEvent
<1>3. CASE Progress \/ Conclude \/ CancelInNode
  <2>1. \E e \in Events : GraphEvent(e)
    BY <1>3 DEF Progress, Conclude, CancelInNode, Events, GraphOutcomes,
       TerminalEvents
  <2> QED BY <1>2, <2>1
<1>4. CASE FinishEvent
  <2>1. journal' \in Seq(Line)
    BY <1>4, FinishLineType DEF FinishEvent
  <2> QED BY <1>4, <2>1 DEF FinishEvent
<1>5. CASE CloseIncomplete
  <2>1. CASE NothingToClose
    BY <1>5, <2>1 DEF CloseIncomplete
  <2>2. CASE ~ NothingToClose
    <3>1. ClosingSequence \in Nat
      BY <1>0, <2>2 DEF ClosingSequence, NothingToClose
    <3>2. ClosingEvent \in Events
      BY DEF ClosingEvent, Events, TerminalEvents, GraphOutcomes
    <3>3. run' = "closeEmit" /\ BeginLine(ClosingSequence, ClosingEvent)
      BY <1>5, <2>2 DEF CloseIncomplete
    <3>4. journal' \in Seq(Line)
      BY <3>1, <3>2, <3>3, BeginLineType
    <3> QED BY <1>5, <3>3, <3>4 DEF CloseIncomplete
  <2> QED BY <2>1, <2>2
<1>6. CASE FinishClosing
  <2>1. journal' \in Seq(Line)
    BY <1>6, FinishLineType DEF FinishClosing
  <2> QED BY <1>6, <2>1 DEF FinishClosing
<1>7. CASE Die
  BY <1>7 DEF Die
<1>8. CASE Sample \/ Publish \/ FinishStream \/ Leave
  BY <1>8 DEF Sample, Publish, FinishStream, Leave
<1>9. CASE ReadTail
  <2> DEFINE T == {0} \cup {n \in DOMAIN journal :
                               \A i \in 1 .. n : Parses(journal[i])}
  <2>1. T \subseteq 0 .. Len(journal) /\ T # {}
    BY <1>0
  <2>2. view' = Max(T)
    BY <1>9 DEF ReadTail
  <2> HIDE DEF T
  <2>3. Max(T) \in T
    BY <1>0, <2>1, GreatestLine
  <2>4. view' \in 0 .. Len(journal)
    BY <2>1, <2>2, <2>3
  <2> QED BY <1>0, <1>9, <2>4 DEF ReadTail
<1>10. ASSUME NEW s \in Starters,
              Launch(s) \/ Scan(s) \/ ReadLast(s) \/ StarterDies(s)
       PROVE  TypeOK'
  <2>1. startup' \in [Starters -> StartStates]
    BY <1>10 DEF Launch, Scan, ReadLast, StarterDies, StartStates
  <2>2. found' \in [Starters -> Nat]
    BY <1>0, <1>10 DEF Launch, Scan, ReadLast, StarterDies
  <2>3. sawDead' \in [Starters -> BOOLEAN]
    BY <1>10 DEF Launch, Scan, ReadLast, StarterDies
  <2> QED BY <1>10, <2>1, <2>2, <2>3
          DEF Launch, Scan, ReadLast, StarterDies, StartFrame
<1>11. ASSUME NEW s \in Starters, MarkFailed(s) PROVE TypeOK'
  <2>1. found[s] + 1 \in Nat /\ BeginLine(found[s] + 1, "run_failed")
    BY <1>11 DEF MarkFailed
  <2>2. "run_failed" \in Events
    BY DEF Events, TerminalEvents, GraphOutcomes
  <2>3. journal' \in Seq(Line)
    BY <2>1, <2>2, BeginLineType
  <2>4. startup' \in [Starters -> StartStates]
    BY <1>11 DEF MarkFailed, StartStates
  <2> QED BY <1>11, <2>3, <2>4 DEF MarkFailed, StartFrame
<1>12. ASSUME NEW s \in Starters, FinishMark(s) PROVE TypeOK'
  <2>1. journal' \in Seq(Line)
    BY <1>12, FinishLineType DEF FinishMark
  <2>2. startup' \in [Starters -> StartStates]
    BY <1>12 DEF FinishMark, StartStates
  <2> QED BY <1>12, <2>1, <2>2 DEF FinishMark, StartFrame
<1>13. CASE UNCHANGED vars
  BY <1>13 DEF vars
<1> QED BY <1>1, <1>3, <1>4, <1>5, <1>6, <1>7, <1>8, <1>9, <1>10, <1>11,
           <1>12, <1>13 DEF Next, RunStep, StreamStep, Recover

(* The journal, the run, the stream and the later processes keep their forms. *)
THEOREM TypeCorrect == Spec => []TypeOK
<1>1. Init => TypeOK
  <2> SUFFICES ASSUME Init PROVE TypeOK
    OBVIOUS
  <2>1. journal \in Seq(Line)
    BY DEF Init
  <2>2. startup \in [Starters -> StartStates]
    BY DEF Init, StartStates
  <2> QED BY <2>1, <2>2 DEF Init, TypeOK, RunStates, StreamStates
<1> QED BY <1>1, TypeStep, PTL DEF Spec

-------------------------------------------------------------------------------
(* The last line, if there is one, is whole; it is whole and terminal; there *)
(* is one and it is not terminal.                                            *)
LastIsWhole == journal # <<>> => Last.whole
Closed == journal # <<>> => Last.whole /\ IsTerminal(Last)
Open == journal # <<>> /\ Last.whole /\ ~ IsTerminal(Last)

(* The first n lines are there to be read. *)
Readable(n) == \A i \in 1 .. n : i \in DOMAIN journal /\ journal[i].whole

(* What one writer leaves: sequences that count, nothing after a terminal    *)
(* event, and no torn line but the last.                                     *)
LinesInv ==
    \A i \in DOMAIN journal : /\ journal[i].sequence = i
                              /\ IsTerminal(journal[i]) => i = Len(journal)
                              /\ i < Len(journal) => journal[i].whole

(* What several recoveries leave: torn lines among their own. *)
MarksInv ==
    /\ JournalIsOneHistory
    /\ \A i \in DOMAIN journal :
          i < Len(journal) => journal[i].whole \/ IsTerminal(journal[i])

(* Nobody but the run writes while its process is alive; it writes a line    *)
(* after a whole one and nothing after a terminal event.                     *)
RunInv ==
    /\ alive /\ run \in {"start", "manifest", "graph"}
          => sequence = Len(journal) /\ (journal # <<>> => Open)
    /\ alive /\ run = "emit" => /\ journal # <<>> /\ ~ Last.whole
                                /\ sequence = Len(journal)
                                /\ Last.event = "run_cancelled" => stream = "left"
    /\ alive /\ run = "close" => LastIsWhole
    /\ alive /\ run = "closeEmit" => /\ journal # <<>> /\ ~ Last.whole
                                     /\ IsTerminal(Last)
    /\ run = "over" => Closed
    /\ run \in {"close", "closeEmit", "over"} <=> result # "none"
    /\ result = "cancelled" => stream = "left"
    /\ result = "returned" => journal # <<>>

(* A sample that found the run over is followed by a read of all its lines. *)
StreamInv ==
    /\ Readable(view) /\ Readable(delivered)
    /\ stream = "read" /\ finished => run = "over"
    /\ stream = "publish" /\ finished => run = "over" /\ view = Len(journal)
    /\ stream = "finish" => run = "over" /\ delivered = Len(journal)
    /\ stream = "done" => /\ run = "over" /\ delivered = Len(journal)
                          /\ journal # <<>>

(* A recovery has said the last word on what a dead process left. *)
Marked == journal # <<>> /\ ~ alive /\ Last.event = "run_failed"

(* A process recovers what a dead one left, alone or with others. *)
StartOk(s) ==
    /\ sawDead[s] => ~ alive
    /\ startup[s] \in {"read", "append", "emit"} => sawDead[s]
    /\ startup[s] = "append" => /\ run # "over"
                                /\ \/ Open /\ Last.sequence = found[s]
                                   \/ Marked /\ Last.sequence = found[s] + 1
    /\ startup[s] = "emit" => Marked /\ run # "over" /\ Len(journal) > 1
    /\ startup[s] = "up" /\ sawDead[s] /\ journal # <<>>
          => IsTerminal(Last) /\ (Last.whole \/ SaidAgain(Len(journal)))

StartInv == \A s \in Starters : StartOk(s)

HistoryInv == MarksInv /\ RunInv /\ StreamInv /\ StartInv

(* While the process is alive, nothing is said again. *)
LEMMA OneWriter == alive /\ journal \in Seq(Line) => (LinesInv <=> MarksInv)
<1> SUFFICES ASSUME alive, journal \in Seq(Line) PROVE LinesInv <=> MarksInv
  OBVIOUS
<1>1. \A i : ~ SaidAgain(i)
  BY DEF SaidAgain
<1>2. Len(journal) \in Nat /\ DOMAIN journal = 1 .. Len(journal)
  BY LastType
<1>3. LinesInv => MarksInv
  BY DEF LinesInv, MarksInv, JournalIsOneHistory, TerminalEventIsLast,
     SequencesCountLines
<1>4. ASSUME MarksInv, NEW i \in DOMAIN journal
      PROVE  /\ journal[i].sequence = i
             /\ IsTerminal(journal[i]) => i = Len(journal)
             /\ i < Len(journal) => journal[i].whole
  <2>1. /\ journal[i].sequence = i
        /\ IsTerminal(journal[i]) => i = Len(journal)
        /\ i < Len(journal) => journal[i].whole \/ IsTerminal(journal[i])
    BY <1>1, <1>4 DEF MarksInv, JournalIsOneHistory, TerminalEventIsLast,
       SequencesCountLines
  <2>2. i < Len(journal) => i # Len(journal)
    BY <1>2
  <2> QED BY <2>1, <2>2
<1> QED BY <1>3, <1>4 DEF LinesInv

(* It holds of the next state as well. *)
LEMMA OneWriterNext == (alive /\ journal \in Seq(Line) => (LinesInv <=> MarksInv))'
BY OneWriter, PTL

(* Lines that stay, and stay whole, can still be read. *)
LEMMA ReadableStays ==
    ASSUME NEW n, Readable(n),
           \A i \in DOMAIN journal : /\ i \in DOMAIN journal'
                                     /\ journal[i].whole => journal'[i].whole
    PROVE  Readable(n)'
BY DEF Readable

(* The parts of the invariant that speak of the lines follow them. *)
LEMMA LinesStay ==
    ASSUME UNCHANGED journal
    PROVE  /\ Last' = Last /\ (LinesInv => LinesInv')
           /\ \A n : Readable(n) => Readable(n)'
BY DEF Last, LinesInv, Readable

(* A line is begun after a whole one that is not the last word. *)
LEMMA LineBegun ==
    ASSUME TypeOK, LinesInv, journal # <<>> => Open,
           NEW e \in Events, BeginLine(Len(journal) + 1, e)
    PROVE  /\ LinesInv' /\ journal' # <<>> /\ Len(journal') = Len(journal) + 1
           /\ Last'.event = e /\ Last'.whole = FALSE
           /\ \A n : Readable(n) => Readable(n)'
<1>0. journal \in Seq(Line) /\ Len(journal) \in Nat
      /\ DOMAIN journal = 1 .. Len(journal)
      /\ (journal # <<>> => Len(journal) \in DOMAIN journal)
  BY LastType DEF TypeOK
<1>1. /\ journal' \in Seq(Line) /\ journal' # <<>>
      /\ Len(journal') = Len(journal) + 1
      /\ \A i \in 1 .. Len(journal) : journal'[i] = journal[i]
      /\ Last' = [sequence |-> Len(journal) + 1, event |-> e, whole |-> FALSE]
  BY <1>0, BeginLineType
<1>2. DOMAIN journal' = 1 .. Len(journal) + 1
      /\ journal'[Len(journal) + 1] = Last'
  BY <1>0, <1>1 DEF Last
<1>3. ASSUME NEW i \in DOMAIN journal'
      PROVE  /\ IsTerminal(journal'[i]) => i = Len(journal')
             /\ journal'[i].sequence = i
             /\ i < Len(journal') => journal'[i].whole
  <2>1. CASE i = Len(journal) + 1
    BY <1>0, <1>1, <1>2, <2>1
  <2>2. CASE i \in 1 .. Len(journal)
    <3>1. journal'[i] = journal[i] /\ i \in DOMAIN journal /\ journal # <<>>
      BY <1>0, <1>1, <2>2
    <3>2. journal[i].sequence = i
      BY <3>1 DEF LinesInv
    <3>3. IsTerminal(journal[i]) => i = Len(journal)
      BY <3>1 DEF LinesInv
    <3>4. ~ IsTerminal(journal[i])
      BY <3>1, <3>3 DEF Open, Last
    <3>5. journal[i].whole
      BY <1>0, <3>1, <2>2 DEF LinesInv, Open, Last
    <3> QED BY <3>1, <3>2, <3>4, <3>5
  <2> QED BY <1>0, <1>2, <2>1, <2>2
<1>4. LinesInv'
  BY <1>3 DEF LinesInv
<1>5. \A i \in DOMAIN journal : /\ i \in DOMAIN journal'
                                /\ journal[i].whole => journal'[i].whole
  BY <1>0, <1>1, <1>2
<1>6. \A n : Readable(n) => Readable(n)'
  BY <1>5, ReadableStays
<1> QED BY <1>1, <1>4, <1>6

(* The last line comes to be whole and keeps what it says. *)
LEMMA LineDone ==
    ASSUME TypeOK, LinesInv, journal # <<>>, FinishLine(Len(journal))
    PROVE  /\ LinesInv' /\ journal' # <<>> /\ Len(journal') = Len(journal)
           /\ Last'.event = Last.event /\ Last'.whole = TRUE
           /\ \A n : Readable(n) => Readable(n)'
<1>0. journal \in Seq(Line) /\ Len(journal) \in Nat
      /\ DOMAIN journal = 1 .. Len(journal) /\ Len(journal) \in DOMAIN journal
  BY LastType DEF TypeOK
<1>1. /\ journal' \in Seq(Line) /\ Len(journal') = Len(journal)
      /\ DOMAIN journal' = DOMAIN journal
      /\ \A i \in DOMAIN journal :
            /\ journal'[i].sequence = journal[i].sequence
            /\ journal'[i].event = journal[i].event
            /\ i # Len(journal) => journal'[i] = journal[i]
            /\ i = Len(journal) => journal'[i].whole = TRUE
  BY <1>0, FinishLineType
<1>2. Last'.event = Last.event /\ Last'.whole = TRUE
  BY <1>0, <1>1 DEF Last
<1>3. journal' # <<>>
  <2>1. Len(journal') # 0
    BY <1>0, <1>1
  <2> QED BY <2>1
<1>4. ASSUME NEW i \in DOMAIN journal'
      PROVE  /\ IsTerminal(journal'[i]) => i = Len(journal')
             /\ journal'[i].sequence = i
             /\ i < Len(journal') => journal'[i].whole
  <2>1. i \in DOMAIN journal /\ journal[i].sequence = i
        /\ (journal[i].event \in TerminalEvents => i = Len(journal))
        /\ (i < Len(journal) => journal[i].whole)
    BY <1>1 DEF LinesInv, IsTerminal
  <2>2. journal'[i].sequence = i
        /\ (journal'[i].event \in TerminalEvents => i = Len(journal))
    BY <1>1, <2>1
  <2>3. i < Len(journal) => journal'[i].whole
    <3> SUFFICES ASSUME i < Len(journal) PROVE journal'[i].whole
      OBVIOUS
    <3>1. i # Len(journal)
      BY <1>0, <2>1
    <3>2. journal'[i] = journal[i]
      BY <1>1, <2>1, <3>1
    <3> QED BY <2>1, <3>2
  <2> QED BY <1>1, <2>2, <2>3 DEF IsTerminal
<1>5. LinesInv'
  BY <1>4 DEF LinesInv
<1>6. \A i \in DOMAIN journal : /\ i \in DOMAIN journal'
                                /\ journal[i].whole => journal'[i].whole
  BY <1>1
<1>7. \A n : Readable(n) => Readable(n)'
  BY <1>6, ReadableStays
<1> QED BY <1>1, <1>2, <1>3, <1>5, <1>7

(* What the stream reads can be read, and is everything once it is whole. *)
LEMMA ReadsReadable ==
    ASSUME TypeOK, LinesInv, ReadTail
    PROVE  Readable(view') /\ (LastIsWhole => view' = Len(journal))
<1> DEFINE T == {0} \cup {n \in DOMAIN journal :
                             \A i \in 1 .. n : Parses(journal[i])}
<1>1. Len(journal) \in Nat /\ DOMAIN journal = 1 .. Len(journal)
  BY LastType DEF TypeOK
<1>2. T \subseteq 0 .. Len(journal) /\ T # {}
  BY <1>1
<1>3. \A n \in T : \A i \in 1 .. n : i \in DOMAIN journal /\ journal[i].whole
  <2>1. ASSUME NEW n \in T, NEW i \in 1 .. n
        PROVE  i \in DOMAIN journal /\ journal[i].whole
    <3>1. n \in DOMAIN journal /\ Parses(journal[i])
      BY <2>1
    <3> QED BY <1>1, <3>1 DEF Parses
  <2> QED BY <2>1
<1>4. LastIsWhole => Len(journal) \in T
  <2>1. CASE journal = <<>>
    BY <1>1, <2>1
  <2>2. ASSUME journal # <<>>, Last.whole, NEW i \in 1 .. Len(journal)
        PROVE  Parses(journal[i])
    <3>1. i < Len(journal) => journal[i].whole
      BY <1>1, <2>2 DEF LinesInv
    <3>2. i \in Nat /\ i <= Len(journal)
      BY <1>1
    <3>3. \A a, b \in Nat : a <= b => a = b \/ a < b
      OBVIOUS
    <3>4. i = Len(journal) \/ i < Len(journal)
      BY <1>1, <3>2, <3>3
    <3> QED BY <2>2, <3>1, <3>4 DEF Parses, Last
  <2>3. journal # <<>> => Len(journal) \in DOMAIN journal
    BY LastType DEF TypeOK
  <2> QED BY <2>1, <2>2, <2>3 DEF LastIsWhole
<1>5. view' = Max(T)
  BY DEF ReadTail
<1> HIDE DEF T
<1>6. Max(T) \in T /\ \A y \in T : Max(T) >= y
  BY <1>1, <1>2, GreatestLine
<1>7. Readable(view')
  BY <1>3, <1>5, <1>6 DEF Readable
<1>8. Max(T) \in Nat /\ Max(T) <= Len(journal)
  <2>1. Max(T) \in 0 .. Len(journal)
    BY <1>2, <1>6
  <2> QED BY <1>1, <2>1
<1>9. LastIsWhole => Max(T) = Len(journal)
  <2>1. LastIsWhole => Max(T) >= Len(journal)
    BY <1>4, <1>6
  <2> QED BY <1>1, <1>8, <2>1
<1> QED BY <1>5, <1>7, <1>9

(* There are as many whole lines as can be read at least. *)
LEMMA CountsReadable ==
    ASSUME TypeOK, NEW n \in Nat, Readable(n)
    PROVE  n <= Cardinality({i \in DOMAIN journal : journal[i].whole})
<1> DEFINE W == {i \in DOMAIN journal : journal[i].whole}
<1>1. Len(journal) \in Nat /\ DOMAIN journal = 1 .. Len(journal)
  BY LastType DEF TypeOK
<1>2. IsFiniteSet(1 .. Len(journal)) /\ Cardinality(1 .. n) = n
  <2>1. \A a, b \in Int : /\ IsFiniteSet(a .. b)
                           /\ Cardinality(a .. b) = IF a > b THEN 0 ELSE b - a + 1
    BY FS_Interval
  <2>2. Cardinality(1 .. n) = IF 1 > n THEN 0 ELSE n - 1 + 1
    BY <2>1
  <2> QED BY <1>1, <2>1, <2>2
<1>3. W \subseteq 1 .. Len(journal) /\ 1 .. n \subseteq W
  BY <1>1 DEF Readable
<1>4. IsFiniteSet(W)
  BY <1>2, <1>3, FS_Subset
<1>5. Cardinality(1 .. n) <= Cardinality(W)
  BY <1>3, <1>4, FS_Subset
<1> QED BY <1>2, <1>5

(* A step of the run or the stream finds no process recovering. *)
LEMMA AliveStep ==
    ASSUME StartInv, alive, alive', UNCHANGED <<startup, found, sawDead>>
    PROVE  StartInv'
<1>1. ASSUME NEW s \in Starters PROVE StartOk(s)'
  <2>1. StartOk(s)
    BY DEF StartInv
  <2>2. ~ sawDead[s]
    BY <2>1 DEF StartOk
  <2>3. startup[s] \notin {"read", "append", "emit"}
    BY <2>1, <2>2 DEF StartOk
  <2> QED BY <2>2, <2>3 DEF StartOk
<1> QED BY <1>1 DEF StartInv

(* Steps of the run keep what it has to keep of its journal. *)
LEMMA RunKeeps ==
    ASSUME TypeOK, LinesInv, RunInv, StreamInv, RunStep \/ GraphRaises
    PROVE  LinesInv' /\ RunInv' /\ StreamInv'
<1> USE DEF runVars, streamVars, startVars, LastIsWhole, Closed, Open, IsTerminal
<1>0. /\ Len(journal) \in Nat
      /\ view \in Nat /\ delivered \in Nat /\ sequence \in Nat
      /\ journal # <<>> => Last \in Line
  BY LastType DEF TypeOK
<1>1. CASE BeginManifest \/ FinishManifest \/ CloseGenerator \/ GraphRaises
  <2>1. UNCHANGED journal
    BY <1>1 DEF BeginManifest, FinishManifest, CloseGenerator, GraphRaises
  <2>2. Last' = Last /\ LinesInv' /\ \A n : Readable(n) => Readable(n)'
    BY <2>1, LinesStay
  <2>3. RunInv'
    BY <1>1, <2>1, <2>2 DEF BeginManifest, FinishManifest, CloseGenerator,
       GraphRaises, RunInv
  <2>4. StreamInv'
    BY <1>1, <2>1, <2>2 DEF BeginManifest, FinishManifest, CloseGenerator,
       GraphRaises, StreamInv
  <2> QED BY <2>2, <2>3, <2>4
<1>2. ASSUME NEW e \in Events, GraphEvent(e), alive, run = "graph",
             e = "run_cancelled" => stream = "left"
      PROVE  LinesInv' /\ RunInv' /\ StreamInv'
  <2>1. /\ sequence = Len(journal) /\ (journal # <<>> => Open)
        /\ sequence' = sequence + 1 /\ BeginLine(sequence + 1, e)
        /\ run' = "emit" /\ UNCHANGED <<alive, result, streamVars>>
    BY <1>2 DEF RunInv, GraphEvent
  <2>2. /\ LinesInv' /\ journal' # <<>> /\ Len(journal') = Len(journal) + 1
        /\ Last'.event = e /\ Last'.whole = FALSE
        /\ \A n : Readable(n) => Readable(n)'
    BY <2>1, LineBegun
  <2>3. RunInv'
    BY <1>0, <1>2, <2>1, <2>2 DEF RunInv
  <2>4. StreamInv'
    BY <1>0, <1>2, <2>1, <2>2 DEF StreamInv
  <2> QED BY <2>2, <2>3, <2>4
<1>3. CASE Progress \/ Conclude \/ CancelInNode
  <2>1. PICK e \in Events : /\ GraphEvent(e) /\ alive /\ run = "graph"
                            /\ e = "run_cancelled" => stream = "left"
    BY <1>3 DEF Progress, Conclude, CancelInNode, Events, GraphOutcomes,
       TerminalEvents
  <2> QED BY <1>2, <2>1
<1>4. CASE FinishEvent
  <2>1. /\ alive /\ run = "emit" /\ FinishLine(Len(journal))
        /\ UNCHANGED <<alive, sequence, streamVars>>
    BY <1>4 DEF FinishEvent
  <2>2. /\ journal # <<>> /\ ~ Last.whole /\ sequence = Len(journal)
        /\ Last.event = "run_cancelled" => stream = "left"
    BY <2>1 DEF RunInv
  <2>3. /\ LinesInv' /\ journal' # <<>> /\ Len(journal') = Len(journal)
        /\ Last'.event = Last.event /\ Last'.whole = TRUE
        /\ \A n : Readable(n) => Readable(n)'
    BY <2>1, <2>2, LineDone
  <2>4. \/ /\ Last.event \in TerminalEvents /\ run' = "close"
           /\ result' = IF Last.event = "run_cancelled" THEN "cancelled"
                        ELSE "returned"
        \/ /\ Last.event \notin TerminalEvents /\ run' = "graph"
           /\ result' = result
    BY <1>4 DEF FinishEvent
  <2>5. RunInv'
    BY <1>0, <2>1, <2>2, <2>3, <2>4 DEF RunInv
  <2>6. StreamInv'
    BY <1>0, <2>1, <2>3 DEF StreamInv
  <2> QED BY <2>3, <2>5, <2>6
<1>5. CASE CloseIncomplete
  <2>1. alive /\ run = "close" /\ (journal # <<>> => Last.whole)
        /\ UNCHANGED <<alive, sequence, result, streamVars>>
    BY <1>5 DEF CloseIncomplete, RunInv
  <2>2. CASE NothingToClose
    <3>1. run' = "over" /\ UNCHANGED journal
      BY <1>5, <2>2 DEF CloseIncomplete
    <3>2. Last' = Last /\ LinesInv' /\ \A n : Readable(n) => Readable(n)'
      BY <3>1, LinesStay
    <3>3. RunInv'
      BY <2>1, <2>2, <3>1, <3>2 DEF RunInv, NothingToClose
    <3>4. StreamInv'
      BY <2>1, <3>1, <3>2 DEF StreamInv
    <3> QED BY <3>2, <3>3, <3>4
  <2>3. CASE ~ NothingToClose
    <3>1. run' = "closeEmit" /\ BeginLine(ClosingSequence, ClosingEvent)
          /\ Open
      BY <1>5, <2>1, <2>3 DEF CloseIncomplete, NothingToClose
    <3>2. ClosingSequence = Len(journal) + 1
      BY <3>1, LastType DEF ClosingSequence, LinesInv, Last, TypeOK
    <3>3. ClosingEvent \in TerminalEvents /\ ClosingEvent \in Events
      BY DEF ClosingEvent, Events, TerminalEvents, GraphOutcomes
    <3>4. BeginLine(Len(journal) + 1, ClosingEvent) /\ (journal # <<>> => Open)
      BY <3>1, <3>2
    <3>5. /\ LinesInv' /\ journal' # <<>> /\ Len(journal') = Len(journal) + 1
          /\ Last'.event = ClosingEvent /\ Last'.whole = FALSE
          /\ \A n : Readable(n) => Readable(n)'
      BY <3>3, <3>4, LineBegun
    <3>6. RunInv'
      BY <2>1, <3>1, <3>3, <3>5 DEF RunInv
    <3>7. StreamInv'
      BY <1>0, <2>1, <3>1, <3>5 DEF StreamInv
    <3> QED BY <3>5, <3>6, <3>7
  <2> QED BY <2>2, <2>3
<1>6. CASE FinishClosing
  <2>1. /\ alive /\ run = "closeEmit" /\ FinishLine(Len(journal))
        /\ run' = "over" /\ UNCHANGED <<alive, sequence, result, streamVars>>
    BY <1>6 DEF FinishClosing
  <2>2. journal # <<>> /\ Last.event \in TerminalEvents
    BY <2>1 DEF RunInv
  <2>3. /\ LinesInv' /\ journal' # <<>> /\ Len(journal') = Len(journal)
        /\ Last'.event = Last.event /\ Last'.whole = TRUE
        /\ \A n : Readable(n) => Readable(n)'
    BY <2>1, <2>2, LineDone
  <2>4. RunInv'
    BY <2>1, <2>2, <2>3 DEF RunInv
  <2>5. StreamInv'
    BY <1>0, <2>1, <2>3 DEF StreamInv
  <2> QED BY <2>3, <2>4, <2>5
<1> QED BY <1>1, <1>3, <1>4, <1>5, <1>6 DEF RunStep

(* Steps of the stream send no line before it is whole, and no stream ends   *)
(* before the run has and everything was read once more.                     *)
LEMMA StreamKeeps ==
    ASSUME TypeOK, LinesInv, RunInv, StreamInv, StreamStep \/ Leave
    PROVE  LinesInv' /\ RunInv' /\ StreamInv'
<1> USE DEF runVars, streamVars, startVars, LastIsWhole, Closed, Open, IsTerminal
<1>0. /\ Len(journal) \in Nat
      /\ view \in Nat /\ delivered \in Nat /\ finished \in BOOLEAN
  BY LastType DEF TypeOK
<1>1. UNCHANGED <<journal, alive, run, sequence, result>>
  BY DEF StreamStep, Sample, ReadTail, Publish, FinishStream, Leave
<1>2. Last' = Last /\ LinesInv' /\ \A n : Readable(n) => Readable(n)'
  BY <1>1, LinesStay
<1>3. stream = "left" => FALSE
  BY DEF StreamStep, Sample, ReadTail, Publish, FinishStream, Leave
<1>4. RunInv'
  BY <1>1, <1>2, <1>3 DEF RunInv
<1>5. CASE Sample
  BY <1>0, <1>1, <1>2, <1>4, <1>5 DEF Sample, StreamInv
<1>6. CASE ReadTail
  <2>1. /\ stream = "read" /\ stream' = "publish"
        /\ UNCHANGED <<finished, delivered>>
        /\ Readable(view') /\ (LastIsWhole => view' = Len(journal))
    BY <1>6, ReadsReadable DEF ReadTail
  <2>2. run = "over" => LastIsWhole
    BY DEF RunInv
  <2>3. Readable(view)' <=> Readable(view')
    BY <1>1 DEF Readable
  <2> QED BY <1>0, <1>1, <1>2, <1>4, <2>1, <2>2, <2>3 DEF StreamInv
<1>7. CASE Publish
  BY <1>0, <1>1, <1>2, <1>4, <1>7 DEF Publish, StreamInv
<1>8. CASE FinishStream
  <2>1. /\ stream = "finish" /\ UNCHANGED <<finished, view, delivered>>
        /\ stream' = IF result = "raised" THEN "error" ELSE "done"
    BY <1>8 DEF FinishStream
  <2>2. run = "over" /\ delivered = Len(journal)
    BY <2>1 DEF StreamInv
  <2>3. result # "none" /\ result # "cancelled"
    BY <2>1, <2>2 DEF RunInv
  <2>4. result # "raised" => journal # <<>>
    BY <2>3 DEF RunInv, TypeOK
  <2> QED BY <1>0, <1>1, <1>2, <1>4, <2>1, <2>2, <2>4 DEF StreamInv
<1>9. CASE Leave
  BY <1>0, <1>1, <1>2, <1>4, <1>9 DEF Leave, StreamInv
<1> QED BY <1>2, <1>4, <1>5, <1>6, <1>7, <1>8, <1>9 DEF StreamStep

(* The death of the process stops the run and the stream where they are. *)
LEMMA DeathKeeps ==
    ASSUME MarksInv, RunInv, StreamInv, StartInv, Die
    PROVE  MarksInv' /\ RunInv' /\ StreamInv' /\ StartInv'
<1>1. /\ alive /\ ~ alive'
      /\ UNCHANGED <<journal, run, sequence, result, stream, finished, view,
                     delivered, startup, found, sawDead>>
  BY DEF Die, runVars, streamVars, startVars
<1>2. Last' = Last /\ \A n : Readable(n) => Readable(n)'
  BY <1>1, LinesStay
<1>3. MarksInv'
  <2>1. \A i : ~ SaidAgain(i)
    BY <1>1 DEF SaidAgain
  <2>2. \A i \in DOMAIN journal : /\ journal[i].sequence = i
                                  /\ IsTerminal(journal[i]) => i = Len(journal)
                                  /\ i < Len(journal) => \/ journal[i].whole
                                                         \/ IsTerminal(journal[i])
    BY <2>1 DEF MarksInv, JournalIsOneHistory, TerminalEventIsLast,
       SequencesCountLines
  <2> QED BY <1>1, <2>2 DEF MarksInv, JournalIsOneHistory, TerminalEventIsLast,
          SequencesCountLines, IsTerminal
<1>4. RunInv'
  BY <1>1, <1>2 DEF RunInv, Closed, IsTerminal
<1>5. StreamInv'
  BY <1>1, <1>2 DEF StreamInv
<1>6. ASSUME NEW s \in Starters PROVE StartOk(s)'
  <2>1. ~ sawDead[s] /\ startup[s] \notin {"read", "append", "emit"}
    BY <1>1 DEF StartInv, StartOk
  <2> QED BY <1>1, <2>1 DEF StartOk
<1> QED BY <1>3, <1>4, <1>5, <1>6 DEF StartInv

(* A starting process that writes nothing leaves the rest as it is. *)
LEMMA QuietStart ==
    ASSUME MarksInv, RunInv, StreamInv, StartInv, NEW s \in Starters,
           UNCHANGED <<journal, alive, runVars, streamVars>>,
           \A t \in Starters : t # s => /\ startup'[t] = startup[t]
                                       /\ found'[t] = found[t]
                                       /\ sawDead'[t] = sawDead[t],
           StartOk(s)'
    PROVE  MarksInv' /\ RunInv' /\ StreamInv' /\ StartInv'
<1>1. UNCHANGED <<journal, alive, run, sequence, result, stream, finished,
                  view, delivered>>
  BY DEF runVars, streamVars
<1>2. Last' = Last /\ \A n : Readable(n) => Readable(n)'
  BY <1>1, LinesStay
<1>3. \A i : SaidAgain(i)' <=> SaidAgain(i)
  BY <1>1 DEF SaidAgain
<1>4. MarksInv'
  BY <1>1, <1>3 DEF MarksInv, JournalIsOneHistory, TerminalEventIsLast,
     SequencesCountLines, IsTerminal
<1>5. RunInv'
  BY <1>1, <1>2 DEF RunInv, Closed, Open, LastIsWhole, IsTerminal
<1>6. StreamInv'
  BY <1>1, <1>2 DEF StreamInv
<1>7. SaidAgain(Len(journal))' <=> SaidAgain(Len(journal))
  BY <1>1 DEF SaidAgain
<1>8. ASSUME NEW t \in Starters, t # s PROVE StartOk(t)'
  <2>1. StartOk(t) /\ startup'[t] = startup[t] /\ found'[t] = found[t]
        /\ sawDead'[t] = sawDead[t]
    BY <1>8 DEF StartInv
  <2> QED BY <1>1, <1>2, <1>7, <2>1 DEF StartOk, Open, Marked, IsTerminal
<1>9. \A t \in Starters : StartOk(t)'
  BY <1>8
<1> QED BY <1>4, <1>5, <1>6, <1>9 DEF StartInv

(* A recovery begins the same last word as those it overlaps. *)
LEMMA MarkBegins ==
    ASSUME TypeOK, HistoryInv, NEW s \in Starters, MarkFailed(s)
    PROVE  MarksInv' /\ RunInv' /\ StreamInv' /\ StartInv'
<1> USE DEF HistoryInv
<1>1. /\ UNCHANGED <<alive, run, sequence, result, stream, finished, view,
                     delivered>>
      /\ found' = found /\ sawDead' = sawDead
  BY DEF MarkFailed, StartFrame, runVars, streamVars
<1>2. /\ startup[s] = "append" /\ startup'[s] = "emit"
      /\ \A t \in Starters : t # s => startup'[t] = startup[t]
      /\ found[s] \in Nat /\ BeginLine(found[s] + 1, "run_failed")
  BY DEF MarkFailed, TypeOK
<1>3. /\ sawDead[s] /\ ~ alive /\ run # "over"
      /\ \/ Open /\ Last.sequence = found[s]
         \/ Marked /\ Last.sequence = found[s] + 1
  BY <1>2 DEF StartInv, StartOk
<1>4. "run_failed" \in Events /\ "run_failed" \in TerminalEvents
  BY DEF Events, TerminalEvents, GraphOutcomes
<1>5. /\ journal \in Seq(Line) /\ Len(journal) \in Nat /\ journal # <<>>
      /\ DOMAIN journal = 1 .. Len(journal) /\ Len(journal) \in DOMAIN journal
  BY <1>3, LastType DEF TypeOK, Open, Marked
<1>6. /\ journal' \in Seq(Line) /\ journal' # <<>>
      /\ Len(journal') = Len(journal) + 1
      /\ \A i \in 1 .. Len(journal) : journal'[i] = journal[i]
      /\ Last' = [sequence |-> found[s] + 1, event |-> "run_failed", whole |-> FALSE]
  <2>1. found[s] + 1 \in Nat
    BY <1>2
  <2> QED BY <1>2, <1>4, <1>5, <2>1, BeginLineType
<1>7. /\ DOMAIN journal' = 1 .. Len(journal) + 1
      /\ journal'[Len(journal) + 1] = Last' /\ journal'[Len(journal)] = Last
      /\ Last'.sequence = found[s] + 1 /\ Last'.event = "run_failed"
  BY <1>5, <1>6 DEF Last
<1>8. ASSUME NEW i, SaidAgain(i) PROVE SaidAgain(i)'
  <2>1. i - 1 \in 1 .. Len(journal) /\ i \in 1 .. Len(journal)
    BY <1>5, <1>8 DEF SaidAgain
  <2>2. journal'[i - 1] = journal[i - 1] /\ journal'[i] = journal[i]
    BY <1>6, <2>1
  <2>3. {i - 1, i} \subseteq DOMAIN journal'
    BY <1>5, <1>7, <2>1
  <2> QED BY <1>1, <1>8, <2>2, <2>3 DEF SaidAgain
<1>9. ASSUME Marked, NEW n \in Nat, n = Len(journal) PROVE SaidAgain(n + 1)'
  <2>1. n - 1 + 1 = n /\ n + 1 - 1 = n /\ {n, n + 1} \subseteq DOMAIN journal'
    BY <1>5, <1>7, <1>9
  <2>2. /\ journal'[n].event = "run_failed"
        /\ journal'[n + 1].event = "run_failed"
        /\ journal'[n + 1].sequence = journal'[n].sequence
    <3>1. ~ Open /\ Last.event = "run_failed"
      BY <1>4, <1>9 DEF Marked, Open, IsTerminal
    <3> QED BY <1>3, <1>7, <1>9, <3>1
  <2>3. ~ alive'
    BY <1>1, <1>3
  <2>4. \A j \in {n + 1 - 1, n + 1} : journal'[j].event = "run_failed"
    BY <2>1, <2>2
  <2>5. /\ {n + 1 - 1, n + 1} \subseteq DOMAIN journal'
        /\ journal'[n + 1].sequence = journal'[n + 1 - 1].sequence
    BY <2>1, <2>2
  <2> QED BY <2>3, <2>4, <2>5 DEF SaidAgain
<1>10. Open => Last.sequence = Len(journal)
  <2>1. SaidAgain(Len(journal)) => Last.event = "run_failed"
    BY DEF SaidAgain, Last
  <2>2. Last.sequence = Len(journal) \/ SaidAgain(Len(journal))
    BY <1>5 DEF MarksInv, JournalIsOneHistory, SequencesCountLines, Last
  <2> QED BY <1>4, <2>1, <2>2 DEF Open, IsTerminal
<1>11. ASSUME NEW i \in DOMAIN journal'
       PROVE  /\ IsTerminal(journal'[i]) => i = Len(journal') \/ SaidAgain(i + 1)'
              /\ journal'[i].sequence = i \/ SaidAgain(i)'
              /\ i < Len(journal') => journal'[i].whole \/ IsTerminal(journal'[i])
  <2>1. CASE i = Len(journal) + 1
    <3>0. Open => ~ Marked
      BY <1>4 DEF Open, Marked, IsTerminal
    <3>1. Open => found[s] = Len(journal)
      BY <1>3, <1>10, <3>0
    <3>2. journal'[i].sequence = i \/ SaidAgain(i)'
      <4>1. CASE Open
        BY <1>7, <2>1, <3>1, <4>1
      <4>2. CASE Marked
        <5>1. PICK n \in Nat : n = Len(journal)
          BY <1>5
        <5>2. i = n + 1
          BY <2>1, <5>1
        <5> QED BY <1>9, <4>2, <5>1, <5>2
      <4> QED BY <1>3, <4>1, <4>2
    <3> QED BY <1>5, <1>6, <2>1, <3>2
  <2>2. CASE i \in 1 .. Len(journal)
    <3>1. journal'[i] = journal[i] /\ i \in DOMAIN journal
      BY <1>5, <1>6, <2>2
    <3>2. journal[i].sequence = i \/ SaidAgain(i)
      BY <3>1 DEF MarksInv, JournalIsOneHistory, SequencesCountLines
    <3>3. IsTerminal(journal[i]) => i = Len(journal) \/ SaidAgain(i + 1)
      BY <3>1 DEF MarksInv, JournalIsOneHistory, TerminalEventIsLast
    <3>4. i = Len(journal) => journal[i] = Last
      BY DEF Last
    <3>5. i < Len(journal) => journal[i].whole \/ IsTerminal(journal[i])
      BY <3>1 DEF MarksInv
    <3>6. IsTerminal(journal[i]) => SaidAgain(i + 1)'
      <4>1. CASE i = Len(journal)
        <5>1. IsTerminal(journal[i]) => Marked
          BY <1>3, <3>4, <4>1 DEF Open, IsTerminal
        <5>2. i \in Nat
          BY <1>5, <2>2
        <5> QED BY <1>9, <4>1, <5>1, <5>2
      <4>2. CASE i # Len(journal)
        BY <1>8, <3>3, <4>2
      <4> QED BY <4>1, <4>2
    <3>7. journal'[i].sequence = i \/ SaidAgain(i)'
      BY <1>8, <3>1, <3>2
    <3>8. i < Len(journal) + 1 => journal[i].whole \/ IsTerminal(journal[i])
      <4>1. i = Len(journal) \/ i < Len(journal)
        BY <1>5, <2>2
      <4>2. i = Len(journal) => journal[i].whole \/ IsTerminal(journal[i])
        BY <1>3, <1>4, <3>4 DEF Open, Marked, IsTerminal
      <4> QED BY <3>5, <4>1, <4>2
    <3> QED BY <1>6, <3>1, <3>6, <3>7, <3>8 DEF IsTerminal
  <2> QED BY <1>5, <1>7, <2>1, <2>2
<1>12. MarksInv'
  BY <1>11 DEF MarksInv, JournalIsOneHistory, TerminalEventIsLast,
     SequencesCountLines
<1>13. RunInv'
  BY <1>1, <1>3, <1>6 DEF RunInv
<1>14. \A n : Readable(n) => Readable(n)'
  <2>1. \A i \in DOMAIN journal : /\ i \in DOMAIN journal'
                                  /\ journal[i].whole => journal'[i].whole
    BY <1>5, <1>6, <1>7
  <2> QED BY <2>1, ReadableStays
<1>15. StreamInv'
  BY <1>1, <1>3, <1>14 DEF StreamInv
<1>16. Marked'
  BY <1>1, <1>3, <1>6, <1>7 DEF Marked
<1>17. ASSUME NEW t \in Starters PROVE StartOk(t)'
  <2>1. StartOk(t) /\ found'[t] = found[t] /\ sawDead'[t] = sawDead[t]
    BY <1>1 DEF StartInv
  <2>2. CASE t = s
    <3>1. Len(journal') > 1
      BY <1>5, <1>6
    <3> QED BY <1>1, <1>2, <1>3, <1>16, <2>1, <2>2, <3>1 DEF StartOk
  <2>3. CASE t # s
    <3>1. startup'[t] = startup[t]
      BY <1>2, <2>3
    <3>2. startup[t] = "append" => found[t] = found[s]
      <4>1. Open => ~ Marked
        BY <1>4 DEF Open, Marked, IsTerminal
      <4>2. startup[t] = "append" => \/ Open /\ Last.sequence = found[t]
                                     \/ Marked /\ Last.sequence = found[t] + 1
        BY <2>1 DEF StartOk
      <4>3. found[t] \in Nat /\ found[s] \in Nat
        BY DEF TypeOK
      <4> QED BY <1>3, <4>1, <4>2, <4>3
    <3>3. Len(journal') > 1
      BY <1>5, <1>6
    <3>4. startup[t] = "up" /\ sawDead[t] => IsTerminal(Last)' /\ SaidAgain(Len(journal))'
      <4>1. startup[t] = "up" /\ sawDead[t] => IsTerminal(Last)
        BY <1>5, <2>1 DEF StartOk
      <4>2. IsTerminal(Last) => Marked
        BY <1>3 DEF Open
      <4>3. PICK n \in Nat : n = Len(journal)
        BY <1>5
      <4>4. SaidAgain(n + 1)' => SaidAgain(Len(journal))'
        <5>1. n + 1 = Len(journal')
          BY <1>6, <4>3
        <5> QED BY <5>1 DEF SaidAgain
      <4>5. IsTerminal(Last)'
        BY <1>4, <1>7 DEF IsTerminal
      <4> QED BY <1>9, <4>1, <4>2, <4>3, <4>4, <4>5
    <3> QED BY <1>1, <1>3, <1>7, <1>16, <2>1, <3>1, <3>2, <3>3, <3>4 DEF StartOk
  <2> QED BY <2>2, <2>3
<1> QED BY <1>12, <1>13, <1>15, <1>17 DEF StartInv

(* Who finishes its own line makes it readable, unless others wrote into it. *)
LEMMA MarkEnds ==
    ASSUME TypeOK, HistoryInv, NEW s \in Starters, FinishMark(s)
    PROVE  MarksInv' /\ RunInv' /\ StreamInv' /\ StartInv'
<1> USE DEF HistoryInv
<1> DEFINE m == Len(journal)
<1>1. /\ UNCHANGED <<alive, run, sequence, result, stream, finished, view,
                     delivered>>
      /\ found' = found /\ sawDead' = sawDead
  BY DEF FinishMark, StartFrame, runVars, streamVars
<1>2. /\ startup[s] = "emit" /\ startup'[s] = "up"
      /\ \A t \in Starters : t # s => startup'[t] = startup[t]
  BY DEF FinishMark, TypeOK
<1>3. /\ sawDead[s] /\ ~ alive /\ run # "over" /\ Marked /\ m > 1
      /\ journal # <<>> /\ Last.event = "run_failed" /\ IsTerminal(Last)
  BY <1>2 DEF StartInv, StartOk, Marked, IsTerminal, TerminalEvents, GraphOutcomes
<1>4. /\ journal \in Seq(Line) /\ m \in Nat
      /\ DOMAIN journal = 1 .. m /\ m \in DOMAIN journal
  BY <1>3, LastType DEF TypeOK
<1>5. \/ UNCHANGED journal /\ ~ journal[m - 1].whole
      \/ FinishLine(m)
  BY DEF FinishMark
<1>6. /\ DOMAIN journal' = DOMAIN journal /\ Len(journal') = m
      /\ \A i \in DOMAIN journal : /\ journal'[i].sequence = journal[i].sequence
                                   /\ journal'[i].event = journal[i].event
                                   /\ journal[i].whole => journal'[i].whole
  <2>1. CASE UNCHANGED journal
    BY <2>1
  <2>2. CASE FinishLine(m)
    BY <1>4, <2>2, FinishLineType
  <2> QED BY <1>5, <2>1, <2>2
<1>7. /\ Last'.event = Last.event /\ Last'.sequence = Last.sequence
      /\ Last.whole => Last'.whole
  BY <1>4, <1>6 DEF Last
<1>8. \A i : SaidAgain(i) <=> SaidAgain(i)'
  BY <1>1, <1>6 DEF SaidAgain
<1>9. SaidAgain(m) <=> SaidAgain(Len(journal))'
  BY <1>1, <1>6 DEF SaidAgain
<1>10. Last'.whole \/ SaidAgain(m)
  <2>1. CASE FinishLine(m)
    <3>1. journal'[m].whole
      BY <1>4, <2>1, FinishLineType
    <3> QED BY <1>6, <3>1 DEF Last
  <2>2. CASE ~ journal[m - 1].whole
    <3>0. \A a \in Nat : a > 1 => /\ a - 1 \in 1 .. a /\ a - 1 < a
                                  /\ a - 1 + 1 = a /\ a - 1 # a
      OBVIOUS
    <3>1. m - 1 \in DOMAIN journal /\ m - 1 < m /\ m - 1 + 1 = m /\ m - 1 # m
      <4>1. m \in Nat /\ m > 1 /\ DOMAIN journal = 1 .. m
        BY <1>3, <1>4
      <4> HIDE DEF m
      <4> QED BY <3>0, <4>1
    <3>2. IsTerminal(journal[m - 1])
      BY <2>2, <3>1 DEF MarksInv
    <3>3. m - 1 = m \/ SaidAgain(m - 1 + 1)
      BY <3>1, <3>2 DEF MarksInv, JournalIsOneHistory, TerminalEventIsLast
    <3> QED BY <3>1, <3>3
  <2> QED BY <1>5, <2>1, <2>2
<1>11. ASSUME NEW i \in DOMAIN journal'
       PROVE  /\ IsTerminal(journal'[i]) => i = Len(journal') \/ SaidAgain(i + 1)'
              /\ journal'[i].sequence = i \/ SaidAgain(i)'
              /\ i < Len(journal') => journal'[i].whole \/ IsTerminal(journal'[i])
  <2>1. /\ i \in DOMAIN journal
        /\ IsTerminal(journal[i]) => i = m \/ SaidAgain(i + 1)
        /\ journal[i].sequence = i \/ SaidAgain(i)
        /\ i < m => journal[i].whole \/ IsTerminal(journal[i])
    BY <1>6 DEF MarksInv, JournalIsOneHistory, TerminalEventIsLast,
       SequencesCountLines
  <2>2. IsTerminal(journal'[i]) <=> IsTerminal(journal[i])
    BY <1>6, <2>1 DEF IsTerminal
  <2> QED BY <1>6, <1>8, <2>1, <2>2
<1>12. MarksInv'
  BY <1>11 DEF MarksInv, JournalIsOneHistory, TerminalEventIsLast,
     SequencesCountLines
<1>13. journal' # <<>>
  <2>1. Len(journal') # 0
    BY <1>3, <1>4, <1>6
  <2> QED BY <2>1
<1>14. RunInv'
  BY <1>1, <1>3, <1>13 DEF RunInv
<1>15. \A n : Readable(n) => Readable(n)'
  BY <1>6, ReadableStays
<1>16. StreamInv'
  BY <1>1, <1>3, <1>15 DEF StreamInv
<1>17. Marked' /\ IsTerminal(Last)' /\ (Marked => ~ Open)
  BY <1>1, <1>3, <1>7, <1>13 DEF Marked, IsTerminal, Open
<1>18. ASSUME NEW t \in Starters PROVE StartOk(t)'
  <2>1. StartOk(t) /\ found'[t] = found[t] /\ sawDead'[t] = sawDead[t]
    BY <1>1 DEF StartInv
  <2>2. CASE t = s
    BY <1>1, <1>2, <1>3, <1>9, <1>10, <1>17, <2>1, <2>2 DEF StartOk
  <2>3. CASE t # s
    <3>1. startup'[t] = startup[t]
      BY <1>2, <2>3
    <3>2. Len(journal') > 1
      BY <1>3, <1>6
    <3> QED BY <1>1, <1>3, <1>7, <1>9, <1>17, <2>1, <3>1, <3>2 DEF StartOk
  <2> QED BY <2>2, <2>3
<1> QED BY <1>12, <1>14, <1>16, <1>18 DEF StartInv

(* Processes that start leave one history. *)
LEMMA StarterKeeps ==
    ASSUME TypeOK, HistoryInv, NEW s \in Starters,
           Launch(s) \/ Recover(s) \/ StarterDies(s)
    PROVE  MarksInv' /\ RunInv' /\ StreamInv' /\ StartInv'
<1> USE DEF HistoryInv
<1>1. CASE MarkFailed(s) \/ FinishMark(s)
  BY <1>1, MarkBegins, MarkEnds
<1>2. ASSUME Launch(s) \/ Scan(s) \/ ReadLast(s) \/ StarterDies(s)
      PROVE  MarksInv' /\ RunInv' /\ StreamInv' /\ StartInv'
  <2>1. UNCHANGED <<journal, alive, runVars, streamVars>>
    BY <1>2 DEF Launch, Scan, ReadLast, StarterDies, StartFrame
  <2>3. \A t \in Starters : t # s => /\ startup'[t] = startup[t]
                                    /\ found'[t] = found[t]
                                    /\ sawDead'[t] = sawDead[t]
    BY <1>2 DEF Launch, Scan, ReadLast, StarterDies, TypeOK
  <2>4. StartOk(s) /\ alive' = alive /\ run' = run /\ journal' = journal
        /\ Last' = Last
    BY <2>1, LinesStay DEF StartInv, runVars
  <2>5. CASE Launch(s)
    <3>1. startup'[s] = "scan" /\ sawDead'[s] = sawDead[s]
      BY <2>5 DEF Launch, TypeOK
    <3>2. StartOk(s)'
      BY <2>4, <3>1 DEF StartOk
    <3> QED BY <2>1, <2>3, <3>2, QuietStart
  <2>6. CASE StarterDies(s)
    <3>1. startup'[s] = "gone" /\ sawDead'[s] = sawDead[s]
      BY <2>6 DEF StarterDies, TypeOK
    <3>2. StartOk(s)'
      BY <2>4, <3>1 DEF StartOk
    <3> QED BY <2>1, <2>3, <3>2, QuietStart
  <2>7. CASE Scan(s)
    <3>1. manifest \in {"absent", "torn", "whole"} /\ alive \in BOOLEAN
      BY DEF TypeOK
    <3>2. sawDead'[s] <=> manifest = "whole" /\ ~ alive
      BY <2>7 DEF Scan, TypeOK
    <3>3. startup'[s] \in {"up", "failed", "read"}
      BY <2>7, <3>1 DEF Scan, TypeOK, TakenForDead
    <3>4. startup'[s] = "read" <=> manifest = "whole" /\ ~ alive
      BY <2>7, <3>1 DEF Scan, TypeOK, TakenForDead
    <3>5. StartOk(s)'
      BY <2>4, <3>2, <3>3, <3>4 DEF StartOk
    <3> QED BY <2>1, <2>3, <3>5, QuietStart
  <2>8. CASE ReadLast(s)
    <3>1. sawDead'[s] = sawDead[s] /\ startup[s] = "read" /\ sawDead[s]
      BY <2>4, <2>8 DEF ReadLast, StartOk
    <3>2. startup'[s] \in {"up", "failed", "append"}
      BY <2>8 DEF ReadLast, TypeOK
    <3>3. startup'[s] = "up" => Closed
      BY <2>8 DEF ReadLast, TypeOK, Closed, Parses
    <3>4. startup'[s] = "append" => Open /\ found'[s] = Last.sequence
      BY <2>8 DEF ReadLast, TypeOK, Open, Parses
    <3>5. Open => run # "over"
      BY DEF RunInv, Open, Closed
    <3>6. StartOk(s)'
      BY <2>4, <3>1, <3>2, <3>3, <3>4, <3>5 DEF StartOk, Open, Closed, IsTerminal
    <3> QED BY <2>1, <2>3, <3>6, QuietStart
  <2> QED BY <1>2, <2>5, <2>6, <2>7, <2>8
<1> QED BY <1>1, <1>2 DEF Recover

(* Every step keeps the invariant. *)
LEMMA HistoryStep ==
    ASSUME TypeOK, HistoryInv, [Next]_vars
    PROVE  HistoryInv'
<1> USE DEF HistoryInv
<1>0. journal \in Seq(Line) /\ journal' \in Seq(Line)
  BY TypeStep DEF TypeOK
<1>1. CASE RunStep \/ GraphRaises
  <2>1. alive /\ alive' /\ UNCHANGED <<startup, found, sawDead>>
    BY <1>1 DEF RunStep, BeginManifest, FinishManifest, Progress, Conclude,
       CancelInNode, CloseGenerator, FinishEvent, CloseIncomplete,
       FinishClosing, GraphRaises, GraphEvent, startVars
  <2>2. LinesInv
    BY <1>0, <2>1, OneWriter
  <2>3. LinesInv' => MarksInv'
    BY <1>0, <2>1, OneWriterNext
  <2> QED BY <1>1, <2>1, <2>2, <2>3, RunKeeps, AliveStep
<1>2. CASE StreamStep \/ Leave
  <2>1. alive /\ alive' /\ UNCHANGED <<startup, found, sawDead>>
    BY <1>2 DEF StreamStep, Sample, ReadTail, Publish, FinishStream, Leave,
       startVars
  <2>2. LinesInv
    BY <1>0, <2>1, OneWriter
  <2>3. LinesInv' => MarksInv'
    BY <1>0, <2>1, OneWriterNext
  <2> QED BY <1>2, <2>1, <2>2, <2>3, StreamKeeps, AliveStep
<1>3. CASE Die
  BY <1>3, DeathKeeps
<1>4. CASE \E s \in Starters : Launch(s) \/ Recover(s) \/ StarterDies(s)
  BY <1>4, StarterKeeps
<1>5. CASE UNCHANGED vars
  <2>1. UNCHANGED <<journal, alive, run, sequence, result, stream, finished,
                    view, delivered, startup, found, sawDead>>
    BY <1>5 DEF vars, runVars, streamVars, startVars
  <2>2. /\ Last' = Last
        /\ \A n : Readable(n)' <=> Readable(n)
        /\ \A i : SaidAgain(i)' <=> SaidAgain(i)
        /\ SaidAgain(Len(journal))' <=> SaidAgain(Len(journal))
    BY <2>1 DEF Last, Readable, SaidAgain
  <2>3. RunInv' /\ StreamInv'
    BY <2>1, <2>2 DEF RunInv, StreamInv, Closed, Open, LastIsWhole, IsTerminal
  <2>4. StartInv'
    BY <2>1, <2>2 DEF StartInv, StartOk, Marked, Open, IsTerminal
  <2>5. MarksInv'
    BY <2>1, <2>2 DEF MarksInv, JournalIsOneHistory, TerminalEventIsLast,
       SequencesCountLines, IsTerminal
  <2> QED BY <2>3, <2>4, <2>5
<1> QED BY <1>1, <1>2, <1>3, <1>4, <1>5 DEF Next

(* The invariant holds of every state that can be reached. *)
LEMMA HistoryInvHolds == Spec => []HistoryInv
<1>1. Init => HistoryInv
  BY DEF Init, HistoryInv, MarksInv, JournalIsOneHistory, TerminalEventIsLast,
     SequencesCountLines, RunInv, StreamInv, StartInv, StartOk, Readable,
     Closed, Open, LastIsWhole
<1>2. TypeOK /\ HistoryInv /\ [Next]_vars => HistoryInv'
  BY HistoryStep
<1> QED BY <1>1, <1>2, TypeCorrect, PTL DEF Spec

(***************************************************************************)
(* Nothing follows a terminal event and the i-th line has sequence i,      *)
(* however many processes write, die and start, also at one time: only     *)
(* recoveries of one dead run that overlap repeat its last word, with the  *)
(* same sequence.                                                          *)
(***************************************************************************)
THEOREM OneHistory == Spec => []JournalIsOneHistory
<1>1. HistoryInv => JournalIsOneHistory
  BY DEF HistoryInv, MarksInv
<1> QED BY <1>1, HistoryInvHolds, PTL

(***************************************************************************)
(* A stream that says done has sent every line, no run that is over has an *)
(* open journal, and a process that came up, whatever others start with    *)
(* it, has left the run it found dead with a last word, which reads unless *)
(* recoveries overlapped.                                                  *)
(***************************************************************************)
THEOREM EndsWhole == Spec => []RunsEndWhole
<1>1. ASSUME TypeOK, HistoryInv PROVE DoneMeansAllDelivered
  <2>1. delivered <= Cardinality({i \in DOMAIN journal : journal[i].whole})
    BY <1>1, CountsReadable DEF HistoryInv, StreamInv, TypeOK
  <2>2. stream = "done" => delivered = Len(journal) /\ IsTerminal(Last)
    BY <1>1 DEF HistoryInv, StreamInv, RunInv, Closed
  <2> QED BY <2>1, <2>2 DEF DoneMeansAllDelivered
<1>2. ASSUME HistoryInv PROVE EndedRunsAreClosed
  BY <1>2 DEF HistoryInv, RunInv, StartInv, StartOk, Closed, EndedRunsAreClosed,
     Parses
<1>3. TypeOK /\ HistoryInv => RunsEndWhole
  BY <1>1, <1>2 DEF RunsEndWhole
<1> QED BY <1>3, TypeCorrect, HistoryInvHolds, PTL

===============================================================================
