------------------------------ MODULE ApiServer ------------------------------
(***************************************************************************)
(* The HTTP API (app/api/main.py): which agent answers a request.  An      *)
(* agent is loaded at startup, possibly a degraded one; other retrieval    *)
(* arms and orchestration modes are built on first use and cached, while   *)
(* the indices on disk come, go and are rebuilt.  Handlers build without   *)
(* awaiting, so a request is one step.                                     *)
(***************************************************************************)
EXTENDS Integers, FiniteSets

CONSTANTS
    None,
    IndexedArms,  \* the arms of ARM_NAMES that load an index; "bm25" does not
    DefaultArm,   \* one of them: the arm create_app asks for
    MaxIndexes,   \* bound on the times the indices are rebuilt
    MaxStarts     \* bound on the starts of the server

ArmNames == IndexedArms \cup {"bm25"}
Modes == {"v1", "v2"}

VARIABLES
    indexes,    \* [edition, loads]: the indices on disk
    env,        \* settings of this process: [mode, wantsLive, hasKey]
    starts,
    base,       \* app.state.agent
    degraded,   \* app.state.degraded, by what it tells
    armCache, modeCache,
    asked, served   \* the last request and its answer

serverVars == <<indexes, env, starts, base, degraded, armCache, modeCache, asked, served>>

Init ==
    /\ indexes \in [edition : {1}, loads : BOOLEAN]
    /\ env = None /\ starts = 0
    /\ base = None /\ degraded = "none"
    /\ armCache = <<>> /\ modeCache = <<>>
    /\ asked = None /\ served = None

\* An index is rebuilt, or ceases to load; what is in memory stays.
Reindex ==
    /\ indexes.edition < MaxIndexes
    /\ indexes' \in [edition : {indexes.edition + 1}, loads : BOOLEAN]
    /\ UNCHANGED <<env, starts, base, degraded, armCache, modeCache, asked, served>>

-----------------------------------------------------------------------------
Builds(arm) == arm = "bm25" \/ indexes.loads
Agent(arm, mode, live) ==
    [arm |-> arm, index |-> IF arm = "bm25" THEN 0 ELSE indexes.edition,
     mode |-> mode, live |-> live]

\* lifespan, build_agent: what cannot be had is replaced, and a note says so;
\* the later note takes the place of the earlier.
Start ==
    /\ starts < MaxStarts /\ starts' = starts + 1
    /\ env' \in [mode : Modes, wantsLive : BOOLEAN, hasKey : BOOLEAN]
    /\ LET live == env'.wantsLive /\ env'.hasKey
           arm == IF Builds(DefaultArm) THEN DefaultArm ELSE "bm25"
       IN  \/ /\ base' = Agent(arm, env'.mode, live)
              /\ degraded' = CASE env'.wantsLive # live -> "model"
                               [] env'.wantsLive = live /\ arm # DefaultArm -> "arm"
                               [] OTHER -> "none"
           \/ base' = None /\ degraded' = "corpus"   \* StoreError
    /\ armCache' = <<>> /\ modeCache' = <<>>
    /\ asked' = None /\ served' = None
    /\ UNCHANGED indexes

Health ==
    CASE base = None -> "no_corpus"
      [] base # None /\ degraded # "none" -> "degraded"
      [] OTHER -> "ok"

With(cache, key, agent) == [k \in DOMAIN cache \cup {key} |-> IF k = key THEN agent ELSE cache[k]]

\* agent_for_arm: the base agent for its own arm, for an unknown one, and
\* for one that cannot be built now.
AgentForArm(arm) ==
    CASE arm = base.arm \/ arm \notin ArmNames -> base
      [] arm # base.arm /\ arm \in DOMAIN armCache -> armCache[arm]
      [] arm # base.arm /\ arm \in ArmNames \ DOMAIN armCache ->
           IF Builds(arm) THEN Agent(arm, base.mode, base.live) ELSE base

ArmCached(arm) ==
    LET agent == AgentForArm(arm)
    IN  IF agent = base THEN armCache ELSE With(armCache, arm, agent)

\* Mutation: the mode cache forgets whose mode was switched.
ModeKeyOfMode(agent, mode) == mode

\* id(agent) and the mode; an arm has one agent in the mode of the settings.
ModeKey(agent, mode) == <<agent.arm, mode>>

\* agent_for_mode: the retriever and the client's setting are retained.
AgentForMode(agent, mode) ==
    CASE mode \in {None, agent.mode} -> agent
      [] mode \notin {None, agent.mode} /\ ModeKey(agent, mode) \in DOMAIN modeCache ->
           modeCache[ModeKey(agent, mode)]
      [] OTHER -> [agent EXCEPT !.mode = mode]

ModeCached(agent, mode) ==
    IF mode \in {None, agent.mode} THEN modeCache
    ELSE With(modeCache, ModeKey(agent, mode), AgentForMode(agent, mode))

Ask(request, answer) == asked' = request /\ served' = answer
Refusal(code) == [code |-> code]

\* GET /research/stream; unknown documents are refused after the agent was
\* found, a reconnect before.
Stream ==
    /\ starts > 0
    /\ \E arm \in ArmNames \cup {None, "other"}, mode \in Modes \cup {None} :
         LET wanted == IF arm = None THEN DefaultArm ELSE arm
             agent == AgentForArm(wanted)
         IN  \/ /\ base = None
                /\ Ask([arm |-> wanted, mode |-> mode], Refusal(503))
                /\ UNCHANGED <<armCache, modeCache>>
             \/ /\ Ask([arm |-> wanted, mode |-> mode], Refusal(409))
                /\ UNCHANGED <<armCache, modeCache>>
             \/ /\ base # None
                /\ \E answer \in {Refusal(400), AgentForMode(agent, mode)} :
                     Ask([arm |-> wanted, mode |-> mode], answer)
                /\ armCache' = ArmCached(wanted)
                /\ modeCache' = ModeCached(agent, mode)
    /\ UNCHANGED <<indexes, env, starts, base, degraded>>

\* POST /research: always the agent of the start.
Research ==
    /\ starts > 0
    /\ \E answer \in IF base = None THEN {Refusal(503)} ELSE {Refusal(400), base} :
         Ask([arm |-> None, mode |-> None], answer)
    /\ UNCHANGED <<indexes, env, starts, base, degraded, armCache, modeCache>>

Next == Reindex \/ Start \/ Stream \/ Research

-----------------------------------------------------------------------------
Answered == served # None /\ "arm" \in DOMAIN served

\* A run is made by the arm and in the mode its request names, with the
\* model setting of the server; only an unknown arm, or one that could not be
\* built, is answered by the agent of the start (app/api/main.py:107-149).
RunsAreAsAsked ==
    Answered =>
      /\ served.live = base.live
      /\ served.mode = IF asked.mode = None THEN base.mode ELSE asked.mode
      /\ served.arm \in {asked.arm, base.arm}
      /\ asked.arm \in DOMAIN armCache => served.arm = asked.arm

\* "retain the actual retriever": one arm searches one index, in both modes,
\* however often the indices on disk change (app/api/main.py:141).
ModesShareRetrievers ==
    LET agents == {armCache[a] : a \in DOMAIN armCache} \cup {modeCache[k] : k \in DOMAIN modeCache}
                  \cup IF base = None THEN {} ELSE {base}
    IN  \A a, b \in agents : a.arm = b.arm => a.index = b.index

\* A server that says it is well serves what it was configured to serve, and
\* one that does not, does not.
HealthIsHonest ==
    starts > 0 =>
      (Health = "ok" <=> base # None /\ base.arm = DefaultArm /\ base.live = env.wantsLive)

ServedAsAsked == RunsAreAsAsked /\ ModesShareRetrievers /\ HealthIsHonest

===============================================================================
