---------------------------- MODULE MadSimBridge ----------------------------
(***************************************************************************)
(* How the distributed engine gets a simulation of a workspace: assess     *)
(* decides how far MadSim can control it, HarnessBuilder writes a harness  *)
(* project that run_smoke_test compiles and runs, and the level decides    *)
(* what a run may be called.  Builders run at once in one directory.       *)
(***************************************************************************)
EXTENDS Naturals, FiniteSets

CONSTANTS Builders, \* HarnessBuilders at work
          Crates, RustFiles, \* of the workspace
          LineNos,  \* bound: lines of a file that matter
          Stamps    \* bound: readings of the system clock

ASSUME BridgeAssumption ==
    /\ Stamps \subseteq Nat /\ Stamps # {} /\ "nobody" \notin Builders
    /\ IsFiniteSet(Crates) /\ IsFiniteSet(RustFiles) /\ IsFiniteSet(LineNos)

\* The entry call of a harness: the line of the LLM's answer that has the form
\* asked for, or a comment.
EntryCalls == {"spawn", "todo"}
Answers == {"no_llm", "error", "spawn_line", "other"}
NoHarness == [entry |-> "none", dir |-> 0, at |-> 0]
Harness == [entry : EntryCalls, dir : Stamps, at : Stamps]
\* Whose main.rs is on disk, was compiled or was run.
Source == Builders \cup {"nobody"}
Stages == {"idle", "rustc", "binary", "passed", "failed"}

VARIABLES holder,    \* RustFiles -> the crates below whose directory a file is
          unreadable,\* the files that cannot be read
          runtimes,  \* lines with tokio::runtime::Runtime::new
          p2p,       \* lines with a libp2p pattern
          hits,      \* of the semantic index: Runtime::new callees, libp2p callees
          level,     \* BridgeLevel
          points,    \* the adapter points of LevelB
          now,       \* the clock
          projects,  \* whose main.rs is on disk, by the stamp in its directory's name
          built,     \* whose main.rs the harness-smoke beside it was compiled from
          harness,   \* Builders -> MadSimHarness
          smoke,     \* Builders -> the stage of the smoke test, and of whose harness
          verdict    \* verification_status_for_distributed_run

bridgeVars == <<holder, unreadable, runtimes, p2p, hits, level, points, now, projects, built, harness, smoke, verdict>>

BridgeInit ==
    /\ holder = [f \in RustFiles |-> {}] /\ unreadable = {} /\ runtimes = {} /\ p2p = {}
    /\ hits = [runtime |-> 0, p2p |-> FALSE]
    /\ level = "none" /\ points = {}
    /\ now \in {t \in Stamps : \A u \in Stamps : t <= u}
    /\ projects = [t \in Stamps |-> "nobody"] /\ built = [t \in Stamps |-> "nobody"]
    /\ harness = [b \in Builders |-> NoHarness]
    /\ smoke = [b \in Builders |-> [stage |-> "idle", of |-> "nobody"]]
    /\ verdict = "none"

Workspace ==
    /\ level = "none" /\ \A f \in RustFiles : holder[f] = {}
    /\ holder' \in [RustFiles -> {c \in SUBSET Crates : c # {}}]
    /\ unreadable' \in {{}} \cup {{f} : f \in RustFiles}
    /\ runtimes' \in SUBSET (RustFiles \X LineNos)
    /\ p2p' \in {{}} \cup {{x} : x \in RustFiles \X LineNos}
    /\ hits' \in [runtime : {0, 2}, p2p : BOOLEAN]
    /\ UNCHANGED <<level, points, now, projects, built, harness, smoke, verdict>>
-----------------------------------------------------------------------------
(* MadSimFeasibilityAssessor::assess.  A file below the directories of two *)
(* members is read for each of them.                                       *)
Seen == {s \in Crates \X RustFiles \X LineNos : s[1] \in holder[s[2]] /\ s[2] \notin unreadable}
RuntimeSites == {s \in Seen : <<s[2], s[3]>> \in runtimes}
RuntimeFiles == {s[2] : s \in RuntimeSites}
AdapterPoints == {s \in Seen : <<s[2], s[3]>> \in p2p}
\* The point of a workspace in which only the semantic index saw libp2p.
SemanticPoint == <<"semantic-index", "Cargo.toml", 1>>

Scattered == Cardinality(RuntimeFiles) >= 2 \/ Cardinality(RuntimeSites) >= 3 \/ hits.runtime >= 2

Assess ==
    /\ level = "none" /\ \E f \in RustFiles : holder[f] # {}
    /\ points' = IF Scattered THEN {}
                 ELSE IF AdapterPoints = {} /\ hits.p2p THEN {SemanticPoint} ELSE AdapterPoints
    /\ level' = IF Scattered THEN "C" ELSE IF points' # {} THEN "B" ELSE "A"
    /\ UNCHANGED <<holder, unreadable, runtimes, p2p, hits, now, projects, built, harness, smoke, verdict>>
-----------------------------------------------------------------------------
(* HarnessBuilder::generate_level_a, of a workspace that was found to be    *)
(* of level A.  The clock may be set back.                                 *)
EntryCall(answer) == IF answer = "spawn_line" THEN "spawn" ELSE "todo"

Clock == /\ level # "none" /\ now' \in Stamps \ {now}
         /\ UNCHANGED <<holder, unreadable, runtimes, p2p, hits, level, points, projects, built, harness, smoke, verdict>>

\* prepare_project_dir names the directory by the clock alone, and creates it
\* or finds it there; write_harness_project writes main.rs, whatever is there.
ProjectDirOnce(at) == CHOOSE t \in Stamps : TRUE
ProjectDir(at) == at
GenerateLevelA(b) == \E answer \in Answers :
    /\ level = "A" /\ harness[b] = NoHarness
    /\ projects' = [projects EXCEPT ![ProjectDir(now)] = b]
    /\ harness' = [harness EXCEPT ![b] = [entry |-> EntryCall(answer), dir |-> ProjectDir(now), at |-> now]]
    /\ UNCHANGED <<holder, unreadable, runtimes, p2p, hits, level, points, now, built, smoke, verdict>>

\* run_smoke_test: rustc reads main.rs, and writes harness-smoke beside it
\* unless a spawn line of the LLM does not compile; then the binary is run.
\* Tests of other builders go on between these.
Test(b, stage, of) == smoke' = [smoke EXCEPT ![b] = [stage |-> stage, of |-> of]]
RustcReads(b) ==
    /\ harness[b] # NoHarness /\ smoke[b].stage = "idle"
    /\ Test(b, "rustc", projects[harness[b].dir])
    /\ UNCHANGED <<holder, unreadable, runtimes, p2p, hits, level, points, now, projects, built, harness, verdict>>
RustcWrites(b) ==
    /\ smoke[b].stage = "rustc"
    /\ \/ /\ built' = [built EXCEPT ![harness[b].dir] = smoke[b].of]
          /\ Test(b, "binary", smoke[b].of)
       \/ harness[smoke[b].of].entry = "spawn" /\ Test(b, "failed", smoke[b].of) /\ UNCHANGED built
    /\ UNCHANGED <<holder, unreadable, runtimes, p2p, hits, level, points, now, projects, harness, verdict>>
RunSmoke(b) ==
    /\ smoke[b].stage = "binary"
    /\ \E stage \in {"passed", "failed"} : Test(b, stage, built[harness[b].dir])
    /\ UNCHANGED <<holder, unreadable, runtimes, p2p, hits, level, points, now, projects, built, harness, verdict>>
-----------------------------------------------------------------------------
(* verification_status_for_distributed_run, which is told whether a trace  *)
(* was captured.                                                           *)
Status(captured) == IF level = "C" THEN "black_box" ELSE IF captured THEN "verified" ELSE "no_trace"
Judge == \E captured \in BOOLEAN :
    /\ level # "none" /\ verdict = "none" /\ verdict' = Status(captured)
    /\ UNCHANGED <<holder, unreadable, runtimes, p2p, hits, level, points, now, projects, built, harness, smoke>>

BridgeNext == \/ Workspace \/ Assess \/ Clock \/ Judge
              \/ \E b \in Builders : GenerateLevelA(b) \/ RustcReads(b) \/ RustcWrites(b) \/ RunSmoke(b)
BridgeSpec == BridgeInit /\ [][BridgeNext]_bridgeVars
-----------------------------------------------------------------------------
BridgeTypeOK ==
    /\ holder \in [RustFiles -> SUBSET Crates] /\ unreadable \subseteq RustFiles
    /\ runtimes \cup p2p \subseteq RustFiles \X LineNos /\ hits \in [runtime : 0..2, p2p : BOOLEAN]
    /\ level \in {"none", "A", "B", "C"}
    /\ points \subseteq (Crates \X RustFiles \X LineNos) \cup {SemanticPoint}
    /\ now \in Stamps /\ projects \in [Stamps -> Source] /\ built \in [Stamps -> Source]
    /\ harness \in [Builders -> Harness \cup {NoHarness}]
    /\ smoke \in [Builders -> [stage : Stages, of : Source]]
    /\ verdict \in {"none", "black_box", "verified", "no_trace"}

\* What passes as the smoke test of a builder is its own harness, whatever the
\* other builders write, compile and run in between, unless one of them read
\* the same time from the clock, which alone names the directories.
\* (prepare_project_dir, run_smoke_test)
SmokeTestsOwn ==
    \A b \in Builders : smoke[b].stage = "passed" =>
        \/ smoke[b].of = b
        \/ \E c \in Builders \ {b} : harness[c] # NoHarness /\ harness[c].at = harness[b].at
=============================================================================
