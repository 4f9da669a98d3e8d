# A TLA+ verification of cipherpunk-rs

This directory holds TLA+ specifications of the audit workstation in this
repository, the configurations that model-check them with TLC, and proofs that
TLAPS checks. Each module is written from the source it names and is meant to be
read beside it; `PROJECT.json` says, definition by definition, which lines of
which file are modelled.

Contents: [inventory](#1-inventory) · [modules](#2-the-modules) ·
[runs](#3-runs-bounds-and-what-they-show) · [fairness](#4-fairness) ·
[proofs](#5-proofs) · [disagreements](#6-known-disagreements) ·
[not modelled](#7-what-is-not-modelled) · [plan](#8-plan) ·
[running the checks](#9-running-the-checks)

## 1. Inventory

The program audits Rust and zero-knowledge code. A wizard (browser or desktop)
resolves a source, detects its crates, confirms a configuration and creates a
persistent *audit session*. An orchestrator runs *engines* over the workspace and
writes reports. Analysts work through a session's review queue, its explorer
graph and its toolbench. Every LLM call goes through one provider with fallbacks;
every external tool runs in a Docker container.

| Part | Source | State it keeps | Operations | What makes it hard | What must hold |
| --- | --- | --- | --- | --- | --- |
| LLM provider routing | `services/llm/src/role_config.rs` | one circuit breaker per provider (failure count, instant) in a map under an async mutex | `complete_with_role` | any number of calls at once; the lock is not held while a provider is awaited | a failover is reported when, and only when, a provider other than the primary answers; a permanent error of the primary reaches the caller; "exhausted" is only said when everything was tried; a tripped breaker recovers |
| Audit orchestrator | `apps/orchestrator/src/lib.rs` | `run_lock`, shared working memory, failover log, event sink | `run`, `run_tool_action` | audits queue; tool actions do not; engines fail, the adviser suggests retries, LLM calls fail over at any time | one outcome and one event per engine; retries and adviser calls are bounded; a report is about its own run; the lock is always released |
| Review queue and record store | `session-manager/src/state.rs`, `session-store/src/sqlite.rs` | SQLite rows, a search index, an event log; an overlay cache with a TTL | `load_review_queue`, `apply_review_decision`, the annotated graphs | no transaction spans the statements of one handler; statements fail, the process is killed; rule ids repeat | findings come from analysts; reloading the queue changes no open candidate; caches do not outlive what they cache |
| Intake wizard and session lifecycle | `session-manager/src/{lib,state,workflow}.rs` | one state per wizard id and one of the manager's own, each with its caches and its database connection | the wizard's requests, `create_audit_session`, `open_audit_session`, `load_toolbench_context` | the states share only the database; wizards expire; a session is stored statement by statement | a session audits the source its client resolved; what was acknowledged survives a restart |
| Explorer graph freshness | `state.rs`, `web-server/src/lib.rs`, `ui/src/ipc/transport.ts`, `useUnifiedGraph.ts` | the analysis cache, the console log, a poll marker per socket, the hook's generation | overview, full and cluster loads; polls; reconnects; reloads | the source changes on disk; answers and events arrive in any order; sockets break | an out-of-date graph is announced while there is a socket; late answers do not spoil a graph |
| Sandbox executor | `services/sandbox/src/lib.rs` | the container of the execution | `execute` | eight requests to a daemon that may refuse each; a timeout; out-of-memory exits | no container is left behind; a retry does not run beside the attempt it replaces; `execute` returns |
| Research service | `services/research/src/{service,cache}.rs` | a call counter (atomic), a cache with a TTL under a mutex | `query`, `reset_rate_limit` | lookup, counting and insertion are separate steps | never more calls than the budget; no refusal while one is left; no stale all-clear |
| Diff mode | `services/intake/src/diff.rs` | a map over a sled database that one process can open | `open`, `insert`, `get`, `compute_diff` | processes crash between the three steps of an insertion; errors are ignored; git reports renames under the new name; files and findings need not belong to a member | what was inserted is found again; findings get lost, or are kept that are gone, in known ways only |
| Evidence store | `data/evidence/src/lib.rs` | a directory per finding | `save_pack`, `export_zip`, `save` | a pack replaces an older one file by file; an export may read meanwhile | an archive has one pack of a finding, whole |
| Findings pipeline, report generator | `data/findings/src/pipeline.rs`, `services/report/src/{generator,regression}.rs` | the files of an output directory | `deduplicate_findings`, `mark_regression_checks`, `generate_all` | findings of one place come in any order and strength; an output directory is used again; any write may be the last | the strongest finding is kept; a manifest is not ahead of what it describes |
| Project IR, explorer graph builder | `data/project-ir/src`, `session-manager/src/explorer_graph.rs`, `ir_neighborhood` | nodes and edges of four graphs | the Rust and Circom mappers, the explorer's views, the toolbench's neighbourhood | members overlap; names repeat; views are cut | a view is a forest; a neighbourhood has what is near |
| Crypto engine | `engines/crypto/src` | what it read of a workspace | the semantic index, misuse rules, supply chain, Circom and Halo2 checks, zkVM tests, the Kani scaffolder | source is read line by line with regular expressions; hash sets have no order; solvers fail | what is reported holds of the code that was read, and what is called absent is so |
| Distributed engine | `engines/distributed/src` | a simulation's state, a trace | chaos scripts, the invariant monitor, feasibility, harness projects, economic checklists | unsigned clocks; hash maps have no order; builders share a directory | a script's violations are those it calls for; a smoke test is of its own harness |
| Evidence gate | `services/llm/src/evidence_gate.rs` | binaries in one directory | `validate`, `fix_syntax_and_retry` | gates of one process work at once; an LLM rewrites the harness | a gate runs its own binary, with the assertion that was required |

The components interact like this. The web server, the desktop shell and the
command line all call the session manager or the orchestrator. The session
manager locks one state for a whole request; the orchestrator is created with
an event sink and with the failover hook of its provider. Engines and tool actions
share the sandbox. The toolbench and the research tool action share one research
service. The explorer in the browser sees the server through HTTP answers and
through a socket that repeats the tail of the console log.

The engines hand their findings to the pipeline and, through it, to the report and
the evidence store; the engines that generate harnesses pass them through the
evidence gate; the line scanner of the crypto engine also feeds the project IR, from
which the explorer's graphs are built.

The remaining components (core types, the Lean engine, tool actions, LLM evaluation,
source intake, the knowledge base, the shells, workers, the other browser views and
the PDF tool) are in `PROJECT.json` with the reason each is not modelled, and in
[section 7](#7-what-is-not-modelled).

## 2. The modules

Each component has one module, or one per part, with its actions and properties,
and a module `MC…` that fixes a small instance for TLC. Comments over definitions say
what they model; names follow the code. Definitions that no other definition uses
and that stand directly before another one with the same parameters
(`PopDeepest` before `Pop`) are *mutants*: plausible bugs. `PROJECT.json` pairs each
property with one, and the property must fail when the mutant takes the place of the
definition after it.

The eight modules of services and state come first; the thirteen after them model
what engines compute and what an audit writes.

**RoleAwareProvider** and **FailoverPromise**. `failures` and `age` are the fields
of each `CircuitBreakerState`; an `Instant` is reduced to none, fresh or expired,
and `Elapse` is the passing of the reset time. A call goes from `check`
(`is_circuit_open`) to `calling` (the await) to `record` (`record_success`,
`record_failure`): three steps, because each takes and drops the mutex. `pos` is the
place in the chain, with the primary at 0. `FailoverPromise` is what callers rely
on: no breakers, no positions, one answer; a fallback answers only after the primary was
unavailable to that call, and a call is given up only after all were.
`ImplementsPromise` is the refinement, in which the unavailable ones are those that
`trail` says were skipped or failed (`UnavailableTo`).

**AuditRun**. `stage` is the program counter of `run`/`execute_dag`/
`produce_outputs` for the run that holds `run_lock`; `queue` is tokio's FIFO queue.
`Fail`, `Advise`, `Retry` and `GiveUp` are the retry loop with the caps
`MAX_ADVISER_CALLS_PER_AUDIT` and `MAX_RETRIES_PER_ENGINE` as constants. `Failover`
happens during any stage with an LLM call; the tool actions interleave freely, as
they take no lock.

**SessionReview**. One handler runs at a time (the state's mutex), but
`upsert_record` is three autocommitted statements (`WriteRow`, `Unindex`, `Index`)
with the cache drop and the event after them: `StatementFails` and `Restart` may
come between any two. `SeedRules` and `SeedDefault` are the two ways in which
loading an empty queue fills it. `origin` records which workspace a candidate's rule
match came from.

**AuditWizard**. `ui` maps each client (a wizard id, or `Main` for the manager's
own state) to its state. `Serve` is `state_for_wizard`: every wizard request first
drops expired states, its own included. `create_audit_session` is `BeginCreate`,
`StoreSession`, `StoreJob`…, `FinishCreate`, with failures between. `Opens` says
whether a new state gets its database: `SessionStore::open` errors become no store.

**ExplorerFreshness**. Versions of the source tree stand for its contents, and a
graph is the version it was built from. `recent` is the part of the console log that
a poll reads; a stale entry is its timestamp in seconds, because the server
compares those. A socket is down, up or ended: a broken one starts the reconnect timer
(`Disconnect`), one that was closed with a handshake does not (`CloseCleanly`), and
nothing brings it back until the page is loaded anew. `gen` is the hook's
`generationRef`. `lost` is a history variable: it becomes true when the server drops a
stale event, in the four ways it can.

**SandboxRun**. One action per request to Docker, one disjunct per way it can
end. `box` is the container as Docker knows it, `refused` which requests the daemon
turned down. Attempts of one job are run one after the other, as the orchestrator
does.

**ResearchService**. `get`, `add`, `undo`, `fetch`, `insert` are the steps of
`query` between its locks and atomics; the counter wraps at `Wrap` (2^64 in the code).
Toolbench loads ask for all their dependencies while holding the session manager's
lock; tool actions hold none. `published` is the environment: when an advisory
comes into existence.

**DiffMode**. `commits` is a repository of at most `MaxCommits` trees; `Commit` adds any
tree. `inner`, `buffered` and `db` are a process's map, sled's pages and the disk.
`insert` ignores the errors of its steps, so each can fail (`EncodeFails`,
`InsertDbFails`, `FlushFails`); `refused` remembers for which commits. `ComputeDiff` is
`compute_diff` whole. A file lies in any number of members, or in none (`CratesOf`), and a
finding names a crate of its own (`NamedCrate`), which may be none of them. Git decides by
similarity which deleted file was renamed to which added one, and then lists the new
name only: as the files here have no text, `ChangedFiles` leaves any set of deleted files
out, no more of them than there are added ones.

**RustFacts**. A line of a Rust file has two sides: the tokens that `brace_delta` tells
apart and what the regular expressions match, and what it is to the language (the
construct it begins and ends in, what it does to blocks, which function it declares, what
is called in it). `Scan`, one iteration of `scan_file`, sees the first side only and `Tree`,
the syntax tree, the second, so the two can differ: over a brace in a character literal, a
string line that ends in a backslash, a generic function, a turbofish, a pattern, a macro
argument or `Self(`, which look like calls.
`plain` is a history variable: true while the file has "top-level declarations" only,
which a comment of the scanner assumes, and no line whose braces it misreads. `Build` is `SemanticIndex::build` with its three
backends, its timeout and its panic handler.

**EconomicChecks**. Checklists are read (`LoadVectors`), the workspace's files scanned
(`AddFile`; a file may be unreadable), and `CheckVector` decides one vector. The whole
scan may fail (`parsing`), which `analyze` takes for a scan that found nothing.
`Loaded` takes any order by id that is stable, as vectors may share one. Whether one
normalised symbol contains another is a constant relation.

**CryptoRules**. `LoadRule` refuses invalid rules; `EvaluateFile` is what
`evaluate_workspace` does with one file met by the walk of one member, nested members
included; the windows of snippets are clamped at both ends of a file, as in the code.

**SupplyChain**. `Take` is one turn of the breadth-first search: `Arrangements` are the
orders in which a hash set can hand out entries and callees. `judged` is the result for one
advisory.

**CircomCheck**. `Declare`, `Constrain` and `DeclareAndConstrain` are lines of a template;
`constraints` is what the parser makes of them and `meant` what the circuit says.
Witnesses are over a field of prime order `Prime`; `Query` is the formula that `to_smt2`
writes, and `Answered` a solver that is right about it. `NotAnswered` is the random
search, with the integers of the code in place of the field.

**Halo2Check**. `Extract` and `Synthesize` read the methods of chips; the risks, the
solver's answers and `run_phase3_analysis` follow. Two chips may have names one of
which ends with the other.

**ChaosScript**. `ReadStep` is `parse_step`, `Step` one turn of `ScenarioRunner::run` and
`Finish` its end with `TraceCapture::shrink`. `TopTick` is u64::MAX; `RefuseSync` ranges may
end before they start, which wraps in a release build (`Advance`) and panics in a debug
build (`Underflow`).

**SimulationMonitor**. `CheckAll` evaluates every invariant in any order of the node map.

**MadSimBridge**. `Assess` is the feasibility decision; with `GenerateLevelA`, several
builders write projects whose directories are named by the clock; `RustcReads`,
`RustcWrites` and `RunSmoke` are the steps of a smoke test between which others go on.
`Judge` is the verification status, which is told whether a trace was captured.

**HarnessGate**. One record per validation: `Scaffold` or `StartFix` begins it, `Ask` is the
LLM, `CheckText`, `Allocate`, `Compile` and `Run` are `validate` with its two runs. A source is
the sequence of its lines that assert, in code or in a comment.

**FindingOutput**. `Deduplicated` and `IsRegression` are the pipeline; `WriteFile` is one file
of `generate_all`, `WriteFails` an error or the end of the process before it or in the
middle of it, when the file is open and empty. `disk` holds, for each file, the number of
the report that began to write it, and `torn` the files that are not whole.

**EvidencePacks**. `Begin`, `RemoveOld`, `WriteNext` and `SaveStops` are `save_pack`; `StartExport`,
`LoadManifest` and `ReadEntry` are `export_zip`, between any two steps of a save.

**ProjectGraph**. `WalkFile` is what the mappers append for one file; `Laid` and `Below` are
`ExplorerGraphBuilder::build` whole and below a cluster, which retains (`Retain`) what descends
from the cluster; `Select` and `Gather` are `ir_neighborhood`. What the code computes by walking
up and down the containers are recursive functions over the depth, so that it can be reasoned
about.

**StaticEngines** and **Execution** put these modules, all but the
last, side by side. The parts share no variables in the code, so nothing would be learnt from
interleaving them: the first state chooses the part (`engine`, `part`) that
takes all steps. Within a part the interleavings are complete.

## 3. Runs, bounds and what they show

`pass` means that TLC found no error in the complete state space.

| Run | States | What it shows |
| --- | ---: | --- |
| `role_provider` | 444 k | Two concurrent calls over two providers and a name that is not registered. `BreakerConsistent`, `BreakerHealsByItself` (a success of the very provider or the reset time closes a breaker, and nothing else), and the refinement `ImplementsPromise`: a fallback answers only after the primary was unavailable to the call, and "exhausted" is said only after the primary and all registered entries of the chain were. |
| `audit_run` | 354 k | Two queued audits, two engines, three adviser calls, one retry, one tool action, one failover per run: `EveryEngineHasOneOutcome`, `ToldAsItWas` (events match outcomes, warnings are this run's), `BudgetsEscalateAndReset`, `ContextIsWhole`, `EveryStepNearer` (no answer of an engine or the adviser sends a run back) and `RunsEnd`. |
| `session_review` | 142 k | Two rule ids, one time-stamped id, two workspaces, two decisions, failures and restarts everywhere: `FindingsWereConfirmed`, `OverlayCurrent`, `OnlyDecisionsChangeDefaults`, `OpenCandidatesKept`. |
| `audit_wizard` | 200 k | One wizard and the manager's state, two sources, one session of two jobs: `JobsSurvive`, `SessionOfOwnSource` (the session and its crates). |
| `explorer_freshness` | 162 k | One explorer with one cluster, other browsers, three versions, two loads, a log window of two: `FreshOrWarned` (and no loaded cluster is lost), `WarnedUnlessLost`, both for sockets that were not closed cleanly and events that the server did not lose. |
| `sandbox_run` | 24 k | Three attempts, two versions of an image: `LeftBehindOnlyOnRefusal` (and no overlap of attempts), `Returns`. |
| `research` | 379 k | Two loads (one asks twice for a dependency) and a tool action, a budget of two: `RefusedOnlyWhenSpent` (and calls are bounded), `AnswersFresh`. |
| `diff_mode` | 2.2 M | Two processes, three files and a manifest in two crates, a file in neither whose findings name a third, two commits: `InsertedIsKept` (but for swallowed errors), `LossesConfined` (a finding gets lost only in a file of no member at a full rerun, or as an old one whose crate changed or whose base is unknown), `CachedUnlessMoved` (what is cached still stands, but for moved files and misnamed crates). |
| `static_engines` | 1.6 M | `ScannersAgree`: on plain files the line scanner finds the functions, calls and macros of the syntax tree but for generic functions with what is in them, generic calls and what only looks like a call, and nothing else. `AbsenceIsReal`: a call that a checklist misses is in no file that could be read, or the scan failed altogether, when no finding points at code. `MatchesCoverHits`: matches are distinct, stay within their files and cover every line that hit. `SeverityFollowsDistance`: the chain of an advisory is a shortest one, in any order of the hash sets. `VerdictAboutCircuit`: for circuits the parser understands, "constrained" and "under-constrained" are about the circuit; a witness pair of the random search is one. `ChipFindingsExact`: the findings are those of chips with an isolated column and a solver that answered, numbered apart. |
| `execution` | 3.8 M | `ViolationsMatchScript`: the violations, their order and ticks follow from the script alone, and the shrunk trace ends at the first. `MonitorExact`: forks, mismatched roots, duplicates and revocations are reported when, and only when, there are some. `SmokeTestsOwn`: what passes as the smoke test of a builder is its own harness, unless another one read the same time from the clock. `RunsOwnHarness`: both runs of a passing validation were of its own binary, which has the required assertion. `KeptIsStrongest`: deduplication. `ManifestNotAhead`: the Markdown reports, findings and evidence beside a manifest are whole and of its report, or of a later one that stopped; the tests, .typ and .pdf are written after it and may be older. `ExportIsOnePack`: an archive has whole packs. |
| `project_graph` | 17 k | `ViewIsForest`: whole views are forests over the crates with the right counts, and a view below a cluster is its subtree. `NearestFirst`: the toolbench's neighbourhood keeps to its limit and has the nearest nodes, none that is out of reach. |
| `session_review_findings` | | *violation*: see [section 6](#6-known-disagreements). |

`execution` also checks a type invariant (`ExecutionTypeOK`), which says among other things
that no computation leaves its range (a clock past u64::MAX). The other passing runs do not
check theirs, though each holds when it is added to the configuration; TLAPS proves it for all
of them.

Why the bounds are enough to be interesting, and where each bound is:

* `role_provider`: with a threshold of 2, two calls suffice for every order of
  "admit, trip, record": a success admitted before the breaker opened and recorded
  after, two failures that trip together, a chain that meets the default again. The
  failure count saturates at the threshold (`CountMax`), which is where u32::MAX
  would matter.
* `audit_run`: three adviser calls for up to four failures, so the cap bites; three
  budgets allow an escalation and a refused one; two runs are needed for leaks from
  one to the next.
* `session_review`: two decisions allow confirm and then reject, and a decision on each
  of two records. The `other` workspace has a match under an id that `own` also
  uses, which is what deterministic ids make possible.
* `audit_wizard`: one session is enough, because the properties relate one session to
  what its client did; the second client is the manager's own state, which opens it.
* `explorer_freshness`: three versions are needed to fall behind, catch up and fall
  behind again during a load; a window of two makes a burst of one other entry
  between polls lose an event, as thirty do in the code.
* `sandbox_run`: the orchestrator makes at most two attempts; a third does no harm.
* `research`: three users against a budget of two reach the race in which two of
  them are counted before either is compared. `Wrap` is 16: the counter never
  gets near it without a reset, and one reset makes it wrap below zero.
* `diff_mode`: two commits allow inserting at one, diffing to the other in both
  directions and inserting that; two files in one crate are needed for a crate that is only
  partly changed, and a file outside the members for what a full rerun passes over.
  The processes are symmetric.
* `static_engines`: three lines reach a function, its body and what follows it in
  every construct; the bound on files in the economic checks is one because
  its property is about single files; three calls over four functions give two
  chains of different lengths to one target; two constraints over three signals and the
  field of two elements are enough for an output that is determined, free, or
  determined only by the constraint that was misread; three chips with two names
  that end alike make a chip claim another's block.
* `execution`: three steps are an isolation, a clock step and a check; `TopTick` is 3 so
  that the clock saturates and a range that ends before it starts wraps; three nodes
  are the fewest in which the first conflict depends on the order; two gates share one reading of the clock (`GateTimes` = 1), which is
  the case the counter in the path is for; three findings give two of one place and
  one of another in every order; two reports and two packs are an old one and a new
  one.
* `project_graph`: four walks of three files meet a file twice; a limit of four nodes is
  smaller than some neighbourhoods.

Deadlock checking is off in `audit_run` (all audits end), `session_review` (ids and
decisions run out), `sandbox_run` (the last attempt returns), `research` (users end) and
the three runs of engines and artifacts (a computation ends with its result); in these a stop is the
intended end. Symmetry is used for the sources of `audit_wizard` and the processes of
`diff_mode`, whose properties are safety properties over interchangeable values.

## 4. Fairness

* `RoleAwareProvider` `FairSpec`: weak fairness of each call's steps. Providers answer or
  time out (the HTTP client has a timeout), tokio's mutex is FIFO, and the runtime
  polls a ready task. Nothing is assumed of `Begin`, of `Return` or of `Elapse`.
* `AuditRun` `FairSpec`: weak fairness of the holder's steps. Engines run inside
  sandboxed commands with timeouts. Nothing is assumed of failovers, of tool actions or of
  new requests; `RunsEnd` needs only that the queue is first come, first served.
* `ExplorerFreshness` `LiveSpec`: strong fairness of reconnecting, polling and delivery
  for each client: a socket may break any number of times, but a timer that keeps
  coming back is served at last. A socket that was closed cleanly has no timer and is not
  connected again (`Connect` is not enabled), so the property excepts it. Nothing is assumed of users, of other browsers or
  of edits.
* `SandboxRun` `LiveSpec`: weak fairness of `execute`'s own steps, the timer among
  them. The container's process may run for ever, and the daemon may or may not refuse.
* `ResearchService` `FairSpec`: weak fairness of each user's steps. The sources'
  requests have a timeout of ten seconds.
* `SessionReview`, `AuditWizard`, `DiffMode` and the modules of engines and artifacts state
  no liveness: their handlers and computations are sequences of bounded loops that end,
  and what users or developers do next is theirs to choose.

`CallsEnd` (RoleAwareProvider) and `EveryQueryEnds` (ResearchService) are stated under
these assumptions and hold; they are not part of a run, and are checked by adding
them to the `PROPERTIES` of the configuration.

## 5. Proofs

Eight modules prove properties for every value of the constants, under the `ASSUME` that
the component's module states. Each proof has an inductive invariant, a lemma that the
initial states have it and one that every step keeps it (one case per action), and
theorems that follow from it. No property of the runs is inductive as it stands; what
had to be added, and why, is the interesting part.

| Proof module | Theorems (property of a run) | The inductive invariant, and what it adds |
| --- | --- | --- |
| **RoleAwareProviderProofs** | `TypeCorrect`, `BreakersStayConsistent` (`BreakerConsistent`), `FallbackSound`, `ExhaustionSound`, `HealsOnlyByItself` (`BreakerHealsByItself`), `KeepsPromise` (`ImplementsPromise`) | A call at position *n* says nothing about the positions before. `trail` records why each was passed; the recorded reply is the current provider's; a call in `hook` stands at a fallback other than its primary, which makes the reported record truthful. `KeepsPromise` maps every step to a step or a stutter of `FailoverPromise`. |
| **OrchestratorProofs** | `TypeCorrect`, `OutcomesComplete` (`EveryEngineHasOneOutcome`), `BudgetsSound` (`BudgetsEscalateAndReset`), `ContextSound` (`ContextIsWhole`) | `Position`, `History`: `eng`, the length of `outcomes` and the stage belong together; the last attempt is the one under way, with the current budget; the shared memory has no outcomes until `Publish`. |
| | `RunsWindDown` (`EveryStepNearer`) | No more than `Position`: with it every step takes the run a phase, an engine, a counted attempt or a turn of the attempt further. All four are bounded (`TypeCorrect`), so this is the safety half of `RunsEnd`; fairness only adds that the holder moves. |
| | `ToldTruly` (`ToldAsItWas`) | `ToldInv`: an engine has exactly one event of an end exactly if it ended so; the failover log was cleared when the lock was taken, and its events come only with the report. |
| | `DiffTypeCorrect`, `InsertionsKept` (`InsertedIsKept`), `LossesAreConfined` (`LossesConfined`), `CachedFindingsStand` (`CachedUnlessMoved`) | `Right(map)`: a map agrees with the repository on every commit that it knows, kept by inserting and flushing, whatever is lost. `Locked`: one process has the database open, so the crash of another drops no page of an insertion. `OnDisk`: what insert returned for is on the disk or was refused. `DiffRight`: a diff is what its two commits and some choice of renames make it. |
| **SessionReviewProofs** | `TypeCorrect`, `FindingsConfirmed` (`FindingsWereConfirmed`), `OpenCandidatesSafe` (`OpenCandidatesKept`), `DefaultsSafe` (`OnlyDecisionsChangeDefaults`), `OverlaySound` (`OverlayCurrent`) | What is known of a handler between two statements: a seeding handler started without a candidate, seeds different ids and has ids left that hold none; a deciding handler writes what the action makes of the row as it still stands. So each row write repeats a decision or touches no open candidate. `LoggedSoFar`: past its row write a deciding handler has a decision to tell of. |
| **AuditWizardProofs** | `TypeCorrect`, `NoJobLost` (`JobsSurvive`), `OwnSource` (`SessionOfOwnSource`) | `KeptWhileBusy`: no state is dropped while it creates a session. `Bound`: a state's summary and configuration are none or of its source, which is the last its client asked for. `Creating`: a session is made once, by one client, and stands in the database only if that creation put it there. |
| **ResearchProofs** | `TypeCorrect`, `BudgetExact` (`RefusedOnlyWhenSpent`), `NoStaleAnswer` (`AnswersFresh`), `LoadsExclude` | `Counted`: without a reset the counter is the number of grants plus the queries about to give theirs back, so it never wraps, and whoever is refused was refused with all of the budget granted. `Dated`: a "clean" answer on its way, in the cache or given was right at its date. `Locked`: only the holder of the lock is inside a load. |
| **ExplorerProofs** | `TypeCorrect`, `NewsArrives` (`FreshOrWarned`) | `LoadsInOrder`: while a graph is loaded no other request of that load is out and no cluster of it is merged. `SocketFollows`, `NotAhead`, `NewsTravels`: while nothing was lost and the socket not closed for good, a poll marker is not past the last stale event, no answer is newer than the cache, and whoever has or is about to get an older graph is warned or will be. |
| | `ExplorerIsForest` (`ViewIsForest`) | `IrInv`: a symbol's file was walked and only files contain. `ViewFollows`: the graph shown was laid out from the final representation, whole or below a cluster. Before ids are hashed a graph is a set of ids and links, one for one; a container is shorter than what it contains, so parents lead to a crate; what is kept below a cluster is the least set closed under "child of". |
| | `GraphTypeCorrect` | `TextsTyped`: a file that was walked has one of its own texts, and no more files are walked than there may be. |
| | `NeighbourhoodIsNearest` (`NearestFirst`) | `Gathered`: the queue is in order of distance and spans two distances at most, whoever waits in it is at its distance and no nearer, and all the neighbours of whoever was taken out are met. |
| **EngineProofs** | `ScannersAlwaysAgree` (`ScannersAgree`) | `FactsInv`: while the file is plain, the scanner's context is outside every function, waits for a body, or is in the innermost block of a function with a depth that counts the blocks above it (`ContextIsInnermost`); the scanner's mode is the construct that the language is in (`Aligned`); both readers have recorded the same so far (`SameFacts`). |
| | `MatchesAreExact` (`MatchesCoverHits`) | `RulesInv`: the matches so far cover what the rules hit in the visits so far (`Covered`) and each was called for; deduplication keeps the first match of each key (`Deduped`), and a window holds its line (`Windowed`). |
| | `VerdictIsAboutTheCircuit` (`VerdictAboutCircuit`) | `CircomInv`: on a plain circuit every constraint read has, for every assignment, the values of the one meant (`ReadAsMeant`), since splitting a product at its first factor keeps its value; an assignment that propagation completes is one of the signals. |
| | `ChipsReportedTruly` (`ChipFindingsExact`) | `ZkInv`: every chip at risk stands once in the queue; the answers still missing are those of the chips left in it. |
| | `AbsenceIsProved` (`AbsenceIsReal`) | `EconInv`: every finding is of a vector that the workspace, which no longer changes, triggers. `Blind`: after a scan that failed, no finding is located. |
| | `SeverityIsByDistance` (`SeverityFollowsDistance`) | `SupplyInv`: the queue is in order of length and holds shortest chains; whatever was visited waits in it or has all its callees visited; the whole level of its front was visited. |
| | `StaticTypeCorrect` | One theorem for each part (`FactsTypeCorrect`, `EconTypeCorrect`, `RulesTypeCorrect`, `SupplyTypeCorrect`, `CircomTypeCorrect`, `Halo2TypeCorrect`), and `StaticRunsParts`: side by side, each part behaves as its own specification says or stands still. `ScannerTyped`: a context that comes back to depth zero is dropped. The invariants of the parts carry over to the run in the same way. |
| **ExecutionProofs** | `SandboxTypeCorrect`, `NothingLeftBehind` (`LeftBehindOnlyOnRefusal`) | `InOrder`: attempts before the current one have returned, later ones have sent nothing. `RemovedUnlessRefused`: every way out of `execute` asks for the removal. |
| | `ReportIsScripts` (`ViolationsMatchScript`) | `ChaosInv`: what the runner has seen, traced and reported after *n* steps is what the script says up to there. |
| | `MonitorReportsTruly` (`MonitorExact`) | A scan of the nodes, in any order, knows the first value of each height until it meets a conflict (`ScanKnows`). |
| | `SmokeTestIsOwn` (`SmokeTestsOwn`) | `Owned`: what lies in the directory of a builder, as source or as binary, and what its test works on is its own or of a builder that read the same time. |
| | `VerdictOfOwnHarness` (`RunsOwnHarness`) | `GateInv`: the counter in the path only grows, so the binaries of calls at work differ; what the text checks established stays true until the verdict. |
| | `PipelineKeepsStrongest` (`KeptIsStrongest`) | `BestOfEach`: of the findings merged so far one is kept of each key, the first of the strongest, in order of appearance. |
| | `ArchiveIsWhole` (`ExportIsOnePack`) | `PackInv`: what stands in a directory is of one pack; a manifest there is of a pack of which nothing was refused; for a finding that no save disturbed, the archive and the list still to read are together what the manifest names. |
| | `ExecutionTypeCorrect` (`ExecutionTypeOK`) | As for `StaticTypeCorrect`, from `ChaosTypeCorrect`, `MonitorTypeCorrect`, `BridgeTypeCorrect`, `GateTypeCorrect`, `OutputTypeCorrect` and `PackTypeCorrect`. `ChaosBounded`: the trace has only steps that were read and the shrunk one is a part of it. `BlamedAreNodes`: a conflict is between nodes of the scan. `KeptAreCollected`: a merge keeps numbers of findings. |
| | `ManifestBehind` (`ManifestNotAhead`) | `WrittenInOrder`: the files before the one being written are this report's and whole, the others are of earlier ones, and none is newer. |

The state invariants without a property in brackets (`TypeCorrect` and its like, `FallbackSound`, `ExhaustionSound`,
`LoadsExclude`) are in no run, since a theorem says more than a small instance.

Recursive functions and folds are not out of reach, although the induction theorems
of the library are. `Repeated` (EngineProofs) says that a step repeated *n*
times from a start has values for all *n* + 1 of them; it is proved by the least
counterexample (`LeastNat`), without an operator as parameter. The monitor's scan, the
pipeline's merge, the levels of the call graph, the two readings of a line of Rust, the
deduplication of matches, the value of a constraint and the descent through the explorer's
containers are all of this form. ExecutionProofs extends EngineProofs for these lemmas;
ExplorerProofs repeats the four of them that it needs, as the definitions of the engines
have names in common with the explorer's.

The proof of `ScannersAlwaysAgree` corrected the model: `Reads`, the condition that a
file parses, let a block be closed between a function's name and its body. No real file
does, and on such a file the two readers part; within the run's bounds TLC had not
come upon one.

What the proofs assume of the constants, beyond that bounds are numbers and sets are what
their names say, and why the code justifies it:

* `Ttl` of the research cache is positive (cache.rs:6, a day), and the counter's width
  exceeds the budget and the number of users (64 bits).
* The placeholder for "none" is not a wizard state, session, node or source; the words
  "overview" and "full" are not names of clusters, which the server numbers; "manifest.json" is
  the store's own file and no file of a pack.
* Nodes, chips, functions, crates, files, lines and the checks of a rule are finite; an
  expression of a circuit is a sequence of products; "none" is no name in a Rust file.
* `GraphAssumption`: a path is not empty and no file is a directory on the way to another, which
  the file system sees to; the text of a file is, for each construct, a list.
* There is a function in the workspace (`StaticTypeCorrect`, `SupplyTypeCorrect` only): an advisory
  is about one, and without any there is nothing to search.
* `GateAssumption`: the answers of the LLM include an assertion other than the required one,
  which leaves the model more behaviours, not fewer.

Only model-checked:

* Liveness under fairness (`RunsEnd`, `WarnedUnlessLost`, `Returns`): this prover has neither
  fairness nor ENABLED.

All the invariants of passing runs, and the action properties, are theorems.

## 6. Known disagreements

These properties state what a document says and the code does not do. The first is a
run of `PROJECT.json`. To see the counterexample of another one, replace the properties
in the configuration named beside it by that property (an `INVARIANT`, or a `PROPERTY` if
it is written with `[]` or `~>`).

| Property (configuration) | The document | The code |
| --- | --- | --- |
| `FindingsKept` (MCSessionReviewFindings) | v3-hybrid-audit-workstation-design.md:106: a session "Stores … candidates, findings" | state.rs:1554: once no candidate is left, loading the queue upserts every rule match under its deterministic id, confirmed findings included |
| `BannerAppears` (MCExplorerFreshness) | explorer-api-integration-design.md:639: "Stale notification \| Emit event, banner appears" | state.rs:1239: the cache is updated before the event is appended, so a failed append is never repeated; the server also drops events of one second, events older than thirty entries, and changes across a restart; after a clean close (transport.ts:341) the page does not connect again |
| `LimitPerSession` (MCResearchService) | plan6-t4-expansion.md:36: "max 10 API calls per session" | service.rs:72: the counter belongs to the service, which all sessions share; nothing resets it |
| `NothingLost` (MCDiffMode) | README.md:122: diff mode "re-analyzes only the crates affected … and caches results from unchanged modules" | diff.rs:163: changed *files* are analysed again, but the cached findings of their whole crate are dropped; diff.rs:155: a full rerun has tasks for members only |
| `CachedFromUnchanged` (MCDiffMode) | implementation-plan-v2.md:2461: `cached_findings` are "from unchanged modules" | diff.rs:213: a file moved out of a crate is listed under its new name only, so its finding stays cached; so do findings that name no affected crate |
| `FailoversSurfaced` (MCAuditRun) | plan5-t2t3-resilience.md:33: a failover is "surfaced as a runtime warning/event" | orchestrator lib.rs:641: the failover log is copied before the report's own LLM calls |
| `ToolResultsKept` (MCAuditRun) | plan6-t4-expansion.md:29: "`WorkingMemory` maintains session-scoped context" | orchestrator lib.rs:621: the end of a run overwrites the shared memory |
| `CandidatesOfSnapshot` (MCSessionReview) | v3-…-design.md:106: a session is "bound to one project snapshot" | state.rs:1494: rules are evaluated on the workspace confirmed last |
| `SearchFindsRecords` (MCSessionReview) | v3-hybrid-audit-workstation.md:1124: "local persistence and search survive restarts" | sqlite.rs:177: the row and its search entry are separate statements |
| `DecisionsReachConsole` (MCSessionReview) | v3-rollout-checklist.md:17: "Confirm actions are reflected in session console events" | state.rs:1198: the event comes after the row; a failure in between leaves no event |
| `SessionsPersistent` (MCAuditWizard) | v3-hybrid-audit-workstation.md:1119: "wizard mode creates persistent audit sessions" | state.rs:364: a database that does not open is treated like none |
| `OpenShowsAllJobs` (MCAuditWizard) | v3-…-design.md:106: "Stores … job history" | state.rs:628: a session opened while it is created caches the jobs stored so far |
| `ManifestOfSession` (MCAuditWizard) | 2026-03-20-web-ui-design.md:128, "`GET /api/sessions/:id/manifest`" | web-server lib.rs:610: the manifest is the one of the configuration confirmed last |
| `PlanPersisted` (MCAuditWizard) | plan4-t2-visibility-control.md:30: an AuditPlan "is persisted" | state.rs:1103: no plan is made for sessions created under a wizard id |
| `SuppressedWhileLoading` (MCExplorerFreshness) | explorer-api-integration-design.md:441: "suppress it" while loading | useUnifiedGraph.ts:175: the banner is raised all the same |
| `TimeoutKillsContainer` (MCSandboxRun) | implementation-plan-v2.md:1106: "Timeout kills the container" | sandbox lib.rs:253: the kill's failure is ignored |
| `DigestOfContainer` (MCSandboxRun) | implementation-plan-v2.md:1108: digest "matches docker inspect" | sandbox lib.rs:329: the image *name* is inspected after the run |
| `NoRedundantCalls` (MCResearchService) | plan6-t4-expansion.md:21: caching prevents "redundant network calls" | service.rs:65: the cache is unlocked between lookup and insertion |
| `UnverifiedIsLabelled` (MCExecution) | implementation-plan-v2.md:2427: "Verified / Unverified labels present on every finding in technical report" | generator.rs:93: every finding goes to the section "Verified Findings", which shows no status |
| `AssertionsUnchanged` (MCExecution) | evidence_gate.rs:249, the prompt of the fix loop: no assertion may be added, removed or changed | evidence_gate.rs:209: there may only not be more of them, and the first one must still be there |
| `ViolationPreserved` (MCExecution) | implementation-plan-v2.md:2165: shrink a trace "while preserving violation" | trace.rs:99: of a long trace the first event and the last ones before the violation are kept, without what caused it |
| `TestCodeSkipped` (MCStaticEngines) | rules/mod.rs:658: "Skip the entire mod block decorated with #[cfg(test)]" | the visitor descends all the same, and each node inside is judged by its own attributes |

Three more properties are contradicted by no document, yet a reader may expect them:

| Property (configuration) | The code |
| --- | --- |
| `TestsAreWritten` (MCExecution) | regression.rs:137: two findings of one id, in two places, write the same harness file |
| `RefusedPackChangesNothing` (MCExecution) | evidence/lib.rs:80: a pack with an unsafe path is refused after the old pack was removed |
| `ConstrainedIsDetermined` (MCStaticEngines) | signal_graph.rs:318: names that do not resolve read as zero and `a*b + c === d` is split at the first product, so the query may be about another circuit |

## 7. What is not modelled

* The files of a captured trace: they are written once and read by nothing, and whether a
  trace was captured is a flag that `verification_status_for_distributed_run` is given.
* Text below the tokens that a scanner tells apart: regular expressions, YAML and JSON
  parsing, tree-sitter queries, the SMT text, embeddings and the prose of reports. The
  models take what these yield as members of small sets.
* Of the engines: the Cairo mapper, the instruction tables of the zkVM tests, the intake
  bridge, the generated source of harnesses and MadSim's own scheduling; 48-bit
  collisions of node ids; the prompts, the copilot and the enforcement of contracts.
* Inside a modelled component: the remote worker and the redaction of the sandbox;
  the allowlist's prefixes and the parsing of advisories; de-duplication and command
  planning in the orchestrator; the toolbench's read-only views.
* Timing beyond order: a request of a wizard is assumed to take less than the
  half hour after which states expire; a research request less than the day that
  answers are cached.
* Disk-level failures other than "the statement returned an error" and "the process
  was killed": SQLite and sled are taken to be atomic per statement and per flush.
* Components without a state or an order of their own that would be worth checking:
  core types, the Lean engine's single HTTP calls, tool actions (one sandboxed command
  each), LLM evaluation, source intake, the knowledge base's files, the shells that
  forward requests, the workers' one route, the other browser views and the PDF tool.
  `PROJECT.json` lists each as `not_modelled` with its reason.

`PROJECT.json` also lists the hazards the code is exposed to, each at its line, with
the properties that watch it or a note why none does.

## 8. Plan

Done: the services and their state (answers and failovers, audits, findings,
sessions, freshness, containers, budgets, incremental runs), the engines and
what an audit writes, and proofs of every safety property of the passing runs.

Next, if the system grows: the long-term memory and feedback files of the knowledge
base, which processes rewrite whole, and the workstation's console subscription,
composed with the event stream of ExplorerFreshness.

## 9. Running the checks

    tlc -workers 2 -config MCDiffMode.cfg MCDiffMode.tla
    tlapm OrchestratorProofs.tla

Every configuration names its module (`MCX….cfg` belongs to `MCX.tla`). The passing
runs take between five seconds and four minutes; the proof modules
take up to a minute or two each, EngineProofs and ExecutionProofs about six, ExplorerProofs
about ten.
