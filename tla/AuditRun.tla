------------------------------ MODULE AuditRun ------------------------------
(***************************************************************************)
(* AuditOrchestrator::run: audits queue for the orchestrator's run_lock;   *)
(* the holder takes its engines through execute_dag one after the other,   *)
(* consulting the adviser on failures and retrying within hard limits, and *)
(* then produces the outputs.  Tool actions (run_tool_action) take no      *)
(* run_lock and record into the same working memory at any time; provider  *)
(* failovers are pushed to failover_events by every LLM call of the run.   *)
(***************************************************************************)
EXTENDS Naturals, Sequences, FiniteSets

CONSTANTS Runs,            \* calls of run on one orchestrator
          Tools,           \* calls of run_tool_action on it
          EngineCount,     \* number of configured engines
          Adjustable,      \* the engines with a budget knob
          Budgets,         \* timeouts the adviser can suggest
          ConfigBudget,    \* the budget the audit configuration gives
          MaxAdviserCalls, \* MAX_ADVISER_CALLS_PER_AUDIT
          MaxRetries,      \* MAX_RETRIES_PER_ENGINE
          Switches,        \* the provider switches (role, from, to) there can be
          MaxFailovers,    \* bound: failovers in one run
          NoRun            \* nobody holds the lock

Engines == 1..EngineCount

ASSUME RunAssumption ==
    /\ EngineCount \in Nat \ {0}
    /\ Adjustable \subseteq 1..EngineCount
    /\ Budgets \subseteq Nat /\ ConfigBudget \in Nat
    /\ MaxAdviserCalls \in Nat /\ MaxRetries \in Nat /\ MaxFailovers \in Nat
    /\ NoRun \notin Runs

VARIABLES queue,      \* runs waiting for run_lock, first come first served
          holder,     \* the run that holds run_lock
          verdict,    \* how each run ended
          stage,      \* what the holder is doing
          eng,        \* the engine its loop is at
          attempt,    \* attempt number at this engine
          callsLeft,  \* adviser_calls_remaining
          budget,     \* the engine's budget in attempt_config
          err,        \* whether the failure at hand is retryable
          advice,     \* the adviser's suggestion for that failure
          outcomes,   \* engine outcomes, and the run's own working memory
          events,     \* what the holder has emitted to the event sink
          memory,     \* the orchestrator's shared working memory
          failovers,  \* failover_events: [run, switch] each
          warned,     \* coverage.failover_warnings
          remembered, \* the audits long-term memory knows
          tool,       \* where each tool action stands
          attempts    \* history: [engine, budget] of every analyze call

vars == <<queue, holder, verdict, stage, eng, attempt, callsLeft, budget, err,
          advice, outcomes, events, memory, failovers, warned, remembered, tool, attempts>>
locals == <<attempt, callsLeft, budget, err, advice>>

NoAdvice == [kind |-> "none", timeout |-> 0]
Advices == {NoAdvice, [kind |-> "other", timeout |-> 0]}
           \cup [kind : {"retry"}, timeout : Budgets]
NewMemory == [outcomes |-> <<>>, tools |-> {}]

Emit(e) == events' = Append(events, e)
Outcome(e, s) == [engine |-> e, status |-> s]
Event(t, e) == [type |-> t, engine |-> e, applied |-> FALSE]
Consulted(e, a) == [type |-> "AdviserConsulted", engine |-> e, applied |-> a]

(* failover_warning_messages: one warning for each different switch. *)
Warnings(log) == {log[i] : i \in 1..Len(log)}

Init ==
    /\ queue = <<>>
    /\ holder = NoRun
    /\ verdict = [r \in Runs |-> "new"]
    /\ stage = "none"
    /\ eng = 1 /\ attempt = 1 /\ callsLeft = 0 /\ budget = ConfigBudget
    /\ err = FALSE /\ advice = NoAdvice
    /\ outcomes = <<>> /\ events = <<>>
    /\ memory = NewMemory
    /\ failovers = <<>> /\ warned = {} /\ remembered = {}
    /\ tool = [t \in Tools |-> "new"]
    /\ attempts = <<>>

Request(r) ==
    /\ verdict[r] = "new"
    /\ verdict' = [verdict EXCEPT ![r] = "waiting"]
    /\ queue' = Append(queue, r)
    /\ UNCHANGED <<holder, stage, eng, locals, outcomes, events, memory,
                   failovers, warned, remembered, tool, attempts>>

ClearedFailovers == <<>>

FreshMemoryKept == memory
FreshMemory == NewMemory

(* run takes the lock, resets the working memory, clears the failover log  *)
(* and analyzes the workspace, which may fail before any engine runs.      *)
Acquire ==
    /\ holder = NoRun /\ queue # <<>>
    /\ holder' = Head(queue)
    /\ queue' = Tail(queue)
    /\ memory' = FreshMemory
    /\ failovers' = ClearedFailovers
    /\ stage' \in {"supports", "abort"}
    /\ eng' = 1 /\ attempt' = 1 /\ callsLeft' = MaxAdviserCalls
    /\ budget' = ConfigBudget /\ err' = FALSE /\ advice' = NoAdvice
    /\ outcomes' = <<>> /\ events' = <<>> /\ warned' = {} /\ attempts' = <<>>
    /\ UNCHANGED <<verdict, remembered, tool>>

(* The loop goes on to the next engine, or out of execute_dag. *)
NextStageEarly == IF eng + 1 >= EngineCount THEN "publish" ELSE "supports"
NextStage == IF eng = EngineCount THEN "publish" ELSE "supports"

Skip ==
    /\ stage = "supports"
    /\ outcomes' = Append(outcomes, Outcome(eng, "skipped"))
    /\ eng' = eng + 1
    /\ stage' = NextStage
    /\ UNCHANGED <<queue, holder, verdict, locals, events, memory, failovers,
                   warned, remembered, tool, attempts>>

(* An engine starts from the audit's own budget: attempt_config is a fresh *)
(* clone of config for every engine.                                       *)
FreshBudget == ConfigBudget

Start ==
    /\ stage = "supports"
    /\ attempt' = 1
    /\ budget' = FreshBudget
    /\ stage' = "analyze"
    /\ attempts' = Append(attempts, [engine |-> eng, budget |-> FreshBudget])
    /\ UNCHANGED <<queue, holder, verdict, eng, callsLeft, err, advice,
                   outcomes, events, memory, failovers, warned, remembered, tool>>

Complete ==
    /\ stage = "analyze"
    /\ outcomes' = Append(outcomes, Outcome(eng, "completed"))
    /\ Emit(Event("EngineCompleted", eng))
    /\ eng' = eng + 1
    /\ stage' = NextStage
    /\ UNCHANGED <<queue, holder, verdict, locals, memory, failovers, warned,
                   remembered, tool, attempts>>

(* The engine fails; while calls are left the adviser is consulted, and    *)
(* the call is charged before it is answered.                              *)
Fail(retryable) ==
    /\ stage = "analyze"
    /\ err' = retryable
    /\ advice' = NoAdvice
    /\ \/ /\ callsLeft > 0
          /\ callsLeft' = callsLeft - 1
          /\ stage' = "consult"
       \/ /\ callsLeft = 0
          /\ stage' = "decide"
          /\ UNCHANGED callsLeft
    /\ UNCHANGED <<queue, holder, verdict, eng, attempt, budget, outcomes,
                   events, memory, failovers, warned, remembered, tool, attempts>>

(* The adviser answers, or its call fails and leaves no suggestion. *)
Advise(a) ==
    /\ stage = "consult"
    /\ advice' = a
    /\ stage' = "decide"
    /\ UNCHANGED <<queue, holder, verdict, eng, attempt, callsLeft, budget, err,
                   outcomes, events, memory, failovers, warned, remembered, tool, attempts>>

(* apply_retry_budget_adjustment: a budget only ever grows, and a retry    *)
(* that would not grow it is not applied.                                  *)
AppliesAnyRetry ==
    /\ attempt <= MaxRetries /\ err
    /\ advice.kind = "retry" /\ eng \in Adjustable
RetryApplies ==
    /\ attempt <= MaxRetries /\ err
    /\ advice.kind = "retry" /\ eng \in Adjustable
    /\ advice.timeout > budget

RetryUncounted ==
    /\ stage = "decide" /\ RetryApplies
    /\ budget' = advice.timeout
    /\ Emit(Consulted(eng, TRUE))
    /\ stage' = "analyze"
    /\ attempts' = Append(attempts, [engine |-> eng, budget |-> advice.timeout])
    /\ UNCHANGED <<queue, holder, verdict, eng, attempt, callsLeft, err, advice,
                   outcomes, memory, failovers, warned, remembered, tool>>
Retry ==
    /\ stage = "decide" /\ RetryApplies
    /\ budget' = advice.timeout
    /\ attempt' = attempt + 1
    /\ Emit(Consulted(eng, TRUE))
    /\ stage' = "analyze"
    /\ attempts' = Append(attempts, [engine |-> eng, budget |-> advice.timeout])
    /\ UNCHANGED <<queue, holder, verdict, eng, callsLeft, err, advice,
                   outcomes, memory, failovers, warned, remembered, tool>>

GiveUpEventsAlways(e) ==
    <<Consulted(e, FALSE), Event("EngineFailed", e), Event("EngineCompleted", e)>>
GiveUpEvents(e) ==
    (IF advice = NoAdvice THEN <<>> ELSE <<Consulted(e, FALSE)>>)
    \o <<Event("EngineFailed", e)>>

GiveUp ==
    /\ stage = "decide" /\ ~RetryApplies
    /\ outcomes' = Append(outcomes, Outcome(eng, "failed"))
    /\ events' = events \o GiveUpEvents(eng)
    /\ eng' = eng + 1
    /\ stage' = NextStage
    /\ UNCHANGED <<queue, holder, verdict, locals, memory, failovers, warned,
                   remembered, tool, attempts>>

(* The end of execute_dag overwrites the shared memory with the run's own. *)
Publish ==
    /\ stage = "publish"
    /\ memory' = [outcomes |-> outcomes, tools |-> {}]
    /\ stage' = "outputs"
    /\ UNCHANGED <<queue, holder, verdict, eng, locals, outcomes, events,
                   failovers, warned, remembered, tool, attempts>>

FailoverEvents == [n \in 1..Len(failovers) |-> Event("ProviderFailover", 0)]

(* produce_outputs first copies the failover log into the coverage report  *)
(* and emits it, and only then renders the report.                         *)
Report ==
    /\ stage = "outputs"
    /\ warned' = Warnings(failovers)
    /\ events' = events \o FailoverEvents
    /\ stage' = "render"
    /\ UNCHANGED <<queue, holder, verdict, eng, locals, outcomes, memory,
                   failovers, remembered, tool, attempts>>

ReleaseKeepsGuard(how) ==
    /\ verdict' = [verdict EXCEPT ![holder] = how]
    /\ stage' = "none"
    /\ UNCHANGED holder
Release(how) ==
    /\ verdict' = [verdict EXCEPT ![holder] = how]
    /\ holder' = NoRun
    /\ stage' = "none"

(* The report is written; AuditCompleted is the run's last event. *)
Rendered ==
    /\ stage = "render"
    /\ Emit(Event("AuditCompleted", 0))
    /\ stage' = "remember"
    /\ UNCHANGED <<queue, holder, verdict, eng, locals, outcomes, memory,
                   failovers, warned, remembered, tool, attempts>>

(* The outcome goes to long-term memory, and the run_guard is dropped. *)
Remember ==
    /\ stage = "remember"
    /\ remembered' = remembered \cup {holder}
    /\ Release("completed")
    /\ UNCHANGED <<queue, eng, locals, outcomes, events, memory, failovers,
                   warned, tool, attempts>>

(* Workspace analysis or report generation fails: run returns the error.   *)
CanAbort(s) == s \in {"abort", "render"}
Abort ==
    /\ CanAbort(stage)
    /\ Release("aborted")
    /\ UNCHANGED <<queue, eng, locals, outcomes, events, memory, failovers,
                   warned, remembered, tool, attempts>>

(* An LLM call of the run (an engine's, the adviser's or the prose of the  *)
(* report) is answered by a fallback provider.                             *)
Failover ==
    /\ stage \in {"analyze", "consult", "render"}
    /\ Len(failovers) < MaxFailovers
    /\ \E s \in Switches :
          failovers' = Append(failovers, [run |-> holder, switch |-> s])
    /\ UNCHANGED <<queue, holder, verdict, stage, eng, locals, outcomes, events,
                   memory, warned, remembered, tool, attempts>>

(* A tool action that fails, or a Lean one, leaves no record. *)
ToolUnrecorded(t) ==
    /\ tool[t] = "new"
    /\ tool' = [tool EXCEPT ![t] = "unrecorded"]
    /\ UNCHANGED <<queue, holder, verdict, stage, eng, locals, outcomes, events,
                   memory, failovers, warned, remembered, attempts>>

(* run_tool_action records its result in the shared memory, then appends   *)
(* the session event, which may fail.                                      *)
ToolRecord(t) ==
    /\ tool[t] = "new"
    /\ memory' = [memory EXCEPT !.tools = @ \cup {t}]
    /\ tool' = [tool EXCEPT ![t] = "recorded"]
    /\ UNCHANGED <<queue, holder, verdict, stage, eng, locals, outcomes, events,
                   failovers, warned, remembered, attempts>>

ToolAppend(t) ==
    /\ tool[t] = "recorded"
    /\ \E s \in {"ok", "failed"} : tool' = [tool EXCEPT ![t] = s]
    /\ UNCHANGED <<queue, holder, verdict, stage, eng, locals, outcomes, events,
                   memory, failovers, warned, remembered, attempts>>

RunStep ==
    \/ Acquire \/ Skip \/ Start \/ Complete
    \/ \E retryable \in BOOLEAN : Fail(retryable)
    \/ \E a \in Advices : Advise(a)
    \/ Retry \/ GiveUp \/ Publish \/ Report \/ Rendered
    \/ Remember \/ Abort

Next ==
    \/ \E r \in Runs : Request(r)
    \/ RunStep
    \/ Failover
    \/ \E t \in Tools : ToolUnrecorded(t) \/ ToolRecord(t) \/ ToolAppend(t)

Spec == Init /\ [][Next]_vars

(* Engines, the adviser and the report end, and tokio's mutex is fair. *)
FairSpec == Spec /\ WF_vars(RunStep)
-----------------------------------------------------------------------------
Statuses == {"skipped", "completed", "failed"}
OutcomeType == [engine : Engines, status : Statuses]
AttemptType == [engine : Engines, budget : Budgets \cup {ConfigBudget}]
MemoryType == [outcomes : Seq(OutcomeType), tools : SUBSET Tools]
FailoverType == [run : Runs, switch : Switches]
Stages == {"none", "abort", "supports", "analyze", "consult", "decide",
           "publish", "outputs", "render", "remember"}

(* Every variable keeps to its type. *)
TypeOK ==
    /\ queue \in Seq(Runs)
    /\ holder \in Runs \cup {NoRun}
    /\ verdict \in [Runs -> {"new", "waiting", "completed", "aborted"}]
    /\ stage \in Stages
    /\ eng \in 1..(EngineCount + 1)
    /\ attempt \in 1..(MaxRetries + 1)
    /\ callsLeft \in 0..MaxAdviserCalls
    /\ budget \in Budgets \cup {ConfigBudget}
    /\ err \in BOOLEAN
    /\ advice \in Advices
    /\ outcomes \in Seq(OutcomeType)
    /\ memory \in MemoryType
    /\ failovers \in Seq(FailoverType)
    /\ remembered \subseteq Runs
    /\ tool \in [Tools -> {"new", "unrecorded", "recorded", "ok", "failed"}]
    /\ attempts \in Seq(AttemptType)

(* "A single engine failure does not abort the entire audit": whatever the *)
(* engines and the adviser do, the loop gives every engine before eng one  *)
(* outcome, in order, and reports only once every engine has one.          *)
EveryEngineHasOneOutcome ==
    stage \notin {"none", "abort"} =>
        /\ Len(outcomes) = eng - 1
        /\ \A i \in 1..Len(outcomes) : outcomes[i].engine = i
        /\ stage \in {"publish", "outputs", "render", "remember"} => Len(outcomes) = EngineCount

Emitted(t, e) == {i \in 1..Len(events) : events[i].type = t /\ events[i].engine = e}

(* The event sink and the outcomes tell the same story: one EngineCompleted *)
(* for a completed engine, one EngineFailed for a failed one, neither for a *)
(* skipped one, and no failure event for an engine that is being retried.   *)
EventsMatchOutcomes ==
    \A e \in Engines :
        LET verdicts == {outcomes[i].status : i \in {j \in 1..Len(outcomes) : outcomes[j].engine = e}}
        IN  /\ Cardinality(Emitted("EngineCompleted", e)) =
                   IF "completed" \in verdicts THEN 1 ELSE 0
            /\ Cardinality(Emitted("EngineFailed", e)) =
                   IF "failed" \in verdicts THEN 1 ELSE 0

(* A relaxed budget is strictly larger than the one that failed and stays  *)
(* with its engine: the next engine starts from the audit's own budget.    *)
BudgetsEscalateAndReset ==
    \A i \in 1..Len(attempts) :
        LET first == i = 1 \/ attempts[i - 1].engine # attempts[i].engine
        IN  IF first THEN attempts[i].budget = ConfigBudget
            ELSE attempts[i].budget > attempts[i - 1].budget

(* The failover warnings of a report are this run's own, and there is one  *)
(* exactly when the event sink was told of a failover: nothing of an       *)
(* earlier run on the same log leaks into it.                              *)
WarningsAreThisRuns ==
    stage \in {"render", "remember"} =>
        /\ \A f \in warned : f.run = holder
        /\ warned = {} <=> Emitted("ProviderFailover", 0) = {}

(* What the user is told of a run, by events and by the report's warnings, *)
(* is what happened in that run.                                           *)
ToldAsItWas == EventsMatchOutcomes /\ WarningsAreThisRuns

(* The context the shared memory gives to LLM roles is empty or one whole  *)
(* run: never a partial one, never the previous audit's under this one.    *)
ContextIsWhole ==
    stage # "none" =>
        memory.outcomes = IF stage \in {"outputs", "render", "remember"}
                          THEN outcomes ELSE <<>>

(* Where a run stands between taking the lock and giving it back, and in   *)
(* the attempt at hand.                                                    *)
Phase(s) == CASE s \in {"supports", "analyze", "consult", "decide"} -> 5
              [] s = "publish" -> 4 [] s = "outputs" -> 3 [] s = "render" -> 2
              [] s \in {"remember", "abort"} -> 1 [] s = "none" -> 0
Turn(s) == CASE s = "supports" -> 3 [] s = "analyze" -> 2 [] s = "consult" -> 1 [] OTHER -> 0
Tried == IF stage = "supports" THEN 0 ELSE attempt
progress == <<holder, stage, eng, attempt>>

Nearer ==
    \/ holder = NoRun /\ queue # <<>> /\ holder' = Head(queue)
    \/ /\ holder # NoRun /\ holder' \in {holder, NoRun}
       /\ \/ Phase(stage') < Phase(stage)
          \/ /\ Phase(stage') = Phase(stage)
             /\ \/ eng < eng'
                \/ eng = eng' /\ Tried < Tried'
                \/ eng = eng' /\ Tried = Tried' /\ Turn(stage') < Turn(stage)

(* No adviser keeps an audit going: whatever it answers, every step of the *)
(* orchestrator brings the run at hand nearer its end, by a phase, by an   *)
(* engine, by a counted attempt or by a turn in the attempt, and when none *)
(* holds the lock it goes to the one that waited longest.                  *)
EveryStepNearer == [][Nearer]_progress

(* Every audit that is requested completes or returns an error, even when  *)
(* engines fail, the adviser is exhausted and other audits are queued.     *)
RunsEnd == \A r \in Runs : verdict[r] = "waiting" ~> verdict[r] \in {"completed", "aborted"}
-----------------------------------------------------------------------------
(* docs/design/plans/2026-03-22-plan5-t2t3-resilience.md:33: "Failover is  *)
(* recorded in provenance and surfaced as a runtime warning/event".        *)
FailoversSurfaced ==
    [][\A r \in Runs :
          verdict[r] # "completed" /\ verdict'[r] = "completed" =>
              Warnings(failovers) \subseteq warned]_vars

(* docs/design/plans/2026-03-22-plan6-t4-expansion.md:29: "`WorkingMemory` *)
(* maintains session-scoped context": while one audit runs, the context    *)
(* does not lose a tool result that was recorded into it.                  *)
ToolResultsKept ==
    [][holder # NoRun /\ holder' \in {holder, NoRun} =>
          memory.tools \subseteq memory'.tools]_vars
=============================================================================
