------------------------- MODULE OrchestratorProofs -------------------------
(* Proofs about the orchestrator: its audit runs, for any number of runs,  *)
(* tools and engines and for any budgets and limits, and diff mode.        *)
EXTENDS AuditRun, DiffMode, FiniteSetTheorems, TLAPS

USE RunAssumption DEF Engines

LEMMA SeqElement ==
  ASSUME NEW S, NEW s \in Seq(S), NEW i \in 1..Len(s)
  PROVE  s[i] \in S
  OBVIOUS

LEMMA NoAdviceType == NoAdvice \in Advices
  BY DEF NoAdvice, Advices

Looping == {"supports", "analyze", "consult", "decide"}
Trying == {"analyze", "consult", "decide"}
Reporting == {"publish", "outputs", "render", "remember"}

(* Where the loop of execute_dag is: the lock is held while it runs, and   *)
(* eng is the engine whose outcome is still missing.                       *)
Position ==
    /\ stage = "none" => holder = NoRun
    /\ stage # "none" => holder \in Runs
    /\ stage \in Looping => eng <= EngineCount
    /\ stage \in Reporting => eng = EngineCount + 1

(* The history of attempts: none at an engine the loop has not reached,    *)
(* and the latest one is the attempt at hand, with the budget at hand.     *)
History ==
    /\ stage = "abort" => attempts = <<>>
    /\ stage = "supports" =>
          \A i \in 1..Len(attempts) : attempts[i].engine < eng
    /\ stage \in Trying =>
          /\ Len(attempts) > 0
          /\ attempts[Len(attempts)] = [engine |-> eng, budget |-> budget]
          /\ \A i \in 1..Len(attempts) : attempts[i].engine <= eng

Outcomes == EveryEngineHasOneOutcome

IInv == TypeOK /\ Position /\ Outcomes

LEMMA NewMemoryType == NewMemory \in MemoryType
  BY DEF NewMemory, MemoryType

(* The initial state satisfies the inductive invariant. *)
LEMMA InitIInv == Init => IInv
<1> SUFFICES ASSUME Init PROVE IInv
  OBVIOUS
<1>1. memory \in MemoryType
  BY NewMemoryType DEF Init
<1>0. /\ queue \in Seq(Runs) /\ outcomes \in Seq(OutcomeType)
      /\ failovers \in Seq(FailoverType) /\ attempts \in Seq(AttemptType)
  BY DEF Init
<1>01. /\ verdict \in [Runs -> {"new", "waiting", "completed", "aborted"}]
       /\ tool \in [Tools -> {"new", "unrecorded", "recorded", "ok", "failed"}]
  BY DEF Init
<1>02. /\ holder \in Runs \cup {NoRun} /\ stage \in Stages
       /\ eng \in 1..(EngineCount + 1)
       /\ attempt \in 1..(MaxRetries + 1) /\ callsLeft \in 0..MaxAdviserCalls
       /\ budget \in Budgets \cup {ConfigBudget}
       /\ remembered \subseteq Runs
  BY DEF Init, Stages
<1>03. err \in BOOLEAN /\ advice \in Advices
  BY NoAdviceType, Zenon DEF Init
<1>2. TypeOK BY <1>0, <1>01, <1>02, <1>03, <1>1 DEF TypeOK
<1>3. Position /\ Outcomes
  BY DEF Init, Position, Outcomes, EveryEngineHasOneOutcome, Looping, Reporting
<1>q. QED BY <1>2, <1>3 DEF IInv

(* Appending an outcome of the engine at hand keeps the list in order. *)
LEMMA OutcomeAppended ==
  ASSUME TypeOK, Outcomes, stage \in Looping, eng <= EngineCount,
         NEW s \in Statuses, outcomes' = Append(outcomes, Outcome(eng, s)),
         eng' = eng + 1, stage' = NextStage
  PROVE  /\ outcomes' \in Seq(OutcomeType)
         /\ eng' \in 1..(EngineCount + 1)
         /\ stage' \in {"publish", "supports"}
         /\ stage' = "supports" => eng' <= EngineCount
         /\ stage' = "publish" => eng' = EngineCount + 1
         /\ Outcomes'
<1>1. eng \in Engines /\ outcomes \in Seq(OutcomeType) BY DEF TypeOK
<1>2. Outcome(eng, s) \in OutcomeType BY <1>1 DEF Outcome, OutcomeType
<1>3. outcomes' \in Seq(OutcomeType) BY <1>1, <1>2
<1>4. Len(outcomes) = eng - 1 /\ \A i \in 1..Len(outcomes) : outcomes[i].engine = i
  BY DEF Outcomes, EveryEngineHasOneOutcome, Looping
<1>5. Len(outcomes') = eng BY <1>1, <1>2, <1>4
<1>6. \A i \in 1..Len(outcomes') : outcomes'[i].engine = i
  BY <1>1, <1>2, <1>4, <1>5 DEF Outcome
<1>7. eng' \in 1..(EngineCount + 1) /\ stage' \in {"publish", "supports"}
  BY <1>1 DEF NextStage
<1>8. /\ stage' = "supports" => eng' <= EngineCount
      /\ stage' = "publish" => eng' = EngineCount + 1
  BY <1>1 DEF NextStage
<1>9. Outcomes'
  BY <1>1, <1>5, <1>6, <1>7, <1>8 DEF Outcomes, EveryEngineHasOneOutcome
<1>q. QED BY <1>3, <1>7, <1>8, <1>9

LEMMA StepIInv == IInv /\ [Next]_vars => IInv'
<1> SUFFICES ASSUME IInv, [Next]_vars PROVE IInv'
  OBVIOUS
<1> USE DEF IInv, Position, Looping, Reporting
<1>0. CASE UNCHANGED vars
  BY <1>0 DEF vars, locals, TypeOK, Outcomes, EveryEngineHasOneOutcome
<1>1. CASE \E r \in Runs : Request(r)
  BY <1>1 DEF Request, locals, TypeOK, Stages, Outcomes, EveryEngineHasOneOutcome
<1>2. CASE Acquire
  <2>1. Head(queue) \in Runs /\ Tail(queue) \in Seq(Runs)
    BY <1>2 DEF Acquire, TypeOK
  <2>0. memory' \in MemoryType
    BY <1>2, NewMemoryType DEF Acquire, FreshMemory
  <2>00. err' \in BOOLEAN /\ advice' \in Advices
    BY <1>2, NoAdviceType, Zenon DEF Acquire
  <2>01. /\ outcomes' \in Seq(OutcomeType) /\ failovers' \in Seq(FailoverType)
         /\ attempts' \in Seq(AttemptType)
    BY <1>2 DEF Acquire, ClearedFailovers
  <2>02. /\ holder' \in Runs \cup {NoRun} /\ stage' \in Stages
         /\ eng' \in 1..(EngineCount + 1)
         /\ attempt' \in 1..(MaxRetries + 1) /\ callsLeft' \in 0..MaxAdviserCalls
         /\ budget' \in Budgets \cup {ConfigBudget}
    BY <1>2, <2>1 DEF Acquire, Stages
  <2>03. UNCHANGED <<verdict, remembered, tool>> /\ queue' = Tail(queue)
    BY <1>2 DEF Acquire
  <2>2. TypeOK'
    BY <2>0, <2>00, <2>01, <2>02, <2>03, <2>1 DEF TypeOK
  <2>3. Position' BY <1>2, <2>1 DEF Acquire
  <2>4. Outcomes' BY <1>2 DEF Acquire, Outcomes, EveryEngineHasOneOutcome
  <2>q. QED BY <2>2, <2>3, <2>4
<1>3. CASE Skip
  <2>1. /\ outcomes' \in Seq(OutcomeType) /\ eng' \in 1..(EngineCount + 1)
        /\ stage' \in {"publish", "supports"} /\ Outcomes'
        /\ stage' = "supports" => eng' <= EngineCount
        /\ stage' = "publish" => eng' = EngineCount + 1
    BY <1>3, OutcomeAppended DEF Skip, Looping, Statuses
  <2>2. TypeOK' BY <1>3, <2>1 DEF Skip, locals, TypeOK, Stages
  <2>3. Position' BY <1>3, <2>1 DEF Skip
  <2>q. QED BY <2>1, <2>2, <2>3
<1>4. CASE Start
  <2>1. [engine |-> eng, budget |-> FreshBudget] \in AttemptType
    BY <1>4 DEF Start, TypeOK, FreshBudget, AttemptType
  <2>2. TypeOK' BY <1>4, <2>1 DEF Start, TypeOK, Stages, FreshBudget
  <2>3. Position' /\ Outcomes'
    BY <1>4 DEF Start, TypeOK, Outcomes, EveryEngineHasOneOutcome
  <2>q. QED BY <2>2, <2>3
<1>5. CASE Complete
  <2>1. /\ outcomes' \in Seq(OutcomeType) /\ eng' \in 1..(EngineCount + 1)
        /\ stage' \in {"publish", "supports"} /\ Outcomes'
        /\ stage' = "supports" => eng' <= EngineCount
        /\ stage' = "publish" => eng' = EngineCount + 1
    BY <1>5, OutcomeAppended DEF Complete, Looping, Statuses
  <2>2. TypeOK' BY <1>5, <2>1 DEF Complete, locals, TypeOK, Stages
  <2>3. Position' BY <1>5, <2>1 DEF Complete
  <2>q. QED BY <2>1, <2>2, <2>3
<1>6. ASSUME NEW x \in BOOLEAN, Fail(x) PROVE IInv'
  <2>1. TypeOK' BY <1>6 DEF Fail, TypeOK, Stages, NoAdvice, Advices
  <2>2. Position' /\ Outcomes'
    BY <1>6 DEF Fail, Outcomes, EveryEngineHasOneOutcome
  <2>q. QED BY <2>1, <2>2
<1>7. ASSUME NEW a \in Advices, Advise(a) PROVE IInv'
  <2>1. TypeOK' BY <1>7 DEF Advise, TypeOK, Stages
  <2>2. Position' /\ Outcomes'
    BY <1>7 DEF Advise, Outcomes, EveryEngineHasOneOutcome
  <2>q. QED BY <2>1, <2>2
<1>8. CASE Retry
  <2>1. advice.timeout \in Budgets
    BY <1>8 DEF Retry, RetryApplies, TypeOK, Advices, NoAdvice
  <2>2. [engine |-> eng, budget |-> advice.timeout] \in AttemptType
    BY <1>8, <2>1 DEF Retry, TypeOK, AttemptType
  <2>3. TypeOK'
    BY <1>8, <2>1, <2>2 DEF Retry, RetryApplies, TypeOK, Stages
  <2>4. Position' /\ Outcomes'
    BY <1>8 DEF Retry, Outcomes, EveryEngineHasOneOutcome
  <2>q. QED BY <2>3, <2>4
<1>9. CASE GiveUp
  <2>1. /\ outcomes' \in Seq(OutcomeType) /\ eng' \in 1..(EngineCount + 1)
        /\ stage' \in {"publish", "supports"} /\ Outcomes'
        /\ stage' = "supports" => eng' <= EngineCount
        /\ stage' = "publish" => eng' = EngineCount + 1
    BY <1>9, OutcomeAppended DEF GiveUp, Looping, Statuses
  <2>2. TypeOK' BY <1>9, <2>1 DEF GiveUp, locals, TypeOK, Stages
  <2>3. Position' BY <1>9, <2>1 DEF GiveUp
  <2>q. QED BY <2>1, <2>2, <2>3
<1>10. CASE Publish \/ Report \/ Rendered
  <2>0. memory' \in MemoryType
    <3>1. CASE Publish
      <4>1. outcomes \in Seq(OutcomeType) BY DEF TypeOK
      <4>2. memory' = [outcomes |-> outcomes, tools |-> {}] BY <3>1 DEF Publish
      <4>q. QED BY <4>1, <4>2 DEF MemoryType
    <3>2. CASE Report \/ Rendered
      BY <3>2 DEF Report, Rendered, TypeOK
    <3>q. QED BY <1>10, <3>1, <3>2
  <2>1. TypeOK'
    BY <1>10, <2>0 DEF Publish, Report, Rendered, locals, TypeOK, Stages
  <2>2. Position' /\ Outcomes'
    BY <1>10 DEF Publish, Report, Rendered, Outcomes, EveryEngineHasOneOutcome
  <2>q. QED BY <2>1, <2>2
<1>11. CASE Remember \/ Abort
  <2>1. holder \in Runs BY <1>11 DEF Remember, Abort, CanAbort
  <2>2. TypeOK'
    BY <1>11, <2>1 DEF Remember, Abort, Release, locals, TypeOK, Stages
  <2>3. Position' /\ Outcomes'
    BY <1>11 DEF Remember, Abort, Release, Outcomes, EveryEngineHasOneOutcome
  <2>q. QED BY <2>2, <2>3
<1>12. CASE Failover
  <2>1. holder \in Runs BY <1>12 DEF Failover
  <2>2. TypeOK' BY <1>12, <2>1 DEF Failover, locals, TypeOK, FailoverType
  <2>3. Position' /\ Outcomes'
    BY <1>12 DEF Failover, Outcomes, EveryEngineHasOneOutcome
  <2>q. QED BY <2>2, <2>3
<1>13. ASSUME NEW t \in Tools, ToolUnrecorded(t) \/ ToolRecord(t) \/ ToolAppend(t)
       PROVE  IInv'
  <2>0. memory' \in MemoryType
    <3>1. CASE ToolRecord(t)
      <4>1. memory' = [memory EXCEPT !.tools = memory.tools \cup {t}]
        BY <3>1 DEF ToolRecord
      <4>2. memory' = [outcomes |-> memory.outcomes, tools |-> memory.tools \cup {t}]
        BY <4>1, Zenon DEF IInv, TypeOK, MemoryType
      <4>q. QED BY <4>2 DEF TypeOK, MemoryType
    <3>2. CASE ~ToolRecord(t)
      BY <1>13, <3>2 DEF ToolUnrecorded, ToolAppend, TypeOK
    <3>q. QED BY <3>1, <3>2
  <2>00. tool' \in [Tools -> {"new", "unrecorded", "recorded", "ok", "failed"}]
    BY <1>13 DEF ToolUnrecorded, ToolRecord, ToolAppend, TypeOK
  <2>000. UNCHANGED <<queue, holder, verdict, stage, eng, locals, outcomes, events,
                    failovers, warned, remembered, attempts>>
    BY <1>13 DEF ToolUnrecorded, ToolRecord, ToolAppend
  <2>1. TypeOK' BY <2>0, <2>00, <2>000 DEF locals, TypeOK
  <2>2. Position' /\ Outcomes'
    BY <2>000 DEF Outcomes, EveryEngineHasOneOutcome
  <2>q. QED BY <2>1, <2>2
<1>q. QED
  BY <1>0, <1>1, <1>2, <1>3, <1>4, <1>5, <1>6, <1>7, <1>8, <1>9, <1>10, <1>11,
     <1>12, <1>13 DEF Next, RunStep

(* Every variable keeps to its type. *)
THEOREM TypeCorrect == Spec => []TypeOK
<1>1. IInv => TypeOK BY DEF IInv
<1>q. QED BY InitIInv, StepIInv, <1>1, PTL DEF Spec

(* A failed engine never aborts the audit or loses a place: at every step  *)
(* of execute_dag and of the outputs, each engine the loop has passed has  *)
(* exactly one outcome, at its own place.                                  *)
THEOREM OutcomesComplete == Spec => []EveryEngineHasOneOutcome
<1>1. IInv => EveryEngineHasOneOutcome BY DEF IInv, Outcomes
<1>q. QED BY InitIInv, StepIInv, <1>1, PTL DEF Spec
-----------------------------------------------------------------------------
Budgeted == History /\ BudgetsEscalateAndReset

LEMMA InitBudgeted == Init => Budgeted
  BY DEF Init, Budgeted, History, BudgetsEscalateAndReset, Trying

LEMMA StepBudgeted == IInv /\ Budgeted /\ [Next]_vars => Budgeted'
<1> SUFFICES ASSUME IInv, Budgeted, [Next]_vars PROVE Budgeted'
  OBVIOUS
<1> USE DEF Budgeted, History, Trying
<1>T. /\ attempts \in Seq(AttemptType) /\ eng \in 1..(EngineCount + 1)
      /\ advice \in Advices /\ budget \in Budgets \cup {ConfigBudget}
  BY DEF IInv, TypeOK
<1>U. \A i \in 1..Len(attempts) :
         /\ attempts[i] \in AttemptType
         /\ attempts[i].engine \in Engines /\ attempts[i].engine \in Nat
         /\ attempts[i].budget \in Nat
  <2> TAKE i \in 1..Len(attempts)
  <2>1. attempts[i] \in AttemptType BY <1>T, SeqElement
  <2>2. attempts[i].engine \in Engines BY <2>1 DEF AttemptType
  <2>3. attempts[i].budget \in Nat BY <2>1 DEF AttemptType
  <2>q. QED BY <2>1, <2>2, <2>3
<1>K. ASSUME attempts' = attempts, stage' = stage, eng' = eng, budget' = budget
      PROVE  Budgeted'
  BY <1>K DEF BudgetsEscalateAndReset
<1>M. ASSUME attempts' = attempts, stage \in Looping, stage' = NextStage,
             eng' = eng + 1
      PROVE  Budgeted'
  <2>1. \A i \in 1..Len(attempts) : attempts[i].engine \in 1..EngineCount
    BY <1>U
  <2>2. \A i \in 1..Len(attempts) : attempts[i].engine < eng + 1
    BY <1>M, <1>T, <2>1 DEF Looping
  <2>3. stage' \in {"publish", "supports"} BY <1>M DEF NextStage
  <2>q. QED BY <1>M, <2>2, <2>3 DEF BudgetsEscalateAndReset
<1>O. ASSUME attempts' = attempts, stage' \notin {"abort", "supports"} \cup Trying
      PROVE  Budgeted'
  BY <1>O DEF BudgetsEscalateAndReset
<1>0. CASE UNCHANGED vars
  BY <1>0, <1>K DEF vars, locals
<1>1. CASE \E r \in Runs : Request(r)
  BY <1>1, <1>K DEF Request, locals
<1>2. CASE Acquire
  BY <1>2 DEF Acquire, BudgetsEscalateAndReset
<1>3. CASE Skip
  BY <1>3, <1>M DEF Skip, Looping
<1>4. CASE Start
  <2>1. attempts' = Append(attempts, [engine |-> eng, budget |-> ConfigBudget])
    BY <1>4 DEF Start, FreshBudget
  <2>2. eng' = eng /\ budget' = ConfigBudget /\ stage' = "analyze" /\ stage = "supports"
    BY <1>4 DEF Start, FreshBudget
  <2>3. eng \in Engines BY <2>2 DEF IInv, Position, TypeOK, Looping
  <2>4. /\ Len(attempts') = Len(attempts) + 1 /\ Len(attempts) \in Nat
        /\ attempts'[Len(attempts) + 1] = [engine |-> eng, budget |-> ConfigBudget]
        /\ \A i \in 1..Len(attempts) : attempts'[i] = attempts[i]
    BY <2>1, <2>3, <1>T
  <2>5. \A i \in 1..Len(attempts) : attempts[i].engine < eng /\ attempts[i].engine \in Nat
    BY <2>2, <1>U
  <2>6. History' BY <2>2, <2>3, <2>4, <2>5, <1>T
  <2>7. BudgetsEscalateAndReset'
    <3> SUFFICES ASSUME NEW i \in 1..Len(attempts')
                 PROVE  LET first == i = 1 \/ attempts'[i - 1].engine # attempts'[i].engine
                        IN  IF first THEN attempts'[i].budget = ConfigBudget
                            ELSE attempts'[i].budget > attempts'[i - 1].budget
      BY DEF BudgetsEscalateAndReset
    <3>1. CASE i = Len(attempts) + 1
      <4>1. i = 1 \/ attempts'[i - 1].engine # attempts'[i].engine
        BY <3>1, <2>3, <2>4, <2>5, <1>T
      <4>q. QED BY <3>1, <4>1, <2>4
    <3>2. CASE i \in 1..Len(attempts)
      <4>1. attempts'[i] = attempts[i] BY <3>2, <2>4
      <4>2. i # 1 => attempts'[i - 1] = attempts[i - 1] BY <3>2, <2>4
      <4>q. QED BY <3>2, <4>1, <4>2, <1>U DEF BudgetsEscalateAndReset
    <3>q. QED BY <3>1, <3>2, <2>4, <1>T
  <2>q. QED BY <2>6, <2>7
<1>5. CASE Complete
  BY <1>5, <1>M DEF Complete, Looping
<1>6. ASSUME NEW x \in BOOLEAN, Fail(x) PROVE Budgeted'
  BY <1>6 DEF Fail, BudgetsEscalateAndReset
<1>7. ASSUME NEW a \in Advices, Advise(a) PROVE Budgeted'
  BY <1>7 DEF Advise, BudgetsEscalateAndReset
<1>8. CASE Retry
  <2>1. advice.timeout \in Budgets /\ advice.timeout > budget
    BY <1>8, <1>T DEF Retry, RetryApplies, Advices, NoAdvice
  <2>2. /\ attempts' = Append(attempts, [engine |-> eng, budget |-> advice.timeout])
        /\ eng' = eng /\ budget' = advice.timeout /\ stage' = "analyze"
        /\ stage = "decide"
    BY <1>8 DEF Retry
  <2>3. eng \in Engines BY <2>2 DEF IInv, Position, TypeOK, Looping
  <2>4. /\ Len(attempts') = Len(attempts) + 1 /\ Len(attempts) \in Nat \ {0}
        /\ attempts'[Len(attempts) + 1] = [engine |-> eng, budget |-> advice.timeout]
        /\ \A i \in 1..Len(attempts) : attempts'[i] = attempts[i]
    BY <2>1, <2>2, <2>3, <1>T
  <2>5. attempts[Len(attempts)].engine = eng /\ attempts[Len(attempts)].budget = budget
    BY <2>2
  <2>6. History' BY <2>2, <2>3, <2>4, <1>T
  <2>7. BudgetsEscalateAndReset'
    <3> SUFFICES ASSUME NEW i \in 1..Len(attempts')
                 PROVE  LET first == i = 1 \/ attempts'[i - 1].engine # attempts'[i].engine
                        IN  IF first THEN attempts'[i].budget = ConfigBudget
                            ELSE attempts'[i].budget > attempts'[i - 1].budget
      BY DEF BudgetsEscalateAndReset
    <3>1. CASE i = Len(attempts) + 1
      <4>1. /\ i # 1 /\ attempts'[i - 1].engine = attempts'[i].engine
            /\ attempts'[i].budget > attempts'[i - 1].budget
        BY <3>1, <2>1, <2>4, <2>5, <1>T
      <4>q. QED BY <4>1
    <3>2. CASE i \in 1..Len(attempts)
      <4>1. attempts'[i] = attempts[i] BY <3>2, <2>4
      <4>2. i # 1 => attempts'[i - 1] = attempts[i - 1] BY <3>2, <2>4
      <4>q. QED BY <3>2, <4>1, <4>2, <1>U DEF BudgetsEscalateAndReset
    <3>q. QED BY <3>1, <3>2, <2>4, <1>T
  <2>q. QED BY <2>6, <2>7
<1>9. CASE GiveUp
  BY <1>9, <1>M DEF GiveUp, Looping
<1>10. CASE Publish \/ Report \/ Rendered \/ Remember \/ Abort
  BY <1>10, <1>O DEF Publish, Report, Rendered, Remember, Abort, Release
<1>12. CASE Failover
  BY <1>12, <1>K DEF Failover, locals
<1>13. ASSUME NEW t \in Tools, ToolUnrecorded(t) \/ ToolRecord(t) \/ ToolAppend(t)
       PROVE  Budgeted'
  BY <1>13, <1>K DEF ToolUnrecorded, ToolRecord, ToolAppend, locals
<1>q. QED
  BY <1>0, <1>1, <1>2, <1>3, <1>4, <1>5, <1>6, <1>7, <1>8, <1>9, <1>10,
     <1>12, <1>13 DEF Next, RunStep

(* A relaxed budget is strictly larger than the one that failed, and it    *)
(* stays with its engine: the next engine starts from the audit's budget.  *)
THEOREM BudgetsSound == Spec => []BudgetsEscalateAndReset
<1>1. Init => IInv /\ Budgeted BY InitIInv, InitBudgeted
<1>2. IInv /\ Budgeted /\ [Next]_vars => (IInv /\ Budgeted)'
  BY StepIInv, StepBudgeted
<1>3. Budgeted => BudgetsEscalateAndReset BY DEF Budgeted
<1>q. QED BY <1>1, <1>2, <1>3, PTL DEF Spec
-----------------------------------------------------------------------------
(* The context the LLM roles read is empty or one whole run.               *)
LEMMA StepContext == IInv /\ ContextIsWhole /\ [Next]_vars => ContextIsWhole'
<1> SUFFICES ASSUME IInv, ContextIsWhole, [Next]_vars PROVE ContextIsWhole'
  OBVIOUS
<1> USE DEF ContextIsWhole
<1>1. CASE UNCHANGED vars \/ Failover \/ (\E r \in Runs : Request(r))
  BY <1>1 DEF vars, Failover, Request
<1>2. CASE Acquire
  <2>1. memory'.outcomes = <<>> BY <1>2 DEF Acquire, FreshMemory, NewMemory
  <2>2. stage' \in {"supports", "abort"} BY <1>2 DEF Acquire
  <2>q. QED BY <2>1, <2>2
<1>3. CASE Skip \/ Complete \/ GiveUp
  <2>1. stage \in Looping /\ stage' = NextStage /\ UNCHANGED memory
    BY <1>3 DEF Skip, Complete, GiveUp, Looping
  <2>2. stage' \in {"publish", "supports"} BY <2>1 DEF NextStage
  <2>q. QED BY <2>1, <2>2 DEF Looping
<1>30. CASE Start \/ Retry
  BY <1>30 DEF Start, Retry
<1>31. CASE Publish
  BY <1>31 DEF Publish
<1>4. CASE \/ \E x \in BOOLEAN : Fail(x)
           \/ \E a \in Advices : Advise(a)
  BY <1>4 DEF Fail, Advise
<1>5. CASE Report \/ Rendered \/ Remember \/ Abort
  BY <1>5 DEF Report, Rendered, Remember, Abort, Release
<1>6. ASSUME NEW t \in Tools, ToolUnrecorded(t) \/ ToolRecord(t) \/ ToolAppend(t)
      PROVE  ContextIsWhole'
  <2>1. memory'.outcomes = memory.outcomes
    <3>1. CASE ToolRecord(t)
      <4>1. memory' = [memory EXCEPT !.tools = memory.tools \cup {t}]
        BY <3>1 DEF ToolRecord
      <4>2. memory' = [outcomes |-> memory.outcomes, tools |-> memory.tools \cup {t}]
        BY <4>1, Zenon DEF IInv, TypeOK, MemoryType
      <4>q. QED BY <4>2
    <3>2. CASE ~ToolRecord(t) BY <1>6, <3>2 DEF ToolUnrecorded, ToolAppend
    <3>q. QED BY <3>1, <3>2
  <2>2. UNCHANGED <<stage, outcomes>>
    BY <1>6 DEF ToolUnrecorded, ToolRecord, ToolAppend
  <2>q. QED BY <2>1, <2>2
<1>q. QED BY <1>1, <1>2, <1>3, <1>30, <1>31, <1>4, <1>5, <1>6 DEF Next, RunStep

(* Whatever tool actions and queued audits do meanwhile, the shared memory *)
(* never shows a partial run or the previous audit's outcomes.             *)
THEOREM ContextSound == Spec => []ContextIsWhole
<1>1. Init => ContextIsWhole BY DEF Init, ContextIsWhole
<1>q. QED BY <1>1, InitIInv, StepIInv, StepContext, PTL DEF Spec
-----------------------------------------------------------------------------
(* Every step of the orchestrator takes the run at hand a phase, an        *)
(* engine, a counted attempt or a turn further; the others leave it alone. *)
LEMMA StepNearer == IInv /\ [Next]_vars => [Nearer]_progress
<1> SUFFICES ASSUME IInv, [Next]_vars, ~UNCHANGED progress PROVE Nearer
  OBVIOUS
<1> USE DEF Nearer, progress, Phase
<1>T. /\ eng \in 1..(EngineCount + 1) /\ attempt \in 1..(MaxRetries + 1)
      /\ stage \in Stages
  BY DEF IInv, TypeOK
<1>H. stage # "none" => holder \in Runs /\ holder # NoRun
  BY DEF IInv, Position
<1>L. ASSUME stage \in Looping, eng' = eng + 1, stage' = NextStage, holder' = holder
      PROVE  Nearer
  <2>1. stage' \in {"publish", "supports"} BY <1>L DEF NextStage
  <2>q. QED BY <1>L, <1>H, <1>T, <2>1 DEF Looping
<1>0. CASE UNCHANGED vars \/ Failover \/ (\E r \in Runs : Request(r))
  BY <1>0 DEF vars, locals, Failover, Request
<1>1. CASE Acquire
  BY <1>1 DEF Acquire
<1>2. CASE Skip \/ Complete \/ GiveUp
  BY <1>2, <1>L DEF Skip, Complete, GiveUp, Looping
<1>3. CASE Start
  BY <1>3, <1>H, <1>T DEF Start, Tried
<1>4. ASSUME NEW x \in BOOLEAN, Fail(x) PROVE Nearer
  BY <1>4, <1>H, <1>T DEF Fail, Tried, Turn
<1>5. ASSUME NEW a \in Advices, Advise(a) PROVE Nearer
  BY <1>5, <1>H, <1>T DEF Advise, Tried, Turn
<1>6. CASE Retry
  BY <1>6, <1>H, <1>T DEF Retry, Tried
<1>7. CASE Publish \/ Report \/ Rendered
  BY <1>7, <1>H DEF Publish, Report, Rendered
<1>8. CASE Remember \/ Abort
  BY <1>8, <1>H DEF Remember, Abort, Release, CanAbort
<1>9. ASSUME NEW t \in Tools, ToolUnrecorded(t) \/ ToolRecord(t) \/ ToolAppend(t)
      PROVE  Nearer
  BY <1>9 DEF ToolUnrecorded, ToolRecord, ToolAppend, locals
<1>q. QED BY <1>0, <1>1, <1>2, <1>3, <1>4, <1>5, <1>6, <1>7, <1>8, <1>9 DEF Next, RunStep

(* No adviser keeps an audit going: whatever it answers, every step brings *)
(* the run at hand nearer its end, with attempts and engines bounded.      *)
THEOREM RunsWindDown == Spec => EveryStepNearer
<1>q. QED BY InitIInv, StepIInv, StepNearer, PTL DEF Spec, EveryStepNearer
-----------------------------------------------------------------------------
EventTypes == {"EngineCompleted", "EngineFailed", "AdviserConsulted", "ProviderFailover", "AuditCompleted"}
EventType == [type : EventTypes, engine : 0..EngineCount, applied : BOOLEAN]
Ended(e, s) == \E j \in 1..Len(outcomes) : outcomes[j].engine = e /\ outcomes[j].status = s
OnceIf(S, b) == IF b THEN \E i \in S : S = {i} ELSE S = {}

(* EventsMatchOutcomes, with its numbers spelled out. *)
EventsTell ==
    \A e \in Engines :
        /\ OnceIf(Emitted("EngineCompleted", e), Ended(e, "completed"))
        /\ OnceIf(Emitted("EngineFailed", e), Ended(e, "failed"))

(* The failover log was cleared when the lock was taken, and its events    *)
(* are emitted only by Report, together with the warnings.                 *)
OwnFailovers ==
    /\ stage # "none" => \A i \in 1..Len(failovers) : failovers[i].run = holder
    /\ stage \in {"abort", "publish", "outputs"} \cup Looping => Emitted("ProviderFailover", 0) = {}
    /\ WarningsAreThisRuns

ToldInv == events \in Seq(EventType) /\ EventsTell /\ OwnFailovers

LEMMA EventTyped ==
    ASSUME NEW t \in EventTypes, NEW e \in 0..EngineCount
    PROVE  Event(t, e) \in EventType /\ Event(t, e).type = t /\ Event(t, e).engine = e
BY DEF Event, EventType

LEMMA ConsultedTyped ==
    ASSUME NEW e \in Engines, NEW a \in BOOLEAN
    PROVE  Consulted(e, a) \in EventType /\ Consulted(e, a).type = "AdviserConsulted"
<1>1. "AdviserConsulted" \in EventTypes /\ e \in 0..EngineCount BY DEF EventTypes
<1>q. QED BY <1>1 DEF Consulted, EventType

(* What one more event, or one more outcome, changes in the story. *)
LEMMA EventAppended ==
    ASSUME events \in Seq(EventType), NEW ev \in EventType, events' = Append(events, ev)
    PROVE  /\ events' \in Seq(EventType)
           /\ \A t, e : ~(ev.type = t /\ ev.engine = e) => Emitted(t, e)' = Emitted(t, e)
           /\ Emitted(ev.type, ev.engine)' = Emitted(ev.type, ev.engine) \cup {Len(events) + 1}
<1>1. PICK n \in Nat : n = Len(events) OBVIOUS
<1>2. /\ events' \in Seq(EventType) /\ Len(events') = n + 1 /\ events'[n + 1] = ev
      /\ \A i \in 1..n : events'[i] = events[i]
  BY <1>1
<1>3. 1..(n + 1) = 1..n \cup {n + 1} /\ n + 1 \notin 1..n BY <1>1
<1>4. \A t, e : Emitted(t, e)' = {i \in 1..(n + 1) : events'[i].type = t /\ events'[i].engine = e}
  BY <1>2 DEF Emitted
<1>5. \A t, e : Emitted(t, e) = {i \in 1..n : events[i].type = t /\ events[i].engine = e}
  BY <1>1 DEF Emitted
<1>6. ASSUME NEW t, NEW e, ~(ev.type = t /\ ev.engine = e) PROVE Emitted(t, e)' = Emitted(t, e)
  BY <1>2, <1>3, <1>4, <1>5, <1>6
<1>7. Emitted(ev.type, ev.engine)' = Emitted(ev.type, ev.engine) \cup {n + 1}
  <2>1. PICK t, e : t = ev.type /\ e = ev.engine OBVIOUS
  <2>2. Emitted(t, e)' = {i \in 1..(n + 1) : events'[i].type = t /\ events'[i].engine = e} BY <1>4
  <2>3. Emitted(t, e) = {i \in 1..n : events[i].type = t /\ events[i].engine = e} BY <1>5
  <2>4. Emitted(t, e)' = Emitted(t, e) \cup {n + 1} BY <1>2, <1>3, <2>1, <2>2, <2>3
  <2>5. Emitted(ev.type, ev.engine)' = Emitted(t, e)' BY <2>1, <1>4
  <2>q. QED BY <2>1, <2>4, <2>5
<1>q. QED BY <1>1, <1>2, <1>6, <1>7

LEMMA OutcomeTold ==
    ASSUME TypeOK, Outcomes, stage \in Looping, eng <= EngineCount,
           NEW s \in Statuses, outcomes' = Append(outcomes, Outcome(eng, s))
    PROVE  /\ \A r : ~Ended(eng, r)
           /\ \A e, r : Ended(e, r)' <=> Ended(e, r) \/ (e = eng /\ r = s)
<1>1. eng \in Nat /\ eng \in Engines /\ outcomes \in Seq(OutcomeType) BY DEF TypeOK
<1>2. Len(outcomes) = eng - 1 /\ \A i \in 1..Len(outcomes) : outcomes[i].engine = i
  BY DEF Outcomes, EveryEngineHasOneOutcome, Looping
<1>3. PICK n \in Nat : n = Len(outcomes) BY <1>1
<1>4. Outcome(eng, s) \in OutcomeType BY <1>1 DEF Outcome, OutcomeType
<1>5. /\ Len(outcomes') = n + 1 /\ outcomes'[n + 1] = Outcome(eng, s)
      /\ \A i \in 1..n : outcomes'[i] = outcomes[i]
  BY <1>1, <1>3, <1>4
<1>6. \A r : ~Ended(eng, r) BY <1>1, <1>2 DEF Ended
<1>7. 1..(n + 1) = 1..n \cup {n + 1} BY <1>3
<1>8. \A e, r : Ended(e, r)' <=> \E j \in 1..(n + 1) : outcomes'[j].engine = e /\ outcomes'[j].status = r
  BY <1>5 DEF Ended
<1>9. \A e, r : Ended(e, r) <=> \E j \in 1..n : outcomes[j].engine = e /\ outcomes[j].status = r
  BY <1>3 DEF Ended
<1>10. outcomes'[n + 1].engine = eng /\ outcomes'[n + 1].status = s BY <1>5 DEF Outcome
<1>11. ASSUME NEW e, NEW r PROVE Ended(e, r)' <=> Ended(e, r) \/ (e = eng /\ r = s)
  BY <1>5, <1>7, <1>8, <1>9, <1>10
<1>q. QED BY <1>6, <1>11

LEMMA InitTold == Init => ToldInv
<1> SUFFICES ASSUME Init PROVE ToldInv OBVIOUS
<1>1. events \in Seq(EventType) /\ Len(events) = 0 /\ Len(outcomes) = 0 /\ stage = "none" BY DEF Init
<1>2. \A t, e : Emitted(t, e) = {} BY <1>1 DEF Emitted
<1>3. \A e, s : ~Ended(e, s) BY <1>1 DEF Ended
<1>4. EventsTell BY <1>2, <1>3 DEF EventsTell, OnceIf
<1>5. OwnFailovers BY <1>1 DEF OwnFailovers, WarningsAreThisRuns, Looping
<1>q. QED BY <1>1, <1>4, <1>5 DEF ToldInv

LEMMA StepTold == IInv /\ ToldInv /\ [Next]_vars => ToldInv'
<1> SUFFICES ASSUME IInv, ToldInv, [Next]_vars PROVE ToldInv' OBVIOUS
<1>T. /\ TypeOK /\ Outcomes /\ events \in Seq(EventType) /\ eng \in 1..(EngineCount + 1)
      /\ outcomes \in Seq(OutcomeType) /\ failovers \in Seq(FailoverType) /\ advice \in Advices
      /\ EngineCount \in Nat
  BY DEF IInv, TypeOK, ToldInv
<1>P. stage \in Looping => eng <= EngineCount /\ eng \in Engines BY <1>T DEF IInv, Position
<1>S. stage \in Stages BY DEF IInv, TypeOK
<1>W. stage \notin {"none", "render", "remember"} => Emitted("ProviderFailover", 0) = {}
  BY <1>S DEF ToldInv, OwnFailovers, Looping, Stages
<1>F. stage # "none" => \A i \in 1..Len(failovers) : failovers[i].run = holder
  BY DEF ToldInv, OwnFailovers
<1>K. ASSUME UNCHANGED <<events, outcomes>> PROVE events' \in Seq(EventType) /\ EventsTell'
  <2>1. \A t, e : Emitted(t, e)' = Emitted(t, e) BY <1>K DEF Emitted
  <2>2. \A e, s : Ended(e, s)' <=> Ended(e, s) BY <1>K DEF Ended
  <2>q. QED BY <1>T, <1>K, <2>1, <2>2 DEF ToldInv, EventsTell, OnceIf
<1>E. ASSUME UNCHANGED <<events, outcomes, failovers, holder>>,
             stage \notin {"none", "render", "remember"}, stage' \notin {"render", "remember"}
      PROVE  ToldInv'
  <2>1. Emitted("ProviderFailover", 0)' = {} BY <1>E, <1>W DEF Emitted
  <2>2. OwnFailovers' BY <1>E, <1>F, <2>1 DEF OwnFailovers, WarningsAreThisRuns
  <2>q. QED BY <1>E, <1>K, <2>2 DEF ToldInv
<1>L. ASSUME UNCHANGED <<outcomes, failovers, holder>>, NEW ev \in EventType, events' = Append(events, ev),
             ev.type \in {"AdviserConsulted", "AuditCompleted"}
      PROVE  /\ events' \in Seq(EventType) /\ EventsTell'
             /\ Emitted("ProviderFailover", 0)' = Emitted("ProviderFailover", 0)
  <2>1. events' \in Seq(EventType) BY <1>T, <1>L, EventAppended
  <2>2. \A t, e : ~(ev.type = t /\ ev.engine = e) => Emitted(t, e)' = Emitted(t, e)
    BY <1>T, <1>L, EventAppended
  <2>3. \A e : /\ Emitted("EngineCompleted", e)' = Emitted("EngineCompleted", e)
               /\ Emitted("EngineFailed", e)' = Emitted("EngineFailed", e)
               /\ Emitted("ProviderFailover", e)' = Emitted("ProviderFailover", e)
    BY <1>L, <2>2
  <2>4. \A e, s : Ended(e, s)' <=> Ended(e, s) BY <1>L DEF Ended
  <2>q. QED BY <2>1, <2>3, <2>4 DEF ToldInv, EventsTell, OnceIf
<1>0. CASE UNCHANGED vars
  <2>1. UNCHANGED <<events, outcomes, failovers, holder, stage, warned>> BY <1>0 DEF vars
  <2>2. Emitted("ProviderFailover", 0)' = Emitted("ProviderFailover", 0) BY <2>1 DEF Emitted
  <2>3. OwnFailovers' BY <2>1, <2>2 DEF ToldInv, OwnFailovers, WarningsAreThisRuns
  <2>q. QED BY <2>1, <2>3, <1>K DEF ToldInv
<1>1. CASE \/ \E r \in Runs : Request(r)
           \/ \E t \in Tools : ToolUnrecorded(t) \/ ToolRecord(t) \/ ToolAppend(t)
  <2>1. UNCHANGED <<events, outcomes, failovers, holder, stage, warned>>
    BY <1>1 DEF Request, ToolUnrecorded, ToolRecord, ToolAppend
  <2>2. Emitted("ProviderFailover", 0)' = Emitted("ProviderFailover", 0) BY <2>1 DEF Emitted
  <2>3. OwnFailovers' BY <2>1, <2>2 DEF ToldInv, OwnFailovers, WarningsAreThisRuns
  <2>q. QED BY <2>1, <2>3, <1>K DEF ToldInv
<1>2. CASE Acquire
  <2>1. /\ events' = <<>> /\ outcomes' = <<>> /\ failovers' = <<>>
        /\ stage' \in {"supports", "abort"}
    BY <1>2 DEF Acquire, ClearedFailovers
  <2>2. \A t, e : Emitted(t, e)' = {} BY <2>1 DEF Emitted
  <2>3. \A e, s : ~Ended(e, s)' BY <2>1 DEF Ended
  <2>4. EventsTell' BY <2>2, <2>3 DEF EventsTell, OnceIf
  <2>5. OwnFailovers' BY <2>1, <2>2 DEF OwnFailovers, WarningsAreThisRuns
  <2>6. events' \in Seq(EventType) BY <2>1
  <2>q. QED BY <2>4, <2>5, <2>6 DEF ToldInv
<1>3. CASE Skip
  <2>1. /\ outcomes' = Append(outcomes, Outcome(eng, "skipped"))
        /\ UNCHANGED <<events, failovers, holder>> /\ stage' \in {"publish", "supports"}
        /\ stage = "supports" /\ stage \in Looping
    BY <1>3 DEF Skip, NextStage, Looping
  <2>2. \A e : (Ended(e, "completed")' <=> Ended(e, "completed")) /\ (Ended(e, "failed")' <=> Ended(e, "failed"))
    <3>1. \A e, r : Ended(e, r)' <=> Ended(e, r) \/ (e = eng /\ r = "skipped")
      BY <1>T, <1>P, <2>1, OutcomeTold DEF Statuses
    <3>q. QED BY <3>1
  <2>3. \A t, e : Emitted(t, e)' = Emitted(t, e) BY <2>1 DEF Emitted
  <2>4. EventsTell' BY <2>2, <2>3 DEF ToldInv, EventsTell, OnceIf
  <2>5. OwnFailovers' BY <1>F, <1>W, <2>1, <2>3 DEF OwnFailovers, WarningsAreThisRuns
  <2>q. QED BY <1>T, <2>1, <2>4, <2>5 DEF ToldInv
<1>4. CASE Start \/ (\E x \in BOOLEAN : Fail(x)) \/ (\E a \in Advices : Advise(a)) \/ Publish
  BY <1>4, <1>E DEF Start, Fail, Advise, Publish
<1>5. CASE Complete
  <2>1. /\ outcomes' = Append(outcomes, Outcome(eng, "completed"))
        /\ events' = Append(events, Event("EngineCompleted", eng))
        /\ UNCHANGED <<failovers, holder>> /\ stage' \in {"publish", "supports"}
        /\ stage = "analyze" /\ stage \in Looping
    BY <1>5 DEF Complete, NextStage, Looping, Emit
  <2>0. PICK k \in Engines : k = eng BY <1>P, <2>1
  <2>2. PICK ev \in EventType : ev = Event("EngineCompleted", k) /\ ev.type = "EngineCompleted" /\ ev.engine = k
    <3>1. k \in 0..EngineCount /\ "EngineCompleted" \in EventTypes BY <1>T, <1>P, <2>0, <2>1 DEF EventTypes
    <3>q. QED BY <3>1, EventTyped
  <2>3. \A r : ~Ended(k, r)
    BY <1>T, <1>P, <2>0, <2>1, OutcomeTold DEF Statuses
  <2>4. \A e, r : Ended(e, r)' <=> Ended(e, r) \/ (e = k /\ r = "completed")
    BY <1>T, <1>P, <2>0, <2>1, OutcomeTold DEF Statuses
  <2>5. /\ \A t, e : ~(t = "EngineCompleted" /\ e = k) => Emitted(t, e)' = Emitted(t, e)
        /\ Emitted("EngineCompleted", k)' = Emitted("EngineCompleted", k) \cup {Len(events) + 1}
        /\ events' \in Seq(EventType)
    <3>0. events' = Append(events, ev) BY <2>0, <2>1, <2>2
    <3>1. /\ events' \in Seq(EventType)
          /\ \A t, e : ~(ev.type = t /\ ev.engine = e) => Emitted(t, e)' = Emitted(t, e)
          /\ Emitted(ev.type, ev.engine)' = Emitted(ev.type, ev.engine) \cup {Len(events) + 1}
      BY <1>T, <3>0, EventAppended
    <3>q. QED BY <2>2, <3>1
  <2>6. EventsTell'
    <3> SUFFICES ASSUME NEW e \in Engines
                 PROVE  /\ OnceIf(Emitted("EngineCompleted", e), Ended(e, "completed"))'
                        /\ OnceIf(Emitted("EngineFailed", e), Ended(e, "failed"))'
      BY DEF EventsTell
    <3>1. /\ OnceIf(Emitted("EngineCompleted", e), Ended(e, "completed"))
          /\ OnceIf(Emitted("EngineFailed", e), Ended(e, "failed"))
      BY DEF ToldInv, EventsTell
    <3>2. Emitted("EngineFailed", e)' = Emitted("EngineFailed", e) /\ (Ended(e, "failed")' <=> Ended(e, "failed"))
      BY <2>4, <2>5
    <3>3. CASE e = k
      <4>1. Ended(e, "completed")' /\ ~Ended(e, "completed") BY <2>3, <2>4, <3>3
      <4>3. Emitted("EngineCompleted", e) = {} BY <3>1, <4>1 DEF OnceIf
      <4>2. Emitted("EngineCompleted", e)' = {Len(events) + 1} BY <2>5, <3>3, <4>3
      <4>q. QED BY <3>1, <3>2, <4>1, <4>2 DEF OnceIf
    <3>4. CASE e # k
      <4>1. /\ Emitted("EngineCompleted", e)' = Emitted("EngineCompleted", e)
            /\ (Ended(e, "completed")' <=> Ended(e, "completed"))
        BY <2>4, <2>5, <3>4
      <4>q. QED BY <3>1, <3>2, <4>1 DEF OnceIf
    <3>q. QED BY <3>3, <3>4
  <2>7. Emitted("ProviderFailover", 0)' = {} BY <1>W, <2>1, <2>5
  <2>8. OwnFailovers' BY <1>F, <2>1, <2>7 DEF OwnFailovers, WarningsAreThisRuns
  <2>q. QED BY <2>5, <2>6, <2>8 DEF ToldInv
<1>6. CASE Retry
  <2>1. /\ events' = Append(events, Consulted(eng, TRUE)) /\ stage = "decide" /\ stage' = "analyze"
        /\ UNCHANGED <<outcomes, failovers, holder>>
    BY <1>6 DEF Retry, Emit
  <2>2. Consulted(eng, TRUE) \in EventType /\ Consulted(eng, TRUE).type = "AdviserConsulted"
    BY <1>P, <2>1, ConsultedTyped DEF Looping
  <2>3. /\ events' \in Seq(EventType) /\ EventsTell'
        /\ Emitted("ProviderFailover", 0)' = Emitted("ProviderFailover", 0)
    BY <1>L, <2>1, <2>2
  <2>4. OwnFailovers' BY <1>F, <1>W, <2>1, <2>3 DEF OwnFailovers, WarningsAreThisRuns
  <2>q. QED BY <2>3, <2>4 DEF ToldInv
<1>7. CASE GiveUp
  <2>1. /\ outcomes' = Append(outcomes, Outcome(eng, "failed")) /\ events' = events \o GiveUpEvents(eng)
        /\ UNCHANGED <<failovers, holder>> /\ stage' \in {"publish", "supports"}
        /\ stage = "decide" /\ stage \in Looping
    BY <1>7 DEF GiveUp, NextStage, Looping
  <2>0. PICK k \in Engines : k = eng BY <1>P, <2>1
  <2>2. PICK ev \in EventType : ev = Event("EngineFailed", k) /\ ev.type = "EngineFailed" /\ ev.engine = k
    <3>1. k \in 0..EngineCount /\ "EngineFailed" \in EventTypes BY <1>T, <1>P, <2>0, <2>1 DEF EventTypes
    <3>q. QED BY <3>1, EventTyped
  <2>3. PICK co \in EventType : co = Consulted(k, FALSE) /\ co.type = "AdviserConsulted"
    BY <1>P, <2>0, <2>1, ConsultedTyped
  <2>4. \A r : ~Ended(k, r)
    BY <1>T, <1>P, <2>0, <2>1, OutcomeTold DEF Statuses
  <2>5. \A e, r : Ended(e, r)' <=> Ended(e, r) \/ (e = k /\ r = "failed")
    BY <1>T, <1>P, <2>0, <2>1, OutcomeTold DEF Statuses
  <2>6. \E m : /\ \A t, e : t # "AdviserConsulted" /\ ~(t = "EngineFailed" /\ e = k) => Emitted(t, e)' = Emitted(t, e)
               /\ Emitted("EngineFailed", k)' = Emitted("EngineFailed", k) \cup {m}
               /\ events' \in Seq(EventType)
    <3>1. CASE advice = NoAdvice
      <4>1. events' = Append(events, ev) BY <1>T, <2>0, <2>1, <2>2, <3>1 DEF GiveUpEvents
      <4>2. /\ \A t, e : ~(ev.type = t /\ ev.engine = e) => Emitted(t, e)' = Emitted(t, e)
            /\ Emitted(ev.type, ev.engine)' = Emitted(ev.type, ev.engine) \cup {Len(events) + 1}
            /\ events' \in Seq(EventType)
        BY <1>T, <4>1, EventAppended
      <4>q. QED BY <2>2, <4>2
    <3>2. CASE advice # NoAdvice
      <4>0. GiveUpEvents(eng) = <<co>> \o <<ev>> BY <2>0, <2>2, <2>3, <3>2 DEF GiveUpEvents
      <4>1. events' = Append(Append(events, co), ev)
        BY <1>T, <2>1, <4>0
      <4>2. PICK n \in Nat : n = Len(events) BY <1>T
      <4>3. /\ events' \in Seq(EventType) /\ Len(events') = n + 2
            /\ events'[n + 1] = co /\ events'[n + 2] = ev /\ \A i \in 1..n : events'[i] = events[i]
        <5>1. Append(events, co) \in Seq(EventType) /\ Len(Append(events, co)) = n + 1
              /\ Append(events, co)[n + 1] = co /\ \A i \in 1..n : Append(events, co)[i] = events[i]
          BY <1>T, <4>2
        <5>2. PICK mid \in Seq(EventType) : mid = Append(events, co) BY <5>1
        <5>q. QED BY <4>1, <4>2, <5>1, <5>2
      <4>4. 1..(n + 2) = 1..n \cup {n + 1, n + 2} BY <4>2
      <4>5. \A t, e : Emitted(t, e)' = {i \in 1..(n + 2) : events'[i].type = t /\ events'[i].engine = e}
        BY <4>3 DEF Emitted
      <4>6. \A t, e : Emitted(t, e) = {i \in 1..n : events[i].type = t /\ events[i].engine = e}
        BY <4>2 DEF Emitted
      <4>7. ASSUME NEW t, NEW e, t # "AdviserConsulted", ~(t = "EngineFailed" /\ e = k)
            PROVE  Emitted(t, e)' = Emitted(t, e)
        BY <2>2, <2>3, <4>3, <4>4, <4>5, <4>6, <4>7
      <4>8. Emitted("EngineFailed", k)' = Emitted("EngineFailed", k) \cup {n + 2}
        BY <2>2, <2>3, <4>3, <4>4, <4>5, <4>6
      <4>q. QED BY <4>3, <4>7, <4>8
    <3>q. QED BY <3>1, <3>2
  <2>7. PICK m : /\ \A t, e : t # "AdviserConsulted" /\ ~(t = "EngineFailed" /\ e = k) => Emitted(t, e)' = Emitted(t, e)
                 /\ Emitted("EngineFailed", k)' = Emitted("EngineFailed", k) \cup {m}
                 /\ events' \in Seq(EventType)
    BY <2>6, Zenon
  <2>8. EventsTell'
    <3> SUFFICES ASSUME NEW e \in Engines
                 PROVE  /\ OnceIf(Emitted("EngineCompleted", e), Ended(e, "completed"))'
                        /\ OnceIf(Emitted("EngineFailed", e), Ended(e, "failed"))'
      BY DEF EventsTell
    <3>1. /\ OnceIf(Emitted("EngineCompleted", e), Ended(e, "completed"))
          /\ OnceIf(Emitted("EngineFailed", e), Ended(e, "failed"))
      BY DEF ToldInv, EventsTell
    <3>2. /\ Emitted("EngineCompleted", e)' = Emitted("EngineCompleted", e)
          /\ (Ended(e, "completed")' <=> Ended(e, "completed"))
      <4>1. Emitted("EngineCompleted", e)' = Emitted("EngineCompleted", e) BY <2>7
      <4>q. QED BY <2>5, <4>1
    <3>3. CASE e = k
      <4>1. Ended(e, "failed")' /\ ~Ended(e, "failed") BY <2>4, <2>5, <3>3
      <4>3. Emitted("EngineFailed", e) = {} BY <3>1, <4>1 DEF OnceIf
      <4>2. Emitted("EngineFailed", e)' = {m} BY <2>7, <3>3, <4>3
      <4>q. QED BY <3>1, <3>2, <4>1, <4>2 DEF OnceIf
    <3>4. CASE e # k
      <4>1. /\ Emitted("EngineFailed", e)' = Emitted("EngineFailed", e)
            /\ (Ended(e, "failed")' <=> Ended(e, "failed"))
        <5>1. Emitted("EngineFailed", e)' = Emitted("EngineFailed", e) BY <2>7, <3>4
        <5>q. QED BY <2>5, <3>4, <5>1
      <4>q. QED BY <3>1, <3>2, <4>1 DEF OnceIf
    <3>q. QED BY <3>3, <3>4
  <2>9. Emitted("ProviderFailover", 0)' = {}
    <3>1. Emitted("ProviderFailover", 0)' = Emitted("ProviderFailover", 0) BY <2>7
    <3>q. QED BY <1>W, <2>1, <3>1
  <2>10. OwnFailovers' BY <1>F, <2>1, <2>9 DEF OwnFailovers, WarningsAreThisRuns
  <2>q. QED BY <2>6, <2>8, <2>10 DEF ToldInv
<1>8. CASE Report
  <2>1. /\ warned' = Warnings(failovers) /\ events' = events \o FailoverEvents
        /\ stage = "outputs" /\ stage' = "render" /\ UNCHANGED <<outcomes, failovers, holder>>
    BY <1>8 DEF Report
  <2>2. PICK n \in Nat : n = Len(events) BY <1>T
  <2>3. PICK m \in Nat : m = Len(failovers) BY <1>T
  <2>4. PICK fo \in EventType : fo = Event("ProviderFailover", 0) /\ fo.type = "ProviderFailover" /\ fo.engine = 0
    <3>1. 0 \in 0..EngineCount /\ "ProviderFailover" \in EventTypes BY <1>T DEF EventTypes
    <3>q. QED BY <3>1, EventTyped
  <2>5. FailoverEvents \in Seq(EventType) /\ Len(FailoverEvents) = m /\ \A i \in 1..m : FailoverEvents[i] = fo
    <3>1. FailoverEvents = [i \in 1..m |-> fo] BY <2>3, <2>4 DEF FailoverEvents
    <3>2. [i \in 1..m |-> fo] \in [1..m -> EventType] BY <2>4
    <3>3. \A l \in Nat : \A u : u \in [1..l -> EventType] => u \in Seq(EventType) /\ Len(u) = l OBVIOUS
    <3>q. QED BY <2>3, <3>1, <3>2, <3>3
  <2>6. PICK fe \in Seq(EventType) : fe = FailoverEvents /\ Len(fe) = m /\ \A i \in 1..m : fe[i] = fo BY <2>5
  <2>7. /\ events' \in Seq(EventType) /\ Len(events') = n + m
        /\ \A i \in 1..n : events'[i] = events[i]
        /\ \A i \in 1..(n + m) : i > n => events'[i] = fo
    <3>1. events' = events \o fe BY <2>1, <2>6
    <3>2. events' \in Seq(EventType) /\ Len(events') = n + m BY <1>T, <2>2, <2>6, <3>1
    <3>3. \A i \in 1..(n + m) : events'[i] = IF i <= n THEN events[i] ELSE fe[i - n]
      BY <1>T, <2>2, <2>3, <2>6, <3>1
    <3>4. \A i \in 1..n : i \in 1..(n + m) /\ i <= n BY <2>2, <2>3
    <3>5. \A i \in 1..(n + m) : i > n => i - n \in 1..m /\ ~(i <= n) BY <2>2, <2>3
    <3>q. QED BY <2>6, <3>2, <3>3, <3>4, <3>5
  <2>8. \A i \in 1..(n + m) : i \in 1..n \/ i > n BY <2>2, <2>3
  <2>9. \A t, e : Emitted(t, e)' = {i \in 1..(n + m) : events'[i].type = t /\ events'[i].engine = e}
    BY <2>7 DEF Emitted
  <2>10. \A t, e : Emitted(t, e) = {i \in 1..n : events[i].type = t /\ events[i].engine = e}
    BY <2>2 DEF Emitted
  <2>11. \A i \in 1..n : i \in 1..(n + m) BY <2>2, <2>3
  <2>12. ASSUME NEW t, NEW e, t # "ProviderFailover" PROVE Emitted(t, e)' = Emitted(t, e)
    BY <2>4, <2>7, <2>8, <2>9, <2>10, <2>11, <2>12
  <2>13. \A e, s : Ended(e, s)' <=> Ended(e, s) BY <2>1 DEF Ended
  <2>14. EventsTell'
    BY <2>12, <2>13 DEF ToldInv, EventsTell, OnceIf
  <2>15. \A f \in warned' : f.run = holder' BY <1>F, <2>1 DEF Warnings
  <2>16. warned' = {} <=> Emitted("ProviderFailover", 0)' = {}
    <3>1. CASE m = 0
      <4>1. warned' = {} BY <2>1, <2>3, <3>1 DEF Warnings
      <4>3. 1..(n + m) = 1..n BY <2>2, <3>1
      <4>2. Emitted("ProviderFailover", 0)' = Emitted("ProviderFailover", 0)
        BY <2>7, <2>9, <2>10, <4>3
      <4>q. QED BY <1>W, <2>1, <4>1, <4>2
    <3>2. CASE m > 0
      <4>1. 1 \in 1..m /\ n + 1 \in 1..(n + m) /\ n + 1 > n BY <2>2, <2>3, <3>2
      <4>2. n + 1 \in Emitted("ProviderFailover", 0)' BY <2>4, <2>7, <2>9, <4>1
      <4>3. failovers[1] \in warned' BY <2>1, <2>3, <4>1 DEF Warnings
      <4>q. QED BY <4>2, <4>3
    <3>q. QED BY <2>3, <3>1, <3>2
  <2>17. OwnFailovers' BY <1>F, <2>1, <2>15, <2>16 DEF OwnFailovers, WarningsAreThisRuns, Looping
  <2>q. QED BY <2>7, <2>14, <2>17 DEF ToldInv
<1>9. CASE Rendered
  <2>1. /\ events' = Append(events, Event("AuditCompleted", 0)) /\ stage = "render" /\ stage' = "remember"
        /\ UNCHANGED <<outcomes, failovers, holder, warned>>
    BY <1>9 DEF Rendered, Emit
  <2>2. Event("AuditCompleted", 0) \in EventType /\ Event("AuditCompleted", 0).type = "AuditCompleted"
    BY <1>T DEF Event, EventType, EventTypes
  <2>3. /\ events' \in Seq(EventType) /\ EventsTell'
        /\ Emitted("ProviderFailover", 0)' = Emitted("ProviderFailover", 0)
    BY <1>L, <2>1, <2>2
  <2>4. OwnFailovers' BY <2>1, <2>3 DEF ToldInv, OwnFailovers, WarningsAreThisRuns, Looping
  <2>q. QED BY <2>3, <2>4 DEF ToldInv
<1>10. CASE Remember \/ Abort
  <2>1. UNCHANGED <<events, outcomes, failovers>> /\ stage' = "none"
    BY <1>10 DEF Remember, Abort, Release
  <2>2. OwnFailovers' BY <2>1 DEF OwnFailovers, WarningsAreThisRuns, Looping
  <2>q. QED BY <1>K, <2>1, <2>2 DEF ToldInv
<1>11. CASE Failover
  <2>1. PICK s \in Switches : failovers' = Append(failovers, [run |-> holder, switch |-> s])
    BY <1>11 DEF Failover
  <2>2. UNCHANGED <<events, outcomes, holder, stage, warned>> /\ stage # "none" /\ holder \in Runs
    BY <1>11 DEF Failover, IInv, Position
  <2>3. [run |-> holder, switch |-> s] \in FailoverType BY <2>2 DEF FailoverType
  <2>4. \A i \in 1..Len(failovers') : failovers'[i].run = holder
    BY <1>T, <1>F, <2>1, <2>2, <2>3
  <2>5. Emitted("ProviderFailover", 0)' = Emitted("ProviderFailover", 0) BY <2>2 DEF Emitted
  <2>6. OwnFailovers' BY <2>2, <2>4, <2>5 DEF ToldInv, OwnFailovers, WarningsAreThisRuns
  <2>q. QED BY <1>K, <2>2, <2>6 DEF ToldInv
<1>q. QED
  BY <1>0, <1>1, <1>2, <1>3, <1>4, <1>5, <1>6, <1>7, <1>8, <1>9, <1>10, <1>11 DEF Next, RunStep

LEMMA CardinalityOfOnce ==
    ASSUME NEW S, IsFiniteSet(S), NEW b \in BOOLEAN, OnceIf(S, b)
    PROVE  Cardinality(S) = IF b THEN 1 ELSE 0
<1>1. CASE b BY <1>1, FS_Singleton DEF OnceIf
<1>2. CASE ~b BY <1>2, FS_EmptySet DEF OnceIf
<1>q. QED BY <1>1, <1>2

LEMMA ToldByNumbers == ToldInv => ToldAsItWas
<1> SUFFICES ASSUME ToldInv PROVE ToldAsItWas OBVIOUS
<1>1. \A t, e : IsFiniteSet(Emitted(t, e))
  <2>1. Len(events) \in Nat BY DEF ToldInv
  <2>2. IsFiniteSet(1..Len(events)) BY <2>1, FS_Interval
  <2>3. \A t, e : Emitted(t, e) \in SUBSET (1..Len(events)) BY DEF Emitted
  <2>q. QED BY <2>2, <2>3, FS_Subset
<1>2. \A e, s : Ended(e, s) <=> s \in {outcomes[i].status : i \in {j \in 1..Len(outcomes) : outcomes[j].engine = e}}
  BY DEF Ended
<1>3. ASSUME NEW e \in Engines
      PROVE  /\ Cardinality(Emitted("EngineCompleted", e)) = IF Ended(e, "completed") THEN 1 ELSE 0
             /\ Cardinality(Emitted("EngineFailed", e)) = IF Ended(e, "failed") THEN 1 ELSE 0
  <2>1. /\ OnceIf(Emitted("EngineCompleted", e), Ended(e, "completed"))
        /\ OnceIf(Emitted("EngineFailed", e), Ended(e, "failed"))
    BY DEF ToldInv, EventsTell
  <2>2. Ended(e, "completed") \in BOOLEAN /\ Ended(e, "failed") \in BOOLEAN BY DEF Ended
  <2>3. Cardinality(Emitted("EngineCompleted", e)) = IF Ended(e, "completed") THEN 1 ELSE 0
    BY <1>1, <2>1, <2>2, CardinalityOfOnce
  <2>4. Cardinality(Emitted("EngineFailed", e)) = IF Ended(e, "failed") THEN 1 ELSE 0
    BY <1>1, <2>1, <2>2, CardinalityOfOnce
  <2>q. QED BY <2>3, <2>4
<1>4. EventsMatchOutcomes BY <1>2, <1>3 DEF EventsMatchOutcomes
<1>5. WarningsAreThisRuns BY DEF ToldInv, OwnFailovers
<1>q. QED BY <1>4, <1>5 DEF ToldAsItWas

(* Whatever the engines and the adviser do and whichever providers fail    *)
(* over, the events tell each engine's outcome once, and the warnings of a *)
(* report are of this run's failovers, one exactly if there was any.       *)
THEOREM ToldTruly == Spec => []ToldAsItWas
BY InitIInv, StepIInv, InitTold, StepTold, ToldByNumbers, PTL DEF Spec
-----------------------------------------------------------------------------
HIDE RunAssumption DEF Engines
(* Diff mode.  The cache never disagrees with the repository: whatever map *)
(* a commit is looked up in holds that commit's findings, and every        *)
(* insertion that returned is on disk.  A diff is a function of the two    *)
(* commits and of the cached findings of the base, so what it promises     *)
(* follows.                                                                *)
USE DiffAssumption

DiffTyped ==
    /\ commits \in Seq(Trees) /\ Len(commits) \in Commits
    /\ pc \in [Processes -> {"closed", "failed", "open", "insert", "flush"}]
    /\ retries \in [Processes -> 0..LockRetries]
    /\ lock \in SUBSET Processes
    /\ DOMAIN inner = Processes
    /\ target \in [Processes -> Commits \cup {0}]
    /\ diff \in Diffs \cup {Nothing}
    /\ refused \in SUBSET Commits

(* What map says of the commits it knows is what their analysis found. *)
Right(map) ==
    /\ DOMAIN map \subseteq DOMAIN commits
    /\ map = [c \in DOMAIN map |-> Findings(commits[c])]

CacheRight == Right(db) /\ Right(buffered) /\ \A p \in Processes : Right(inner[p])

Locked == \A p \in Processes : pc[p] \in {"open", "insert", "flush"} => lock = {p}

(* A commit is on its way to the disk until flush has returned, unless it  *)
(* was refused.                                                            *)
OnDisk ==
    /\ \A p \in Processes : pc[p] \in {"insert", "flush"} => target[p] \in DOMAIN commits
    /\ \A p \in Processes :
          pc[p] = "flush" => target[p] \in DOMAIN buffered \cup DOMAIN db \cup refused
    /\ inserted \subseteq DOMAIN commits /\ inserted \subseteq DOMAIN db \cup refused

(* The last diff is what compute_diff makes of its two commits.            *)
DiffRight ==
    diff # Nothing =>
        /\ diff.base \in DOMAIN commits /\ diff.head \in DOMAIN commits
        /\ \E changed \in ChangedFiles(commits[diff.base], commits[diff.head]) :
              /\ diff.rerun = RerunFiles(changed)
              /\ diff.cached \subseteq CachedFindings(Findings(commits[diff.base]), changed)
              /\ diff.known =>
                    diff.cached = CachedFindings(Findings(commits[diff.base]), changed)

DiffInv == DiffTyped /\ CacheRight /\ Locked /\ OnDisk /\ DiffRight
-----------------------------------------------------------------------------
LEMMA EmptyRight == Right(Empty)
BY DEF Right, Empty

LEMMA FindingsArePaths == \A tree : Findings(tree) \subseteq Paths
BY DEF Findings

(* A map that knows one more commit, as that commit's analysis found it.   *)
LEMMA WithRight ==
    ASSUME NEW map, Right(map), NEW c \in DOMAIN commits
    PROVE  /\ Right(With(map, c, Findings(commits[c])))
           /\ DOMAIN With(map, c, Findings(commits[c])) = DOMAIN map \cup {c}
BY DEF Right, With

(* A flush: what was buffered comes on top of what was on disk.            *)
LEMMA OverRight ==
    ASSUME NEW top, NEW map, Right(top), Right(map)
    PROVE  Right(Over(top, map)) /\ DOMAIN Over(top, map) = DOMAIN top \cup DOMAIN map
BY DEF Right, Over

(* get answers with what the commit's analysis found, or with nothing for  *)
(* a commit that no map knows.                                             *)
LEMMA GetRight ==
    ASSUME CacheRight, NEW p \in Processes, NEW c
    PROVE  /\ Known(p, c) => c \in DOMAIN commits /\ Get(p, c) = Findings(commits[c])
           /\ ~Known(p, c) => Get(p, c) = {}
<1>1. Right(inner[p]) /\ Right(db) /\ Right(buffered) BY DEF CacheRight
<1>2. CASE c \in DOMAIN inner[p] BY <1>1, <1>2 DEF Right, Known, Get
<1>3. CASE c \notin DOMAIN inner[p] /\ c \in DOMAIN buffered
  BY <1>1, <1>3 DEF Right, Known, Get
<1>4. CASE c \notin DOMAIN inner[p] /\ c \notin DOMAIN buffered
  BY <1>1, <1>4 DEF Right, Known, Get
<1>q. QED BY <1>2, <1>3, <1>4
-----------------------------------------------------------------------------
LEMMA InitDiffInv == DiffInit => DiffInv
<1> SUFFICES ASSUME DiffInit PROVE DiffInv OBVIOUS
<1>1. DiffTyped
  <2>1. commits = <<First>> /\ First \in Trees BY DEF DiffInit
  <2>2. Len(commits) = 1 /\ commits \in Seq(Trees) BY <2>1
  <2>q. QED BY <2>2 DEF DiffInit, DiffTyped, Commits
<1>2. CacheRight BY EmptyRight DEF DiffInit, CacheRight
<1>3. Locked /\ OnDisk /\ DiffRight BY DEF DiffInit, Locked, OnDisk, DiffRight
<1>q. QED BY <1>1, <1>2, <1>3 DEF DiffInv

(* A new commit leaves everything that is known of the others as it was.   *)
LEMMA StepCommit ==
    ASSUME DiffInv, NEW tree \in Trees, Commit(tree)
    PROVE  DiffInv'
<1>1. /\ commits' = Append(commits, tree) /\ Len(commits) < MaxCommits
      /\ UNCHANGED <<pc, retries, lock, inner, db, buffered, target, diff, inserted, refused>>
  BY DEF Commit
<1>2. commits \in Seq(Trees) /\ Len(commits) \in 1..MaxCommits
  BY DEF DiffInv, DiffTyped, Commits
<1>3. /\ commits' \in Seq(Trees) /\ Len(commits') = Len(commits) + 1
      /\ \A c \in DOMAIN commits : c \in DOMAIN commits' /\ commits'[c] = commits[c]
  BY <1>1, <1>2
<1>4. DiffTyped' BY <1>1, <1>2, <1>3 DEF DiffInv, DiffTyped, Commits
<1>5. ASSUME NEW CONSTANT map, DOMAIN map \subseteq DOMAIN commits,
             map = [c \in DOMAIN map |-> Findings(commits[c])]
      PROVE  /\ DOMAIN map \subseteq DOMAIN commits'
             /\ map = [c \in DOMAIN map |-> Findings(commits'[c])]
  <2>1. \A c \in DOMAIN map : commits'[c] = commits[c] BY <1>3, <1>5
  <2>q. QED BY <1>3, <1>5, <2>1
<1>6. CacheRight' BY <1>1, <1>5 DEF DiffInv, CacheRight, Right
<1>7. Locked' /\ OnDisk' BY <1>1, <1>3 DEF DiffInv, Locked, OnDisk
<1>8. DiffRight' BY <1>1, <1>3 DEF DiffInv, DiffRight
<1>q. QED BY <1>4, <1>6, <1>7, <1>8 DEF DiffInv

(* What a process does with the cache leaves the repository alone.         *)
LEMMA StepUse ==
    ASSUME DiffInv, NEW p \in Processes, Use(p)
    PROVE  DiffInv'
<1> USE DEF DiffInv
<1>0. commits' = commits
  BY DEF Use, Open, RetryOpen, OpenFails, Exit, Crash, Ends, InsertInner, InsertDb, InsertDbFails,
         EncodeFails, Flush, FlushFails, Returns, ComputeDiff
<1>a. pc \in [Processes -> {"closed", "failed", "open", "insert", "flush"}]
      /\ DOMAIN inner = Processes /\ target \in [Processes -> Commits \cup {0}]
      /\ commits \in Seq(Trees) /\ Len(commits) \in Nat /\ DOMAIN commits \subseteq Commits
  BY DEF DiffTyped, Commits
<1>b. Right(db) /\ Right(buffered) /\ \A r \in Processes : Right(inner[r])
  BY DEF CacheRight
<1>1. CASE Open(p)
  <2>1. lock = {} /\ lock' = {p} /\ pc' = [pc EXCEPT ![p] = "open"]
        /\ retries' = [retries EXCEPT ![p] = 0] /\ inner' = [inner EXCEPT ![p] = Empty]
        /\ UNCHANGED <<db, buffered, target, diff, inserted, refused>>
    BY <1>1 DEF Open
  <2>2. DiffTyped' BY <1>0, <2>1 DEF DiffTyped
  <2>3. \A r \in Processes : inner'[r] = IF r = p THEN Empty ELSE inner[r] BY <1>a, <2>1
  <2>4. CacheRight' BY <1>0, <1>b, <2>1, <2>3, EmptyRight DEF CacheRight, Right
  <2>5. \A r \in Processes : pc[r] \notin {"open", "insert", "flush"}
    BY <2>1 DEF Locked
  <2>6. \A r \in Processes : pc'[r] = IF r = p THEN "open" ELSE pc[r] BY <1>a, <2>1
  <2>7. Locked' /\ OnDisk' BY <1>0, <2>1, <2>5, <2>6 DEF Locked, OnDisk
  <2>q. QED BY <1>0, <2>1, <2>2, <2>4, <2>7 DEF DiffRight
<1>2. CASE RetryOpen(p)
  <2>1. /\ retries' = [retries EXCEPT ![p] = @ + 1] /\ retries[p] < LockRetries
        /\ UNCHANGED <<commits, pc, lock, inner, db, buffered, target, diff, inserted, refused>>
    BY <1>2 DEF RetryOpen
  <2>2. DiffTyped' BY <2>1 DEF DiffTyped
  <2>q. QED BY <2>1, <2>2 DEF CacheRight, Right, Locked, OnDisk, DiffRight
<1>3. CASE OpenFails(p)
  <2>1. /\ pc' = [pc EXCEPT ![p] = "failed"]
        /\ UNCHANGED <<commits, retries, lock, inner, db, buffered, target, diff, inserted,
                       refused>>
    BY <1>3 DEF OpenFails
  <2>2. DiffTyped' BY <2>1 DEF DiffTyped
  <2>3. \A r \in Processes : pc'[r] = IF r = p THEN "failed" ELSE pc[r] BY <1>a, <2>1
  <2>q. QED BY <2>1, <2>2, <2>3 DEF CacheRight, Right, Locked, OnDisk, DiffRight
<1>4. CASE Ends(p)
  <2>1. pc' = [pc EXCEPT ![p] = "closed"] /\ lock' = lock \ {p}
        /\ inner' = [inner EXCEPT ![p] = Empty] /\ retries' = [retries EXCEPT ![p] = 0]
        /\ UNCHANGED <<target, diff, inserted>>
    BY <1>4 DEF Ends
  <2>2. /\ \/ (lock = {p} /\ buffered' = Empty)
           \/ (lock # {p} /\ buffered' = buffered)
        /\ \/ db' = db /\ refused' = refused
           \/ lock = {p} /\ db' = Over(buffered, db) /\ refused' = refused \ DOMAIN buffered
    <3>1. CASE lock = {p} BY <1>4, <3>1 DEF Ends, Written, Unwritten
    <3>2. CASE lock # {p} BY <1>4, <3>2 DEF Ends, Written, Unwritten
    <3>q. QED BY <3>1, <3>2
  <2>3. DiffTyped' BY <1>0, <2>1, <2>2 DEF DiffTyped
  <2>4. \A r \in Processes : inner'[r] = IF r = p THEN Empty ELSE inner[r] BY <1>a, <2>1
  <2>5. Right(Over(buffered, db)) /\ DOMAIN Over(buffered, db) = DOMAIN buffered \cup DOMAIN db
    BY <1>b, OverRight
  <2>6. CacheRight' BY <1>0, <1>b, <2>2, <2>4, <2>5, EmptyRight DEF CacheRight, Right
  <2>7. \A r \in Processes : pc'[r] = IF r = p THEN "closed" ELSE pc[r] BY <1>a, <2>1
  <2>8. \A r \in Processes \ {p} : pc[r] \in {"open", "insert", "flush"} => lock = {r} /\ lock # {p}
    BY DEF Locked
  <2>9. Locked' BY <2>1, <2>7, <2>8 DEF Locked
  <2>10. /\ DOMAIN db \subseteq DOMAIN db'
         /\ DOMAIN db \cup refused \subseteq DOMAIN db' \cup refused'
    BY <2>2, <2>5
  <2>11. lock # {p} => buffered' = buffered /\ db' = db /\ refused' = refused BY <2>2
  <2>12. OnDisk' BY <1>0, <2>1, <2>7, <2>8, <2>10, <2>11 DEF OnDisk
  <2>q. QED BY <1>0, <2>1, <2>3, <2>6, <2>9, <2>12 DEF DiffRight
<1>5. ASSUME NEW step \in {"insert", "flush"}, Returns(p, step),
             UNCHANGED <<db, buffered>>, refused' = refused \cup {target[p]}
      PROVE  DiffInv'
  <2>1. pc[p] = step /\ pc' = [pc EXCEPT ![p] = "open"]
        /\ inserted' = inserted \cup {target[p]} /\ target' = [target EXCEPT ![p] = 0]
        /\ UNCHANGED <<retries, lock, inner, diff>>
    BY <1>5 DEF Returns
  <2>2. target[p] \in DOMAIN commits BY <1>5, <2>1 DEF OnDisk
  <2>3. DiffTyped' BY <1>0, <1>a, <1>5, <2>1, <2>2 DEF DiffTyped
  <2>4. CacheRight' BY <1>0, <1>b, <1>5, <2>1 DEF CacheRight, Right
  <2>5. \A r \in Processes : /\ pc'[r] = IF r = p THEN "open" ELSE pc[r]
                             /\ target'[r] = IF r = p THEN 0 ELSE target[r]
    BY <1>a, <2>1
  <2>6. Locked' BY <1>5, <2>1, <2>5 DEF Locked
  <2>7. OnDisk' BY <1>0, <1>5, <2>1, <2>2, <2>5 DEF OnDisk
  <2>q. QED BY <1>0, <2>1, <2>3, <2>4, <2>6, <2>7 DEF DiffRight
<1>6. ASSUME NEW c \in Commits, InsertInner(p, c) PROVE DiffInv'
  <2>1. c \in DOMAIN commits /\ pc[p] = "open"
        /\ inner' = [inner EXCEPT ![p] = With(@, c, Findings(commits[c]))]
        /\ target' = [target EXCEPT ![p] = c] /\ pc' = [pc EXCEPT ![p] = "insert"]
        /\ UNCHANGED <<retries, lock, db, buffered, diff, inserted, refused>>
    BY <1>6 DEF InsertInner
  <2>2. DiffTyped' BY <1>0, <2>1 DEF DiffTyped
  <2>3. \A r \in Processes : inner'[r] = IF r = p THEN With(inner[p], c, Findings(commits[c]))
                                         ELSE inner[r]
    BY <1>a, <2>1
  <2>4. Right(With(inner[p], c, Findings(commits[c]))) BY <1>b, <2>1, WithRight
  <2>5. CacheRight' BY <1>0, <1>b, <2>1, <2>3, <2>4 DEF CacheRight, Right
  <2>6. \A r \in Processes : /\ pc'[r] = IF r = p THEN "insert" ELSE pc[r]
                             /\ target'[r] = IF r = p THEN c ELSE target[r]
    BY <1>a, <2>1
  <2>7. Locked' /\ OnDisk' BY <1>0, <2>1, <2>6 DEF Locked, OnDisk
  <2>q. QED BY <1>0, <2>1, <2>2, <2>5, <2>7 DEF DiffRight
<1>7. CASE InsertDb(p)
  <2>1. pc[p] = "insert" /\ pc' = [pc EXCEPT ![p] = "flush"]
        /\ buffered' = With(buffered, target[p], Findings(commits[target[p]]))
        /\ UNCHANGED <<retries, lock, inner, db, target, diff, inserted, refused>>
    BY <1>7 DEF InsertDb
  <2>2. DiffTyped' BY <1>0, <2>1 DEF DiffTyped
  <2>3. target[p] \in DOMAIN commits BY <2>1 DEF OnDisk
  <2>4. Right(buffered') /\ DOMAIN buffered' = DOMAIN buffered \cup {target[p]}
    BY <1>b, <2>1, <2>3, WithRight
  <2>5. CacheRight' BY <1>0, <1>b, <2>1, <2>4 DEF CacheRight, Right
  <2>6. \A r \in Processes : pc'[r] = IF r = p THEN "flush" ELSE pc[r] BY <1>a, <2>1
  <2>7. Locked' BY <2>1, <2>6 DEF Locked
  <2>8. OnDisk' BY <1>0, <2>1, <2>3, <2>4, <2>6 DEF OnDisk
  <2>q. QED BY <1>0, <2>1, <2>2, <2>5, <2>7, <2>8 DEF DiffRight
<1>8. CASE Flush(p)
  <2>1. pc[p] = "flush" /\ db' = Over(buffered, db) /\ buffered' = Empty
        /\ refused' = refused \ DOMAIN buffered /\ inserted' = inserted \cup {target[p]}
        /\ target' = [target EXCEPT ![p] = 0] /\ pc' = [pc EXCEPT ![p] = "open"]
        /\ UNCHANGED <<retries, lock, inner, diff>>
    BY <1>8 DEF Flush, Returns, Written
  <2>2. DiffTyped' BY <1>0, <2>1 DEF DiffTyped
  <2>3. Right(Over(buffered, db)) /\ DOMAIN Over(buffered, db) = DOMAIN buffered \cup DOMAIN db
    BY <1>b, OverRight
  <2>4. CacheRight' BY <1>0, <1>b, <2>1, <2>3, EmptyRight DEF CacheRight, Right
  <2>5. \A r \in Processes : /\ pc'[r] = IF r = p THEN "open" ELSE pc[r]
                             /\ target'[r] = IF r = p THEN 0 ELSE target[r]
    BY <1>a, <2>1
  <2>6. Locked' BY <2>1, <2>5 DEF Locked
  <2>7. /\ target[p] \in DOMAIN commits /\ target[p] \in DOMAIN db' \cup refused'
        /\ DOMAIN db \cup refused \subseteq DOMAIN db' \cup refused'
    BY <2>1, <2>3 DEF OnDisk
  <2>8. \A r \in Processes \ {p} : pc[r] \notin {"insert", "flush"}
    BY <2>1 DEF Locked
  <2>9. OnDisk' BY <1>0, <2>1, <2>5, <2>7, <2>8 DEF OnDisk
  <2>q. QED BY <1>0, <2>1, <2>2, <2>4, <2>6, <2>9 DEF DiffRight
<1>9. ASSUME NEW b \in Commits, NEW h \in Commits, ComputeDiff(p, b, h) PROVE DiffInv'
  <2>1. {b, h} \subseteq DOMAIN commits
        /\ UNCHANGED <<pc, retries, lock, db, buffered, target, inserted, refused>>
    BY <1>9 DEF ComputeDiff
  <2>2. PICK known \in Readable(p, b), changed \in ChangedFiles(commits[b], commits[h]) :
           /\ inner' = [inner EXCEPT ![p] = IF known THEN With(@, b, Get(p, b)) ELSE @]
           /\ diff' = [base |-> b, head |-> h, known |-> known,
                       rerun |-> RerunFiles(changed),
                       cached |-> CachedFindings(IF known THEN Get(p, b) ELSE {}, changed)]
    BY <1>9 DEF ComputeDiff
  <2> DEFINE previous == IF known THEN Get(p, b) ELSE {}
  <2>3. b \in DOMAIN commits /\ h \in DOMAIN commits BY <2>1
  <2>4. known \in BOOLEAN /\ (known => Known(p, b)) BY DEF Readable
  <2>5. known => Get(p, b) = Findings(commits[b]) BY <2>4, GetRight
  <2>6. previous \subseteq Findings(commits[b]) /\ (known => previous = Findings(commits[b]))
    BY <2>5
  <2> HIDE DEF previous
  <2>7. changed \subseteq Paths /\ Findings(commits[b]) \subseteq Paths
    BY FindingsArePaths DEF ChangedFiles, Differing
  <2>8. /\ RerunFiles(changed) \subseteq Paths
        /\ CachedFindings(previous, changed) \subseteq Paths
        /\ CachedFindings(previous, changed) \subseteq CachedFindings(Findings(commits[b]), changed)
        /\ known => CachedFindings(previous, changed) = CachedFindings(Findings(commits[b]), changed)
    BY <2>6, <2>7 DEF RerunFiles, CachedFindings
  <2>d. diff' = [base |-> b, head |-> h, known |-> known, rerun |-> RerunFiles(changed),
                 cached |-> CachedFindings(previous, changed)]
    BY <2>2 DEF previous
  <2>e. diff' \in Diffs BY <2>4, <2>8, <2>d DEF Diffs
  <2>9. DiffTyped' BY <1>0, <2>1, <2>2, <2>e DEF DiffTyped
  <2>10. \A r \in Processes :
            inner'[r] = IF r = p /\ known THEN With(inner[p], b, Get(p, b)) ELSE inner[r]
    BY <1>a, <2>2
  <2>11. known => Right(With(inner[p], b, Get(p, b))) BY <1>b, <2>3, <2>5, WithRight
  <2>12. CacheRight' BY <1>0, <1>b, <2>1, <2>10, <2>11 DEF CacheRight, Right
  <2>13. Locked' /\ OnDisk' BY <1>0, <2>1 DEF Locked, OnDisk
  <2>14. DiffRight' BY <1>0, <2>3, <2>8, <2>d DEF DiffRight
  <2>q. QED BY <2>9, <2>12, <2>13, <2>14
<1>10. CASE InsertDbFails(p)
  <2>1. pc[p] = "insert" /\ pc' = [pc EXCEPT ![p] = "flush"]
        /\ refused' = refused \cup {target[p]}
        /\ UNCHANGED <<retries, lock, inner, db, buffered, target, diff, inserted>>
    BY <1>10 DEF InsertDbFails
  <2>2. target[p] \in DOMAIN commits BY <2>1 DEF OnDisk
  <2>3. DiffTyped' BY <1>0, <1>a, <2>1, <2>2 DEF DiffTyped
  <2>4. CacheRight' BY <1>0, <1>b, <2>1 DEF CacheRight, Right
  <2>5. \A r \in Processes : pc'[r] = IF r = p THEN "flush" ELSE pc[r] BY <1>a, <2>1
  <2>6. Locked' BY <2>1, <2>5 DEF Locked
  <2>7. OnDisk' BY <1>0, <2>1, <2>2, <2>5 DEF OnDisk
  <2>q. QED BY <1>0, <2>1, <2>3, <2>4, <2>6, <2>7 DEF DiffRight
<1>11. CASE EncodeFails(p) \/ FlushFails(p)
  BY <1>5, <1>11 DEF EncodeFails, FlushFails
<1>12. CASE Exit(p) \/ Crash(p) BY <1>4, <1>12 DEF Exit, Crash
<1>q. QED BY <1>1, <1>2, <1>3, <1>6, <1>7, <1>8, <1>9, <1>10, <1>11, <1>12 DEF Use

LEMMA StepDiffInv == DiffInv /\ [DiffNext]_diffVars => DiffInv'
<1> SUFFICES ASSUME DiffInv, [DiffNext]_diffVars PROVE DiffInv' OBVIOUS
<1>1. CASE UNCHANGED diffVars
  BY <1>1 DEF DiffInv, diffVars, DiffTyped, CacheRight, Right, Locked, OnDisk, DiffRight
<1>q. QED BY <1>1, StepCommit, StepUse DEF DiffNext

THEOREM DiffInvariant == DiffSpec => []DiffInv
BY InitDiffInv, StepDiffInv, PTL DEF DiffSpec
-----------------------------------------------------------------------------
LEMMA RightIsTyped ==
    ASSUME NEW map, Right(map), DOMAIN commits \subseteq Commits
    PROVE  map \in Maps
<1>1. map \in [DOMAIN map -> SUBSET Paths] BY FindingsArePaths DEF Right
<1>2. DOMAIN map \in SUBSET Commits BY DEF Right
<1>q. QED BY <1>1, <1>2 DEF Maps

(* Every variable keeps its type, whoever opens the cache and crashes.     *)
THEOREM DiffTypeCorrect == DiffSpec => []DiffTypeOK
<1>1. DiffInv => DiffTypeOK
  <2> SUFFICES ASSUME DiffInv PROVE DiffTypeOK OBVIOUS
  <2>1. Len(commits) \in Commits /\ DOMAIN commits \subseteq Commits
        /\ \A c \in DOMAIN commits : commits[c] \in Trees
    BY DEF DiffInv, DiffTyped, Commits
  <2>2. db \in Maps /\ buffered \in Maps /\ \A p \in Processes : inner[p] \in Maps
    BY <2>1, RightIsTyped DEF DiffInv, CacheRight
  <2>3. inserted \in SUBSET Commits BY <2>1 DEF DiffInv, OnDisk
  <2>q. QED BY <2>1, <2>2, <2>3 DEF DiffInv, DiffTyped, DiffTypeOK
<1>q. QED BY <1>1, DiffInvariant, PTL

(* Whatever the cache knows of a commit is what its analysis found, and it *)
(* knows every commit that insert has returned for, whatever crashed in    *)
(* between, unless an error on the way to the disk was swallowed.          *)
THEOREM InsertionsKept == DiffSpec => []InsertedIsKept
<1>1. DiffInv => InsertedIsKept
  <2> SUFFICES ASSUME DiffInv, NEW p \in Processes
               PROVE  /\ inserted \subseteq {c \in Commits : Known(p, c)} \cup refused
                      /\ \A c \in Commits : Known(p, c) => Get(p, c) = Findings(commits[c])
    BY DEF InsertedIsKept
  <2>1. inserted \subseteq Commits BY DEF DiffInv, DiffTyped, OnDisk, Commits
  <2>2. inserted \subseteq {c \in Commits : Known(p, c)} \cup refused
    BY <2>1 DEF DiffInv, OnDisk, Known
  <2>q. QED BY <2>2, GetRight DEF DiffInv
<1>q. QED BY <1>1, DiffInvariant, PTL

(* A file that git does not list is as it was, or was renamed.             *)
LEMMA ChangedUnlessMoved ==
    ASSUME NEW base, NEW head, NEW changed \in ChangedFiles(base, head)
    PROVE  /\ changed \subseteq Differing(base, head)
           /\ \A f \in Paths \ changed : base[f] = head[f] \/ f \in Renamed(base, head)
BY DEF ChangedFiles, Differing

(* Whatever two commits are compared, a finding of the head is analysed    *)
(* again or taken from the cache, unless a full rerun passes over its file *)
(* or it is an old one whose crate changed or whose base was not known.    *)
THEOREM LossesAreConfined == DiffSpec => []LossesConfined
<1>1. DiffInv => LossesConfined
  <2> DEFINE base == commits[diff.base]
             head == commits[diff.head]
  <2> SUFFICES ASSUME DiffInv, diff # Nothing,
                      NEW f \in Findings(head) \ (diff.rerun \cup diff.cached)
               PROVE  Passed(f, base, head) \/ Dropped(f, base, head)
    BY DEF LossesConfined
  <2> HIDE DEF base, head
  <2>1. PICK changed \in ChangedFiles(base, head) :
           /\ diff.rerun = RerunFiles(changed)
           /\ diff.known => diff.cached = CachedFindings(Findings(base), changed)
    BY DEF DiffInv, DiffRight, base, head
  <2>2. f \in Paths \ Manifests /\ head[f] \in Flawed /\ head[f] # 0 BY DEF Findings
  <2>3. CASE FullRerun(changed)
    <3>1. CratesOf[f] = {} BY <2>1, <2>2, <2>3 DEF RerunFiles
    <3>2. PICK m \in Manifests : m \in changed BY <2>3 DEF FullRerun
    <3>3. base[m] # head[m] BY <3>2, ChangedUnlessMoved DEF Differing
    <3>q. QED BY <3>1, <3>2, <3>3 DEF Passed
  <2>4. CASE ~FullRerun(changed)
    <3>1. f \notin changed BY <2>1, <2>4 DEF RerunFiles
    <3>2. f \notin Renamed(base, head) BY <2>2 DEF Renamed, Added
    <3>3. base[f] = head[f] BY <2>2, <3>1, <3>2, ChangedUnlessMoved
    <3>4. CASE diff.known
      <4>1. f \in Findings(base) BY <2>2, <3>3 DEF Findings
      <4>2. NamedCrate[f] \in AffectedCrates(changed)
        BY <2>1, <2>4, <3>4, <4>1 DEF CachedFindings
      <4>3. PICK g \in changed : NamedCrate[f] \in CratesOf[g]
        BY <2>4, <4>2 DEF AffectedCrates
      <4>4. g \in Differing(base, head) BY <4>3, ChangedUnlessMoved
      <4>q. QED BY <3>3, <4>3, <4>4 DEF Dropped
    <3>q. QED BY <3>3, <3>4 DEF Dropped
  <2>q. QED BY <2>3, <2>4
<1>q. QED BY <1>1, DiffInvariant, PTL

(* A finding that is taken from the cache still stands at the head, unless *)
(* it names another crate than its file's or its file was moved away.      *)
THEOREM CachedFindingsStand == DiffSpec => []CachedUnlessMoved
<1>1. DiffInv => CachedUnlessMoved
  <2> DEFINE base == commits[diff.base]
             head == commits[diff.head]
  <2> SUFFICES ASSUME DiffInv, diff # Nothing, NEW f \in diff.cached
               PROVE  f \in Findings(head) \cup Renamed(base, head) \cup Misnamed
    BY DEF CachedUnlessMoved
  <2> HIDE DEF base, head
  <2>1. PICK changed \in ChangedFiles(base, head) : f \in CachedFindings(Findings(base), changed)
    BY DEF DiffInv, DiffRight, base, head
  <2>2. f \in Paths \ Manifests /\ base[f] \in Flawed BY <2>1 DEF CachedFindings, Findings
  <2>3. CASE f \in changed
    <3>1. ~FullRerun(changed) /\ NamedCrate[f] \notin AffectedCrates(changed)
      BY <2>1 DEF CachedFindings
    <3>2. NamedCrate[f] \notin CratesOf[f] BY <2>3, <3>1 DEF AffectedCrates
    <3>q. QED BY <2>2, <3>2 DEF Misnamed
  <2>4. CASE f \notin changed
    <3>1. base[f] = head[f] \/ f \in Renamed(base, head) BY <2>2, <2>4, ChangedUnlessMoved
    <3>q. QED BY <2>2, <3>1 DEF Findings
  <2>q. QED BY <2>3, <2>4
<1>q. QED BY <1>1, DiffInvariant, PTL
=============================================================================
