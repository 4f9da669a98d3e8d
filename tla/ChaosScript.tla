---------------------------- MODULE ChaosScript ----------------------------
(***************************************************************************)
(* Chaos scripts of the distributed engine: from_yaml reads a script, step *)
(* by step, ScenarioRunner::run plays it against a synthetic fixture and   *)
(* records a trace and the violations that its checks saw, and             *)
(* TraceCapture turns the trace into what a reproduction bundle holds.     *)
(***************************************************************************)
EXTENDS Integers, Sequences, FiniteSets

CONSTANTS NodeIds,     \* the simulated nodes
          TopTick,     \* u64::MAX
          MaxSteps,    \* bound: steps of a script
          Durations,   \* bound: durations, delays and heights in scripts
          ShrinkLimit  \* the length, 50 in the code, from which shrink drops events

ASSUME ChaosAssumption ==
    /\ TopTick \in Nat /\ MaxSteps \in Nat
    /\ Durations \subseteq 0..TopTick
    /\ ShrinkLimit \in Nat /\ ShrinkLimit >= 3

\* ChaosStep, with the fields that run reads.  The kinds that only advance
\* the clock by one are a single kind, as are the invariants no arm checks.
IsolatingSteps ==
    [kind : {"partition"}, nodes : SUBSET NodeIds, ticks : Durations]
        \cup [kind : {"eclipse"}, nodes : {{n} : n \in NodeIds}, ticks : Durations]
TimedSteps == [kind : {"delay", "double_vote", "wait"}, ticks : Durations]
SyncSteps == [kind : {"refuse_sync"}, start : Durations, end : Durations]
Invariants == [id : {"safety", "liveness", "other"}] \cup [id : {"liveness_except_nodes"}, exempt : SUBSET NodeIds]
CheckSteps == [kind : {"check_invariant"}, invariant : Invariants]
ChaosSteps == IsolatingSteps \cup TimedSteps \cup SyncSteps \cup CheckSteps \cup [kind : {"unit"}]

\* How a step is written: as a YAML tag, as a mapping with the variant as its
\* only key, or in a way that parse_step refuses.
Forms == {"tag", "mapping", "two_keys", "unknown_variant", "bad_payload"}

VARIABLES chaosStage,  \* writing, running, done, rejected, panicked
          steps,       \* of the script
          fixture,     \* SyntheticConsensusFixture
          at,          \* step_index
          tick,
          isolated,    \* isolated_nodes
          partitioned, \* partition_active
          doubleVote,  \* double_vote_seen
          chaosTrace,  \* the TraceEvents
          violations,  \* the InvariantViolationRecords
          shrunk       \* what shrink keeps of the trace for the first violation

chaosVars == <<chaosStage, steps, fixture, at, tick, isolated, partitioned, doubleVote, chaosTrace, violations, shrunk>>

Fixtures == [safety : BOOLEAN, liveness : BOOLEAN] \ {[safety |-> FALSE, liveness |-> TRUE]}

ChaosInit ==
    /\ chaosStage = "writing" /\ steps = <<>>
    /\ fixture = [safety |-> FALSE, liveness |-> FALSE]
    /\ at = 1 /\ tick = 0
    /\ isolated = {} /\ partitioned = FALSE /\ doubleVote = FALSE
    /\ chaosTrace = <<>> /\ violations = <<>> /\ shrunk = <<>>
-----------------------------------------------------------------------------
(* from_yaml: a step that parse_step refuses rejects the whole script.      *)
Parses(form) == form \in {"tag", "mapping"}

ReadStep == \E form \in Forms, step \in ChaosSteps :
    /\ chaosStage = "writing" /\ Len(steps) < MaxSteps
    /\ IF Parses(form)
       THEN steps' = Append(steps, step) /\ chaosStage' = chaosStage
       ELSE steps' = <<>> /\ chaosStage' = "rejected"
    /\ UNCHANGED <<fixture, at, tick, isolated, partitioned, doubleVote, chaosTrace, violations, shrunk>>

Play ==
    /\ chaosStage = "writing"
    /\ chaosStage' = "running" /\ fixture' \in Fixtures
    /\ UNCHANGED <<steps, at, tick, isolated, partitioned, doubleVote, chaosTrace, violations, shrunk>>
-----------------------------------------------------------------------------
(* ScenarioRunner::run                                                     *)

\* saturating_add
LaterUnbounded(t, by) == t + by
Later(t, by) == IF t + by > TopTick THEN TopTick ELSE t + by

\* What a step adds to the clock.  The subtraction of the bounds of a range
\* whose end is before its start wraps in a release build.
Advance(step) ==
    IF step.kind = "check_invariant" THEN 0
    ELSE IF step.kind = "unit" THEN 1
    ELSE IF step.kind = "refuse_sync" THEN (step.end - step.start) % (TopTick + 1)
    ELSE step.ticks

\* The arms of CheckInvariant.
ViolatedUnlessAnyExempt(invariant) ==
    \/ invariant.id = "safety" /\ fixture.safety /\ (partitioned \/ doubleVote)
    \/ invariant.id = "liveness" /\ fixture.liveness /\ partitioned
    \/ invariant.id = "liveness_except_nodes" /\ fixture.liveness /\ partitioned /\ isolated \cap invariant.exempt = {}
Violated(invariant) ==
    \/ invariant.id = "safety" /\ fixture.safety /\ (partitioned \/ doubleVote)
    \/ invariant.id = "liveness" /\ fixture.liveness /\ partitioned
    \/ invariant.id = "liveness_except_nodes" /\ fixture.liveness /\ partitioned /\ ~(isolated \subseteq invariant.exempt)

Step ==
    /\ chaosStage = "running" /\ at <= Len(steps)
    /\ LET step == steps[at] IN
       /\ IF step.kind \in {"partition", "eclipse"}
          THEN partitioned' = TRUE /\ isolated' = isolated \cup step.nodes
          ELSE UNCHANGED <<partitioned, isolated>>
       /\ doubleVote' = (doubleVote \/ step.kind = "double_vote")
       /\ violations' = IF step.kind = "check_invariant" /\ Violated(step.invariant)
                        THEN Append(violations, [invariant |-> step.invariant, tick |-> tick, step |-> at])
                        ELSE violations
       /\ chaosTrace' = Append(chaosTrace, [tick |-> tick, step |-> at, kind |-> step.kind])
       /\ tick' = Later(tick, Advance(step))
    /\ at' = at + 1
    /\ UNCHANGED <<chaosStage, steps, fixture, shrunk>>

\* The same subtraction aborts a debug build.
Underflow ==
    /\ chaosStage = "running" /\ at <= Len(steps)
    /\ steps[at].kind = "refuse_sync" /\ steps[at].end < steps[at].start
    /\ chaosStage' = "panicked"
    /\ UNCHANGED <<steps, fixture, at, tick, isolated, partitioned, doubleVote, chaosTrace, violations, shrunk>>
-----------------------------------------------------------------------------
(* TraceCapture::shrink: the events up to the violation (all, when there   *)
(* is none), and of a long trace the first and the last ones.              *)
UpTo(events, t) ==
    LET prefix[i \in 0..Len(events)] ==
            IF i = 0 THEN <<>>
            ELSE IF events[i].tick <= t THEN Append(prefix[i - 1], events[i])
            ELSE prefix[i - 1]
    IN  prefix[Len(events)]
Shrink(events, t) ==
    LET kept == UpTo(events, t)
        relevant == IF kept = <<>> THEN events ELSE kept
    IN  IF Len(relevant) >= ShrinkLimit
        THEN <<Head(relevant)>> \o SubSeq(relevant, Len(relevant) - (ShrinkLimit - 2) + 1, Len(relevant))
        ELSE relevant

Finish ==
    /\ chaosStage = "running" /\ at > Len(steps)
    /\ chaosStage' = "done"
    /\ shrunk' = IF violations = <<>> THEN <<>> ELSE Shrink(chaosTrace, Head(violations).tick)
    /\ UNCHANGED <<steps, fixture, at, tick, isolated, partitioned, doubleVote, chaosTrace, violations>>

ChaosNext == ReadStep \/ Play \/ Step \/ Underflow \/ Finish
ChaosSpec == ChaosInit /\ [][ChaosNext]_chaosVars
-----------------------------------------------------------------------------
ChaosTypeOK ==
    /\ chaosStage \in {"writing", "running", "done", "rejected", "panicked"}
    /\ steps \in Seq(ChaosSteps) /\ fixture \in Fixtures
    /\ at \in 1..(MaxSteps + 1) /\ tick \in 0..TopTick
    /\ isolated \subseteq NodeIds /\ partitioned \in BOOLEAN /\ doubleVote \in BOOLEAN
    /\ chaosTrace \in Seq([tick : 0..TopTick, step : 1..MaxSteps, kind : {s.kind : s \in ChaosSteps}])
    /\ violations \in Seq([invariant : Invariants, tick : 0..TopTick, step : 1..MaxSteps])
    /\ Len(shrunk) <= Len(chaosTrace)

\* What a check has to say, from the script alone: a broken fixture fails a
\* safety check behind a partition, an eclipse or a double vote, and a
\* liveness check behind an isolation, of a node that is not exempt.
Before(i, kinds) == {j \in 1..(i - 1) : steps[j].kind \in kinds}
MustFail(i) ==
    /\ steps[i].kind = "check_invariant"
    /\ LET isolating == Before(i, {"partition", "eclipse"})
           id == steps[i].invariant.id
       IN  \/ id = "safety" /\ fixture.safety /\ isolating \cup Before(i, {"double_vote"}) # {}
           \/ id = "liveness" /\ fixture.liveness /\ isolating # {}
           \/ /\ id = "liveness_except_nodes" /\ fixture.liveness
              /\ \E j \in isolating : \E n \in steps[j].nodes : n \notin steps[i].invariant.exempt

\* A shrunk trace is shorter than the limit, starts where the run started and
\* ends with the last event of the violation's tick: what happened after the
\* violation is gone, what happened at its tick is not cut off at the end.
ShrunkEndsAtViolation ==
    chaosStage = "done" /\ violations # <<>> =>
        /\ Len(shrunk) < ShrinkLimit \/ Len(shrunk) = Len(chaosTrace)
        /\ Head(shrunk) = Head(chaosTrace)
        /\ LET last == shrunk[Len(shrunk)] IN
           /\ last.tick = Head(violations).tick
           /\ \A i \in (last.step + 1)..Len(chaosTrace) : chaosTrace[i].tick > last.tick

\* The violations of a run are those of the checks that must fail, once each
\* and in order, at the tick of the check's own trace event.
ReportedUpTo(n) ==
    /\ {violations[k].step : k \in DOMAIN violations} = {i \in 1..n : MustFail(i)}
    /\ \A k, l \in DOMAIN violations : k < l => violations[k].step < violations[l].step
    /\ \A k \in DOMAIN violations :
           /\ violations[k].tick = chaosTrace[violations[k].step].tick
           /\ violations[k].invariant = steps[violations[k].step].invariant

\* The report of a run is the one its script calls for, with a trace that
\* leads to the first violation (ScenarioRunner::run, TraceCapture::shrink).
ViolationsMatchScript == chaosStage = "done" => ShrunkEndsAtViolation /\ ReportedUpTo(Len(steps))

\* What implementation-plan-v2.md:2165 says of shrink, "while preserving
\* violation": some event without which the check would have passed is kept.
ViolationPreserved ==
    chaosStage = "done" /\ violations # <<>> =>
        \E e \in {shrunk[i] : i \in DOMAIN shrunk} :
            /\ e.kind \in {"partition", "eclipse", "double_vote"}
            /\ e.step < Head(violations).step
=============================================================================
