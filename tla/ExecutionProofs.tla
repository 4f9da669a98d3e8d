-------------------------- MODULE ExecutionProofs --------------------------
(* What the engines of an audit execute, what they believe of it and what  *)
(* comes of their findings: the chaos scripts, the monitor and the MadSim  *)
(* harnesses of the distributed engine, the harnesses that the evidence    *)
(* gate compiles and runs, the pipeline that writes the report, the        *)
(* evidence packs and their archive, and the sandbox that runs tools.      *)
(* EngineProofs has the lemmas about data.                                 *)
EXTENDS Execution, SandboxRun, EngineProofs
-----------------------------------------------------------------------------
(* Of a trace whose ticks do not go down, what is up to a tick is its      *)
(* beginning.                                                              *)
LEMMA UpToIsPrefix ==
    ASSUME NEW E, NEW events \in Seq(E), NEW t, NEW m \in 0..Len(events),
           \A i \in 1..m : events[i].tick <= t,
           \A i \in (m + 1)..Len(events) : ~(events[i].tick <= t)
    PROVE  UpTo(events, t) = SubSeq(events, 1, m)
<1>0. PICK n \in Nat : n = Len(events) OBVIOUS
<1>2. n \in Nat /\ m \in Nat /\ m <= n BY <1>0
<1> DEFINE Next1(g, i) == IF i = 0 THEN <<>>
                          ELSE IF events[i].tick <= t THEN Append(g[i - 1], events[i])
                          ELSE g[i - 1]
           chosen == CHOOSE g : g = [i \in 0..n |-> Next1(g, i)]
           prefix == [i \in 0..n |-> SubSeq(events, 1, IF i <= m THEN i ELSE m)]
<1>1. UpTo(events, t) = chosen[n] BY <1>0 DEF UpTo
<1>p. \A i \in 0..n : prefix[i] = SubSeq(events, 1, IF i <= m THEN i ELSE m) OBVIOUS
<1>d. prefix = [i \in 0..n |-> prefix[i]] OBVIOUS
<1> HIDE DEF prefix
<1>3. ASSUME NEW i \in 0..n PROVE prefix[i] = Next1(prefix, i)
  <2>0. i \in Nat /\ (i # 0 => i - 1 \in 0..n) BY <1>2
  <2>1. CASE i = 0
    <3>1. SubSeq(events, 1, 0) = <<>> OBVIOUS
    <3>q. QED BY <1>2, <1>p, <2>1, <3>1
  <2>2. CASE i # 0 /\ i <= m
    <3>1. SubSeq(events, 1, i) = Append(SubSeq(events, 1, i - 1), events[i])
      BY <1>0, <1>2, <2>0, <2>2
    <3>2. prefix[i] = SubSeq(events, 1, i) /\ prefix[i - 1] = SubSeq(events, 1, i - 1)
      BY <1>2, <1>p, <2>0, <2>2
    <3>3. events[i].tick <= t BY <1>2, <2>0, <2>2
    <3>q. QED BY <2>2, <3>1, <3>2, <3>3
  <2>3. CASE i # 0 /\ ~(i <= m)
    <3>1. prefix[i] = SubSeq(events, 1, m) /\ prefix[i - 1] = SubSeq(events, 1, m)
      <4>1. i - 1 <= m => i - 1 = m BY <1>2, <2>0, <2>3
      <4>q. QED BY <1>p, <2>0, <2>3, <4>1
    <3>2. ~(events[i].tick <= t) BY <1>0, <1>2, <2>0, <2>3
    <3>q. QED BY <2>3, <3>1, <3>2
  <2>q. QED BY <2>1, <2>2, <2>3
<1>4. prefix = [i \in 0..n |-> Next1(prefix, i)] BY <1>3, <1>d
<1>5. chosen = [i \in 0..n |-> Next1(chosen, i)] BY <1>4
<1> HIDE DEF chosen
<1>6. \A i \in 0..n : chosen[i] = prefix[i]
  <2> DEFINE B == {i \in 0..n : chosen[i] # prefix[i]}
  <2>0. B \in SUBSET Nat BY <1>2
  <2>1. CASE B # {}
    <3>1. PICK i \in B : \A j \in B : i <= j BY <2>0, <2>1, LeastNat
    <3>2. i \in 0..n /\ chosen[i] # prefix[i] BY <3>1
    <3>3. i # 0 => i - 1 \in 0..n /\ chosen[i - 1] = prefix[i - 1]
      <4>1. i # 0 => i - 1 \in 0..n /\ ~(i <= i - 1) BY <1>2, <3>2
      <4>q. QED BY <3>1, <4>1
    <3>4. chosen[i] = Next1(chosen, i) BY <1>5, <3>2
    <3>5. prefix[i] = Next1(prefix, i) BY <1>4, <3>2
    <3>q. QED BY <3>2, <3>3, <3>4, <3>5
  <2>q. QED BY <2>1
<1>7. prefix[n] = SubSeq(events, 1, m)
  <2>1. n <= m => n = m BY <1>2
  <2>q. QED BY <1>2, <1>p, <2>1
<1>q. QED BY <1>1, <1>2, <1>6, <1>7
-----------------------------------------------------------------------------
(* Chaos scripts.  What the runner has seen after at - 1 steps is what the *)
(* script says up to there.                                                *)
Isolating == {"partition", "eclipse"}
ScriptTyped ==
    /\ steps \in Seq(ChaosSteps)
    /\ fixture \in [safety : BOOLEAN, liveness : BOOLEAN]
    /\ chaosStage \in {"writing", "running", "done", "rejected", "panicked"}
    /\ at \in 1..(Len(steps) + 1) /\ tick \in 0..TopTick
    /\ chaosStage \in {"writing", "rejected"} => at = 1
    /\ chaosStage = "done" => at = Len(steps) + 1

Kinds == {s.kind : s \in ChaosSteps}
SeenFollows ==
    /\ partitioned \in BOOLEAN /\ doubleVote \in BOOLEAN
    /\ partitioned <=> \E j \in 1..(at - 1) : steps[j].kind \in Isolating
    /\ doubleVote <=> \E j \in 1..(at - 1) : steps[j].kind = "double_vote"
    /\ \A n : n \in isolated <=> \E j \in 1..(at - 1) : steps[j].kind \in Isolating /\ n \in steps[j].nodes

TraceFollows ==
    /\ chaosTrace \in Seq([tick : Nat, step : Nat, kind : Kinds]) /\ Len(chaosTrace) = at - 1
    /\ \A i \in 1..(at - 1) : chaosTrace[i].step = i /\ chaosTrace[i].tick <= tick
    /\ \A i, j \in 1..(at - 1) : i <= j => chaosTrace[i].tick <= chaosTrace[j].tick

ReportFollows ==
    /\ violations \in Seq([invariant : Invariants, tick : Nat, step : Nat])
    /\ ReportedUpTo(at - 1)

ChaosInv == ScriptTyped /\ SeenFollows /\ TraceFollows /\ ReportFollows /\ ShrunkEndsAtViolation
-----------------------------------------------------------------------------
LEMMA StepFields ==
    ASSUME NEW step \in ChaosSteps
    PROVE  /\ Advance(step) \in Nat /\ step.kind \in Kinds
           /\ step.kind = "check_invariant" => step.invariant \in Invariants
<1>1. TopTick \in Nat /\ Durations \subseteq Nat BY ChaosAssumption DEF ChaosAssumption
<1>2. step.kind \in Kinds BY DEF Kinds
<1>3. ASSUME step.kind \notin {"check_invariant", "unit", "refuse_sync"}, step.ticks \in Durations
      PROVE  Advance(step) \in Nat /\ step.kind # "check_invariant"
  BY <1>1, <1>3 DEF Advance
<1>4. CASE step \in IsolatingSteps
  <2>1. step.kind \in {"partition", "eclipse"} /\ step.ticks \in Durations BY <1>4 DEF IsolatingSteps
  <2>q. QED BY <1>2, <1>3, <2>1
<1>5. CASE step \in TimedSteps
  <2>1. step.kind \in {"delay", "double_vote", "wait"} /\ step.ticks \in Durations
    BY <1>5 DEF TimedSteps
  <2>q. QED BY <1>2, <1>3, <2>1
<1>6. CASE step \in SyncSteps
  <2>1. step.kind = "refuse_sync" /\ step.end \in Nat /\ step.start \in Nat
    BY <1>1, <1>6 DEF SyncSteps
  <2>2. \A a \in Int, b \in Nat : b > 0 => a % b \in Nat OBVIOUS
  <2>3. step.end - step.start \in Int /\ TopTick + 1 \in Nat /\ TopTick + 1 > 0 BY <1>1, <2>1
  <2>4. Advance(step) = (step.end - step.start) % (TopTick + 1) BY <2>1 DEF Advance
  <2>5. (step.end - step.start) % (TopTick + 1) \in Nat BY <2>2, <2>3
  <2>q. QED BY <1>2, <2>1, <2>4, <2>5
<1>7. CASE step \in CheckSteps
  <2>1. step.kind = "check_invariant" /\ step.invariant \in Invariants BY <1>7 DEF CheckSteps
  <2>q. QED BY <1>2, <2>1 DEF Advance
<1>8. CASE step \in [kind : {"unit"}]
  <2>1. step.kind = "unit" BY <1>8
  <2>q. QED BY <1>2, <2>1 DEF Advance
<1>q. QED BY <1>4, <1>5, <1>6, <1>7, <1>8 DEF ChaosSteps

LEMMA LaterGrows ==
    ASSUME NEW t \in 0..TopTick, NEW by \in Nat
    PROVE  Later(t, by) \in 0..TopTick /\ t <= Later(t, by)
BY ChaosAssumption DEF ChaosAssumption, Later

(* The arm of a check sees the violation that the script calls for.        *)
LEMMA CheckSees ==
    ASSUME ScriptTyped, SeenFollows, at <= Len(steps), steps[at].kind = "check_invariant"
    PROVE  Violated(steps[at].invariant) <=> MustFail(at)
<1>1. partitioned <=> Before(at, Isolating) # {} BY DEF SeenFollows, Before
<1>2. doubleVote <=> Before(at, {"double_vote"}) # {} BY DEF SeenFollows, Before
<1>3. ASSUME NEW spared
      PROVE  (partitioned /\ ~(isolated \subseteq spared)) <=>
                \E j \in Before(at, Isolating) : \E n \in steps[j].nodes : n \notin spared
  BY <1>1 DEF SeenFollows, Before
<1>q. QED BY <1>1, <1>2, <1>3 DEF Violated, MustFail, Isolating

LEMMA InitChaosInv == ChaosInit => ChaosInv
<1> SUFFICES ASSUME ChaosInit PROVE ChaosInv OBVIOUS
<1>1. ScriptTyped BY ChaosAssumption DEF ChaosInit, ScriptTyped, ChaosAssumption
<1>2. SeenFollows
  <2>1. at = 1 /\ \A j : j \notin 1..(1 - 1) BY DEF ChaosInit
  <2>q. QED BY <2>1 DEF ChaosInit, SeenFollows
<1>3. TraceFollows BY DEF ChaosInit, TraceFollows
<1>4. ReportFollows BY DEF ChaosInit, ReportFollows, ReportedUpTo
<1>5. ShrunkEndsAtViolation BY DEF ChaosInit, ShrunkEndsAtViolation
<1>q. QED BY <1>1, <1>2, <1>3, <1>4, <1>5 DEF ChaosInv

(* What shrink keeps of a trace whose ticks do not go down: its first      *)
(* event, and the last one up to the violation.                            *)
LEMMA ShrinkKeeps ==
    ASSUME NEW E, NEW events \in Seq(E), NEW t, NEW m \in 1..Len(events),
           \A i \in 1..m : events[i].tick <= t,
           \A i \in (m + 1)..Len(events) : ~(events[i].tick <= t)
    PROVE  /\ Shrink(events, t) \in Seq(E) /\ Len(Shrink(events, t)) < ShrinkLimit
           /\ Len(Shrink(events, t)) <= m
           /\ Len(Shrink(events, t)) > 0 /\ Shrink(events, t)[1] = events[1]
           /\ Shrink(events, t)[Len(Shrink(events, t))] = events[m]
<1>0. PICK n \in Nat : n = Len(events) OBVIOUS
<1>1. /\ n \in Nat /\ m \in Nat /\ 1 <= m /\ m <= n /\ m \in 0..Len(events)
      /\ ShrinkLimit \in Nat /\ ShrinkLimit >= 3
  BY <1>0, ChaosAssumption DEF ChaosAssumption
<1>2. UpTo(events, t) = SubSeq(events, 1, m) BY <1>1, UpToIsPrefix
<1>3. PICK staying \in Seq(E) : staying = SubSeq(events, 1, m)
  <2>1. 1 \in Int /\ m \in Int /\ \A i \in 1..m : events[i] \in E BY <1>0, <1>1
  <2>2. SubSeq(events, 1, m) \in Seq(E) BY <2>1, SubSeqProperties
  <2>q. QED BY <2>2
<1>4. Len(staying) = m /\ \A i \in 1..m : staying[i] = events[i] BY <1>0, <1>1, <1>3
<1>5. staying # <<>> BY <1>1, <1>4
<1>6. Shrink(events, t) =
        IF m >= ShrinkLimit
        THEN <<staying[1]>> \o SubSeq(staying, m - (ShrinkLimit - 2) + 1, m) ELSE staying
  <2>1. Head(staying) = staying[1] BY <1>3, <1>5
  <2>q. QED BY <1>2, <1>3, <1>4, <1>5, <2>1 DEF Shrink
<1>7. CASE ~(m >= ShrinkLimit) BY <1>1, <1>3, <1>4, <1>6, <1>7
<1>8. CASE m >= ShrinkLimit
  <2>1. PICK k \in Nat : k = m - (ShrinkLimit - 2) + 1 BY <1>1, <1>8
  <2>2. k >= 1 /\ k <= m /\ m - k + 1 = ShrinkLimit - 2 BY <1>1, <1>8, <2>1
  <2>3. PICK tail \in Seq(E) : tail = SubSeq(staying, k, m)
    <3>1. k \in Int /\ m \in Int /\ \A i \in k..m : staying[i] \in E BY <1>1, <1>3, <1>4, <2>1, <2>2
    <3>2. SubSeq(staying, k, m) \in Seq(E) BY <3>1, SubSeqProperties
    <3>q. QED BY <3>2
  <2>4. Len(tail) = ShrinkLimit - 2 /\ tail[ShrinkLimit - 2] = staying[m]
    BY <1>1, <1>3, <1>4, <2>2, <2>3
  <2>5. PICK first \in Seq(E) : first = <<staying[1]>>
    <3>1. PICK e \in E : e = staying[1] BY <1>1, <1>3, <1>4
    <3>2. <<e>> \in Seq(E) OBVIOUS
    <3>q. QED BY <3>1, <3>2
  <2>6. Len(first) = 1 /\ first[1] = staying[1] BY <2>5
  <2>7. Shrink(events, t) = first \o tail BY <1>6, <1>8, <2>1, <2>3, <2>5
  <2>8. /\ first \o tail \in Seq(E) /\ Len(first \o tail) = ShrinkLimit - 1
        /\ (first \o tail)[1] = staying[1] /\ (first \o tail)[ShrinkLimit - 1] = staying[m]
    BY <1>1, <2>3, <2>4, <2>5, <2>6
  <2>9. ShrinkLimit - 1 \in Nat /\ ShrinkLimit - 1 < ShrinkLimit /\ ShrinkLimit - 1 <= m /\ ShrinkLimit - 1 > 0
        /\ staying[1] = events[1] /\ staying[m] = events[m]
    BY <1>1, <1>4, <1>8
  <2>q. QED BY <2>7, <2>8, <2>9
<1>q. QED BY <1>7, <1>8

LEMMA FinishShrinks == ChaosInv /\ Finish => ShrunkEndsAtViolation' /\ Len(shrunk') <= Len(chaosTrace')
<1>s. ChaosInv /\ Finish /\ violations = <<>> => ShrunkEndsAtViolation' /\ Len(shrunk') <= Len(chaosTrace')
  BY DEF Finish, ShrunkEndsAtViolation, ChaosInv, TraceFollows
<1> SUFFICES ASSUME ChaosInv, Finish, violations # <<>>
             PROVE  ShrunkEndsAtViolation' /\ Len(shrunk') <= Len(chaosTrace')
  BY <1>s
<1> DEFINE E == [tick : Nat, step : Nat, kind : Kinds]
<1>t. chaosTrace \in Seq(E) BY DEF ChaosInv, TraceFollows
<1>1. /\ chaosTrace \in Seq(E) /\ UNCHANGED <<chaosTrace, violations>>
      /\ shrunk' = Shrink(chaosTrace, Head(violations).tick)
  BY <1>t DEF Finish
<1> HIDE DEF E
<1>2. PICK n \in Nat : n = Len(chaosTrace) BY <1>1
<1>3. /\ n = at - 1 /\ at \in Nat BY <1>2 DEF ChaosInv, TraceFollows, ScriptTyped
<1>4. \A i \in 1..n : chaosTrace[i] \in E BY <1>t, <1>2
<1>5. /\ \A i \in 1..n : chaosTrace[i].tick \in Nat /\ chaosTrace[i].step = i
      /\ \A i, j \in 1..n : i <= j => chaosTrace[i].tick <= chaosTrace[j].tick
  BY <1>3, <1>4 DEF ChaosInv, TraceFollows, E
<1>6. PICK v \in 1..n : /\ Head(violations).tick = chaosTrace[v].tick
  <2>1. violations \in Seq([invariant : Invariants, tick : Nat, step : Nat])
        /\ Head(violations) = violations[1] /\ 1 \in DOMAIN violations
    BY DEF ChaosInv, ReportFollows
  <2>2. violations[1].step \in 1..n /\ violations[1].tick = chaosTrace[violations[1].step].tick
    BY <1>3, <2>1 DEF ChaosInv, ReportFollows, ReportedUpTo
  <2>q. QED BY <2>1, <2>2
<1>7. PICK t \in Nat : t = chaosTrace[v].tick BY <1>5
<1> DEFINE S == {i \in 1..(n + 1) : i = n + 1 \/ ~(chaosTrace[i].tick <= t)}
<1>8. S \in SUBSET Nat /\ n + 1 \in S OBVIOUS
<1>9. PICK l \in S : \A i \in S : l <= i BY <1>8, LeastNat
<1>10. l \in 1..(n + 1) /\ \A i \in 1..n : i < l => chaosTrace[i].tick <= t
  <2>1. \A i \in 1..n : i < l => i \notin S BY <1>8, <1>9
  <2>q. QED BY <2>1
<1>11. \A i \in l..n : ~(chaosTrace[i].tick <= t)
  <2> SUFFICES ASSUME NEW i \in l..n PROVE ~(chaosTrace[i].tick <= t) OBVIOUS
  <2>1. l \in 1..n /\ i \in 1..n /\ l <= i BY <1>10
  <2>2. ~(chaosTrace[l].tick <= t) BY <1>9, <2>1
  <2>3. chaosTrace[l].tick <= chaosTrace[i].tick BY <1>5, <2>1
  <2>q. QED BY <1>5, <2>1, <2>2, <2>3
<1>12. v < l
  <2>1. chaosTrace[v].tick <= t BY <1>7
  <2>2. v \notin l..n BY <1>11, <2>1
  <2>q. QED BY <1>10, <2>2
<1> HIDE DEF S
<1>13. PICK m \in 1..n : m = l - 1 BY <1>10, <1>12
<1>14. /\ v <= m /\ \A i \in 1..m : chaosTrace[i].tick <= t
       /\ \A i \in (m + 1)..n : ~(chaosTrace[i].tick <= t)
  BY <1>10, <1>11, <1>12, <1>13
<1>15. PICK r \in Seq(E) : r = Shrink(chaosTrace, t)
  BY <1>1, <1>2, <1>14, ShrinkKeeps
<1>16. Len(r) < ShrinkLimit /\ Len(r) <= m /\ Len(r) > 0 /\ r[1] = chaosTrace[1] /\ r[Len(r)] = chaosTrace[m]
  BY <1>1, <1>2, <1>14, <1>15, ShrinkKeeps, SMTT(30)
<1>17. Head(r) = r[1] /\ Head(chaosTrace) = chaosTrace[1]
  <2>1. r # <<>> BY <1>16
  <2>2. chaosTrace # <<>> BY <1>2
  <2>q. QED BY <1>1, <1>15, <2>1, <2>2
<1>18. chaosTrace[m].tick = t
  <2>1. chaosTrace[v].tick <= chaosTrace[m].tick BY <1>5, <1>14
  <2>q. QED BY <1>5, <1>7, <1>14, <2>1
<1>19. \A i \in (chaosTrace[m].step + 1)..Len(chaosTrace) : chaosTrace[i].tick > chaosTrace[m].tick
  <2> SUFFICES ASSUME NEW i \in (m + 1)..n PROVE chaosTrace[i].tick > t
    BY <1>2, <1>5, <1>18
  <2>1. i \in 1..n /\ ~(chaosTrace[i].tick <= t) BY <1>14
  <2>q. QED BY <1>5, <2>1
<1>20. shrunk' = r BY <1>1, <1>6, <1>7, <1>15
<1>21. Len(shrunk') <= Len(chaosTrace') BY <1>1, <1>2, <1>15, <1>16, <1>20
<1>q. QED BY <1>1, <1>6, <1>7, <1>16, <1>21, <1>17, <1>18, <1>19, <1>20 DEF ShrunkEndsAtViolation

(* Before the run, and where a run stops.                                  *)
LEMMA StepAround ==
    ASSUME ChaosInv, ReadStep \/ Play \/ Underflow \/ Finish \/ UNCHANGED chaosVars
    PROVE  ChaosInv'
<1>0. steps \in Seq(ChaosSteps) /\ Len(steps) \in Nat /\ at \in Nat /\ at <= Len(steps) + 1
      /\ fixture \in [safety : BOOLEAN, liveness : BOOLEAN]
  BY DEF ChaosInv, ScriptTyped
<1>1. CASE ReadStep \/ Play
  <2>1. /\ chaosStage = "writing" /\ at = 1
        /\ UNCHANGED <<at, tick, isolated, partitioned, doubleVote, chaosTrace, violations>>
    BY <1>1 DEF ReadStep, Play, ChaosInv, ScriptTyped
  <2>2. /\ steps' \in Seq(ChaosSteps) /\ Len(steps') \in Nat
        /\ fixture' \in [safety : BOOLEAN, liveness : BOOLEAN]
        /\ chaosStage' \in {"writing", "running", "rejected"}
    <3>1. CASE ReadStep
      <4>1. PICK step \in ChaosSteps :
              \/ steps' = Append(steps, step) /\ chaosStage' = chaosStage
              \/ steps' = <<>> /\ chaosStage' = "rejected"
        BY <3>1 DEF ReadStep
      <4>2. Append(steps, step) \in Seq(ChaosSteps) /\ <<>> \in Seq(ChaosSteps) BY <1>0
      <4>3. steps' \in Seq(ChaosSteps) /\ fixture' = fixture BY <3>1, <4>1, <4>2 DEF ReadStep
      <4>q. QED BY <1>0, <2>1, <4>1, <4>3
    <3>2. CASE Play BY <1>0, <3>2 DEF Play, Fixtures
    <3>q. QED BY <1>1, <3>1, <3>2
  <2>3. ScriptTyped' BY <2>1, <2>2 DEF ChaosInv, ScriptTyped
  <2>4. SeenFollows' BY <2>1 DEF ChaosInv, SeenFollows
  <2>5. TraceFollows' BY <2>1 DEF ChaosInv, TraceFollows
  <2>6. violations = <<>>
    <3>1. violations \in Seq([invariant : Invariants, tick : Nat, step : Nat])
          /\ {violations[k].step : k \in DOMAIN violations} = {}
      <4>1. violations \in Seq([invariant : Invariants, tick : Nat, step : Nat])
            /\ {violations[k].step : k \in DOMAIN violations} = {i \in 1..(1 - 1) : MustFail(i)}
        BY <2>1 DEF ChaosInv, ReportFollows, ReportedUpTo
      <4>2. {i \in 1..(1 - 1) : MustFail(i)} = {} OBVIOUS
      <4>q. QED BY <4>1, <4>2
    <3>2. \A k : k \notin DOMAIN violations BY <3>1
    <3>3. Len(violations) = 0
      <4>1. Len(violations) \in Nat /\ DOMAIN violations = 1..Len(violations) BY <3>1
      <4>2. Len(violations) \notin 1..Len(violations) BY <3>2, <4>1
      <4>q. QED BY <4>1, <4>2
    <3>q. QED BY <3>1, <3>3
  <2>7. ReportFollows' BY <2>1, <2>6 DEF ReportFollows, ReportedUpTo
  <2>8. ShrunkEndsAtViolation' BY <2>2 DEF ShrunkEndsAtViolation
  <2>q. QED BY <2>3, <2>4, <2>5, <2>7, <2>8 DEF ChaosInv
<1>2. CASE Underflow \/ Finish \/ UNCHANGED chaosVars
  <2>1. /\ UNCHANGED <<steps, fixture, at, tick, isolated, partitioned, doubleVote, chaosTrace, violations>>
        /\ \/ chaosStage' = "panicked"
           \/ chaosStage' = "done" /\ at > Len(steps)
           \/ chaosStage' = chaosStage
    <3>1. CASE Underflow BY <3>1 DEF Underflow
    <3>2. CASE Finish BY <3>2 DEF Finish
    <3>3. CASE UNCHANGED chaosVars BY <3>3 DEF chaosVars
    <3>q. QED BY <1>2, <3>1, <3>2, <3>3
  <2>2. ScriptTyped' BY <1>0, <2>1 DEF ChaosInv, ScriptTyped
  <2>3. SeenFollows' BY <2>1 DEF ChaosInv, SeenFollows
  <2>4. TraceFollows' BY <2>1 DEF ChaosInv, TraceFollows
  <2>5. \A i : MustFail(i)' <=> MustFail(i) BY <2>1 DEF MustFail, Before
  <2>6. ReportFollows' BY <2>1, <2>5 DEF ChaosInv, ReportFollows, ReportedUpTo
  <2>7. ShrunkEndsAtViolation'
    <3>1. CASE Finish BY <3>1, FinishShrinks
    <3>2. CASE Underflow BY <3>2 DEF Underflow, ShrunkEndsAtViolation
    <3>3. CASE UNCHANGED chaosVars BY <3>3 DEF chaosVars, ChaosInv, ShrunkEndsAtViolation
    <3>q. QED BY <1>2, <3>1, <3>2, <3>3
  <2>q. QED BY <2>2, <2>3, <2>4, <2>6, <2>7 DEF ChaosInv
<1>q. QED BY <1>1, <1>2

LEMMA StepRun == ChaosInv /\ Step => ChaosInv'
<1> SUFFICES ASSUME ChaosInv, Step PROVE ChaosInv' OBVIOUS
<1>0. /\ steps \in Seq(ChaosSteps) /\ Len(steps) \in Nat /\ at \in 1..Len(steps) /\ at \in Nat
      /\ fixture \in [safety : BOOLEAN, liveness : BOOLEAN] /\ tick \in 0..TopTick /\ tick \in Nat
      /\ chaosStage = "running" /\ at' = at + 1 /\ UNCHANGED <<chaosStage, steps, fixture, shrunk>>
  BY ChaosAssumption DEF ChaosInv, ScriptTyped, Step, ChaosAssumption
<1>1. PICK s \in ChaosSteps : s = steps[at] BY <1>0
<1>2. /\ IF s.kind \in Isolating
         THEN partitioned' = TRUE /\ isolated' = isolated \cup s.nodes
         ELSE UNCHANGED <<partitioned, isolated>>
      /\ doubleVote' = (doubleVote \/ s.kind = "double_vote")
      /\ violations' = IF s.kind = "check_invariant" /\ Violated(s.invariant)
                       THEN Append(violations, [invariant |-> s.invariant, tick |-> tick, step |-> at])
                       ELSE violations
      /\ chaosTrace' = Append(chaosTrace, [tick |-> tick, step |-> at, kind |-> s.kind])
      /\ tick' = Later(tick, Advance(s))
  BY <1>1 DEF Step, Isolating
<1>3. tick' \in 0..TopTick /\ tick <= tick' /\ tick' \in Nat BY <1>0, <1>2, StepFields, LaterGrows
<1>4. ScriptTyped' BY <1>0, <1>3 DEF ChaosInv, ScriptTyped
<1>5. \A j : j \in 1..(at' - 1) <=> j \in 1..(at - 1) \/ j = at BY <1>0
<1>6. SeenFollows'
  <2>1. partitioned' \in BOOLEAN /\ doubleVote' \in BOOLEAN BY <1>2 DEF ChaosInv, SeenFollows
  <2>2. partitioned' <=> \E j \in 1..(at' - 1) : steps[j].kind \in Isolating
    BY <1>1, <1>2, <1>5 DEF ChaosInv, SeenFollows
  <2>3. doubleVote' <=> \E j \in 1..(at' - 1) : steps[j].kind = "double_vote"
    BY <1>1, <1>2, <1>5 DEF ChaosInv, SeenFollows
  <2>4. \A n : n \in isolated' <=>
           \E j \in 1..(at' - 1) : steps[j].kind \in Isolating /\ n \in steps[j].nodes
    BY <1>1, <1>2, <1>5 DEF ChaosInv, SeenFollows
  <2>q. QED BY <1>0, <2>1, <2>2, <2>3, <2>4 DEF SeenFollows
<1> DEFINE event == [tick |-> tick, step |-> at, kind |-> s.kind]
           E == [tick : Nat, step : Nat, kind : Kinds]
<1>7. event \in E /\ event.tick = tick /\ event.step = at BY <1>0, <1>1, StepFields
<1>8. chaosTrace' = Append(chaosTrace, event) BY <1>2
<1> HIDE DEF event, E
<1>9. chaosTrace \in Seq(E) /\ Len(chaosTrace) = at - 1 BY DEF ChaosInv, TraceFollows, E
<1>10. /\ chaosTrace' \in Seq(E) /\ Len(chaosTrace') = at' - 1 /\ chaosTrace'[at] = event
       /\ \A i \in 1..(at - 1) : chaosTrace'[i] = chaosTrace[i]
  BY <1>0, <1>7, <1>8, <1>9
<1>11. \A i \in 1..(at - 1) : chaosTrace[i] \in E BY <1>9
<1>12. \A i \in 1..(at - 1) : chaosTrace[i].tick \in Nat BY <1>11 DEF E
<1>13. TraceFollows'
  <2>1. \A i \in 1..(at' - 1) : chaosTrace'[i].step = i /\ chaosTrace'[i].tick <= tick'
    <3> SUFFICES ASSUME NEW i \in 1..(at' - 1)
                 PROVE  chaosTrace'[i].step = i /\ chaosTrace'[i].tick <= tick'
      OBVIOUS
    <3>1. CASE i = at BY <1>3, <1>7, <1>10, <3>1
    <3>2. CASE i # at
      <4>1. i \in 1..(at - 1) /\ chaosTrace'[i] = chaosTrace[i] BY <1>5, <1>10, <3>2
      <4>2. chaosTrace[i].step = i /\ chaosTrace[i].tick <= tick BY <4>1 DEF ChaosInv, TraceFollows
      <4>3. chaosTrace[i].tick \in Nat BY <1>12, <4>1
      <4>q. QED BY <1>0, <1>3, <4>1, <4>2, <4>3
    <3>q. QED BY <3>1, <3>2
  <2>2. \A i, j \in 1..(at' - 1) : i <= j => chaosTrace'[i].tick <= chaosTrace'[j].tick
    <3> SUFFICES ASSUME NEW i \in 1..(at' - 1), NEW j \in 1..(at' - 1), i <= j
                 PROVE  chaosTrace'[i].tick <= chaosTrace'[j].tick
      OBVIOUS
    <3>1. CASE i = at BY <1>0, <1>5, <1>7, <1>10, <3>1
    <3>2. CASE i # at /\ j = at
      BY <1>5, <1>7, <1>10, <3>2 DEF ChaosInv, TraceFollows
    <3>3. CASE i # at /\ j # at
      BY <1>5, <1>10, <3>3 DEF ChaosInv, TraceFollows
    <3>q. QED BY <3>1, <3>2, <3>3
  <2>q. QED BY <1>10, <2>1, <2>2 DEF TraceFollows, E
<1>14. \A i : MustFail(i)' <=> MustFail(i) BY <1>0 DEF MustFail, Before
<1> DEFINE V == [invariant : Invariants, tick : Nat, step : Nat]
<1>15. violations \in Seq(V) /\ Len(violations) \in Nat BY DEF ChaosInv, ReportFollows
<1>16. \A k \in 1..Len(violations) : violations[k] \in V /\ violations[k].step \in 1..(at - 1)
  <2>1. \A k \in 1..Len(violations) : violations[k].step \in {i \in 1..(at - 1) : MustFail(i)}
    BY <1>15 DEF ChaosInv, ReportFollows, ReportedUpTo
  <2>2. \A k \in 1..Len(violations) : violations[k] \in V
    <3> HIDE DEF V
    <3>q. QED BY <1>15
  <2>q. QED BY <2>1, <2>2
<1>17. ReportFollows'
  <2>1. CASE ~MustFail(at)
    <3>1. violations' = violations
      <4>1. s.kind = "check_invariant" => ~Violated(s.invariant)
        BY <1>0, <1>1, <2>1, CheckSees DEF ChaosInv
      <4>q. QED BY <1>2, <4>1
    <3>2. {i \in 1..(at' - 1) : MustFail(i)'} = {i \in 1..(at - 1) : MustFail(i)}
      BY <1>5, <1>14, <2>1
    <3>q. QED BY <1>0, <1>10, <1>15, <1>16, <3>1, <3>2 DEF ChaosInv, ReportFollows, ReportedUpTo
  <2>2. CASE MustFail(at)
    <3>1. s.kind = "check_invariant" /\ Violated(s.invariant)
      BY <1>0, <1>1, <2>2, CheckSees DEF ChaosInv, MustFail
    <3> DEFINE new == [invariant |-> s.invariant, tick |-> tick, step |-> at]
    <3>2. new \in V /\ new.invariant = s.invariant /\ new.tick = tick /\ new.step = at
      BY <1>0, <3>1, StepFields
    <3>3. violations' = Append(violations, new) BY <1>2, <3>1
    <3> HIDE DEF new, V
    <3>4. /\ violations' \in Seq(V) /\ Len(violations') = Len(violations) + 1
          /\ violations'[Len(violations')] = new /\ DOMAIN violations' = 1..Len(violations')
          /\ \A k \in 1..Len(violations) : violations'[k] = violations[k]
      BY <1>15, <3>2, <3>3
    <3>5. \A k : k \in DOMAIN violations' <=> k \in 1..Len(violations) \/ k = Len(violations')
      BY <1>15, <3>4
    <3>6. DOMAIN violations = 1..Len(violations) BY <1>15
    <3>7. {violations'[k].step : k \in DOMAIN violations'} = {i \in 1..(at' - 1) : MustFail(i)'}
      <4>1. {violations[k].step : k \in DOMAIN violations} = {i \in 1..(at - 1) : MustFail(i)}
        BY DEF ChaosInv, ReportFollows, ReportedUpTo
      <4>2. {violations'[k].step : k \in DOMAIN violations'} =
              {violations[k].step : k \in DOMAIN violations} \cup {at}
        BY <3>2, <3>4, <3>5, <3>6
      <4>q. QED BY <1>5, <1>14, <2>2, <4>1, <4>2
    <3>8. \A k, l \in DOMAIN violations' : k < l => violations'[k].step < violations'[l].step
      <4> SUFFICES ASSUME NEW k \in DOMAIN violations', NEW l \in DOMAIN violations', k < l
                   PROVE  violations'[k].step < violations'[l].step
        OBVIOUS
      <4>1. k \in 1..Len(violations) BY <1>15, <3>4, <3>5
      <4>2. CASE l = Len(violations') BY <1>0, <1>16, <3>2, <3>4, <4>1, <4>2
      <4>3. CASE l # Len(violations')
        BY <3>4, <3>5, <3>6, <4>1, <4>3 DEF ChaosInv, ReportFollows, ReportedUpTo
      <4>q. QED BY <4>2, <4>3
    <3>9. \A k \in DOMAIN violations' :
             /\ violations'[k].tick = chaosTrace'[violations'[k].step].tick
             /\ violations'[k].invariant = steps'[violations'[k].step].invariant
      <4> SUFFICES ASSUME NEW k \in DOMAIN violations'
                   PROVE  /\ violations'[k].tick = chaosTrace'[violations'[k].step].tick
                          /\ violations'[k].invariant = steps'[violations'[k].step].invariant
        OBVIOUS
      <4>1. CASE k = Len(violations') BY <1>0, <1>1, <1>7, <1>10, <3>2, <3>4, <4>1
      <4>2. CASE k # Len(violations')
        <5>1. k \in 1..Len(violations) /\ k \in DOMAIN violations /\ violations'[k] = violations[k]
          BY <3>4, <3>5, <3>6, <4>2
        <5>2. chaosTrace'[violations[k].step] = chaosTrace[violations[k].step] BY <1>10, <1>16, <5>1
        <5>q. QED BY <1>0, <5>1, <5>2 DEF ChaosInv, ReportFollows, ReportedUpTo
      <4>q. QED BY <4>1, <4>2
    <3>q. QED BY <3>4, <3>7, <3>8, <3>9 DEF ReportFollows, ReportedUpTo, V
  <2>q. QED BY <2>1, <2>2
<1>18. ShrunkEndsAtViolation' BY <1>0 DEF ShrunkEndsAtViolation
<1>q. QED BY <1>4, <1>6, <1>13, <1>17, <1>18 DEF ChaosInv

LEMMA StepChaosInv == ChaosInv /\ [ChaosNext]_chaosVars => ChaosInv'
BY StepAround, StepRun DEF ChaosNext

(* What the runner saw and traced so far is what its script says so far.   *)
THEOREM ChaosInvariant == ChaosSpec => []ChaosInv
BY InitChaosInv, StepChaosInv, PTL DEF ChaosSpec

(* The report of a run is the one its script calls for, whatever the       *)
(* length of the script and the limit of the shrunk trace.                 *)
THEOREM ReportIsScripts == ChaosSpec => []ViolationsMatchScript
<1>1. ChaosInv => ViolationsMatchScript
  <2> SUFFICES ASSUME ChaosInv, chaosStage = "done" PROVE ShrunkEndsAtViolation /\ ReportedUpTo(Len(steps))
    BY DEF ViolationsMatchScript
  <2>1. at - 1 = Len(steps)
    <3>1. Len(steps) \in Nat /\ at = Len(steps) + 1 BY DEF ChaosInv, ScriptTyped
    <3>q. QED BY <3>1
  <2>q. QED BY <2>1 DEF ChaosInv, ReportFollows
<1>q. QED BY <1>1, ChaosInvariant, PTL

(* Every variable of the chaos runner keeps its type: no tick passes the   *)
(* last one, and nothing is recorded of a step that is not in the script.  *)
ChaosBounded ==
    /\ fixture \in Fixtures /\ Len(steps) <= MaxSteps /\ isolated \subseteq NodeIds
    /\ shrunk = <<>> \/ Len(shrunk) <= Len(chaosTrace)
    /\ chaosStage # "done" => shrunk = <<>>

LEMMA StepChaosBounded ==
    ASSUME ChaosInv, ChaosBounded, [ChaosNext]_chaosVars
    PROVE  ChaosBounded'
<1>1. CASE ReadStep
  <2>1. PICK step \in ChaosSteps :
          \/ steps' = Append(steps, step) /\ chaosStage' = chaosStage
          \/ steps' = <<>> /\ chaosStage' = "rejected"
    BY <1>1 DEF ReadStep
  <2>2. chaosStage = "writing" /\ Len(steps) < MaxSteps /\ UNCHANGED <<fixture, isolated, chaosTrace, shrunk>>
    BY <1>1 DEF ReadStep
  <2>3. steps \in Seq(ChaosSteps) /\ Len(steps) \in Nat /\ MaxSteps \in Nat
    BY ChaosAssumption DEF ChaosAssumption, ChaosInv, ScriptTyped
  <2>4. Len(steps') <= MaxSteps BY <2>1, <2>2, <2>3
  <2>q. QED BY <2>2, <2>4, <2>1 DEF ChaosBounded
<1>2. CASE Play BY <1>2 DEF Play, ChaosBounded
<1>3. CASE Step
  <2>1. /\ steps \in Seq(ChaosSteps) /\ Len(steps) \in Nat /\ at \in 1..Len(steps)
        /\ chaosStage = "running" /\ UNCHANGED <<chaosStage, steps, fixture, shrunk>>
    BY <1>3 DEF ChaosInv, ScriptTyped, Step
  <2>2. PICK s \in ChaosSteps : s = steps[at] BY <2>1
  <2>3. \/ isolated' = isolated
        \/ s.kind \in {"partition", "eclipse"} /\ isolated' = isolated \cup s.nodes
    BY <1>3, <2>2 DEF Step
  <2>4. s.kind \in {"partition", "eclipse"} => s.nodes \subseteq NodeIds
    BY <2>2 DEF ChaosSteps, IsolatingSteps, TimedSteps, SyncSteps, CheckSteps
  <2>q. QED BY <2>1, <2>3, <2>4 DEF ChaosBounded
<1>4. CASE Underflow BY <1>4 DEF Underflow, ChaosBounded
<1>5. CASE Finish
  <2>1. Len(shrunk') <= Len(chaosTrace') BY <1>5, FinishShrinks
  <2>q. QED BY <1>5, <2>1 DEF Finish, ChaosBounded
<1>6. CASE UNCHANGED chaosVars BY <1>6 DEF chaosVars, ChaosBounded
<1>q. QED BY <1>1, <1>2, <1>3, <1>4, <1>5, <1>6 DEF ChaosNext

(* A run of a chaos script keeps its clock within 64 bits and reports only *)
(* steps of the script; shrinking never lengthens a trace.                 *)
THEOREM ChaosTypeCorrect == ChaosSpec => []ChaosTypeOK
<1>1. ChaosInit => ChaosBounded
  BY ChaosAssumption DEF ChaosAssumption, ChaosInit, ChaosBounded, Fixtures
<1>2. ChaosInv /\ ChaosBounded => ChaosTypeOK
  <2> SUFFICES ASSUME ChaosInv, ChaosBounded PROVE ChaosTypeOK OBVIOUS
  <2>0. /\ MaxSteps \in Nat /\ TopTick \in Nat /\ Len(steps) \in Nat /\ Len(steps) <= MaxSteps
        /\ at \in 1..(Len(steps) + 1) /\ tick \in 0..TopTick
    BY ChaosAssumption DEF ChaosAssumption, ChaosInv, ScriptTyped, ChaosBounded
  <2>1. at \in 1..(MaxSteps + 1) /\ at \in Nat BY <2>0
  <2> DEFINE E == [tick : Nat, step : Nat, kind : Kinds]
             F == [tick : 0..TopTick, step : 1..MaxSteps, kind : Kinds]
             V == [invariant : Invariants, tick : Nat, step : Nat]
             W == [invariant : Invariants, tick : 0..TopTick, step : 1..MaxSteps]
  <2>2. chaosTrace \in Seq(E) /\ Len(chaosTrace) = at - 1
    BY DEF ChaosInv, TraceFollows
  <2>3. \A i \in 1..(at - 1) : chaosTrace[i] \in F
    <3> SUFFICES ASSUME NEW i \in 1..(at - 1) PROVE chaosTrace[i] \in F OBVIOUS
    <3>1. PICK e \in E : e = chaosTrace[i]
      <4> HIDE DEF E
      <4>q. QED BY <2>0, <2>2
    <3>2. e.step = i /\ e.tick <= tick BY <3>1 DEF ChaosInv, TraceFollows
    <3>3. e.tick \in 0..TopTick /\ e.step \in 1..MaxSteps BY <2>0, <3>1, <3>2
    <3>q. QED BY <3>1, <3>3
  <2>4. chaosTrace \in Seq(F)
    <3> HIDE DEF E, F
    <3>q. QED BY <2>1, <2>2, <2>3
  <2>5. violations \in Seq(V) BY DEF ChaosInv, ReportFollows
  <2>6. \A k \in 1..Len(violations) : violations[k] \in W
    <3> SUFFICES ASSUME NEW k \in 1..Len(violations) PROVE violations[k] \in W OBVIOUS
    <3>1. PICK v \in V : v = violations[k]
      <4> HIDE DEF V
      <4>q. QED BY <2>5
    <3>2. k \in DOMAIN violations BY <2>5
    <3>3. v.step \in 1..(at - 1) /\ v.tick = chaosTrace[v.step].tick
      <4>1. {violations[l].step : l \in DOMAIN violations} = {i \in 1..(at - 1) : MustFail(i)}
        BY DEF ChaosInv, ReportFollows, ReportedUpTo
      <4>2. v.step \in 1..(at - 1) BY <3>1, <3>2, <4>1
      <4>q. QED BY <3>1, <3>2, <4>2 DEF ChaosInv, ReportFollows, ReportedUpTo
    <3>4. v.tick \in 0..TopTick /\ v.step \in 1..MaxSteps
      <4>1. PICK e \in F : e = chaosTrace[v.step] BY <2>3, <3>3
      <4>q. QED BY <2>0, <3>1, <3>3, <4>1
    <3>q. QED BY <3>1, <3>4
  <2>7. violations \in Seq(W)
    <3>1. Len(violations) \in Nat /\ DOMAIN violations = 1..Len(violations)
          /\ violations = [k \in 1..Len(violations) |-> violations[k]]
      BY <2>5
    <3> HIDE DEF V, W
    <3>q. QED BY <2>5, <2>6
  <2>8. Len(shrunk) <= Len(chaosTrace)
    <3>1. Len(<<>>) = 0 /\ Len(chaosTrace) >= 0 BY <2>0, <2>2
    <3>q. QED BY <3>1 DEF ChaosBounded
  <2>9. /\ steps \in Seq(ChaosSteps) /\ chaosStage \in {"writing", "running", "done", "rejected", "panicked"}
        /\ partitioned \in BOOLEAN /\ doubleVote \in BOOLEAN
    BY DEF ChaosInv, ScriptTyped, SeenFollows
  <2>10. fixture \in Fixtures /\ isolated \subseteq NodeIds BY DEF ChaosBounded
  <2>q. QED BY <2>0, <2>1, <2>4, <2>7, <2>8, <2>9, <2>10 DEF ChaosTypeOK, Kinds
<1>q. QED BY <1>1, <1>2, ChaosInvariant, StepChaosBounded, PTL DEF ChaosSpec
-----------------------------------------------------------------------------
(* The monitor.  An order meets every node once; of the nodes it met, the  *)
(* scan of Safety knows the first value of each height, until two disagree. *)
ScanType == [first : [Time -> Nodes \cup {None}], blamed : SUBSET Nodes]
ScanStep(before, n) ==
    IF before.blamed # {} \/ nodes[n].value = None THEN before
    ELSE IF before.first[nodes[n].height] = None
    THEN [first |-> [before.first EXCEPT ![nodes[n].height] = n], blamed |-> before.blamed]
    ELSE IF nodes[before.first[nodes[n].height]].value # nodes[n].value
    THEN [first |-> before.first, blamed |-> {before.first[nodes[n].height], n}]
    ELSE before

ScanKnows(s, met) ==
    /\ s \in ScanType
    /\ s.blamed # {} => \E m, n \in s.blamed : Conflict(m, n)
    /\ s.blamed = {} =>
          /\ \A h \in Time : s.first[h] # None =>
                nodes[s.first[h]].value # None /\ nodes[s.first[h]].height = h
          /\ \A m \in met : nodes[m].value # None =>
                /\ s.first[nodes[m].height] # None
                /\ nodes[s.first[nodes[m].height]].value = nodes[m].value

LEMMA EveryNodeMet ==
    ASSUME MonitorAssumption, NEW order \in Orders
    PROVE  /\ Cardinality(Nodes) \in Nat /\ order \in [1..Cardinality(Nodes) -> Nodes]
           /\ \A n \in Nodes : \E i \in 1..Cardinality(Nodes) : order[i] = n
<1>1. IsFiniteSet(Nodes) BY DEF MonitorAssumption
<1>2. PICK l \in Nat : l = Cardinality(Nodes) BY <1>1, FS_CardinalityType
<1>3. order \in [1..l -> Nodes] /\ \A i, j \in 1..l : i # j => order[i] # order[j] BY <1>2 DEF Orders
<1>4. order \in Injection(1..l, Nodes) BY <1>3 DEF Injection, IsInjective
<1>5. Cardinality(1..l) = l BY <1>2, FS_Interval
<1>6. order \in Surjection(1..l, Nodes) BY <1>1, <1>2, <1>4, <1>5, FS_Injection
<1>q. QED BY <1>2, <1>3, <1>6 DEF Surjection

LEMMA StepKnows ==
    ASSUME MonitorAssumption, nodes \in [Nodes -> Snapshot], NEW met \in SUBSET Nodes, NEW n \in Nodes,
           NEW s, ScanKnows(s, met)
    PROVE  ScanKnows(ScanStep(s, n), met \cup {n})
<1>1. PICK h \in Time : h = nodes[n].height BY DEF Snapshot
<1>2. s \in ScanType /\ s.first \in [Time -> Nodes \cup {None}] /\ s.blamed \subseteq Nodes
  BY DEF ScanKnows, ScanType
<1>3. None \notin Nodes BY DEF MonitorAssumption
<1>4. \A m \in Nodes : nodes[m].height \in Time BY DEF Snapshot
<1>5. CASE s.blamed # {} \/ nodes[n].value = None
  <2>1. ScanStep(s, n) = s BY <1>5 DEF ScanStep
  <2>q. QED BY <1>5, <2>1 DEF ScanKnows
<1>6. CASE s.blamed = {} /\ nodes[n].value # None /\ s.first[h] = None
  <2>1. PICK f : f = [s.first EXCEPT ![h] = n] OBVIOUS
  <2>2. f \in [Time -> Nodes \cup {None}] /\ f[h] = n /\ \A g \in Time : g # h => f[g] = s.first[g]
    BY <1>1, <1>2, <2>1
  <2>3. PICK t : t = [first |-> f, blamed |-> s.blamed] OBVIOUS
  <2>4. ScanStep(s, n) = t BY <1>1, <1>6, <2>1, <2>3 DEF ScanStep
  <2>5. t.first = f /\ t.blamed = {} /\ t \in ScanType BY <1>6, <2>2, <2>3 DEF ScanType
  <2>6. ASSUME NEW g \in Time, f[g] # None
        PROVE  nodes[f[g]].value # None /\ nodes[f[g]].height = g
    BY <1>1, <1>6, <2>2, <2>6 DEF ScanKnows
  <2>7. ASSUME NEW m \in met \cup {n}, nodes[m].value # None
        PROVE  f[nodes[m].height] # None /\ nodes[f[nodes[m].height]].value = nodes[m].value
    <3>1. CASE nodes[m].height = h
      <4>1. m \notin met BY <1>6, <2>7, <3>1 DEF ScanKnows
      <4>2. m = n BY <4>1
      <4>q. QED BY <1>3, <2>2, <3>1, <4>2
    <3>2. CASE nodes[m].height # h
      <4>1. m \in met BY <1>1, <3>2
      <4>2. f[nodes[m].height] = s.first[nodes[m].height] BY <1>4, <2>2, <3>2, <4>1
      <4>q. QED BY <1>6, <2>7, <4>1, <4>2 DEF ScanKnows
    <3>q. QED BY <3>1, <3>2
  <2>q. QED BY <2>4, <2>5, <2>6, <2>7 DEF ScanKnows
<1>7. CASE s.blamed = {} /\ nodes[n].value # None /\ s.first[h] # None
  <2>1. PICK o \in Nodes : o = s.first[h] BY <1>1, <1>2, <1>7
  <2>2. nodes[o].value # None /\ nodes[o].height = h BY <1>7, <2>1 DEF ScanKnows
  <2>3. CASE nodes[o].value # nodes[n].value
    <3>1. PICK t : t = [first |-> s.first, blamed |-> {o, n}] OBVIOUS
    <3>2. ScanStep(s, n) = t BY <1>1, <1>7, <2>1, <2>3, <3>1 DEF ScanStep
    <3>3. t \in ScanType /\ t.blamed = {o, n} BY <1>2, <3>1 DEF ScanType
    <3>4. Conflict(o, n) BY <1>1, <1>7, <2>2, <2>3 DEF Conflict
    <3>q. QED BY <3>2, <3>3, <3>4 DEF ScanKnows
  <2>4. CASE nodes[o].value = nodes[n].value
    <3>1. ScanStep(s, n) = s BY <1>1, <1>7, <2>1, <2>4 DEF ScanStep
    <3>2. s.first[nodes[n].height] # None /\ nodes[s.first[nodes[n].height]].value = nodes[n].value
      BY <1>1, <1>7, <2>1, <2>4
    <3>q. QED BY <1>7, <3>1, <3>2 DEF ScanKnows
  <2>q. QED BY <2>3, <2>4
<1>q. QED BY <1>5, <1>6, <1>7

ScanStays(V, l, order) == \A s \in V, i \in 1..l : ScanStep(s, order[i]) \in V
Scanning(w, V, start, l, order) ==
    /\ w \in [0..l -> V] /\ w[0] = start
    /\ \A i \in 1..l : i - 1 \in 0..l /\ i \in 0..l /\ w[i - 1] \in V /\ w[i] = ScanStep(w[i - 1], order[i])

LEMMA ScanRepeated ==
    ASSUME NEW V, NEW start \in V, NEW l \in Nat, NEW order, ScanStays(V, l, order)
    PROVE  \E w : Scanning(w, V, start, l, order)
<1>1. PICK f : f = [p \in V \X (1..l) |-> ScanStep(p[1], order[p[2]])] OBVIOUS
<1>2. f \in [V \X (1..l) -> V] BY <1>1 DEF ScanStays
<1>3. \A s \in V, i \in 1..l : f[<<s, i>>] = ScanStep(s, order[i]) BY <1>1
<1>4. PICK w : Repetition(w, V, start, l, f) BY <1>2, Repeated
<1>5. w \in [0..l -> V] /\ w[0] = start /\ \A i \in 1..l : w[i] = f[<<w[i - 1], i>>] BY <1>4 DEF Repetition
<1>6. \A i \in 1..l : i - 1 \in 0..l /\ i \in 0..l /\ w[i - 1] \in V BY <1>5
<1>q. QED BY <1>3, <1>5, <1>6, ZenonT(30) DEF Scanning

LEMMA SafetyScans ==
    ASSUME MonitorAssumption, nodes \in [Nodes -> Snapshot], NEW order \in Orders
    PROVE  \E s : s.blamed = Safety(order) /\ ScanKnows(s, Nodes)
<1>1. PICK l \in Nat : l = Cardinality(Nodes) BY EveryNodeMet
<1>2. order \in [1..l -> Nodes] /\ \A n \in Nodes : \E i \in 1..l : order[i] = n BY <1>1, EveryNodeMet
<1>3. Len(order) = l BY <1>2
<1>4. PICK start : start = [first |-> [h \in Time |-> None], blamed |-> {}] OBVIOUS
<1>5. start \in ScanType /\ start.blamed = {} /\ \A h \in Time : start.first[h] = None BY <1>4 DEF ScanType
<1>6. ASSUME NEW s \in ScanType, NEW n \in Nodes PROVE ScanStep(s, n) \in ScanType
  <2>1. nodes[n].height \in Time BY DEF Snapshot
  <2>2. s.first \in [Time -> Nodes \cup {None}] /\ s.blamed \subseteq Nodes BY DEF ScanType
  <2>3. [s.first EXCEPT ![nodes[n].height] = n] \in [Time -> Nodes \cup {None}] BY <2>1, <2>2
  <2>4. [first |-> [s.first EXCEPT ![nodes[n].height] = n], blamed |-> s.blamed] \in ScanType
    BY <2>2, <2>3 DEF ScanType
  <2>5. s.first[nodes[n].height] # None => [first |-> s.first, blamed |-> {s.first[nodes[n].height], n}] \in ScanType
    BY <2>1, <2>2 DEF ScanType
  <2>q. QED BY <2>4, <2>5, Zenon DEF ScanStep
<1>7. start \in ScanType /\ ScanStays(ScanType, l, order) BY <1>2, <1>5, <1>6 DEF ScanStays
<1>8. PICK w : Scanning(w, ScanType, start, l, order) BY <1>7, ScanRepeated
<1>9. w \in [0..l -> ScanType] /\ w[0] = start BY <1>8 DEF Scanning
<1>10. \A i \in 1..l : i - 1 \in 0..l /\ i \in 0..l /\ w[i] = ScanStep(w[i - 1], order[i]) BY <1>8 DEF Scanning
<1> DEFINE Body(g, i) ==
              IF i = 0 THEN [first |-> [h \in Time |-> None], blamed |-> {}]
              ELSE LET before == g[i - 1]
                       n == order[i]
                       owner == before.first[nodes[n].height]
                   IN  IF before.blamed # {} \/ nodes[n].value = None THEN before
                       ELSE IF owner = None THEN [before EXCEPT !.first[nodes[n].height] = n]
                       ELSE IF nodes[owner].value # nodes[n].value THEN [before EXCEPT !.blamed = {owner, n}]
                       ELSE before
           scanned == CHOOSE g : g = [i \in 0..l |-> Body(g, i)]
<1>11. Safety(order) = scanned[l].blamed BY <1>3, Zenon DEF Safety
<1>12. ASSUME NEW i \in 1..l, NEW g, g[i - 1] \in ScanType
       PROVE  Body(g, i) = ScanStep(g[i - 1], order[i])
  <2>1. PICK before \in ScanType : before = g[i - 1] BY <1>12
  <2>2. PICK n \in Nodes : n = order[i] BY <1>2
  <2>3. PICK owner : owner = before.first[nodes[n].height] OBVIOUS
  <2>a. before = [first |-> before.first, blamed |-> before.blamed] BY DEF ScanType
  <2>b. PICK f, b : f = before.first /\ b = before.blamed OBVIOUS
  <2>4. [before EXCEPT !.first[nodes[n].height] = n]
           = [first |-> [before.first EXCEPT ![nodes[n].height] = n], blamed |-> before.blamed]
    <3>1. before = [first |-> f, blamed |-> b] BY <2>a, <2>b
    <3>2. [[first |-> f, blamed |-> b] EXCEPT !.first[nodes[n].height] = n]
             = [first |-> [f EXCEPT ![nodes[n].height] = n], blamed |-> b] OBVIOUS
    <3>q. QED BY <2>b, <3>1, <3>2
  <2>5. [before EXCEPT !.blamed = {owner, n}] = [first |-> before.first, blamed |-> {owner, n}]
    <3>1. before = [first |-> f, blamed |-> b] BY <2>a, <2>b
    <3>2. PICK pair : pair = {owner, n} OBVIOUS
    <3>3. [[first |-> f, blamed |-> b] EXCEPT !.blamed = pair] = [first |-> f, blamed |-> pair] OBVIOUS
    <3>q. QED BY <2>b, <3>1, <3>2, <3>3
  <2>6. i # 0 OBVIOUS
  <2>7. Body(g, i) = IF before.blamed # {} \/ nodes[n].value = None THEN before
                     ELSE IF owner = None THEN [before EXCEPT !.first[nodes[n].height] = n]
                     ELSE IF nodes[owner].value # nodes[n].value THEN [before EXCEPT !.blamed = {owner, n}]
                     ELSE before
    BY <2>1, <2>2, <2>3, <2>6, Zenon
  <2>q. QED BY <2>1, <2>2, <2>3, <2>4, <2>5, <2>7, Zenon DEF ScanStep
<1> HIDE DEF Body
<1>13. w = [i \in 0..l |-> Body(w, i)]
  <2>1. \A i \in 0..l : w[i] = Body(w, i)
    <3>1. Body(w, 0) = start BY <1>4 DEF Body
    <3>2. \A i \in 0..l : i = 0 \/ i \in 1..l OBVIOUS
    <3>3. \A i \in 1..l : w[i - 1] \in ScanType BY <1>9, <1>10
    <3>q. QED BY <1>9, <1>10, <1>12, <3>1, <3>2, <3>3
  <2>q. QED BY <1>9, <2>1
<1>14. scanned = [i \in 0..l |-> Body(scanned, i)] BY <1>13
<1> HIDE DEF scanned
<1> DEFINE Met(i) == {n \in Nodes : \E j \in 1..i : order[j] = n}
           B == {i \in 0..l : ~ScanKnows(scanned[i], Met(i))}
<1>15. ScanKnows(scanned[0], Met(0))
  <2>0. 0 \in 0..l OBVIOUS
  <2>1. scanned[0] = start
    <3>1. scanned[0] = Body(scanned, 0) BY <1>14, <2>0
    <3>q. QED BY <1>4, <3>1 DEF Body
  <2>2. Met(0) = {} OBVIOUS
  <2>q. QED BY <1>5, <2>1, <2>2 DEF ScanKnows
<1>16. B = {}
  <2> SUFFICES ASSUME B # {} PROVE FALSE OBVIOUS
  <2>1. PICK i \in B : \A j \in B : i <= j
    <3>1. B \in SUBSET Nat OBVIOUS
    <3>q. QED BY <3>1, LeastNat
  <2>2. i \in 0..l /\ ~ScanKnows(scanned[i], Met(i)) BY <2>1
  <2>3. i # 0 BY <1>15, <2>2
  <2>4. i \in 1..l /\ i - 1 \in 0..l /\ ~(i <= i - 1) BY <2>2, <2>3
  <2>5. ScanKnows(scanned[i - 1], Met(i - 1)) BY <2>1, <2>4
  <2>6. scanned[i] = ScanStep(scanned[i - 1], order[i])
    <3>1. scanned[i - 1] \in ScanType BY <2>5 DEF ScanKnows
    <3>2. scanned[i] = Body(scanned, i) BY <1>14, <2>2
    <3>q. QED BY <1>12, <2>4, <3>1, <3>2
  <2>7. order[i] \in Nodes /\ Met(i - 1) \in SUBSET Nodes BY <1>2, <2>4
  <2>8. Met(i) = Met(i - 1) \cup {order[i]}
    <3>1. 1..i = 1..(i - 1) \cup {i} BY <2>4
    <3>q. QED BY <2>7, <3>1
  <2> HIDE DEF Met
  <2>9. ScanKnows(ScanStep(scanned[i - 1], order[i]), Met(i - 1) \cup {order[i]})
    BY <2>5, <2>7, StepKnows
  <2>q. QED BY <2>2, <2>6, <2>8, <2>9
<1>17. ScanKnows(scanned[l], Nodes)
  <2>1. l \in 0..l OBVIOUS
  <2>3. l \notin B BY <1>16, Zenon
  <2>2. Met(l) = Nodes BY <1>2
  <2>q. QED BY <2>1, <2>2, <2>3
<1>q. QED BY <1>11, <1>17

LEMMA ForkFound ==
    ASSUME MonitorAssumption, nodes \in [Nodes -> Snapshot], NEW order \in Orders
    PROVE  /\ Safety(order) \subseteq Nodes
           /\ Safety(order) # {} <=> \E m, n \in Nodes : Conflict(m, n)
           /\ Safety(order) # {} => \E m, n \in Safety(order) : Conflict(m, n)
<1>1. PICK s : s.blamed = Safety(order) /\ ScanKnows(s, Nodes) BY SafetyScans
<1>2. Safety(order) \subseteq Nodes BY <1>1 DEF ScanKnows, ScanType
<1>3. Safety(order) # {} => \E m, n \in Safety(order) : Conflict(m, n) BY <1>1 DEF ScanKnows
<1>4. ASSUME Safety(order) = {}, NEW m \in Nodes, NEW n \in Nodes PROVE ~Conflict(m, n)
  BY <1>1, <1>4 DEF ScanKnows, Conflict
<1>q. QED BY <1>2, <1>3, <1>4

(* The check that stops at the first node of a kind finds one exactly if   *)
(* there is one, and so does the check that compares with the first root.  *)
LEMMA LeastOf ==
    ASSUME NEW l \in Nat, NEW S \in SUBSET (1..l), S # {}
    PROVE  (CHOOSE i \in S : \A j \in S : i <= j) \in S
<1>1. S \in SUBSET Nat OBVIOUS
<1>2. \E i \in S : \A j \in S : i <= j BY <1>1, LeastNat
<1>q. QED BY <1>2

LEMMA FirstFound ==
    ASSUME MonitorAssumption, NEW order \in Orders, NEW violating \in SUBSET Nodes
    PROVE  /\ FirstOf(order, violating) \subseteq violating
           /\ FirstOf(order, violating) # {} <=> violating # {}
<1>1. PICK l \in Nat : l = Cardinality(Nodes) BY EveryNodeMet
<1>2. order \in [1..l -> Nodes] /\ \A n \in Nodes : \E i \in 1..l : order[i] = n BY <1>1, EveryNodeMet
<1>3. PICK matching : matching = {i \in DOMAIN order : order[i] \in violating} OBVIOUS
<1>4. matching \in SUBSET (1..l) BY <1>2, <1>3
<1>5. matching # {} <=> violating # {} BY <1>2, <1>3
<1>6. FirstOf(order, violating) =
          IF matching = {} THEN {} ELSE {order[CHOOSE i \in matching : \A j \in matching : i <= j]}
  BY <1>3, Zenon DEF FirstOf
<1>7. matching # {} => order[CHOOSE i \in matching : \A j \in matching : i <= j] \in violating
  <2> SUFFICES ASSUME matching # {}
               PROVE  order[CHOOSE i \in matching : \A j \in matching : i <= j] \in violating
    OBVIOUS
  <2>1. (CHOOSE i \in matching : \A j \in matching : i <= j) \in matching BY <1>4, LeastOf
  <2>q. QED BY <1>3, <2>1
<1>q. QED BY <1>5, <1>6, <1>7

LEMMA MismatchFound ==
    ASSUME MonitorAssumption, NEW order \in Orders
    PROVE  /\ ProverConsistency(order) \subseteq Nodes
           /\ ProverConsistency(order) # {} <=> \E m, n \in Nodes : Mismatch(m, n)
           /\ ProverConsistency(order) # {} => \E m, n \in ProverConsistency(order) : Mismatch(m, n)
<1>1. PICK l \in Nat : l = Cardinality(Nodes) BY EveryNodeMet
<1>2. order \in [1..l -> Nodes] /\ \A n \in Nodes : \E i \in 1..l : order[i] = n BY <1>1, EveryNodeMet
<1>3. PICK rooted : rooted = {i \in DOMAIN order : nodes[order[i]].root # None} OBVIOUS
<1>4. PICK first : first = CHOOSE i \in rooted : \A j \in rooted : i <= j OBVIOUS
<1>5. PICK other : other = {i \in rooted : nodes[order[i]].root # nodes[order[first]].root} OBVIOUS
<1>6. PICK second : second = CHOOSE i \in other : \A j \in other : i <= j OBVIOUS
<1>7. ProverConsistency(order) = IF other = {} THEN {} ELSE {order[first], order[second]}
  <2> DEFINE R == {i \in DOMAIN order : nodes[order[i]].root # None}
             f == CHOOSE i \in R : \A j \in R : i <= j
             O == {i \in R : nodes[order[i]].root # nodes[order[f]].root}
             g == CHOOSE i \in O : \A j \in O : i <= j
  <2>1. ProverConsistency(order) = IF O = {} THEN {} ELSE {order[f], order[g]}
    BY DEF ProverConsistency
  <2>2. R = rooted BY <1>3
  <2> HIDE DEF R
  <2>3. f = first BY <1>4, <2>2
  <2> HIDE DEF f
  <2>4. O = other BY <1>5, <2>2, <2>3
  <2> HIDE DEF O
  <2>5. g = second BY <1>6, <2>4
  <2> HIDE DEF g
  <2>q. QED BY <2>1, <2>3, <2>4, <2>5
<1>8. rooted \in SUBSET (1..l) /\ other \in SUBSET (1..l) /\ other \subseteq rooted BY <1>2, <1>3, <1>5
<1>9. rooted # {} => first \in rooted BY <1>4, <1>8, LeastOf
<1>10. other # {} => second \in other BY <1>6, <1>8, LeastOf
<1>11. other # {} => /\ order[first] \in Nodes /\ order[second] \in Nodes
                     /\ Mismatch(order[first], order[second])
  <2> SUFFICES ASSUME other # {}
               PROVE  /\ order[first] \in Nodes /\ order[second] \in Nodes
                      /\ Mismatch(order[first], order[second])
    OBVIOUS
  <2>1. first \in rooted /\ second \in rooted /\ second \in other BY <1>8, <1>9, <1>10
  <2>q. QED BY <1>2, <1>3, <1>5, <1>8, <2>1 DEF Mismatch
<1>12. ASSUME other = {}, NEW m \in Nodes, NEW n \in Nodes PROVE ~Mismatch(m, n)
  <2>1. PICK i \in 1..l, j \in 1..l : order[i] = m /\ order[j] = n BY <1>2
  <2>2. i \in rooted => nodes[m].root = nodes[order[first]].root BY <1>5, <1>12, <2>1
  <2>3. j \in rooted => nodes[n].root = nodes[order[first]].root BY <1>5, <1>12, <2>1
  <2>4. (nodes[m].root # None => i \in rooted) /\ (nodes[n].root # None => j \in rooted) BY <1>2, <1>3, <2>1
  <2>q. QED BY <2>2, <2>3, <2>4 DEF Mismatch
<1>q. QED BY <1>7, <1>11, <1>12

LEMMA SnapshotsTyped == ASSUME MonitorAssumption PROVE Snapshots \subseteq [Nodes -> Snapshot]
<1>1. \A n \in 0..2 : [1..n -> Messages] \subseteq Seq(Messages)
  <2>1. \A l \in Nat : \A u : u \in [1..l -> Messages] => u \in Seq(Messages) OBVIOUS
  <2>q. QED BY <2>1
<1>2. Processed \subseteq Seq(Messages) BY <1>1 DEF Processed
<1>3. 0 \in Time /\ <<>> \in Seq(Messages) BY DEF MonitorAssumption, Time
<1>4. Default \in Snapshot BY <1>3 DEF Default, Snapshot
<1>5. \A h \in Time, v \in Values \cup {None} : Committed(h, v) \in Snapshot
  BY <1>4 DEF Snapshot, Committed
<1>6. \A p \in Time : [Default EXCEPT !.progress = p] \in Snapshot BY <1>4 DEF Snapshot
<1>7. \A s \in Processed : [Default EXCEPT !.processed = s] \in Snapshot
  <2> SUFFICES ASSUME NEW s \in Seq(Messages) PROVE [Default EXCEPT !.processed = s] \in Snapshot BY <1>2
  <2>q. QED BY <1>4 DEF Snapshot
<1>8. \A r \in BOOLEAN, b \in Time : Blocked(r, b) \in Snapshot
  BY <1>4 DEF Snapshot, Blocked
<1>9. \A r \in Values \cup {None} : [Default EXCEPT !.root = r] \in Snapshot BY <1>4 DEF Snapshot
<1>10. \A f \in SUBSET Values, r \in {{}} \cup {{v} : v \in Values} :
           Finalized(f, r) \in Snapshot
  <2>1. \A r \in {{}} \cup {{v} : v \in Values} : r \in SUBSET Values OBVIOUS
  <2> SUFFICES ASSUME NEW f \in SUBSET Values, NEW r \in SUBSET Values
               PROVE  Finalized(f, r) \in Snapshot BY <2>1
  <2>q. QED BY <1>4 DEF Snapshot, Finalized
<1>11. PICK C : C = Snapshot OBVIOUS
<1>12. \A D \in SUBSET C : [Nodes -> D] \subseteq [Nodes -> C] OBVIOUS
<1> DEFINE A1 == {Committed(h, v) : h \in Time, v \in Values \cup {None}}
           A2 == {[Default EXCEPT !.progress = p] : p \in Time}
           A3 == {[Default EXCEPT !.processed = s] : s \in Processed}
           A4 == {Blocked(r, b) : r \in BOOLEAN, b \in Time}
           A5 == {[Default EXCEPT !.root = r] : r \in Values \cup {None}}
           A6 == {Finalized(f, r) :
                      f \in SUBSET Values, r \in {{}} \cup {{v} : v \in Values}}
<1>13. Snapshots = [Nodes -> A1] \cup [Nodes -> A2] \cup [Nodes -> A3]
                      \cup [Nodes -> A4] \cup [Nodes -> A5] \cup [Nodes -> A6]
  BY DEF Snapshots
<1>14. A1 \in SUBSET C /\ A2 \in SUBSET C /\ A3 \in SUBSET C /\ A4 \in SUBSET C /\ A5 \in SUBSET C
  BY <1>5, <1>6, <1>7, <1>8, <1>9, <1>11
<1>15. A6 \in SUBSET C BY <1>10, <1>11
<1> HIDE DEF A1, A2, A3, A4, A5, A6
<1>q. QED BY <1>11, <1>12, <1>13, <1>14, <1>15

MonitorInv ==
    /\ monitorStage \in {"simulating", "handed", "checked"} /\ nodes \in [Nodes -> Snapshot]
    /\ MonitorExact

LEMMA InitMonitorInv == MonitorAssumption /\ MonitorInit => MonitorInv
<1> SUFFICES ASSUME MonitorAssumption, MonitorInit PROVE MonitorInv OBVIOUS
<1>1. 0 \in Time /\ <<>> \in Seq(Messages) BY DEF MonitorAssumption, Time
<1>2. Default \in Snapshot BY <1>1 DEF Default, Snapshot
<1>3. nodes \in [Nodes -> Snapshot] BY <1>2 DEF MonitorInit, NoSnapshot
<1>4. monitorStage = "simulating" BY DEF MonitorInit
<1>q. QED BY <1>3, <1>4 DEF MonitorInv, MonitorExact

LEMMA StepMonitorInv == MonitorAssumption /\ MonitorInv /\ [MonitorNext]_monitorVars => MonitorInv'
<1> SUFFICES ASSUME MonitorAssumption, MonitorInv, [MonitorNext]_monitorVars PROVE MonitorInv' OBVIOUS
<1>1. CASE Hand
  <2>1. nodes' \in [Nodes -> Snapshot] /\ monitorStage' = "handed" BY <1>1, SnapshotsTyped DEF Hand
  <2>q. QED BY <2>1 DEF MonitorInv, MonitorExact
<1>2. CASE CheckAll
  <2>1. PICK order \in Orders :
            /\ reported' = [safety |-> Safety(order), liveness |-> Liveness, idempotency |-> Idempotency(order),
                            escape_hatch |-> EscapeHatch, prover |-> ProverConsistency(order),
                            finalization |-> FinalizationMonotonicity(order), custom |-> Custom]
            /\ nodes' = nodes /\ monitorStage' = "checked"
    BY <1>2 DEF CheckAll
  <2>2. nodes \in [Nodes -> Snapshot] BY DEF MonitorInv
  <2>3. /\ reported'.safety = Safety(order) /\ reported'.prover = ProverConsistency(order)
        /\ reported'.idempotency = Idempotency(order)
        /\ reported'.finalization = FinalizationMonotonicity(order)
    BY <2>1
  <2>4. /\ reported'.safety # {} <=> \E m, n \in Nodes : Conflict(m, n)
        /\ reported'.safety # {} => \E m, n \in reported'.safety : Conflict(m, n)
    BY <2>2, <2>3, ForkFound
  <2>5. /\ reported'.prover # {} <=> \E m, n \in Nodes : Mismatch(m, n)
        /\ reported'.prover # {} => \E m, n \in reported'.prover : Mismatch(m, n)
    BY <2>3, MismatchFound
  <2>6. /\ reported'.idempotency # {} <=> \E n \in Nodes : Repeats(nodes[n].processed)
        /\ \A n \in reported'.idempotency : Repeats(nodes[n].processed)
    <3>1. PICK violating \in SUBSET Nodes : violating = {n \in Nodes : Repeats(nodes[n].processed)} OBVIOUS
    <3>2. reported'.idempotency = FirstOf(order, violating) BY <2>3, <3>1 DEF Idempotency
    <3>3. /\ reported'.idempotency \subseteq violating
          /\ reported'.idempotency # {} <=> violating # {}
      BY <3>2, FirstFound
    <3>q. QED BY <3>1, <3>3
  <2>7. reported'.finalization # {} <=> \E n \in Nodes : nodes[n].finalized \cap nodes[n].revoked # {}
    <3>1. PICK violating \in SUBSET Nodes : violating = {n \in Nodes : nodes[n].finalized \cap nodes[n].revoked # {}} OBVIOUS
    <3>2. reported'.finalization = FirstOf(order, violating) BY <2>3, <3>1 DEF FinalizationMonotonicity
    <3>3. reported'.finalization # {} <=> violating # {} BY <3>2, FirstFound
    <3>q. QED BY <3>1, <3>3
  <2>8. \A m, n : (Conflict(m, n)' <=> Conflict(m, n)) /\ (Mismatch(m, n)' <=> Mismatch(m, n))
    BY <2>1 DEF Conflict, Mismatch
  <2>9. MonitorExact' BY <2>1, <2>4, <2>5, <2>6, <2>7, <2>8 DEF MonitorExact
  <2>q. QED BY <2>1, <2>2, <2>9 DEF MonitorInv
<1>3. CASE UNCHANGED monitorVars
  <2>1. UNCHANGED <<nodes, reported, monitorStage>> BY <1>3 DEF monitorVars
  <2>2. \A m, n : (Conflict(m, n)' <=> Conflict(m, n)) /\ (Mismatch(m, n)' <=> Mismatch(m, n))
    BY <2>1 DEF Conflict, Mismatch
  <2>3. MonitorExact' BY <2>1, <2>2 DEF MonitorInv, MonitorExact
  <2>q. QED BY <2>1, <2>3 DEF MonitorInv
<1>q. QED BY <1>1, <1>2, <1>3 DEF MonitorNext

(* However many nodes there are and in whatever order the map gives them,  *)
(* the monitor reports a fork, a mismatch of roots, a repeated message and *)
(* a revoked finalization exactly when there is one, and blames nodes that *)
(* show it.                                                                *)
THEOREM MonitorReportsTruly == MonitorSpec => []MonitorExact
<1>1. MonitorAssumption BY MonitorAssumption
<1>2. MonitorInv => MonitorExact BY DEF MonitorInv
<1>q. QED BY <1>1, <1>2, InitMonitorInv, StepMonitorInv, PTL DEF MonitorSpec

LEMMA BlamedAreNodes ==
    ASSUME MonitorAssumption, nodes \in [Nodes -> Snapshot], NEW order \in Orders
    PROVE  /\ Safety(order) \subseteq Nodes /\ Liveness \subseteq Nodes
           /\ Idempotency(order) \subseteq Nodes /\ EscapeHatch \subseteq Nodes
           /\ ProverConsistency(order) \subseteq Nodes
           /\ FinalizationMonotonicity(order) \subseteq Nodes /\ Custom \subseteq Nodes
<1>1. PICK s : s.blamed = Safety(order) /\ ScanKnows(s, Nodes) BY SafetyScans
<1>2. Safety(order) \subseteq Nodes BY <1>1 DEF ScanKnows, ScanType
<1>3. Liveness \subseteq Nodes /\ EscapeHatch \subseteq Nodes BY DEF Liveness, EscapeHatch, BlockedBeyond
<1>4. Idempotency(order) \subseteq Nodes
  <2>1. {n \in Nodes : Repeats(nodes[n].processed)} \in SUBSET Nodes OBVIOUS
  <2>2. Idempotency(order) \subseteq {n \in Nodes : Repeats(nodes[n].processed)}
    BY <2>1, FirstFound DEF Idempotency
  <2>q. QED BY <2>2
<1>5. FinalizationMonotonicity(order) \subseteq Nodes
  <2>1. {n \in Nodes : nodes[n].finalized \cap nodes[n].revoked # {}} \in SUBSET Nodes OBVIOUS
  <2>2. FinalizationMonotonicity(order) \subseteq {n \in Nodes : nodes[n].finalized \cap nodes[n].revoked # {}}
    BY <2>1, FirstFound DEF FinalizationMonotonicity
  <2>q. QED BY <2>2
<1>6. Custom \subseteq Nodes BY DEF Custom
<1>7. ProverConsistency(order) \subseteq Nodes BY MismatchFound
<1>q. QED BY <1>2, <1>3, <1>4, <1>5, <1>6, <1>7

(* The snapshots have the type of snapshots, and every check blames nodes  *)
(* that exist, whatever the order of the map.                              *)
THEOREM MonitorTypeCorrect == MonitorSpec => []MonitorTypeOK
<1>1. MonitorAssumption BY MonitorAssumption
<1>2. MonitorInit => MonitorTypeOK
  <2>1. MonitorInit => monitorStage = "simulating" BY DEF MonitorInit
  <2>q. QED BY <1>1, <2>1, InitMonitorInv DEF MonitorInv, MonitorTypeOK
<1>3. MonitorInv /\ MonitorTypeOK /\ [MonitorNext]_monitorVars => MonitorTypeOK'
  <2> SUFFICES ASSUME MonitorInv, MonitorTypeOK, [MonitorNext]_monitorVars PROVE MonitorTypeOK' OBVIOUS
  <2>1. monitorStage' \in {"simulating", "handed", "checked"} /\ nodes' \in [Nodes -> Snapshot]
    BY <1>1, StepMonitorInv DEF MonitorInv
  <2>2. CASE Hand
    <3>1. monitorStage' = "handed" BY <2>2 DEF Hand
    <3>q. QED BY <2>1, <3>1 DEF MonitorTypeOK
  <2>3. CASE CheckAll
    <3>1. PICK order \in Orders :
            reported' = [safety |-> Safety(order), liveness |-> Liveness, idempotency |-> Idempotency(order),
                         escape_hatch |-> EscapeHatch, prover |-> ProverConsistency(order),
                         finalization |-> FinalizationMonotonicity(order), custom |-> Custom]
      BY <2>3 DEF CheckAll
    <3>2. nodes \in [Nodes -> Snapshot] BY DEF MonitorInv
    <3>3. /\ Safety(order) \subseteq Nodes /\ Liveness \subseteq Nodes
          /\ Idempotency(order) \subseteq Nodes /\ EscapeHatch \subseteq Nodes
          /\ ProverConsistency(order) \subseteq Nodes
          /\ FinalizationMonotonicity(order) \subseteq Nodes /\ Custom \subseteq Nodes
      BY <1>1, <3>2, BlamedAreNodes
    <3>4. \A invariant \in DOMAIN reported' : reported'[invariant] \subseteq Nodes BY <3>1, <3>3
    <3>q. QED BY <2>1, <3>4 DEF MonitorTypeOK
  <2>4. CASE UNCHANGED monitorVars BY <2>4 DEF monitorVars, MonitorTypeOK
  <2>q. QED BY <2>2, <2>3, <2>4 DEF MonitorNext
<1>q. QED BY <1>1, <1>2, <1>3, InitMonitorInv, StepMonitorInv, PTL DEF MonitorSpec
-----------------------------------------------------------------------------
(* The MadSim bridge.  Whatever lies in the directory of a builder, was     *)
(* read of it or was run there is of a builder whose directory has the     *)
(* same name, and the name is what the builder read from the clock.        *)
InDir(b, t) == b \in Builders => harness[b] \in Harness /\ harness[b].dir = t
Owned ==
    /\ \A b \in Builders : harness[b] # NoHarness =>
          harness[b].dir = harness[b].at /\ projects[harness[b].dir] \in Builders
    /\ \A t \in Stamps : InDir(projects[t], t) /\ InDir(built[t], t)
    /\ \A b \in Builders : smoke[b].stage # "idle" =>
          /\ harness[b] # NoHarness /\ smoke[b].of \in Builders
          /\ InDir(smoke[b].of, harness[b].dir)
          /\ smoke[b].stage = "binary" => built[harness[b].dir] \in Builders
BridgeInv == BridgeTypeOK /\ Owned

LEMMA InitBridgeInv == BridgeAssumption /\ BridgeInit => BridgeInv
<1> SUFFICES ASSUME BridgeAssumption, BridgeInit PROVE BridgeInv OBVIOUS
<1>1. BridgeTypeOK BY DEF BridgeInit, BridgeTypeOK, Source, Stages
<1>2. "nobody" \notin Builders BY DEF BridgeAssumption
<1>3. Owned BY <1>2 DEF BridgeInit, Owned, InDir
<1>q. QED BY <1>1, <1>3 DEF BridgeInv

LEMMA NoHarnessIsNone == NoHarness \notin Harness
BY DEF NoHarness, Harness, EntryCalls

LEMMA StepOfAssessment ==
    ASSUME BridgeInv, Workspace \/ Assess \/ Clock \/ Judge \/ UNCHANGED bridgeVars
    PROVE  BridgeInv'
<1>1. UNCHANGED <<projects, built, harness, smoke>>
  BY DEF Workspace, Assess, Clock, Judge, bridgeVars
<1>2. Owned' BY <1>1 DEF BridgeInv, Owned, InDir
<1> USE DEF BridgeTypeOK
<1>3. CASE Workspace
  <2>1. /\ holder' \in [RustFiles -> {c \in SUBSET Crates : c # {}}]
        /\ unreadable' \subseteq RustFiles
        /\ runtimes' \in SUBSET (RustFiles \X LineNos)
        /\ p2p' \subseteq RustFiles \X LineNos
        /\ hits' \in [runtime : {0, 2}, p2p : BOOLEAN]
        /\ UNCHANGED <<level, points, now, verdict>>
    BY <1>3 DEF Workspace
  <2>2. holder' \in [RustFiles -> SUBSET Crates] BY <2>1
  <2>3. hits' \in [runtime : 0..2, p2p : BOOLEAN] BY <2>1
  <2>4. runtimes' \cup p2p' \subseteq RustFiles \X LineNos BY <2>1
  <2>q. QED BY <1>1, <1>2, <2>1, <2>2, <2>3, <2>4 DEF BridgeInv
<1>4. CASE Assess
  <2>1. /\ points' = IF Scattered THEN {}
                     ELSE IF AdapterPoints = {} /\ hits.p2p THEN {SemanticPoint} ELSE AdapterPoints
        /\ level' = IF Scattered THEN "C" ELSE IF points' # {} THEN "B" ELSE "A"
        /\ UNCHANGED <<holder, unreadable, runtimes, p2p, hits, now, verdict>>
    BY <1>4 DEF Assess
  <2>2. AdapterPoints \subseteq Crates \X RustFiles \X LineNos BY DEF AdapterPoints, Seen
  <2>3. points' \subseteq (Crates \X RustFiles \X LineNos) \cup {SemanticPoint}
    <3> HIDE DEF BridgeTypeOK
    <3>q. QED BY <2>1, <2>2
  <2>4. level' \in {"none", "A", "B", "C"} BY <2>1
  <2>q. QED BY <1>1, <1>2, <2>1, <2>3, <2>4 DEF BridgeInv
<1>5. CASE Clock BY <1>1, <1>2, <1>5 DEF Clock, BridgeInv
<1>6. CASE Judge BY <1>1, <1>2, <1>6 DEF Judge, Status, BridgeInv
<1>7. CASE UNCHANGED bridgeVars BY <1>2, <1>7 DEF bridgeVars, BridgeInv
<1>q. QED BY <1>3, <1>4, <1>5, <1>6, <1>7

LEMMA StepGenerateLevelA ==
    ASSUME BridgeInv, NEW b \in Builders, GenerateLevelA(b)
    PROVE  BridgeInv'
<1>1. PICK answer \in Answers :
        /\ harness[b] = NoHarness
        /\ projects' = [projects EXCEPT ![now] = b]
        /\ harness' = [harness EXCEPT ![b] = [entry |-> EntryCall(answer), dir |-> now, at |-> now]]
        /\ UNCHANGED <<holder, unreadable, runtimes, p2p, hits, level, points, now, built, smoke, verdict>>
  BY DEF GenerateLevelA, ProjectDir
<1>2. PICK own : own = [entry |-> EntryCall(answer), dir |-> now, at |-> now] OBVIOUS
<1>3. /\ now \in Stamps /\ projects \in [Stamps -> Source] /\ built \in [Stamps -> Source]
      /\ harness \in [Builders -> Harness \cup {NoHarness}]
      /\ smoke \in [Builders -> [stage : Stages, of : Source]]
  BY DEF BridgeInv, BridgeTypeOK
<1>4. own \in Harness /\ own.dir = now /\ own.at = now
  BY <1>2, <1>3 DEF Harness, EntryCall, EntryCalls
<1>5. projects' \in [Stamps -> Source] BY <1>1, <1>3 DEF Source
<1>6. harness' \in [Builders -> Harness \cup {NoHarness}] BY <1>1, <1>2, <1>3, <1>4
<1>7. BridgeTypeOK' BY <1>1, <1>5, <1>6 DEF BridgeInv, BridgeTypeOK
<1>8. /\ harness'[b] = own
      /\ \A c \in Builders \ {b} : harness'[c] = harness[c]
      /\ projects'[now] = b /\ \A t \in Stamps \ {now} : projects'[t] = projects[t]
  BY <1>1, <1>2, <1>3
<1>9. ASSUME NEW c, NEW t, InDir(c, t) PROVE InDir(c, t)'
  <2>1. c \in Builders => c # b BY <1>1, <1>9, NoHarnessIsNone DEF InDir
  <2>q. QED BY <1>8, <1>9, <2>1 DEF InDir
<1>10. ASSUME NEW c \in Builders, harness'[c] # NoHarness
       PROVE  harness'[c].dir = harness'[c].at /\ projects'[harness'[c].dir] \in Builders
  <2>1. CASE c = b BY <1>4, <1>8, <2>1
  <2>2. CASE c # b
    <3>1. harness'[c] = harness[c] /\ harness[c] \in Harness BY <1>3, <1>8, <1>10, <2>2
    <3>2. /\ harness[c].dir = harness[c].at /\ projects[harness[c].dir] \in Builders
          /\ harness[c].dir \in Stamps
      BY <1>10, <3>1 DEF BridgeInv, Owned, Harness
    <3>q. QED BY <1>8, <3>1, <3>2
  <2>q. QED BY <2>1, <2>2
<1>11. ASSUME NEW t \in Stamps PROVE InDir(projects[t], t)' /\ InDir(built[t], t)'
  <2>1. InDir(projects[t], t) /\ InDir(built[t], t) BY DEF BridgeInv, Owned
  <2>2. InDir(built[t], t)' BY <1>1, <1>9, <2>1 DEF InDir
  <2>3. CASE t = now BY <1>4, <1>8, <2>2, <2>3 DEF InDir
  <2>4. CASE t # now
    <3>1. projects'[t] = projects[t] BY <1>8, <2>4
    <3>q. QED BY <1>9, <2>1, <2>2, <3>1 DEF InDir
  <2>q. QED BY <2>3, <2>4
<1>12. ASSUME NEW c \in Builders, smoke'[c].stage # "idle"
       PROVE  /\ harness'[c] # NoHarness /\ smoke'[c].of \in Builders
              /\ InDir(smoke[c].of, harness[c].dir)'
              /\ smoke'[c].stage = "binary" => built'[harness'[c].dir] \in Builders
  <2>1. /\ harness[c] # NoHarness /\ smoke[c].of \in Builders
        /\ InDir(smoke[c].of, harness[c].dir)
        /\ smoke[c].stage = "binary" => built[harness[c].dir] \in Builders
    BY <1>1, <1>12 DEF BridgeInv, Owned
  <2>2. harness'[c] = harness[c] BY <1>1, <1>8, <2>1
  <2>q. QED BY <1>1, <1>9, <2>1, <2>2 DEF InDir
<1>13. Owned' BY <1>10, <1>11, <1>12 DEF Owned
<1>q. QED BY <1>7, <1>13 DEF BridgeInv

LEMMA StepOfSmokeTest ==
    ASSUME BridgeInv, NEW b \in Builders, RustcReads(b) \/ RustcWrites(b) \/ RunSmoke(b)
    PROVE  BridgeInv'
<1>1. UNCHANGED <<holder, unreadable, runtimes, p2p, hits, level, points, now, projects, harness, verdict>>
  BY DEF RustcReads, RustcWrites, RunSmoke
<1>2. /\ projects \in [Stamps -> Source] /\ built \in [Stamps -> Source]
      /\ harness \in [Builders -> Harness \cup {NoHarness}]
      /\ smoke \in [Builders -> [stage : Stages, of : Source]]
  BY DEF BridgeInv, BridgeTypeOK
<1>3. harness[b] # NoHarness BY DEF RustcReads, RustcWrites, RunSmoke, BridgeInv, Owned
<1>4. PICK t \in Stamps : t = harness[b].dir BY <1>2, <1>3 DEF Harness
<1>5. projects[t] \in Builders /\ InDir(projects[t], t) /\ InDir(built[t], t)
  BY <1>3, <1>4 DEF BridgeInv, Owned
<1>6. smoke[b].stage # "idle" => smoke[b].of \in Builders /\ InDir(smoke[b].of, t)
  BY <1>4 DEF BridgeInv, Owned
<1>7. smoke[b].stage = "binary" => built[t] \in Builders BY <1>4 DEF BridgeInv, Owned
<1>8. PICK stage \in Stages, of \in Source :
        /\ stage # "idle" /\ smoke' = [smoke EXCEPT ![b] = [stage |-> stage, of |-> of]]
        /\ of \in Builders /\ InDir(of, t)
        /\ \/ built' = built /\ stage # "binary"
           \/ built' = [built EXCEPT ![t] = of]
  <2>1. CASE RustcReads(b)
    <3>1. smoke' = [smoke EXCEPT ![b] = [stage |-> "rustc", of |-> projects[t]]] /\ built' = built
      BY <1>4, <2>1 DEF RustcReads, Test
    <3>2. projects[t] \in Source /\ "rustc" \in Stages BY <1>2 DEF Stages
    <3>q. QED BY <1>5, <3>1, <3>2
  <2>2. CASE RustcWrites(b)
    <3>1. /\ smoke[b].stage = "rustc"
          /\ \/ /\ built' = [built EXCEPT ![t] = smoke[b].of]
                /\ smoke' = [smoke EXCEPT ![b] = [stage |-> "binary", of |-> smoke[b].of]]
             \/ built' = built /\ smoke' = [smoke EXCEPT ![b] = [stage |-> "failed", of |-> smoke[b].of]]
      BY <1>4, <2>2 DEF RustcWrites, Test
    <3>2. smoke[b].of \in Source /\ "binary" \in Stages /\ "failed" \in Stages BY <1>2 DEF Stages
    <3>q. QED BY <1>6, <3>1, <3>2
  <2>3. CASE RunSmoke(b)
    <3>1. PICK stage \in {"passed", "failed"} :
            /\ smoke[b].stage = "binary" /\ built' = built
            /\ smoke' = [smoke EXCEPT ![b] = [stage |-> stage, of |-> built[t]]]
      BY <1>4, <2>3 DEF RunSmoke, Test
    <3>2. built[t] \in Source /\ stage \in Stages BY <1>2 DEF Stages
    <3>q. QED BY <1>5, <1>7, <3>1, <3>2
  <2>q. QED BY <2>1, <2>2, <2>3
<1>9. /\ smoke'[b] = [stage |-> stage, of |-> of]
      /\ \A c \in Builders \ {b} : smoke'[c] = smoke[c]
      /\ smoke' \in [Builders -> [stage : Stages, of : Source]]
  BY <1>2, <1>8
<1>10. /\ built' \in [Stamps -> Source]
       /\ \A u \in Stamps : built'[u] = built[u] \/ (u = t /\ built'[u] = of)
       /\ stage = "binary" => built'[t] = of
  BY <1>2, <1>8
<1>11. BridgeTypeOK' BY <1>1, <1>9, <1>10 DEF BridgeInv, BridgeTypeOK
<1>12. ASSUME NEW c, NEW u PROVE InDir(c, u)' <=> InDir(c, u) BY <1>1 DEF InDir
<1>13. ASSUME NEW u \in Stamps PROVE InDir(projects[u], u)' /\ InDir(built[u], u)'
  <2>1. InDir(projects[u], u) /\ InDir(built[u], u) BY DEF BridgeInv, Owned
  <2>2. InDir(projects[u], u)' BY <1>1, <2>1 DEF InDir
  <2>3. InDir(built'[u], u) BY <1>8, <1>10, <2>1
  <2>q. QED BY <1>1, <2>2, <2>3 DEF InDir
<1>14. ASSUME NEW c \in Builders, smoke'[c].stage # "idle"
       PROVE  /\ harness'[c] # NoHarness /\ smoke'[c].of \in Builders
              /\ InDir(smoke[c].of, harness[c].dir)'
              /\ smoke'[c].stage = "binary" => built'[harness'[c].dir] \in Builders
  <2>1. CASE c = b
    <3>1. smoke'[c].of = of /\ smoke'[c].stage = stage /\ harness'[c] = harness[b] BY <1>1, <1>9, <2>1
    <3>q. QED BY <1>1, <1>3, <1>4, <1>8, <1>10, <3>1 DEF InDir
  <2>2. CASE c # b
    <3>1. smoke'[c] = smoke[c] BY <1>9, <2>2
    <3>2. /\ harness[c] # NoHarness /\ smoke[c].of \in Builders
          /\ InDir(smoke[c].of, harness[c].dir)
          /\ smoke[c].stage = "binary" => built[harness[c].dir] \in Builders
      BY <1>14, <3>1 DEF BridgeInv, Owned
    <3>3. harness[c].dir \in Stamps BY <1>2, <3>2 DEF Harness
    <3>4. smoke[c].stage = "binary" => built'[harness[c].dir] \in Builders BY <1>8, <1>10, <3>2, <3>3
    <3>q. QED BY <1>1, <3>1, <3>2, <3>4 DEF InDir
  <2>q. QED BY <2>1, <2>2
<1>15. Owned' BY <1>1, <1>13, <1>14 DEF BridgeInv, Owned
<1>q. QED BY <1>11, <1>15 DEF BridgeInv

LEMMA BridgeInvariant == BridgeSpec => []BridgeInv
<1>1. BridgeAssumption BY BridgeAssumption
<1>2. BridgeInv /\ [BridgeNext]_bridgeVars => BridgeInv'
  <2> SUFFICES ASSUME BridgeInv, [BridgeNext]_bridgeVars PROVE BridgeInv' OBVIOUS
  <2>1. CASE Workspace \/ Assess \/ Clock \/ Judge \/ UNCHANGED bridgeVars BY <2>1, StepOfAssessment
  <2>2. CASE \E b \in Builders : GenerateLevelA(b) BY <2>2, StepGenerateLevelA
  <2>3. CASE \E b \in Builders : RustcReads(b) \/ RustcWrites(b) \/ RunSmoke(b) BY <2>3, StepOfSmokeTest
  <2>q. QED BY <2>1, <2>2, <2>3 DEF BridgeNext
<1>q. QED BY <1>1, <1>2, InitBridgeInv, PTL DEF BridgeSpec

(* However many builders write, compile and run in one directory, what     *)
(* passes as the smoke test of one is its own harness, unless another read *)
(* the same time from the clock.                                           *)
THEOREM SmokeTestIsOwn == BridgeSpec => []SmokeTestsOwn
<1>1. BridgeInv => SmokeTestsOwn
  <2> SUFFICES ASSUME BridgeInv, NEW b \in Builders, smoke[b].stage = "passed", smoke[b].of # b
               PROVE  \E c \in Builders \ {b} : harness[c] # NoHarness /\ harness[c].at = harness[b].at
    BY DEF SmokeTestsOwn
  <2>1. /\ harness[b] # NoHarness /\ smoke[b].of \in Builders
        /\ InDir(smoke[b].of, harness[b].dir)
    BY DEF BridgeInv, Owned
  <2>2. PICK c \in Builders \ {b} : c = smoke[b].of BY <2>1
  <2>3. harness[c] # NoHarness /\ harness[c].dir = harness[b].dir
    BY <2>1, <2>2, NoHarnessIsNone DEF InDir
  <2>4. harness[c].at = harness[c].dir /\ harness[b].at = harness[b].dir
    BY <2>1, <2>3 DEF BridgeInv, Owned
  <2>q. QED BY <2>3, <2>4
<1>q. QED BY <1>1, BridgeInvariant, PTL

(* The bridge runs only projects that a builder wrote, each at a stamp of  *)
(* the clock, and its verdict is one of the four that it knows.            *)
THEOREM BridgeTypeCorrect == BridgeSpec => []BridgeTypeOK
<1>1. BridgeInv => BridgeTypeOK BY DEF BridgeInv
<1>q. QED BY <1>1, BridgeInvariant, PTL
-----------------------------------------------------------------------------
(* The gate.  A validation is at work on a binary of its own: the path it  *)
(* was given is below the counter and nobody else's.                       *)
AtWork == {"compile", "rustc", "first", "second"}
HasBinary(g) == gate[g].stage \in {"rustc", "first", "second"}
OwnBinary(g) == [gate |-> g, source |-> gate[g].source]

PathsDiffer ==
    /\ \A g \in Gates : HasBinary(g) => gate[g].path \in Paths /\ gate[g].path[2] < counter
    /\ \A g, h \in Gates : HasBinary(g) /\ HasBinary(h) /\ g # h => gate[g].path # gate[h].path
    /\ \A g \in Gates : gate[g].stage \in {"first", "second"} =>
          gate[g].path \in DOMAIN binaries /\ binaries[gate[g].path] = OwnBinary(g)

(* What the text checks established stays so until the verdict, and the    *)
(* runs so far were of the own binary.                                     *)
TextChecked(g) ==
    gate[g].stage \in AtWork \/ gate[g].passed =>
        gate[g].source.harness /\ AssertsText(gate[g].source, gate[g].required)

FixGuarded(g) ==
    gate[g].fixing =>
        /\ gate[g].stage # "done" \/ gate[g].passed => gate[g].required = FirstCounted(gate[g].original)
        /\ gate[g].stage \in AtWork \cup {"text"} \/ gate[g].passed =>
              ~AddsAssertions(gate[g].source, gate[g].original)

RanOwn(g) ==
    /\ gate[g].stage \in {"idle", "ask", "text", "compile", "rustc", "first"} => gate[g].ran = {}
    /\ gate[g].stage = "second" \/ gate[g].passed => gate[g].ran = {OwnBinary(g)}
    /\ gate[g].passed => gate[g].stage = "done"
    /\ gate[g].stage = "idle" => ~gate[g].fixing

GateInv ==
    /\ GateTypeOK /\ PathsDiffer
    /\ \A g \in Gates : TextChecked(g) /\ FixGuarded(g) /\ RanOwn(g)
-----------------------------------------------------------------------------
LEMMA FreshTyped == GateAssumption => Fresh \in Validation
<1>1. NoSource \in SourceType BY DEF NoSource, SourceType
<1>q. QED BY <1>1 DEF Fresh, Validation

LEMMA AssembledTyped ==
    ASSUME GateAssumption, NEW hint \in AssumeHints
    PROVE  Assembled(hint) \in SourceType
<1> DEFINE extra == IF hint = "assume_and_assert" THEN <<InCodeLine("other")>> ELSE <<>>
<1>1. \A text \in Asserts : InCodeLine(text) \in AssertLines BY DEF InCodeLine, AssertLines
<1>2. "stub" \in Asserts /\ "required" \in Asserts /\ "other" \in Asserts BY DEF GateAssumption
<1>3. extra \in Seq(AssertLines) /\ <<InCodeLine("stub")>> \in Seq(AssertLines)
      /\ <<InCodeLine("required")>> \in Seq(AssertLines)
  BY <1>1, <1>2
<1> HIDE DEF extra
<1>4. <<InCodeLine("stub")>> \o extra \o <<InCodeLine("required")>> \in Seq(AssertLines) BY <1>3
<1>q. QED BY <1>4 DEF Assembled, SourceType, extra

(* The lines that count are finitely many, and the first of them asserts.  *)
LEMMA CountedFinite ==
    ASSUME NEW source \in SourceType
    PROVE  /\ CountedIn(source) \subseteq Nat
           /\ Cardinality(CountedIn(source)) \in Nat
<1>1. source.lines \in Seq(AssertLines) BY DEF SourceType
<1>2. DOMAIN source.lines = 1..Len(source.lines) /\ Len(source.lines) \in Nat BY <1>1
<1>3. IsFiniteSet(1..Len(source.lines))
  <2>1. PICK l \in Nat : l = Len(source.lines) BY <1>2
  <2>q. QED BY <2>1, FS_Interval
<1>4. CountedIn(source) \subseteq 1..Len(source.lines) BY <1>2 DEF CountedIn
<1>5. IsFiniteSet(CountedIn(source)) BY <1>3, <1>4, FS_Subset
<1>q. QED BY <1>2, <1>4, <1>5, FS_CardinalityType

LEMMA FirstTyped ==
    ASSUME NEW source \in SourceType, CountedIn(source) # {}
    PROVE  FirstCounted(source) \in Asserts
<1>1. source.lines \in Seq(AssertLines) BY DEF SourceType
<1>2. PICK m \in CountedIn(source) : \A n \in CountedIn(source) : m <= n
  BY CountedFinite, LeastNat
<1> DEFINE first == CHOOSE i \in CountedIn(source) : \A j \in CountedIn(source) : i <= j
<1>3. first \in CountedIn(source) BY <1>2
<1> HIDE DEF first
<1>4. first \in DOMAIN source.lines BY <1>3 DEF CountedIn
<1>5. source.lines[first] \in AssertLines BY <1>1, <1>4
<1>q. QED BY <1>5 DEF FirstCounted, first, AssertLines
-----------------------------------------------------------------------------
(* A step of one validation that leaves the binaries alone.                *)
LEMMA GateStep ==
    ASSUME GateInv, NEW g \in Gates, NEW new \in Validation, gate' = [gate EXCEPT ![g] = new],
           UNCHANGED <<binaries, ticker>>, counter' \in 0..MaxPaths, counter <= counter',
           (new.passed <=> new.level = 3),
           new.stage \in {"rustc", "first", "second"} =>
               /\ new.path \in Paths /\ new.path[2] < counter'
               /\ \A h \in Gates \ {g} : HasBinary(h) => new.path # gate[h].path,
           new.stage \in {"first", "second"} =>
               new.path \in DOMAIN binaries /\ binaries[new.path] = [gate |-> g, source |-> new.source],
           TextChecked(g)', FixGuarded(g)', RanOwn(g)'
    PROVE  GateInv'
<1>0. gate \in [Gates -> Validation] /\ counter \in Nat BY DEF GateInv, GateTypeOK
<1>1. /\ gate'[g] = new /\ gate' \in [Gates -> Validation]
      /\ \A h \in Gates \ {g} : gate'[h] = gate[h]
  BY <1>0
<1>2. GateTypeOK' BY <1>1 DEF GateInv, GateTypeOK
<1>3. \A h \in Gates : TextChecked(h)' /\ FixGuarded(h)' /\ RanOwn(h)'
  <2>1. ASSUME NEW h \in Gates \ {g} PROVE TextChecked(h)' /\ FixGuarded(h)' /\ RanOwn(h)'
    BY <1>1 DEF GateInv, TextChecked, FixGuarded, RanOwn, OwnBinary
  <2>q. QED BY <2>1
<1>4. PathsDiffer'
  <2>1. ASSUME NEW h \in Gates, HasBinary(h)'
        PROVE  gate'[h].path \in Paths /\ gate'[h].path[2] < counter'
    <3>1. CASE h = g BY <1>1, <2>1, <3>1 DEF HasBinary
    <3>2. CASE h # g
      <4>1. HasBinary(h) /\ gate'[h] = gate[h] BY <1>1, <2>1, <3>2 DEF HasBinary
      <4>2. gate[h].path \in Paths /\ gate[h].path[2] < counter BY <4>1 DEF GateInv, PathsDiffer
      <4>3. gate[h].path[2] \in Nat /\ counter' \in Nat BY <4>2 DEF Paths
      <4>q. QED BY <1>0, <4>1, <4>2, <4>3
    <3>q. QED BY <3>1, <3>2
  <2>2. ASSUME NEW h \in Gates, NEW k \in Gates, HasBinary(h)', HasBinary(k)', h # k
        PROVE  gate'[h].path # gate'[k].path
    <3>1. CASE h # g /\ k # g BY <1>1, <2>2, <3>1 DEF HasBinary, GateInv, PathsDiffer
    <3>2. CASE h = g BY <1>1, <2>2, <3>2 DEF HasBinary
    <3>3. CASE k = g BY <1>1, <2>2, <3>3 DEF HasBinary
    <3>q. QED BY <3>1, <3>2, <3>3
  <2>3. ASSUME NEW h \in Gates, gate'[h].stage \in {"first", "second"}
        PROVE  gate'[h].path \in DOMAIN binaries' /\ binaries'[gate'[h].path] = OwnBinary(h)'
    <3>1. CASE h = g BY <1>1, <2>3, <3>1 DEF OwnBinary
    <3>2. CASE h # g BY <1>1, <2>3, <3>2 DEF OwnBinary, GateInv, PathsDiffer
    <3>q. QED BY <3>1, <3>2
  <2>q. QED BY <2>1, <2>2, <2>3 DEF PathsDiffer
<1>q. QED BY <1>2, <1>3, <1>4 DEF GateInv

LEMMA ScaffoldKeeps == ASSUME GateInv, NEW g \in Gates, Scaffold(g) PROVE GateInv'
<1> USE GateAssumption
<1>1. PICK hint \in AssumeHints :
          gate' = [gate EXCEPT ![g] = [Fresh EXCEPT !.stage = "text", !.required = "required", !.attempt = 1,
                                          !.original = Assembled(hint), !.source = Assembled(hint)]]
  BY DEF Scaffold
<1> DEFINE new == [Fresh EXCEPT !.stage = "text", !.required = "required", !.attempt = 1,
                                !.original = Assembled(hint), !.source = Assembled(hint)]
<1>2. new \in Validation
  <2>1. Assembled(hint) \in SourceType /\ NoSource \in SourceType
    BY AssembledTyped DEF NoSource, SourceType
  <2>2. "required" \in Asserts OBVIOUS
  <2>3. Fresh \in Validation BY FreshTyped
  <2>q. QED BY <2>1, <2>2, <2>3 DEF Validation
<1>3. new.stage = "text" /\ ~new.fixing /\ new.ran = {} /\ new.level = 0 /\ ~new.passed
  BY DEF Fresh
<1>4. gate' = [gate EXCEPT ![g] = new] BY <1>1
<1> HIDE DEF new
<1>5. gate'[g] = new BY <1>4 DEF GateInv, GateTypeOK
<1>6. TextChecked(g)' /\ FixGuarded(g)' /\ RanOwn(g)'
  BY <1>3, <1>5 DEF TextChecked, FixGuarded, RanOwn, AtWork
<1>7. UNCHANGED <<binaries, ticker, counter>> /\ counter \in 0..MaxPaths /\ counter <= counter'
  BY DEF Scaffold, GateInv, GateTypeOK
<1>8. (new.passed <=> new.level = 3) /\ new.stage \notin {"rustc", "first", "second"} BY <1>3
<1>9. counter' \in 0..MaxPaths BY <1>7
<1>q. QED BY <1>2, <1>4, <1>6, <1>7, <1>8, <1>9, GateStep

LEMMA StartFixKeeps == ASSUME GateInv, NEW g \in Gates, StartFix(g) PROVE GateInv'
<1> USE GateAssumption
<1>0. UNCHANGED <<binaries, ticker, counter>> /\ counter' \in 0..MaxPaths /\ counter <= counter'
  BY DEF StartFix, GateInv, GateTypeOK
<1>1. PICK source \in Sources, retries \in GateRetries :
          gate' = [gate EXCEPT ![g] =
              IF CountedIn(source) = {} THEN [Fresh EXCEPT !.stage = "done", !.fixing = TRUE, !.original = source, !.attempt = 1]
              ELSE [Fresh EXCEPT !.stage = "ask", !.fixing = TRUE, !.original = source, !.source = source,
                                 !.required = FirstCounted(source), !.retries = retries, !.attempt = 1]]
  BY DEF StartFix
<1>2. source \in SourceType /\ retries \in Nat
  BY GateAssumption DEF SourceType
<1>3. CASE CountedIn(source) = {}
  <2> DEFINE new == [Fresh EXCEPT !.stage = "done", !.fixing = TRUE, !.original = source, !.attempt = 1]
  <2>1. gate' = [gate EXCEPT ![g] = new] BY <1>1, <1>3
  <2>2. new \in Validation BY <1>2, FreshTyped DEF Validation
  <2>3. new.stage = "done" /\ new.ran = {} /\ new.level = 0 /\ ~new.passed BY DEF Fresh
  <2> HIDE DEF new
  <2>4. gate'[g] = new BY <2>1 DEF GateInv, GateTypeOK
  <2>5. TextChecked(g)' /\ FixGuarded(g)' /\ RanOwn(g)'
    BY <2>3, <2>4 DEF TextChecked, FixGuarded, RanOwn, AtWork
  <2>6. (new.passed <=> new.level = 3) /\ new.stage \notin {"rustc", "first", "second"} BY <2>3
  <2>q. QED BY <1>0, <2>1, <2>2, <2>5, <2>6, GateStep
<1>4. CASE CountedIn(source) # {}
  <2> DEFINE new == [Fresh EXCEPT !.stage = "ask", !.fixing = TRUE, !.original = source, !.source = source,
                                  !.required = FirstCounted(source), !.retries = retries, !.attempt = 1]
  <2>1. gate' = [gate EXCEPT ![g] = new] BY <1>1, <1>4
  <2>r. FirstCounted(source) \in Asserts BY <1>2, <1>4, FirstTyped
  <2>2. new \in Validation BY <1>2, <2>r, FreshTyped DEF Validation
  <2>3. /\ new.stage = "ask" /\ new.ran = {} /\ new.level = 0 /\ ~new.passed
        /\ new.required = FirstCounted(new.original)
    BY DEF Fresh
  <2> HIDE DEF new
  <2>4. gate'[g] = new BY <2>1 DEF GateInv, GateTypeOK
  <2>5. TextChecked(g)' /\ FixGuarded(g)' /\ RanOwn(g)'
    BY <2>3, <2>4 DEF TextChecked, FixGuarded, RanOwn, AtWork
  <2>6. (new.passed <=> new.level = 3) /\ new.stage \notin {"rustc", "first", "second"} BY <2>3
  <2>q. QED BY <1>0, <2>1, <2>2, <2>5, <2>6, GateStep
<1>q. QED BY <1>3, <1>4

LEMMA AskKeeps == ASSUME GateInv, NEW g \in Gates, Ask(g) PROVE GateInv'
<1> USE GateAssumption
<1>0. UNCHANGED <<binaries, ticker, counter>> /\ counter' \in 0..MaxPaths /\ counter <= counter'
  BY DEF Ask, GateInv, GateTypeOK
<1>1. /\ gate \in [Gates -> Validation] /\ gate[g] \in Validation /\ gate[g].stage = "ask"
      /\ TextChecked(g) /\ FixGuarded(g) /\ RanOwn(g) /\ (gate[g].passed <=> gate[g].level = 3)
  BY DEF Ask, GateInv, GateTypeOK
<1>2. ~gate[g].passed /\ gate[g].ran = {} BY <1>1 DEF RanOwn
<1>3. CASE gate' = [gate EXCEPT ![g].stage = "done"]
  <2> DEFINE new == [gate[g] EXCEPT !.stage = "done"]
  <2>1. gate' = [gate EXCEPT ![g] = new] BY <1>3
  <2>2. new \in Validation BY <1>1 DEF Validation
  <2>3. /\ new.stage = "done" /\ new.passed = gate[g].passed /\ new.level = gate[g].level
        /\ new.ran = gate[g].ran
    BY <1>1 DEF Validation
  <2> HIDE DEF new
  <2>4. gate'[g] = new BY <1>1, <2>1
  <2>5. TextChecked(g)' /\ FixGuarded(g)' /\ RanOwn(g)'
    BY <1>2, <2>3, <2>4 DEF TextChecked, FixGuarded, RanOwn, AtWork
  <2>6. (new.passed <=> new.level = 3) /\ new.stage \notin {"rustc", "first", "second"}
    BY <1>1, <2>3
  <2>q. QED BY <1>0, <2>1, <2>2, <2>5, <2>6, GateStep
<1>4. CASE \E source \in Sources :
             gate' = [gate EXCEPT ![g].source = source,
                                  ![g].stage = IF AddsAssertions(source, gate[g].original) THEN "done" ELSE "text"]
  <2>0. PICK source \in Sources :
             gate' = [gate EXCEPT ![g].source = source,
                                  ![g].stage = IF AddsAssertions(source, gate[g].original) THEN "done" ELSE "text"]
    BY <1>4
  <2> DEFINE stage == IF AddsAssertions(source, gate[g].original) THEN "done" ELSE "text"
             new == [gate[g] EXCEPT !.source = source, !.stage = stage]
  <2>1. gate' = [gate EXCEPT ![g] = new] BY <1>1, <2>0
  <2>s. source \in SourceType BY GateAssumption DEF SourceType
  <2>t. stage \in {"done", "text"} /\ (stage = "text" => ~AddsAssertions(source, gate[g].original))
    OBVIOUS
  <2> HIDE DEF stage
  <2>2. new \in Validation BY <1>1, <2>s, <2>t DEF Validation
  <2>3. /\ new.stage = stage /\ new.passed = gate[g].passed /\ new.level = gate[g].level
        /\ new.ran = gate[g].ran /\ new.source = source /\ new.original = gate[g].original
        /\ new.required = gate[g].required /\ new.fixing = gate[g].fixing
    BY <1>1 DEF Validation
  <2> HIDE DEF new
  <2>4. gate'[g] = new BY <1>1, <2>1
  <2>5. TextChecked(g)' /\ FixGuarded(g)' /\ RanOwn(g)'
    BY <1>1, <1>2, <2>t, <2>3, <2>4 DEF TextChecked, FixGuarded, RanOwn, AtWork
  <2>6. (new.passed <=> new.level = 3) /\ new.stage \notin {"rustc", "first", "second"}
    BY <1>1, <2>t, <2>3
  <2>q. QED BY <1>0, <2>1, <2>2, <2>5, <2>6, GateStep
<1>q. QED BY <1>3, <1>4 DEF Ask

(* A verdict against the harness ends it, or the loop asks again.          *)
LEMMA FailedKeeps ==
    ASSUME GateInv, NEW g \in Gates, NEW reached \in 0..2, Failed(g, reached),
           gate[g].stage \in {"text", "rustc", "first", "second"},
           UNCHANGED <<binaries, ticker, counter>>
    PROVE  GateInv'
<1>0. counter' \in 0..MaxPaths /\ counter <= counter' BY DEF GateInv, GateTypeOK
<1>1. /\ gate \in [Gates -> Validation] /\ gate[g] \in Validation
      /\ FixGuarded(g) /\ RanOwn(g) /\ (gate[g].passed <=> gate[g].level = 3)
  BY DEF GateInv, GateTypeOK
<1>2. ~gate[g].passed BY <1>1 DEF RanOwn
<1>v. gate[g] \in Validation /\ reached \in 0..3 /\ 0 \in 0..3 BY <1>1
<1>w. gate[g].attempt \in Nat /\ gate[g].attempt + 1 \in Nat /\ gate[g].retries \in Nat
  BY <1>v DEF Validation
<1>3. ASSUME NEW new \in Validation, gate' = [gate EXCEPT ![g] = new],
             new.stage = "done", new.level \in 0..2, new.passed = gate[g].passed
      PROVE  GateInv'
  <2>1. gate'[g] = new BY <1>1, <1>3
  <2>2. ~new.passed BY <1>2, <1>3
  <2>3. TextChecked(g)' /\ FixGuarded(g)' /\ RanOwn(g)'
    BY <1>3, <2>1, <2>2 DEF TextChecked, FixGuarded, RanOwn, AtWork
  <2>4. (new.passed <=> new.level = 3) /\ new.stage \notin {"rustc", "first", "second"}
    BY <1>3, <2>2
  <2>q. QED BY <1>0, <1>3, <2>3, <2>4, GateStep
<1>4. CASE ~gate[g].fixing
  <2> DEFINE new == [gate[g] EXCEPT !.stage = "done", !.level = reached]
  <2>1. gate' = [gate EXCEPT ![g] = new] BY <1>1, <1>4 DEF Failed
  <2>2. new \in Validation BY <1>v, <1>w DEF Validation
  <2>3. new.stage = "done" /\ new.level = reached /\ new.passed = gate[g].passed
    BY <1>1 DEF Validation
  <2> HIDE DEF new
  <2>q. QED BY <1>3, <2>1, <2>2, <2>3
<1>5. CASE gate[g].fixing /\ gate[g].attempt < gate[g].retries
  <2> DEFINE new == [gate[g] EXCEPT !.stage = "ask", !.attempt = gate[g].attempt + 1, !.ran = {}]
  <2>1. gate' = [gate EXCEPT ![g] = new] BY <1>1, <1>5 DEF Failed
  <2>2. new \in Validation BY <1>v, <1>w DEF Validation
  <2>3. /\ new.stage = "ask" /\ new.level = gate[g].level /\ new.passed = gate[g].passed
        /\ new.ran = {} /\ new.required = gate[g].required /\ new.original = gate[g].original
        /\ new.fixing = gate[g].fixing
    BY <1>1 DEF Validation
  <2> HIDE DEF new
  <2>4. gate'[g] = new BY <1>1, <2>1
  <2>5. TextChecked(g)' /\ FixGuarded(g)' /\ RanOwn(g)'
    BY <1>1, <1>2, <1>5, <2>3, <2>4 DEF TextChecked, FixGuarded, RanOwn, AtWork
  <2>6. (new.passed <=> new.level = 3) /\ new.stage \notin {"rustc", "first", "second"}
    BY <1>1, <2>3
  <2>q. QED BY <1>0, <2>1, <2>2, <2>5, <2>6, GateStep
<1>6. CASE gate[g].fixing /\ ~(gate[g].attempt < gate[g].retries)
  <2> DEFINE new == [gate[g] EXCEPT !.stage = "done", !.attempt = gate[g].retries, !.level = 0]
  <2>1. gate' = [gate EXCEPT ![g] = new] BY <1>1, <1>6 DEF Failed
  <2>2. new \in Validation BY <1>v, <1>w DEF Validation
  <2>3. new.stage = "done" /\ new.level = 0 /\ new.level \in 0..2 /\ new.passed = gate[g].passed
    BY <1>1 DEF Validation
  <2> HIDE DEF new
  <2>q. QED BY <1>3, <2>1, <2>2, <2>3
<1>q. QED BY <1>4, <1>5, <1>6

LEMMA CheckTextKeeps == ASSUME GateInv, NEW g \in Gates, CheckText(g) PROVE GateInv'
<1>0. /\ UNCHANGED <<binaries, ticker, counter>> /\ counter' \in 0..MaxPaths /\ counter <= counter'
      /\ gate[g].stage = "text"
  BY DEF CheckText, GateInv, GateTypeOK
<1>1. /\ gate \in [Gates -> Validation] /\ gate[g] \in Validation
      /\ FixGuarded(g) /\ RanOwn(g) /\ (gate[g].passed <=> gate[g].level = 3)
  BY DEF GateInv, GateTypeOK
<1>2. CASE Failed(g, 0) BY <1>0, <1>2, FailedKeeps
<1>3. CASE /\ gate[g].source.harness /\ AssertsText(gate[g].source, gate[g].required)
           /\ gate' = [gate EXCEPT ![g].stage = "compile"]
  <2> DEFINE new == [gate[g] EXCEPT !.stage = "compile"]
  <2>1. gate' = [gate EXCEPT ![g] = new] BY <1>3
  <2>2. new \in Validation BY <1>1 DEF Validation
  <2>3. /\ new.stage = "compile" /\ new.passed = gate[g].passed /\ new.level = gate[g].level
        /\ new.ran = gate[g].ran /\ new.source = gate[g].source /\ new.original = gate[g].original
        /\ new.required = gate[g].required /\ new.fixing = gate[g].fixing
    BY <1>1 DEF Validation
  <2> HIDE DEF new
  <2>4. gate'[g] = new BY <1>1, <2>1
  <2>5. ~gate[g].passed BY <1>0, <1>1 DEF RanOwn
  <2>6. TextChecked(g)' /\ FixGuarded(g)' /\ RanOwn(g)'
    BY <1>0, <1>1, <1>3, <2>3, <2>4, <2>5 DEF TextChecked, FixGuarded, RanOwn, AtWork
  <2>7. (new.passed <=> new.level = 3) /\ new.stage \notin {"rustc", "first", "second"}
    BY <1>1, <2>3
  <2>q. QED BY <1>0, <2>1, <2>2, <2>6, <2>7, GateStep
<1>q. QED BY <1>2, <1>3 DEF CheckText

(* The counter makes the path new, whatever the clock says.                *)
LEMMA AllocateKeeps == ASSUME GateInv, NEW g \in Gates, Allocate(g) PROVE GateInv'
<1>0. /\ UNCHANGED <<binaries, ticker>> /\ counter' = counter + 1 /\ counter < MaxPaths
      /\ counter \in Nat /\ ticker \in Nat /\ gate[g].stage = "compile"
      /\ counter' \in 0..MaxPaths /\ counter <= counter'
  BY GateAssumption DEF Allocate, GateInv, GateTypeOK
<1>1. /\ gate \in [Gates -> Validation] /\ gate[g] \in Validation
      /\ TextChecked(g) /\ FixGuarded(g) /\ RanOwn(g) /\ (gate[g].passed <=> gate[g].level = 3)
  BY DEF GateInv, GateTypeOK
<1> DEFINE path == <<ticker, counter>>
           new == [gate[g] EXCEPT !.stage = "rustc", !.path = path]
<1>2. gate' = [gate EXCEPT ![g] = new] BY <1>1 DEF Allocate, PathOf
<1>3. path \in Paths /\ path[2] = counter BY <1>0 DEF Paths
<1> HIDE DEF path
<1>4. new \in Validation BY <1>1, <1>3 DEF Validation
<1>5. /\ new.stage = "rustc" /\ new.passed = gate[g].passed /\ new.level = gate[g].level
      /\ new.ran = gate[g].ran /\ new.source = gate[g].source /\ new.original = gate[g].original
      /\ new.required = gate[g].required /\ new.fixing = gate[g].fixing /\ new.path = path
  BY <1>1 DEF Validation
<1> HIDE DEF new
<1>6. gate'[g] = new BY <1>1, <1>2
<1>7. TextChecked(g)' /\ FixGuarded(g)' /\ RanOwn(g)'
  <2>1. ~gate[g].passed BY <1>0, <1>1 DEF RanOwn
  <2>q. QED BY <1>0, <1>1, <1>5, <1>6, <2>1 DEF TextChecked, FixGuarded, RanOwn, AtWork
<1>8. ASSUME NEW h \in Gates \ {g}, HasBinary(h) PROVE path # gate[h].path
  <2>1. gate[h].path \in Paths /\ gate[h].path[2] < counter BY <1>8 DEF GateInv, PathsDiffer
  <2>q. QED BY <1>0, <1>3, <2>1
<1>9. /\ new.path \in Paths /\ new.path[2] < counter'
      /\ \A h \in Gates \ {g} : HasBinary(h) => new.path # gate[h].path
      /\ (new.passed <=> new.level = 3) /\ new.stage \notin {"first", "second"}
  BY <1>0, <1>1, <1>3, <1>5, <1>8
<1>q. QED BY <1>0, <1>2, <1>4, <1>7, <1>9, GateStep

(* rustc writes to a path that is no other validation's.                   *)
LEMMA CompileKeeps == ASSUME GateInv, NEW g \in Gates, Compile(g) PROVE GateInv'
<1>0. UNCHANGED <<ticker, counter>> /\ gate[g].stage = "rustc" BY DEF Compile
<1>1. /\ gate \in [Gates -> Validation] /\ gate[g] \in Validation /\ gate[g].path \in Paths
      /\ TextChecked(g) /\ FixGuarded(g) /\ RanOwn(g) /\ (gate[g].passed <=> gate[g].level = 3)
  BY <1>0 DEF GateInv, GateTypeOK, PathsDiffer, HasBinary
<1>2. CASE UNCHANGED binaries /\ Failed(g, 1)
  <2>1. 1 \in 0..2 OBVIOUS
  <2>q. QED BY <1>0, <1>2, <2>1, FailedKeeps
<1>3. CASE /\ binaries' = [p \in DOMAIN binaries \cup {gate[g].path} |->
                             IF p = gate[g].path THEN [gate |-> g, source |-> gate[g].source] ELSE binaries[p]]
           /\ gate' = [gate EXCEPT ![g].stage = "first"]
  <2> DEFINE new == [gate[g] EXCEPT !.stage = "first"]
             own == [gate |-> g, source |-> gate[g].source]
  <2>1. gate' = [gate EXCEPT ![g] = new] BY <1>3
  <2>2. new \in Validation BY <1>1 DEF Validation
  <2>3. /\ new.stage = "first" /\ new.passed = gate[g].passed /\ new.level = gate[g].level
        /\ new.ran = gate[g].ran /\ new.source = gate[g].source /\ new.original = gate[g].original
        /\ new.required = gate[g].required /\ new.fixing = gate[g].fixing /\ new.path = gate[g].path
    BY <1>1 DEF Validation
  <2>o. own \in Binary BY <1>1 DEF Binary, Validation
  <2> HIDE DEF new
  <2>4. gate'[g] = new /\ gate' \in [Gates -> Validation] /\ \A h \in Gates \ {g} : gate'[h] = gate[h]
    BY <1>1, <2>1, <2>2
  <2>5. ~gate[g].passed BY <1>0, <1>1 DEF RanOwn
  <2>6. TextChecked(g)' /\ FixGuarded(g)' /\ RanOwn(g)'
    BY <1>0, <1>1, <2>3, <2>4, <2>5 DEF TextChecked, FixGuarded, RanOwn, AtWork
  <2>7. /\ DOMAIN binaries' = DOMAIN binaries \cup {gate[g].path}
        /\ binaries'[gate[g].path] = own
        /\ \A p \in DOMAIN binaries \ {gate[g].path} : binaries'[p] = binaries[p]
    BY <1>3
  <2> HIDE DEF own
  <2>8. GateTypeOK'
    <3>1. DOMAIN binaries' \subseteq Paths /\ \A p \in DOMAIN binaries' : binaries'[p] \in Binary
      BY <1>1, <2>7, <2>o DEF GateInv, GateTypeOK
    <3>2. \A h \in Gates : (gate'[h].passed <=> gate'[h].level = 3)
      BY <1>1, <2>3, <2>4 DEF GateInv, GateTypeOK
    <3>q. QED BY <1>0, <2>4, <3>1, <3>2 DEF GateInv, GateTypeOK
  <2>9. \A h \in Gates : (HasBinary(h)' <=> HasBinary(h)) /\ gate'[h].path = gate[h].path
    BY <1>0, <2>3, <2>4 DEF HasBinary
  <2>10. PathsDiffer'
    <3>1. \A h \in Gates : HasBinary(h)' => gate'[h].path \in Paths /\ gate'[h].path[2] < counter'
      BY <1>0, <2>9 DEF GateInv, PathsDiffer
    <3>2. \A h, k \in Gates : HasBinary(h)' /\ HasBinary(k)' /\ h # k => gate'[h].path # gate'[k].path
      BY <2>9 DEF GateInv, PathsDiffer
    <3>3. ASSUME NEW h \in Gates, gate'[h].stage \in {"first", "second"}
          PROVE  gate'[h].path \in DOMAIN binaries' /\ binaries'[gate'[h].path] = OwnBinary(h)'
      <4>1. CASE h = g BY <2>3, <2>4, <2>7, <4>1 DEF OwnBinary, own
      <4>2. CASE h # g
        <5>1. gate'[h] = gate[h] BY <2>4, <4>2
        <5>2. gate[h].path \in DOMAIN binaries /\ binaries[gate[h].path] = OwnBinary(h)
          BY <3>3, <5>1 DEF GateInv, PathsDiffer
        <5>3. gate[h].path # gate[g].path
          BY <1>0, <3>3, <4>2, <5>1 DEF GateInv, PathsDiffer, HasBinary
        <5>q. QED BY <2>7, <5>1, <5>2, <5>3 DEF OwnBinary
      <4>q. QED BY <4>1, <4>2
    <3>q. QED BY <3>1, <3>2, <3>3 DEF PathsDiffer
  <2>11. \A h \in Gates \ {g} : TextChecked(h)' /\ FixGuarded(h)' /\ RanOwn(h)'
    BY <2>4 DEF GateInv, TextChecked, FixGuarded, RanOwn, OwnBinary
  <2>q. QED BY <2>6, <2>8, <2>10, <2>11 DEF GateInv
<1>q. QED BY <1>2, <1>3 DEF Compile

(* What is run is what this validation had compiled.                       *)
LEMMA RunKeeps == ASSUME GateInv, NEW g \in Gates, Run(g) PROVE GateInv'
<1>0. /\ UNCHANGED <<binaries, ticker, counter>> /\ counter' \in 0..MaxPaths /\ counter <= counter'
      /\ gate[g].stage \in {"first", "second"}
  BY DEF Run, GateInv, GateTypeOK
<1>1. /\ gate \in [Gates -> Validation] /\ gate[g] \in Validation
      /\ TextChecked(g) /\ FixGuarded(g) /\ RanOwn(g) /\ (gate[g].passed <=> gate[g].level = 3)
      /\ gate[g].path \in Paths /\ gate[g].path[2] < counter
      /\ gate[g].path \in DOMAIN binaries /\ binaries[gate[g].path] = OwnBinary(g)
      /\ \A h \in Gates \ {g} : HasBinary(h) => gate[g].path # gate[h].path
  BY <1>0 DEF GateInv, GateTypeOK, PathsDiffer, HasBinary
<1>2. ~gate[g].passed BY <1>0, <1>1 DEF RanOwn
<1>3. OwnBinary(g) \in Binary /\ gate[g].ran \subseteq Binary BY <1>1 DEF OwnBinary, Binary, Validation
<1> DEFINE ran == gate[g].ran \cup {binaries[gate[g].path]}
<1>4. ran = {OwnBinary(g)} BY <1>0, <1>1 DEF RanOwn
<1>5. CASE gate[g].stage = "first" /\ gate' = [gate EXCEPT ![g].stage = "second", ![g].ran = ran]
  <2> HIDE DEF ran
  <2> DEFINE new == [gate[g] EXCEPT !.stage = "second", !.ran = ran]
  <2>1. gate' = [gate EXCEPT ![g] = new] BY <1>1, <1>5
  <2>2. new \in Validation BY <1>1, <1>3, <1>4 DEF Validation
  <2>3. /\ new.stage = "second" /\ new.passed = gate[g].passed /\ new.level = gate[g].level
        /\ new.ran = ran /\ new.source = gate[g].source /\ new.original = gate[g].original
        /\ new.required = gate[g].required /\ new.fixing = gate[g].fixing /\ new.path = gate[g].path
    BY <1>1 DEF Validation
  <2> HIDE DEF new
  <2>4. gate'[g] = new /\ OwnBinary(g)' = OwnBinary(g) BY <1>1, <2>1, <2>3 DEF OwnBinary
  <2>5. TextChecked(g)' /\ FixGuarded(g)' /\ RanOwn(g)'
    BY <1>0, <1>1, <1>2, <1>4, <2>3, <2>4 DEF TextChecked, FixGuarded, RanOwn, AtWork
  <2>6. /\ (new.passed <=> new.level = 3) /\ new.path \in Paths /\ new.path[2] < counter'
        /\ \A h \in Gates \ {g} : HasBinary(h) => new.path # gate[h].path
        /\ new.path \in DOMAIN binaries /\ binaries[new.path] = [gate |-> g, source |-> new.source]
    BY <1>0, <1>1, <2>3 DEF OwnBinary
  <2>q. QED BY <1>0, <2>1, <2>2, <2>5, <2>6, GateStep
<1>6. CASE Failed(g, 1)
  <2>1. 1 \in 0..2 OBVIOUS
  <2>q. QED BY <1>0, <1>6, <2>1, FailedKeeps
<1>7. CASE Failed(g, 2)
  <2>1. 2 \in 0..2 OBVIOUS
  <2>q. QED BY <1>0, <1>7, <2>1, FailedKeeps
<1>8. CASE /\ gate[g].stage = "second"
           /\ gate' = [gate EXCEPT ![g].stage = "done", ![g].ran = ran, ![g].level = 3, ![g].passed = TRUE]
  <2> HIDE DEF ran
  <2> DEFINE new == [gate[g] EXCEPT !.stage = "done", !.ran = ran, !.level = 3, !.passed = TRUE]
  <2>1. gate' = [gate EXCEPT ![g] = new] BY <1>1, <1>8
  <2>2. new \in Validation
    <3>1. 3 \in 0..3 OBVIOUS
    <3>q. QED BY <1>1, <1>3, <1>4, <3>1 DEF Validation
  <2>3. /\ new.stage = "done" /\ new.passed = TRUE /\ new.level = 3
        /\ new.ran = ran /\ new.source = gate[g].source /\ new.original = gate[g].original
        /\ new.required = gate[g].required /\ new.fixing = gate[g].fixing
    BY <1>1 DEF Validation
  <2> HIDE DEF new
  <2>4. gate'[g] = new /\ OwnBinary(g)' = OwnBinary(g) BY <1>1, <2>1, <2>3 DEF OwnBinary
  <2>5. TextChecked(g)' /\ FixGuarded(g)' /\ RanOwn(g)'
    BY <1>0, <1>1, <1>4, <1>8, <2>3, <2>4 DEF TextChecked, FixGuarded, RanOwn, AtWork
  <2>6. (new.passed <=> new.level = 3) /\ new.stage \notin {"rustc", "first", "second"}
    BY <2>3
  <2>q. QED BY <1>0, <2>1, <2>2, <2>5, <2>6, GateStep
<1>q. QED BY <1>5, <1>6, <1>7, <1>8 DEF Run

LEMMA InitGateInv == GateInit => GateInv
<1> SUFFICES ASSUME GateInit PROVE GateInv OBVIOUS
<1> USE GateAssumption
<1>1. gate = [g \in Gates |-> Fresh] /\ binaries = << >> /\ ticker = 1 /\ counter = 0 BY DEF GateInit
<1>2. \A g \in Gates : gate[g] = Fresh BY <1>1
<1>3. Fresh.stage = "idle" /\ Fresh.level = 0 /\ ~Fresh.passed /\ ~Fresh.fixing /\ Fresh.ran = {}
  BY DEF Fresh
<1>4. GateTypeOK
  <2>1. gate \in [Gates -> Validation] BY <1>1, FreshTyped
  <2>2. DOMAIN binaries = {} BY <1>1
  <2>3. ticker \in 1..GateTimes /\ counter \in 0..MaxPaths BY <1>1
  <2>q. QED BY <1>2, <1>3, <2>1, <2>2, <2>3 DEF GateTypeOK
<1>5. PathsDiffer BY <1>2, <1>3 DEF PathsDiffer, HasBinary
<1>6. \A g \in Gates : TextChecked(g) /\ FixGuarded(g) /\ RanOwn(g)
  BY <1>2, <1>3 DEF TextChecked, FixGuarded, RanOwn, AtWork
<1>q. QED BY <1>4, <1>5, <1>6 DEF GateInv

LEMMA StepGateInv == GateInv /\ [GateNext]_gateVars => GateInv'
<1> SUFFICES ASSUME GateInv, [GateNext]_gateVars PROVE GateInv' OBVIOUS
<1>1. CASE GateTick \/ UNCHANGED gateVars
  <2>1. UNCHANGED <<gate, binaries, counter>> /\ ticker' \in 1..GateTimes
    BY <1>1, GateAssumption DEF GateTick, gateVars, GateInv, GateTypeOK
  <2>2. GateTypeOK' BY <2>1 DEF GateInv, GateTypeOK
  <2>3. PathsDiffer' BY <2>1 DEF GateInv, PathsDiffer, HasBinary, OwnBinary
  <2>4. \A g \in Gates : TextChecked(g)' /\ FixGuarded(g)' /\ RanOwn(g)'
    BY <2>1 DEF GateInv, TextChecked, FixGuarded, RanOwn, OwnBinary
  <2>q. QED BY <2>2, <2>3, <2>4 DEF GateInv
<1>2. ASSUME NEW g \in Gates, \/ Scaffold(g) \/ StartFix(g) \/ Ask(g)
                              \/ CheckText(g) \/ Allocate(g) \/ Compile(g) \/ Run(g)
      PROVE  GateInv'
  BY <1>2, ScaffoldKeeps, StartFixKeeps, AskKeeps, CheckTextKeeps, AllocateKeeps, CompileKeeps, RunKeeps
<1>q. QED BY <1>1, <1>2 DEF GateNext

(* The invariant holds, whatever the validations, sources and retries.     *)
THEOREM GateInvariant == GateSpec => []GateInv
BY InitGateInv, StepGateInv, PTL DEF GateSpec

(* A verdict "passed" is about the harness it is given for: both runs were *)
(* of the binary compiled from it, it has the required assertion, and a    *)
(* harness that the LLM rewrote asserts no more often than the original.   *)
THEOREM VerdictOfOwnHarness == GateSpec => []RunsOwnHarness
<1>1. GateInv => RunsOwnHarness
  <2> SUFFICES ASSUME GateInv, NEW g \in Gates, gate[g].passed
               PROVE  /\ gate[g].ran = {[gate |-> g, source |-> gate[g].source]}
                      /\ AssertsText(gate[g].source, gate[g].required) /\ gate[g].source.harness
                      /\ gate[g].fixing =>
                            /\ gate[g].required = FirstCounted(gate[g].original)
                            /\ Cardinality(CountedIn(gate[g].source)) <= Cardinality(CountedIn(gate[g].original))
    BY DEF RunsOwnHarness, RequiredTextStays
  <2>1. TextChecked(g) /\ FixGuarded(g) /\ RanOwn(g) BY DEF GateInv
  <2>2. gate[g] \in Validation BY DEF GateInv, GateTypeOK
  <2>3. /\ Cardinality(CountedIn(gate[g].source)) \in Nat
        /\ Cardinality(CountedIn(gate[g].original)) \in Nat
    <3>1. gate[g].source \in SourceType /\ gate[g].original \in SourceType BY <2>2 DEF Validation
    <3>q. QED BY <3>1, CountedFinite
  <2>4. gate[g].fixing => ~AddsAssertions(gate[g].source, gate[g].original) BY <2>1 DEF FixGuarded
  <2>q. QED BY <2>1, <2>3, <2>4 DEF TextChecked, FixGuarded, RanOwn, OwnBinary, AddsAssertions
<1>q. QED BY <1>1, GateInvariant, PTL

(* A validation is of a source, at a stage and of a level that exist, and  *)
(* passes exactly at level 3.                                              *)
THEOREM GateTypeCorrect == GateSpec => []GateTypeOK
<1>1. GateInv => GateTypeOK BY DEF GateInv
<1>q. QED BY <1>1, GateInvariant, PTL
-----------------------------------------------------------------------------
(* Reports.  The files before the one being written are this report's and  *)
(* whole, and the others are older.                                        *)
WrittenInOrder ==
    /\ reportNo \in 0..MaxReports /\ reportAt \in 0..Len(OutputFiles)
    /\ disk \in [FileNames -> 0..MaxReports] /\ torn \subseteq FileNames
    /\ \A f \in FileNames : disk[f] <= reportNo
    /\ \A i \in 1..(reportAt - 1) : disk[OutputFiles[i]] = reportNo /\ OutputFiles[i] \notin torn
    /\ reportAt > 0 => \A i \in reportAt..9 : disk[OutputFiles[i]] < reportNo

OutputInv == WrittenInOrder /\ ManifestNotAhead

LEMMA NamedFiles ==
    /\ Len(OutputFiles) = 9 /\ DOMAIN OutputFiles = 1..9
    /\ \A i \in 1..9 : OutputFiles[i] \in FileNames
    /\ \A f \in FileNames : \E i \in 1..9 : f = OutputFiles[i]
    /\ OutputFiles[6] = "audit-manifest.json" /\ "audit-manifest.json" \in FileNames
    /\ BeforeManifest = {OutputFiles[i] : i \in 1..5} /\ AfterManifest = {OutputFiles[i] : i \in 7..9}
    /\ \A i, j \in 1..9 : i # j => OutputFiles[i] # OutputFiles[j]
<1>1. Len(OutputFiles) = 9 /\ DOMAIN OutputFiles = 1..9 BY DEF OutputFiles
<1>2. \A i \in 1..9 : OutputFiles[i] \in FileNames BY <1>1 DEF FileNames
<1>3. \A f \in FileNames : \E i \in 1..9 : f = OutputFiles[i] BY <1>1 DEF FileNames
<1>4. \A i \in 1..9 : i \in {1, 2, 3, 4, 5, 6, 7, 8, 9} OBVIOUS
<1>5. OutputFiles[6] = "audit-manifest.json" BY DEF OutputFiles
<1>6. \A i, j \in 1..9 : i # j => OutputFiles[i] # OutputFiles[j] BY <1>4 DEF OutputFiles
<1>7. BeforeManifest = {OutputFiles[i] : i \in 1..5}
  <2>1. \A f \in BeforeManifest : \E i \in 1..5 : f = OutputFiles[i]
    <3>1. /\ OutputFiles[1] = "report-executive.md" /\ OutputFiles[2] = "report-technical.md"
          /\ OutputFiles[3] = "findings.json" /\ OutputFiles[4] = "findings.sarif"
          /\ OutputFiles[5] = "evidence-pack.zip"
      BY DEF OutputFiles
    <3>q. QED BY <3>1 DEF BeforeManifest
  <2>2. \A i \in 1..5 : i \in {1, 2, 3, 4, 5} OBVIOUS
  <2>3. \A i \in 1..5 : OutputFiles[i] \in BeforeManifest BY <2>2 DEF OutputFiles, BeforeManifest
  <2>q. QED BY <2>1, <2>3
<1>8. AfterManifest = {OutputFiles[i] : i \in 7..9}
  <2>1. \A f \in AfterManifest : \E i \in 7..9 : f = OutputFiles[i]
    <3>1. OutputFiles[7] = "regression-tests" /\ OutputFiles[8] = "report.typ" /\ OutputFiles[9] = "report.pdf"
      BY DEF OutputFiles
    <3>q. QED BY <3>1 DEF AfterManifest
  <2>2. \A i \in 7..9 : i \in {7, 8, 9} OBVIOUS
  <2>3. \A i \in 7..9 : OutputFiles[i] \in AfterManifest BY <2>2 DEF OutputFiles, AfterManifest
  <2>q. QED BY <2>1, <2>3
<1>q. QED BY <1>1, <1>2, <1>3, <1>5, <1>6, <1>7, <1>8

(* The same by the place of a file in the order of writing.                *)
LEMMA ManifestByPlace ==
    ManifestNotAhead <=>
        /\ \A i \in 1..5 : disk[OutputFiles[i]] > disk[OutputFiles[6]]
                        \/ (disk[OutputFiles[i]] = disk[OutputFiles[6]] /\ OutputFiles[i] \notin torn)
        /\ \A i \in 7..9 : disk[OutputFiles[i]] <= disk[OutputFiles[6]]
BY NamedFiles DEF ManifestNotAhead

LEMMA InitOutputInv == OutputAssumption /\ OutputInit => OutputInv
<1> SUFFICES ASSUME OutputAssumption, OutputInit PROVE OutputInv OBVIOUS
<1>1. \A f \in FileNames : disk[f] = 0 BY DEF OutputInit
<1>2. WrittenInOrder BY <1>1, NamedFiles DEF OutputAssumption, OutputInit, WrittenInOrder
<1>3. ManifestNotAhead
  <2>1. \A i \in 1..9 : disk[OutputFiles[i]] = 0 BY <1>1, NamedFiles
  <2>2. torn = {} BY DEF OutputInit
  <2>q. QED BY <2>1, <2>2, ManifestByPlace
<1>q. QED BY <1>2, <1>3 DEF OutputInv

(* A file is begun, and written whole or torn.                             *)
LEMMA StepBeginsFile ==
    ASSUME OutputAssumption, OutputInv, reportAt \in 1..9, UNCHANGED reportNo,
           disk' = [disk EXCEPT ![OutputFiles[reportAt]] = reportNo],
           \/ /\ torn' = torn \ {OutputFiles[reportAt]}
              /\ reportAt' = IF reportAt = 9 THEN 0 ELSE reportAt + 1
           \/ torn' = torn \cup {OutputFiles[reportAt]} /\ reportAt' = 0
    PROVE  OutputInv'
<1>1. PICK n \in 1..9 : n = reportAt OBVIOUS
<1>2. /\ reportNo \in 0..MaxReports /\ MaxReports \in Nat
      /\ disk \in [FileNames -> 0..MaxReports] /\ torn \subseteq FileNames
      /\ \A i \in 1..9 : OutputFiles[i] \in FileNames
      /\ \A f \in FileNames : \E i \in 1..9 : f = OutputFiles[i]
  BY NamedFiles DEF OutputAssumption, OutputInv, WrittenInOrder
<1>3. /\ \A i \in 1..9 : disk[OutputFiles[i]] \in Nat /\ disk[OutputFiles[i]] <= reportNo
      /\ \A i \in 1..(n - 1) : disk[OutputFiles[i]] = reportNo /\ OutputFiles[i] \notin torn
      /\ \A i \in n..9 : disk[OutputFiles[i]] < reportNo
  <2>1. \A f \in FileNames : disk[f] \in Nat /\ disk[f] <= reportNo
    BY <1>2 DEF OutputInv, WrittenInOrder
  <2>2. \A i \in 1..9 : disk[OutputFiles[i]] \in Nat /\ disk[OutputFiles[i]] <= reportNo BY <1>2, <2>1
  <2>3. \A i \in 1..(n - 1) : disk[OutputFiles[i]] = reportNo /\ OutputFiles[i] \notin torn
    BY <1>1 DEF OutputInv, WrittenInOrder
  <2>4. n > 0 /\ \A i \in n..9 : disk[OutputFiles[i]] < reportNo BY <1>1 DEF OutputInv, WrittenInOrder
  <2>q. QED BY <2>2, <2>3, <2>4
<1>4. \A i \in 1..9 : disk'[OutputFiles[i]] = IF i = n THEN reportNo ELSE disk[OutputFiles[i]]
  BY <1>1, <1>2, NamedFiles
<1>5. \A i \in 1..9 : i # n => (OutputFiles[i] \in torn' <=> OutputFiles[i] \in torn)
  BY <1>1, NamedFiles
<1>6. /\ disk' \in [FileNames -> 0..MaxReports] /\ torn' \subseteq FileNames /\ reportAt' \in 0..9
      /\ reportAt' \in {0, n + 1} /\ (reportAt' > 0 => OutputFiles[n] \notin torn')
  BY <1>1, <1>2
<1>7. \A f \in FileNames : disk'[f] <= reportNo' BY <1>2, <1>3, <1>4
<1>8. \A i \in 1..(reportAt' - 1) : disk'[OutputFiles[i]] = reportNo' /\ OutputFiles[i] \notin torn'
  <2>1. ASSUME NEW i \in 1..(reportAt' - 1)
        PROVE  disk'[OutputFiles[i]] = reportNo' /\ OutputFiles[i] \notin torn'
    <3>0. reportAt' = n + 1 /\ n + 1 \in 0..9
      <4>1. reportAt' # 0 OBVIOUS
      <4>q. QED BY <1>6, <4>1
    <3>1. reportAt' = n + 1 /\ i \in 1..9 /\ (i = n \/ i \in 1..(n - 1)) BY <3>0
    <3>2. CASE i = n BY <1>4, <1>6, <3>1, <3>2
    <3>3. CASE i \in 1..(n - 1)
      <4>1. i # n BY <3>3
      <4>q. QED BY <1>3, <1>4, <1>5, <3>1, <3>3, <4>1
    <3>q. QED BY <3>1, <3>2, <3>3
  <2>q. QED BY <2>1
<1>9. reportAt' > 0 => \A i \in reportAt'..9 : disk'[OutputFiles[i]] < reportNo'
  <2>1. ASSUME reportAt' > 0, NEW i \in reportAt'..9 PROVE disk'[OutputFiles[i]] < reportNo'
    <3>1. i \in n..9 /\ i # n /\ i \in 1..9 BY <1>6, <2>1
    <3>q. QED BY <1>3, <1>4, <3>1
  <2>q. QED BY <2>1
<1>10. WrittenInOrder' BY <1>2, <1>6, <1>7, <1>8, <1>9, NamedFiles DEF WrittenInOrder
<1>11. /\ \A i \in 1..5 : disk[OutputFiles[i]] > disk[OutputFiles[6]]
                       \/ (disk[OutputFiles[i]] = disk[OutputFiles[6]] /\ OutputFiles[i] \notin torn)
       /\ \A i \in 7..9 : disk[OutputFiles[i]] <= disk[OutputFiles[6]]
  BY ManifestByPlace DEF OutputInv
<1>12. ASSUME NEW i \in 1..5
       PROVE  \/ disk'[OutputFiles[i]] > disk'[OutputFiles[6]]
              \/ (disk'[OutputFiles[i]] = disk'[OutputFiles[6]] /\ OutputFiles[i] \notin torn')
  <2>1. CASE n = 6
    <3>1. i \in 1..(n - 1) /\ i # n /\ i \in 1..9 BY <2>1
    <3>q. QED BY <1>3, <1>4, <1>5, <2>1, <3>1
  <2>2. CASE n = i
    <3>1. disk[OutputFiles[6]] < reportNo BY <1>3, <2>2
    <3>q. QED BY <1>2, <1>3, <1>4, <2>2, <3>1
  <2>3. CASE n # 6 /\ n # i BY <1>4, <1>5, <1>11, <2>3
  <2>q. QED BY <2>1, <2>2, <2>3
<1>13. ASSUME NEW i \in 7..9 PROVE disk'[OutputFiles[i]] <= disk'[OutputFiles[6]]
  <2>1. CASE n = 6 BY <1>3, <1>4, <2>1
  <2>2. CASE n = i
    <3>1. 6 \in 1..(n - 1) BY <2>2
    <3>2. disk[OutputFiles[6]] = reportNo BY <1>3, <3>1
    <3>q. QED BY <1>2, <1>4, <2>2, <3>2
  <2>3. CASE n # 6 /\ n # i BY <1>4, <1>11, <2>3
  <2>q. QED BY <2>1, <2>2, <2>3
<1>14. ManifestNotAhead'
  <2>1. \A f \in BeforeManifest : \E i \in 1..5 : f = OutputFiles[i] BY NamedFiles
  <2>2. \A f \in AfterManifest : \E i \in 7..9 : f = OutputFiles[i] BY NamedFiles
  <2>3. OutputFiles[6] = "audit-manifest.json" BY NamedFiles
  <2>q. QED BY <1>12, <1>13, <2>1, <2>2, <2>3 DEF ManifestNotAhead
<1>q. QED BY <1>10, <1>14 DEF OutputInv

LEMMA StepOutputInv == OutputAssumption /\ OutputInv /\ [OutputNext]_outputVars => OutputInv'
<1> SUFFICES ASSUME OutputAssumption, OutputInv, [OutputNext]_outputVars PROVE OutputInv'
  OBVIOUS
<1>0. /\ reportNo \in Nat /\ MaxReports \in Nat /\ reportAt \in 0..9
      /\ disk \in [FileNames -> 0..MaxReports] /\ torn \subseteq FileNames
      /\ \A i \in 1..9 : OutputFiles[i] \in FileNames
      /\ \A f \in FileNames : disk[f] \in Nat /\ disk[f] <= reportNo
  BY NamedFiles DEF OutputAssumption, OutputInv, WrittenInOrder
<1>1. ASSUME UNCHANGED <<reportNo, reportAt, disk, torn>> PROVE OutputInv'
  BY <1>1 DEF OutputInv, WrittenInOrder, ManifestNotAhead
<1>2. CASE Generate
  <2>1. reportNo' = reportNo + 1 /\ reportAt' = 1 /\ disk' = disk /\ torn' = torn /\ reportNo < MaxReports
    BY <1>2 DEF Generate
  <2>2. WrittenInOrder' BY <1>0, <2>1, NamedFiles DEF WrittenInOrder
  <2>q. QED BY <2>1, <2>2 DEF OutputInv, ManifestNotAhead
<1>3. CASE WriteFails
  <2>1. /\ reportAt \in 1..9 /\ reportNo' = reportNo /\ reportAt' = 0
        /\ \/ disk' = disk /\ torn' = torn
           \/ /\ disk' = [disk EXCEPT ![OutputFiles[reportAt]] = reportNo]
              /\ torn' = torn \cup {OutputFiles[reportAt]}
    BY <1>3, NamedFiles DEF WriteFails
  <2>2. CASE disk' = disk /\ torn' = torn
    <3>1. WrittenInOrder' BY <1>0, <2>1, <2>2, NamedFiles DEF OutputInv, WrittenInOrder
    <3>q. QED BY <2>2, <3>1 DEF OutputInv, ManifestNotAhead
  <2>3. CASE /\ disk' = [disk EXCEPT ![OutputFiles[reportAt]] = reportNo]
             /\ torn' = torn \cup {OutputFiles[reportAt]}
    BY <2>1, <2>3, StepBeginsFile
  <2>q. QED BY <2>1, <2>2, <2>3
<1>4. CASE WriteFile
  <2>1. /\ reportAt \in 1..9 /\ reportNo' = reportNo
        /\ disk' = [disk EXCEPT ![OutputFiles[reportAt]] = reportNo]
        /\ torn' = torn \ {OutputFiles[reportAt]}
        /\ reportAt' = IF reportAt = 9 THEN 0 ELSE reportAt + 1
    BY <1>4, NamedFiles DEF WriteFile
  <2>q. QED BY <2>1, StepBeginsFile
<1>q. QED BY <1>1, <1>2, <1>3, <1>4 DEF OutputNext, Collect, Previous, outputVars

(* For any number of reports written to one directory, each stopped        *)
(* anywhere, and with any file torn: what stands before a manifest in the  *)
(* order of writing is whole and of its report, or of a later report that  *)
(* has no manifest there, and what stands after it is never newer.         *)
THEOREM ManifestBehind == OutputSpec => []ManifestNotAhead
<1>1. OutputAssumption BY OutputAssumption
<1>2. OutputSpec => []OutputInv BY <1>1, InitOutputInv, StepOutputInv, PTL DEF OutputSpec
<1>3. OutputInv => ManifestNotAhead BY DEF OutputInv
<1>q. QED BY <1>2, <1>3, PTL
-----------------------------------------------------------------------------
(* The findings pipeline, for findings of which only a key and a strength  *)
(* count.  Of the first i the kept numbers s are one of each key, the      *)
(* first of the strongest, in the order in which the keys appeared.        *)
BestOfEach(key, strength, s, i) ==
    /\ \A j \in 1..i : \E k \in DOMAIN s : key[s[k]] = key[j]
    /\ \A k, l \in DOMAIN s : key[s[k]] = key[s[l]] => k = l
    /\ \A k \in DOMAIN s, j \in 1..i : key[j] = key[s[k]] =>
          strength[j] < strength[s[k]] \/ (strength[j] = strength[s[k]] /\ s[k] <= j)
    /\ \A k, l \in DOMAIN s : k < l =>
          \E j \in 1..i : key[j] = key[s[k]] /\ \A m \in 1..i : key[m] = key[s[l]] => j < m

OfKey(key, s, i) == {k \in DOMAIN s : key[s[k]] = key[i]}
Merged(key, strength, s, i) ==
    IF OfKey(key, s, i) = {} THEN Append(s, i)
    ELSE [k \in DOMAIN s |-> IF k \in OfKey(key, s, i) /\ strength[i] > strength[s[k]] THEN i ELSE s[k]]

LEMMA AppendKeepsBest ==
    ASSUME NEW n \in Nat, NEW key, NEW strength \in [1..n -> Nat], NEW i \in 1..n, NEW s \in Seq(1..(i - 1)),
           BestOfEach(key, strength, s, i - 1), OfKey(key, s, i) = {}
    PROVE  Append(s, i) \in Seq(1..i) /\ BestOfEach(key, strength, Append(s, i), i)
<1>0. i \in Nat /\ i >= 1 /\ i <= n OBVIOUS
<1>1. PICK m \in Nat : m = Len(s) OBVIOUS
<1>2. \A k \in 1..m : s[k] \in 1..(i - 1) /\ s[k] \in Nat /\ s[k] < i BY <1>0, <1>1
<1>3. DOMAIN s = 1..m BY <1>1
<1>e1. \A j \in 1..(i - 1) : \E k \in 1..m : key[s[k]] = key[j] BY <1>3 DEF BestOfEach
<1>e2. \A k, l \in 1..m : key[s[k]] = key[s[l]] => k = l BY <1>3 DEF BestOfEach
<1>e3. \A k \in 1..m, j \in 1..(i - 1) : key[j] = key[s[k]] =>
          strength[j] < strength[s[k]] \/ (strength[j] = strength[s[k]] /\ s[k] <= j)
  BY <1>3 DEF BestOfEach
<1>e4. \A k, l \in 1..m : k < l =>
          \E j \in 1..(i - 1) : key[j] = key[s[k]] /\ \A o \in 1..(i - 1) : key[o] = key[s[l]] => j < o
  <2>1. \A k, l \in DOMAIN s : k < l =>
          \E j \in 1..(i - 1) : key[j] = key[s[k]] /\ \A o \in 1..(i - 1) : key[o] = key[s[l]] => j < o
    BY Zenon DEF BestOfEach
  <2> SUFFICES ASSUME NEW k \in 1..m, NEW l \in 1..m, k < l
               PROVE  \E j \in 1..(i - 1) : key[j] = key[s[k]] /\ \A o \in 1..(i - 1) : key[o] = key[s[l]] => j < o
    OBVIOUS
  <2>2. k \in DOMAIN s /\ l \in DOMAIN s BY <1>3
  <2>q. QED BY <2>1, <2>2, Zenon
<1>a. s \in Seq(1..i)
  <2>1. \A k \in 1..m : s[k] \in 1..i BY <1>0, <1>2
  <2>q. QED BY <1>1, <2>1
<1>4. PICK t \in Seq(1..i) : t = Append(s, i)
  <2>1. i \in 1..i BY <1>0
  <2>2. \A V : \A u \in Seq(V), e \in V : Append(u, e) \in Seq(V) OBVIOUS
  <2>3. Append(s, i) \in Seq(1..i) BY <1>a, <2>1, <2>2
  <2>q. QED BY <2>3
<1>5. Len(t) = m + 1 /\ t[m + 1] = i /\ \A k \in 1..m : t[k] = s[k] BY <1>1, <1>4, <1>a
<1>6. DOMAIN t = 1..(m + 1) /\ \A k \in 1..(m + 1) : k \in 1..m \/ k = m + 1 BY <1>1, <1>5
<1>7. \A k \in 1..m : key[s[k]] # key[i] BY <1>3 DEF OfKey
<1>8. \A j \in 1..i : j \in 1..(i - 1) \/ j = i BY <1>0
<1>9. \A j \in 1..(i - 1) : j \in Nat /\ j < i /\ j \in 1..i BY <1>0
<1>b. \A j \in 1..(i - 1) : key[j] # key[i] BY <1>7, <1>e1
<1>10. ASSUME NEW j \in 1..i PROVE \E k \in DOMAIN t : key[t[k]] = key[j]
  <2>1. CASE j = i
    <3>1. m + 1 \in DOMAIN t BY <1>1, <1>6
    <3>q. QED BY <1>5, <2>1, <3>1
  <2>2. CASE j \in 1..(i - 1)
    <3>1. PICK k \in 1..m : key[s[k]] = key[j] BY <1>e1, <2>2
    <3>2. k \in DOMAIN t /\ t[k] = s[k] BY <1>1, <1>5, <1>6
    <3>q. QED BY <3>1, <3>2
  <2>q. QED BY <1>8, <2>1, <2>2
<1>11. ASSUME NEW k \in DOMAIN t, NEW l \in DOMAIN t, key[t[k]] = key[t[l]] PROVE k = l
  <2>1. CASE k \in 1..m /\ l \in 1..m BY <1>5, <1>e2, <1>11, <2>1
  <2>2. CASE k = m + 1 /\ l \in 1..m BY <1>5, <1>7, <1>11, <2>2
  <2>3. CASE k \in 1..m /\ l = m + 1 BY <1>5, <1>7, <1>11, <2>3
  <2>q. QED BY <1>6, <2>1, <2>2, <2>3
<1>12. ASSUME NEW k \in DOMAIN t, NEW j \in 1..i, key[j] = key[t[k]]
       PROVE  strength[j] < strength[t[k]] \/ (strength[j] = strength[t[k]] /\ t[k] <= j)
  <2>1. CASE k = m + 1
    <3>1. t[k] = i /\ j = i BY <1>5, <1>8, <1>b, <1>12, <2>1
    <3>q. QED BY <1>0, <3>1
  <2>2. CASE k \in 1..m
    <3>1. t[k] = s[k] BY <1>5, <2>2
    <3>2. j \in 1..(i - 1) BY <1>7, <1>8, <1>12, <2>2, <3>1
    <3>q. QED BY <1>e3, <1>12, <2>2, <3>1, <3>2
  <2>q. QED BY <1>6, <2>1, <2>2
<1>13. ASSUME NEW k \in DOMAIN t, NEW l \in DOMAIN t, k < l
       PROVE  \E j \in 1..i : key[j] = key[t[k]] /\ \A o \in 1..i : key[o] = key[t[l]] => j < o
  <2>1. k \in 1..m /\ t[k] = s[k] BY <1>1, <1>5, <1>6, <1>13, SMTT(30)
  <2>2. CASE l = m + 1
    <3>1. \A o \in 1..i : key[o] = key[t[l]] => o = i BY <1>5, <1>8, <1>b, <2>2
    <3>2. s[k] \in 1..i /\ s[k] < i BY <1>2, <1>9, <2>1
    <3>q. QED BY <2>1, <3>1, <3>2
  <2>3. CASE l \in 1..m
    <3>1. PICK j \in 1..(i - 1) : key[j] = key[s[k]] /\ \A o \in 1..(i - 1) : key[o] = key[s[l]] => j < o
      BY <1>e4, <1>13, <2>1, <2>3
    <3>2. t[l] = s[l] /\ key[s[l]] # key[i] BY <1>5, <1>7, <2>3
    <3>3. \A o \in 1..i : key[o] = key[t[l]] => j < o BY <1>8, <3>1, <3>2
    <3>4. j \in 1..i BY <1>9, <3>1
    <3>q. QED BY <2>1, <3>1, <3>3, <3>4
  <2>q. QED BY <1>6, <2>2, <2>3
<1>14. BestOfEach(key, strength, t, i) BY <1>10, <1>11, <1>12, <1>13 DEF BestOfEach
<1>q. QED BY <1>4, <1>14

LEMMA ReplaceKeepsBest ==
    ASSUME NEW n \in Nat, NEW key, NEW strength \in [1..n -> Nat], NEW i \in 1..n, NEW s \in Seq(1..(i - 1)),
           BestOfEach(key, strength, s, i - 1), OfKey(key, s, i) # {}
    PROVE  /\ Merged(key, strength, s, i) \in Seq(1..i)
           /\ BestOfEach(key, strength, Merged(key, strength, s, i), i)
<1>0. i \in Nat /\ i >= 1 /\ i <= n OBVIOUS
<1>1. PICK m \in Nat : m = Len(s) OBVIOUS
<1>2. \A k \in 1..m : s[k] \in 1..(i - 1) /\ s[k] \in Nat /\ s[k] < i /\ s[k] \in 1..i BY <1>0, <1>1
<1>3. DOMAIN s = 1..m BY <1>1
<1> DEFINE Won(k) == k \in OfKey(key, s, i) /\ strength[i] > strength[s[k]]
<1>4. PICK t : t = [k \in 1..m |-> IF Won(k) THEN i ELSE s[k]] OBVIOUS
<1>5. Merged(key, strength, s, i) = t BY <1>3, <1>4 DEF Merged
<1>6. DOMAIN t = 1..m /\ \A k \in 1..m : t[k] = IF Won(k) THEN i ELSE s[k] BY <1>4
<1>a. \A k \in 1..m : t[k] \in 1..i BY <1>0, <1>2, <1>6, SMTT(30)
<1>b. t \in Seq(1..i)
  <2>1. t \in [1..m -> 1..i] BY <1>4, <1>6, <1>a
  <2>q. QED BY <2>1
<1>e1. \A j \in 1..(i - 1) : \E k \in 1..m : key[s[k]] = key[j] BY <1>3 DEF BestOfEach
<1>e2. \A k, l \in 1..m : key[s[k]] = key[s[l]] => k = l BY <1>3 DEF BestOfEach
<1>e3. \A k \in 1..m, j \in 1..(i - 1) : key[j] = key[s[k]] =>
          strength[j] < strength[s[k]] \/ (strength[j] = strength[s[k]] /\ s[k] <= j)
  BY <1>3 DEF BestOfEach
<1>e4. \A k, l \in 1..m : k < l =>
          \E j \in 1..(i - 1) : key[j] = key[s[k]] /\ \A o \in 1..(i - 1) : key[o] = key[s[l]] => j < o
  <2>1. \A k, l \in DOMAIN s : k < l =>
          \E j \in 1..(i - 1) : key[j] = key[s[k]] /\ \A o \in 1..(i - 1) : key[o] = key[s[l]] => j < o
    BY Zenon DEF BestOfEach
  <2> SUFFICES ASSUME NEW k \in 1..m, NEW l \in 1..m, k < l
               PROVE  \E j \in 1..(i - 1) : key[j] = key[s[k]] /\ \A o \in 1..(i - 1) : key[o] = key[s[l]] => j < o
    OBVIOUS
  <2>2. k \in DOMAIN s /\ l \in DOMAIN s BY <1>3
  <2>q. QED BY <2>1, <2>2, Zenon
<1>7. \A k \in 1..m : key[t[k]] = key[s[k]] BY <1>3, <1>6 DEF OfKey
<1>8. \A j \in 1..i : j \in 1..(i - 1) \/ j = i BY <1>0
<1>9. \A j \in 1..(i - 1) : j \in Nat /\ j < i /\ j \in 1..i /\ j \in 1..n BY <1>0
<1>c. \A j \in 1..i : j \in 1..n /\ strength[j] \in Nat BY <1>0
<1>10. ASSUME NEW j \in 1..i PROVE \E k \in DOMAIN t : key[t[k]] = key[j]
  <2>1. CASE j = i
    <3>1. PICK k \in 1..m : key[s[k]] = key[i] BY <1>3 DEF OfKey
    <3>q. QED BY <1>6, <1>7, <2>1, <3>1
  <2>2. CASE j \in 1..(i - 1)
    <3>1. PICK k \in 1..m : key[s[k]] = key[j] BY <1>e1, <2>2
    <3>q. QED BY <1>6, <1>7, <3>1
  <2>q. QED BY <1>8, <2>1, <2>2
<1>11. ASSUME NEW k \in DOMAIN t, NEW l \in DOMAIN t, key[t[k]] = key[t[l]] PROVE k = l
  BY <1>6, <1>7, <1>e2, <1>11
<1>12. ASSUME NEW k \in DOMAIN t, NEW j \in 1..i, key[j] = key[t[k]]
       PROVE  strength[j] < strength[t[k]] \/ (strength[j] = strength[t[k]] /\ t[k] <= j)
  <2>1. k \in 1..m /\ key[j] = key[s[k]] /\ s[k] \in 1..i /\ strength[s[k]] \in Nat /\ strength[j] \in Nat
        /\ strength[i] \in Nat
    BY <1>0, <1>2, <1>6, <1>7, <1>c, <1>12
  <2>2. j \in 1..(i - 1) => strength[j] < strength[s[k]] \/ (strength[j] = strength[s[k]] /\ s[k] <= j)
    BY <1>e3, <2>1
  <2>3. CASE Won(k)
    <3>1. t[k] = i /\ strength[s[k]] < strength[i] BY <1>6, <2>1, <2>3
    <3>2. CASE j = i BY <1>0, <3>1, <3>2
    <3>3. CASE j \in 1..(i - 1) BY <2>1, <2>2, <3>1, <3>3, SMTT(30)
    <3>q. QED BY <1>8, <3>2, <3>3
  <2>4. CASE ~Won(k)
    <3>1. t[k] = s[k] BY <1>6, <2>1, <2>4
    <3>2. CASE j = i
      <4>1. k \in OfKey(key, s, i) BY <1>3, <2>1, <3>2 DEF OfKey
      <4>2. strength[i] <= strength[s[k]] BY <2>1, <2>4, <4>1, SMTT(30)
      <4>3. s[k] <= i BY <1>0, <1>2, <2>1
      <4>q. QED BY <2>1, <3>1, <3>2, <4>2, <4>3
    <3>3. CASE j \in 1..(i - 1) BY <2>2, <3>1, <3>3
    <3>q. QED BY <1>8, <3>2, <3>3
  <2>q. QED BY <2>3, <2>4
<1>13. ASSUME NEW k \in DOMAIN t, NEW l \in DOMAIN t, k < l
       PROVE  \E j \in 1..i : key[j] = key[t[k]] /\ \A o \in 1..i : key[o] = key[t[l]] => j < o
  <2>1. k \in 1..m /\ l \in 1..m BY <1>6
  <2>2. PICK j \in 1..(i - 1) : key[j] = key[s[k]] /\ \A o \in 1..(i - 1) : key[o] = key[s[l]] => j < o
    BY <1>e4, <1>13, <2>1
  <2>3. j \in 1..i /\ j < i BY <1>9, <2>2
  <2>q. QED BY <1>7, <1>8, <2>1, <2>2, <2>3
<1>14. BestOfEach(key, strength, t, i) BY <1>10, <1>11, <1>12, <1>13 DEF BestOfEach
<1>q. QED BY <1>5, <1>b, <1>14

LEMMA MergeKeepsBest ==
    ASSUME NEW n \in Nat, NEW key, NEW strength \in [1..n -> Nat], NEW i \in 1..n, NEW s \in Seq(1..(i - 1)),
           BestOfEach(key, strength, s, i - 1)
    PROVE  /\ Merged(key, strength, s, i) \in Seq(1..i)
           /\ BestOfEach(key, strength, Merged(key, strength, s, i), i)
<1>1. CASE OfKey(key, s, i) = {} BY <1>1, AppendKeepsBest DEF Merged
<1>2. CASE OfKey(key, s, i) # {} BY <1>2, ReplaceKeepsBest
<1>q. QED BY <1>1, <1>2

(* prefer_over compares strengths.                                         *)
LEMMA PreferStronger ==
    ASSUME NEW new \in FindingType, NEW old \in FindingType
    PROVE  /\ Strength(new) \in Nat
           /\ PreferOver(new, old) <=> Strength(new) > Strength(old)
<1>1. /\ new.gate \in 0..3 /\ old.gate \in 0..3 BY DEF FindingType
<1>2. /\ VerificationRank(new) \in {1, 2} /\ AnalysisRank(new) \in {0, 1}
      /\ VerificationRank(old) \in {1, 2} /\ AnalysisRank(old) \in {0, 1}
  BY DEF VerificationRank, AnalysisRank
<1> HIDE DEF VerificationRank, AnalysisRank
<1>q. QED BY <1>1, <1>2 DEF Strength, PreferOver

Numbers == 1..Len(collected)
KeyOf == [i \in Numbers |-> FindingKey(collected[i])]
StrengthOf == [i \in Numbers |-> Strength(collected[i])]

LEMMA CollectedTyped ==
    ASSUME collected \in Seq(Collectable), Collectable \subseteq FindingType
    PROVE  /\ Len(collected) \in Nat /\ DOMAIN collected = Numbers /\ StrengthOf \in [Numbers -> Nat]
           /\ \A i \in Numbers : collected[i] \in FindingType
<1>1. \A i \in Numbers : collected[i] \in FindingType BY DEF Numbers
<1>2. \A i \in Numbers : Strength(collected[i]) \in Nat BY <1>1, PreferStronger
<1>q. QED BY <1>1, <1>2 DEF Numbers, StrengthOf

Merging(w, key, strength, n) ==
    /\ w \in [0..n -> Seq(1..n)] /\ w[0] = <<>>
    /\ \A i \in 1..n : w[i - 1] \in Seq(1..n) /\ w[i] = Merged(key, strength, w[i - 1], i)

LEMMA MergedRepeatedly ==
    ASSUME NEW n \in Nat, NEW key, NEW strength
    PROVE  \E w : Merging(w, key, strength, n)
<1>1. PICK V : V = Seq(1..n) OBVIOUS
<1>2. PICK empty \in V : empty = <<>>
  <2>1. <<>> \in Seq(1..n) OBVIOUS
  <2>q. QED BY <1>1, <2>1
<1>3. ASSUME NEW s \in V, NEW i \in 1..n PROVE Merged(key, strength, s, i) \in V
  <2> DEFINE t == [k \in 1..Len(s) |->
                     IF k \in OfKey(key, s, i) /\ strength[i] > strength[s[k]] THEN i ELSE s[k]]
  <2>1. s \in Seq(1..n) /\ Append(s, i) \in V BY <1>1
  <2>2. \A k \in 1..Len(s) : s[k] \in 1..n BY <2>1
  <2>3. t \in [1..Len(s) -> 1..n] BY <2>2
  <2> HIDE DEF t
  <2>4. t \in Seq(1..n)
    <3>1. Len(s) \in Nat BY <2>1
    <3>2. \A l \in Nat : \A u : u \in [1..l -> 1..n] => u \in Seq(1..n) OBVIOUS
    <3>q. QED BY <2>3, <3>1, <3>2
  <2>5. DOMAIN s = 1..Len(s) BY <2>1
  <2>q. QED BY <1>1, <2>1, <2>4, <2>5 DEF Merged, t
<1>4. PICK f : f = [p \in V \X (1..n) |-> Merged(key, strength, p[1], p[2])] OBVIOUS
<1>5. f \in [V \X (1..n) -> V] BY <1>3, <1>4
<1>6. \A s \in V, i \in 1..n : f[<<s, i>>] = Merged(key, strength, s, i) BY <1>4
<1>7. PICK w : Repetition(w, V, empty, n, f) BY <1>5, Repeated
<1>8. w \in [0..n -> V] /\ w[0] = empty /\ \A i \in 1..n : w[i] = f[<<w[i - 1], i>>] BY <1>7 DEF Repetition
<1>9. \A i \in 1..n : i - 1 \in 0..n /\ w[i - 1] \in V BY <1>8
<1>10. \A i \in 1..n : w[i] = Merged(key, strength, w[i - 1], i) BY <1>6, <1>8, <1>9
<1>q. QED BY <1>1, <1>2, <1>8, <1>9, <1>10 DEF Merging

LEMMA DeduplicatedKeepsBest ==
    ASSUME collected \in Seq(Collectable), Collectable \subseteq FindingType
    PROVE  Deduplicated \in Seq(Numbers) /\ BestOfEach(KeyOf, StrengthOf, Deduplicated, Len(collected))
<1>1. PICK n \in Nat : n = Len(collected) /\ Numbers = 1..n BY CollectedTyped DEF Numbers
<1>2. StrengthOf \in [1..n -> Nat] BY <1>1, CollectedTyped
<1>4. PICK w : Merging(w, KeyOf, StrengthOf, n) BY MergedRepeatedly
<1>5. /\ w \in [0..n -> Seq(1..n)] /\ w[0] = <<>>
      /\ \A i \in 1..n : w[i - 1] \in Seq(1..n) /\ w[i] = Merged(KeyOf, StrengthOf, w[i - 1], i)
  BY <1>4 DEF Merging
<1> DEFINE Kept(g, i) ==
              IF i = 0 THEN <<>>
              ELSE LET same == {k \in DOMAIN g[i - 1] : FindingKey(collected[g[i - 1][k]]) = FindingKey(collected[i])}
                   IN  IF same = {} THEN Append(g[i - 1], i)
                       ELSE [k \in DOMAIN g[i - 1] |->
                                IF k \in same /\ PreferOver(collected[i], collected[g[i - 1][k]]) THEN i ELSE g[i - 1][k]]
           chosen == CHOOSE g : g = [i \in 0..n |-> Kept(g, i)]
<1>7. Deduplicated = chosen[n] BY <1>1 DEF Deduplicated
<1>8. ASSUME NEW i \in 1..n, NEW g, g[i - 1] \in Seq(1..n)
      PROVE  Kept(g, i) = Merged(KeyOf, StrengthOf, g[i - 1], i)
  <2>1. PICK s \in Seq(1..n) : s = g[i - 1] BY <1>8
  <2>2. \A k \in DOMAIN s : s[k] \in 1..n OBVIOUS
  <2>3. \A k \in DOMAIN s : KeyOf[s[k]] = FindingKey(collected[s[k]]) BY <1>1, <2>2 DEF KeyOf
  <2>4. KeyOf[i] = FindingKey(collected[i]) BY <1>1 DEF KeyOf
  <2>5. {k \in DOMAIN s : FindingKey(collected[s[k]]) = FindingKey(collected[i])} = OfKey(KeyOf, s, i)
    BY <2>3, <2>4 DEF OfKey
  <2>6. \A k \in DOMAIN s : PreferOver(collected[i], collected[s[k]]) <=> StrengthOf[i] > StrengthOf[s[k]]
    <3> SUFFICES ASSUME NEW k \in DOMAIN s
                 PROVE  PreferOver(collected[i], collected[s[k]]) <=> StrengthOf[i] > StrengthOf[s[k]]
      OBVIOUS
    <3>1. s[k] \in Numbers /\ i \in Numbers BY <1>1, <2>2
    <3>2. collected[i] \in FindingType /\ collected[s[k]] \in FindingType BY <3>1, CollectedTyped
    <3>3. PreferOver(collected[i], collected[s[k]]) <=> Strength(collected[i]) > Strength(collected[s[k]])
      BY <3>2, PreferStronger
    <3>q. QED BY <3>1, <3>3 DEF StrengthOf
  <2>7. i # 0 OBVIOUS
  <2>8. Kept(g, i) = IF OfKey(KeyOf, s, i) = {} THEN Append(s, i)
                     ELSE [k \in DOMAIN s |->
                              IF k \in OfKey(KeyOf, s, i) /\ PreferOver(collected[i], collected[s[k]]) THEN i ELSE s[k]]
    BY <2>1, <2>5, <2>7
  <2>q. QED BY <2>1, <2>6, <2>8, SMTT(30) DEF Merged
<1> HIDE DEF Kept
<1>9. w = [i \in 0..n |-> Kept(w, i)]
  <2>1. \A i \in 0..n : w[i] = Kept(w, i)
    <3>1. Kept(w, 0) = <<>> BY DEF Kept
    <3>3. \A i \in 0..n : i = 0 \/ i \in 1..n OBVIOUS
    <3>q. QED BY <1>5, <1>8, <3>1, <3>3
  <2>q. QED BY <1>5, <2>1
<1>10. chosen = [i \in 0..n |-> Kept(chosen, i)] BY <1>9
<1> HIDE DEF chosen
<1> DEFINE Good(i) == chosen[i] \in Seq(1..i) /\ BestOfEach(KeyOf, StrengthOf, chosen[i], i)
           B == {i \in 0..n : ~Good(i)}
<1>11. Good(0)
  <2>1. chosen[0] = <<>> BY <1>10 DEF Kept
  <2>2. <<>> \in Seq(1..0) /\ DOMAIN <<>> = {} /\ 1..0 = {} OBVIOUS
  <2>q. QED BY <2>1, <2>2 DEF BestOfEach
<1>12. B = {}
  <2> SUFFICES ASSUME B # {} PROVE FALSE OBVIOUS
  <2>1. PICK i \in B : \A j \in B : i <= j
    <3>1. B \in SUBSET Nat OBVIOUS
    <3>q. QED BY <3>1, LeastNat
  <2>2. i \in 0..n /\ ~Good(i) BY <2>1
  <2>3. i # 0 BY <1>11, <2>2
  <2>4. i \in 1..n /\ i - 1 \in 0..n /\ ~(i <= i - 1) BY <2>2, <2>3
  <2>5. Good(i - 1) BY <2>1, <2>4
  <2>6. chosen[i - 1] \in Seq(1..n)
    <3>1. \A s \in Seq(1..(i - 1)) : s \in Seq(1..n) BY <2>4
    <3>q. QED BY <2>5, <3>1
  <2>7. chosen[i] = Merged(KeyOf, StrengthOf, chosen[i - 1], i) BY <1>8, <1>10, <2>4, <2>6
  <2>8. PICK s \in Seq(1..(i - 1)) : s = chosen[i - 1] BY <2>5
  <2>9. BestOfEach(KeyOf, StrengthOf, s, i - 1) BY <2>5, <2>8
  <2>10. /\ Merged(KeyOf, StrengthOf, s, i) \in Seq(1..i)
         /\ BestOfEach(KeyOf, StrengthOf, Merged(KeyOf, StrengthOf, s, i), i)
    BY <1>2, <2>4, <2>9, MergeKeepsBest
  <2>11. Good(i) BY <2>7, <2>8, <2>10
  <2>q. QED BY <2>2, <2>11
<1>13. Good(n)
  <2>1. n \in 0..n OBVIOUS
  <2>2. n \notin B BY <1>12, Zenon
  <2>q. QED BY <2>1, <2>2
<1>q. QED BY <1>1, <1>7, <1>13
-----------------------------------------------------------------------------
(* What the report has, in the terms of KeptIsStrongest.                   *)
Strongest(entries) ==
    /\ \A i \in DOMAIN collected : Cardinality({k \in DOMAIN entries : entries[k].number \in Siblings(i)}) = 1
    /\ \A k \in DOMAIN entries : \A j \in Siblings(entries[k].number) :
          \/ Strength(collected[j]) < Strength(collected[entries[k].number])
          \/ Strength(collected[j]) = Strength(collected[entries[k].number]) /\ entries[k].number <= j
    /\ \A k, l \in DOMAIN entries : k < l => FirstSeen(entries[k].number) < FirstSeen(entries[l].number)

LEMMA FirstSeenIsFirst ==
    ASSUME NEW i \in Numbers, Len(collected) \in Nat, DOMAIN collected = Numbers
    PROVE  FirstSeen(i) \in Siblings(i) /\ \A j \in Siblings(i) : FirstSeen(i) <= j
<1>1. i \in Siblings(i) /\ Siblings(i) \subseteq Nat BY DEF Siblings, Numbers
<1>2. \E j \in Siblings(i) : \A k \in Siblings(i) : j <= k BY <1>1, LeastNat
<1>q. QED BY <1>2 DEF FirstSeen

LEMMA BestIsStrongest ==
    ASSUME collected \in Seq(Collectable), Collectable \subseteq FindingType,
           NEW s \in Seq(Numbers), BestOfEach(KeyOf, StrengthOf, s, Len(collected)),
           NEW entries, DOMAIN entries = DOMAIN s, \A k \in DOMAIN s : entries[k].number = s[k]
    PROVE  Strongest(entries)
<1>1. Len(collected) \in Nat /\ DOMAIN collected = Numbers /\ Numbers = 1..Len(collected)
  BY CollectedTyped DEF Numbers
<1>2. \A k \in DOMAIN s : s[k] \in Numbers OBVIOUS
<1>3. \A i, j \in Numbers : j \in Siblings(i) <=> KeyOf[j] = KeyOf[i] BY <1>1 DEF Siblings, KeyOf
<1>4. \A i : Siblings(i) \subseteq Numbers BY <1>1 DEF Siblings
<1>5. ASSUME NEW i \in DOMAIN collected
      PROVE  Cardinality({k \in DOMAIN entries : entries[k].number \in Siblings(i)}) = 1
  <2>1. i \in Numbers BY <1>1
  <2>2. PICK k \in DOMAIN s : KeyOf[s[k]] = KeyOf[i] BY <1>1, <2>1 DEF BestOfEach
  <2>3. ASSUME NEW l \in DOMAIN s PROVE s[l] \in Siblings(i) <=> l = k
    <3>1. s[l] \in Siblings(i) <=> KeyOf[s[l]] = KeyOf[i] BY <1>2, <1>3, <2>1
    <3>2. KeyOf[s[l]] = KeyOf[s[k]] => l = k BY DEF BestOfEach
    <3>q. QED BY <2>2, <3>1, <3>2
  <2>4. {l \in DOMAIN entries : entries[l].number \in Siblings(i)} = {k} BY <2>3
  <2>q. QED BY <2>4, FS_Singleton
<1>6. ASSUME NEW k \in DOMAIN entries, NEW j \in Siblings(entries[k].number)
      PROVE  \/ Strength(collected[j]) < Strength(collected[entries[k].number])
             \/ Strength(collected[j]) = Strength(collected[entries[k].number]) /\ entries[k].number <= j
  <2>1. k \in DOMAIN s /\ entries[k].number = s[k] /\ s[k] \in Numbers BY <1>2
  <2>2. j \in Numbers /\ KeyOf[j] = KeyOf[s[k]] BY <1>3, <1>4, <2>1
  <2>3. StrengthOf[j] < StrengthOf[s[k]] \/ (StrengthOf[j] = StrengthOf[s[k]] /\ s[k] <= j)
    BY <1>1, <2>1, <2>2 DEF BestOfEach
  <2>q. QED BY <2>1, <2>2, <2>3 DEF StrengthOf
<1>7. ASSUME NEW k \in DOMAIN entries, NEW l \in DOMAIN entries, k < l
      PROVE  FirstSeen(entries[k].number) < FirstSeen(entries[l].number)
  <2>1. /\ k \in DOMAIN s /\ l \in DOMAIN s /\ s[k] \in Numbers /\ s[l] \in Numbers
        /\ entries[k].number = s[k] /\ entries[l].number = s[l]
    BY <1>2
  <2>a. \E j \in 1..Len(collected) :
          KeyOf[j] = KeyOf[s[k]] /\ \A o \in 1..Len(collected) : KeyOf[o] = KeyOf[s[l]] => j < o
    BY <1>7, <2>1, ZenonT(60) DEF BestOfEach
  <2>2. PICK j \in Numbers : KeyOf[j] = KeyOf[s[k]] /\ \A o \in Numbers : KeyOf[o] = KeyOf[s[l]] => j < o
    BY <1>1, <2>a, Zenon
  <2>3. FirstSeen(s[k]) <= j BY <1>1, <1>3, <2>1, <2>2, FirstSeenIsFirst
  <2>4. j < FirstSeen(s[l])
    <3>1. FirstSeen(s[l]) \in Siblings(s[l]) BY <1>1, <2>1, FirstSeenIsFirst
    <3>q. QED BY <1>3, <1>4, <2>1, <2>2, <3>1
  <2>5. FirstSeen(s[k]) \in Nat /\ FirstSeen(s[l]) \in Nat /\ j \in Nat
    <3>1. FirstSeen(s[k]) \in Numbers /\ FirstSeen(s[l]) \in Numbers
      BY <1>1, <1>4, <2>1, FirstSeenIsFirst
    <3>q. QED BY <1>1, <3>1
  <2>q. QED BY <2>1, <2>3, <2>4, <2>5
<1>q. QED BY <1>5, <1>6, <1>7 DEF Strongest

PipelineInv ==
    /\ collected \in Seq(Collectable) /\ reportNo \in Nat /\ reportAt \in Nat
    /\ reportNo = 0 => reportAt = 0
    /\ KeptIsStrongest

LEMMA StepPipelineInv == OutputAssumption /\ PipelineInv /\ [OutputNext]_outputVars => PipelineInv'
<1> SUFFICES ASSUME OutputAssumption, PipelineInv, [OutputNext]_outputVars PROVE PipelineInv' OBVIOUS
<1>0. KeptIsStrongest <=> (reportAt > 0 => Strongest(kept)) BY DEF KeptIsStrongest, Strongest
<1>1. CASE Generate
  <2>1. collected \in Seq(Collectable) /\ Collectable \subseteq FindingType BY DEF PipelineInv, OutputAssumption
  <2>2. PICK s \in Seq(Numbers) : s = Deduplicated /\ BestOfEach(KeyOf, StrengthOf, s, Len(collected))
    BY <2>1, DeduplicatedKeepsBest
  <2>3. PICK entries : entries = [k \in DOMAIN s |-> [number |-> s[k], regression |-> IsRegression(collected[s[k]])]]
    OBVIOUS
  <2>4. DOMAIN entries = DOMAIN s /\ \A k \in DOMAIN s : entries[k].number = s[k] BY <2>3
  <2>5. Strongest(entries) BY <2>1, <2>2, <2>4, BestIsStrongest
  <2>6. kept' = entries /\ collected' = collected BY <1>1, <2>2, <2>3 DEF Generate
  <2>7. KeptIsStrongest'
    <3>1. \A i : Siblings(i)' = Siblings(i) BY <2>6 DEF Siblings
    <3>2. \A i : FirstSeen(i)' = FirstSeen(i) BY <3>1, Zenon DEF FirstSeen
    <3>3. (\A i \in DOMAIN collected : Cardinality({k \in DOMAIN kept : kept[k].number \in Siblings(i)}) = 1)'
      <4>1. \A i \in DOMAIN collected : Cardinality({k \in DOMAIN entries : entries[k].number \in Siblings(i)}) = 1
        BY <2>5, Zenon DEF Strongest
      <4>2. \A i : {k \in DOMAIN entries : entries[k].number \in Siblings(i)'}
                     = {k \in DOMAIN entries : entries[k].number \in Siblings(i)} BY <3>1
      <4>q. QED BY <2>6, <4>1, <4>2
    <3>4. (\A k \in DOMAIN kept : \A j \in Siblings(kept[k].number) :
              \/ Strength(collected[j]) < Strength(collected[kept[k].number])
              \/ Strength(collected[j]) = Strength(collected[kept[k].number]) /\ kept[k].number <= j)'
      <4>1. \A k \in DOMAIN entries : \A j \in Siblings(entries[k].number) :
              \/ Strength(collected[j]) < Strength(collected[entries[k].number])
              \/ Strength(collected[j]) = Strength(collected[entries[k].number]) /\ entries[k].number <= j
        BY <2>5, Zenon DEF Strongest
      <4>q. QED BY <2>6, <3>1, <4>1
    <3>5. (\A k, l \in DOMAIN kept : k < l => FirstSeen(kept[k].number) < FirstSeen(kept[l].number))'
      BY <2>5, <2>6, <3>2 DEF Strongest
    <3>q. QED BY <3>3, <3>4, <3>5 DEF KeptIsStrongest
  <2>q. QED BY <1>1, <2>6, <2>7 DEF PipelineInv, Generate
<1>2. CASE Collect \/ Previous
  <2>1. reportAt' = 0 /\ reportNo' = reportNo BY <1>2 DEF Collect, Previous, PipelineInv
  <2>2. collected' \in Seq(Collectable) BY <1>2 DEF Collect, Previous, PipelineInv
  <2>3. KeptIsStrongest' BY <2>1 DEF KeptIsStrongest
  <2>q. QED BY <2>1, <2>2, <2>3 DEF PipelineInv
<1>3. CASE WriteFile \/ WriteFails \/ UNCHANGED outputVars
  <2>1. UNCHANGED <<collected, kept, reportNo>>
    BY <1>3 DEF WriteFile, WriteFails, outputVars
  <2>2. reportAt' \in Nat /\ (reportAt' > 0 => reportAt > 0)
    BY <1>3 DEF WriteFile, WriteFails, outputVars, PipelineInv, OutputFiles
  <2>3. KeptIsStrongest' BY <2>1, <2>2 DEF PipelineInv, KeptIsStrongest, Siblings, FirstSeen
  <2>q. QED BY <2>1, <2>2, <2>3 DEF PipelineInv
<1>q. QED BY <1>1, <1>2, <1>3 DEF OutputNext

(* However many findings the engines report, each place has the first of   *)
(* its strongest findings in the report, in the order of the places.       *)
THEOREM PipelineKeepsStrongest == OutputSpec => []KeptIsStrongest
<1>1. OutputAssumption BY OutputAssumption
<1>2. OutputInit => PipelineInv BY DEF OutputInit, PipelineInv, KeptIsStrongest
<1>3. PipelineInv => KeptIsStrongest BY DEF PipelineInv
<1>q. QED BY <1>1, <1>2, <1>3, StepPipelineInv, PTL DEF OutputSpec

(* Everything kept in a report, and every harness on disk, is a finding    *)
(* that was collected, whose number stays one.                             *)
KeptAreCollected ==
    /\ Len(collected) <= MaxCollected /\ previous \subseteq Priors
    /\ kept \in Seq([number : Numbers, regression : BOOLEAN])
    /\ kani \in [FindingIds -> 0..Len(collected)]

LEMMA GreatestOf ==
    ASSUME NEW n \in Nat, NEW S \in SUBSET (1..n), S # {}
    PROVE  \E k \in S : \A l \in S : l <= k
<1>1. PICK M : M = {n - k : k \in S} OBVIOUS
<1>2. M \in SUBSET Nat /\ M # {}
  <2>1. \A k \in S : n - k \in Nat OBVIOUS
  <2>q. QED BY <1>1, <2>1
<1>3. PICK m \in M : \A j \in M : m <= j BY <1>2, LeastNat
<1>4. PICK k \in S : m = n - k BY <1>1
<1>5. \A l \in S : n - k <= n - l BY <1>1, <1>3, <1>4
<1>q. QED BY <1>5

LEMMA StepKeptAreCollected ==
    ASSUME OutputAssumption, PipelineInv, KeptAreCollected, [OutputNext]_outputVars
    PROVE  KeptAreCollected'
<1>0. /\ collected \in Seq(Collectable) /\ Collectable \subseteq FindingType /\ MaxCollected \in Nat
      /\ Len(collected) \in Nat /\ DOMAIN collected = Numbers
  BY CollectedTyped DEF OutputAssumption, PipelineInv
<1> DEFINE R == [number : Numbers, regression : BOOLEAN]
<1>1. CASE Collect
  <2>1. PICK f \in Collectable : collected' = Append(collected, f) BY <1>1 DEF Collect
  <2>2. Len(collected') = Len(collected) + 1 /\ Len(collected) < MaxCollected
        /\ UNCHANGED <<previous, kept, kani>>
    BY <1>0, <1>1, <2>1 DEF Collect
  <2>3. Numbers \subseteq Numbers' BY <1>0, <2>2 DEF Numbers
  <2>4. kept' \in Seq([number : Numbers', regression : BOOLEAN])
    <3> DEFINE T == [number : Numbers', regression : BOOLEAN]
    <3>1. R \subseteq T BY <2>3
    <3>2. kept \in Seq(R) BY DEF KeptAreCollected
    <3> HIDE DEF R, T
    <3>3. kept \in Seq(T) BY <3>1, <3>2
    <3>q. QED BY <2>2, <3>3 DEF T
  <2>5. kani' \in [FindingIds -> 0..Len(collected')] BY <1>0, <2>2 DEF KeptAreCollected
  <2>q. QED BY <1>0, <2>2, <2>4, <2>5 DEF KeptAreCollected
<1>2. CASE Previous
  BY <1>2 DEF Previous, KeptAreCollected, Numbers
<1>3. CASE Generate
  <2>1. PICK s \in Seq(Numbers) : s = Deduplicated BY <1>0, DeduplicatedKeepsBest
  <2>2. kept' = [k \in DOMAIN s |-> [number |-> s[k], regression |-> IsRegression(collected[s[k]])]]
    BY <1>3, <2>1 DEF Generate
  <2>3. UNCHANGED <<collected, previous, kani>> BY <1>3 DEF Generate
  <2>4. \A x : IsRegression(x) \in BOOLEAN BY DEF IsRegression
  <2>5. PICK l \in Nat : l = Len(s) /\ DOMAIN s = 1..l OBVIOUS
  <2>6. kept' \in [1..l -> R] BY <2>2, <2>4, <2>5
  <2> HIDE DEF R
  <2>7. \A u : u \in [1..l -> R] => u \in Seq(R) OBVIOUS
  <2>8. kept' \in Seq(R) BY <2>6, <2>7
  <2>q. QED BY <2>3, <2>8 DEF KeptAreCollected, Numbers, R
<1>4. Harnesses \in [FindingIds -> 0..Len(collected)]
  <2> DEFINE with(i) == {k \in DOMAIN kept : collected[kept[k].number].id = i /\ collected[kept[k].number].test}
             least(i) == CHOOSE k \in with(i) : \A l \in with(i) : l <= k
  <2>1. PICK n \in Nat : n = Len(kept) /\ DOMAIN kept = 1..n BY DEF KeptAreCollected
  <2>2. \A k \in 1..n : kept[k].number \in Numbers
    <3>1. \A k \in 1..n : kept[k] \in R
      <4>1. kept \in Seq(R) BY DEF KeptAreCollected
      <4> HIDE DEF R
      <4>q. QED BY <2>1, <4>1
    <3>q. QED BY <3>1
  <2>3. ASSUME NEW i \in FindingIds, with(i) # {} PROVE least(i) \in with(i)
    <3>1. PICK S : S = with(i) OBVIOUS
    <3>2. S \in SUBSET (1..n) /\ S # {} BY <2>1, <2>3, <3>1
    <3> HIDE DEF with
    <3>3. \E k \in S : \A l \in S : l <= k BY <2>1, <3>2, GreatestOf
    <3>q. QED BY <3>1, <3>3
  <2>4. ASSUME NEW i \in FindingIds
        PROVE  (IF with(i) = {} THEN kani[i] ELSE kept[least(i)].number) \in 0..Len(collected)
    <3>1. kani[i] \in 0..Len(collected) BY DEF KeptAreCollected
    <3>2. with(i) # {} => least(i) \in 1..n
      BY <2>1, <2>3
    <3>3. with(i) # {} => kept[least(i)].number \in 0..Len(collected)
      <4> HIDE DEF least, with
      <4>q. QED BY <1>0, <2>2, <3>2 DEF Numbers
    <3>q. QED BY <3>1, <3>3
  <2>5. Harnesses = [i \in FindingIds |-> IF with(i) = {} THEN kani[i] ELSE kept[least(i)].number]
    BY Zenon DEF Harnesses
  <2> HIDE DEF with, least
  <2>q. QED BY <2>4, <2>5
<1>5. CASE WriteFile
  <2>1. kani' \in {kani, Harnesses} /\ UNCHANGED <<collected, previous, kept>> BY <1>5 DEF WriteFile
  <2>q. QED BY <1>4, <2>1 DEF KeptAreCollected, Numbers
<1>7. CASE WriteFails
  <2>1. PICK written \in SUBSET FindingIds :
          kani' = kani \/ kani' = [i \in FindingIds |-> IF i \in written THEN Harnesses[i] ELSE kani[i]]
    BY <1>7 DEF WriteFails
  <2>2. kani \in [FindingIds -> 0..Len(collected)] BY DEF KeptAreCollected
  <2>3. kani' \in [FindingIds -> 0..Len(collected)] BY <1>4, <2>1, <2>2
  <2>4. UNCHANGED <<collected, previous, kept>> BY <1>7 DEF WriteFails
  <2>q. QED BY <2>3, <2>4 DEF KeptAreCollected, Numbers
<1>6. CASE UNCHANGED outputVars BY <1>6 DEF outputVars, KeptAreCollected, Numbers
<1>q. QED BY <1>1, <1>2, <1>3, <1>5, <1>6, <1>7 DEF OutputNext

(* What the pipeline keeps and what its harnesses are named after are      *)
(* findings that were collected; files are those of reports begun.         *)
THEOREM OutputTypeCorrect == OutputSpec => []OutputTypeOK
<1>1. OutputAssumption BY OutputAssumption
<1>2. OutputInit => PipelineInv /\ KeptAreCollected
  BY <1>1 DEF OutputAssumption, OutputInit, PipelineInv, KeptIsStrongest, KeptAreCollected, Numbers
<1>3. OutputInv /\ PipelineInv /\ KeptAreCollected => OutputTypeOK
  <2> SUFFICES ASSUME OutputInv, PipelineInv, KeptAreCollected PROVE OutputTypeOK OBVIOUS
  <2>1. /\ reportNo \in 0..MaxReports /\ reportAt \in 0..Len(OutputFiles)
        /\ disk \in [FileNames -> 0..MaxReports] /\ torn \subseteq FileNames
    BY DEF OutputInv, WrittenInOrder
  <2>2. /\ collected \in Seq(Collectable) /\ Len(collected) \in Nat /\ Len(collected) <= MaxCollected
        /\ MaxCollected \in Nat /\ previous \subseteq Priors
    BY <1>1 DEF PipelineInv, KeptAreCollected, OutputAssumption
  <2>3. kani \in [FindingIds -> 0..MaxCollected] BY <2>2 DEF KeptAreCollected
  <2>4. kept \in Seq([number : 1..MaxCollected, regression : BOOLEAN])
    <3> DEFINE R == [number : Numbers, regression : BOOLEAN]
               T == [number : 1..MaxCollected, regression : BOOLEAN]
    <3>1. R \subseteq T BY <2>2 DEF Numbers
    <3>2. kept \in Seq(R) BY DEF KeptAreCollected
    <3> HIDE DEF R, T
    <3>3. kept \in Seq(T) BY <3>1, <3>2
    <3>q. QED BY <3>3 DEF T
  <2>q. QED BY <2>1, <2>2, <2>3, <2>4 DEF OutputTypeOK
<1>q. QED BY <1>1, <1>2, <1>3, InitOutputInv, StepOutputInv, StepPipelineInv, StepKeptAreCollected, PTL DEF OutputSpec
-----------------------------------------------------------------------------
(* The sandbox.  Every way out of execute asks the daemon to remove the    *)
(* container of its own attempt, and a retry begins only after the attempt *)
(* before it returned: so an attempt that left a container at work was     *)
(* refused something, and nothing else overlaps.                           *)
USE SandboxAssumption

(* The attempts are made one after the other: those before this one have   *)
(* returned, and those after it have not sent a request yet.               *)
InOrder ==
    \A a \in Attempts :
        /\ a < attempt => outcome[a] # "none"
        /\ a > attempt => outcome[a] = "none" /\ box[a] = "none"
        /\ a = attempt => (outcome[a] = "none" <=> pc # "returned")

RemovedUnlessRefused ==
    \A a \in Attempts : outcome[a] # "none" /\ refused[a] = {} => box[a] = "removed"

SandboxInv == TypeOK /\ InOrder /\ RemovedUnlessRefused
-----------------------------------------------------------------------------
LEMMA AttemptIsNat == Attempts \subseteq Nat
BY DEF Attempts

(* A request that is refused is on the record of the attempt that sent it. *)
LEMMA RefuseRecords ==
    ASSUME TypeOK, NEW call \in Calls, Refuse(call)
    PROVE  /\ refused' \in [Attempts -> SUBSET Calls]
           /\ \A a \in Attempts :
                 refused'[a] = IF a = attempt THEN refused[a] \cup {call} ELSE refused[a]
BY DEF TypeOK, Refuse

LEMMA ReturnRecords ==
    ASSUME TypeOK, NEW answer \in Outcomes \ {"none"}, Return(answer)
    PROVE  /\ outcome' \in [Attempts -> Outcomes] /\ pc' = "returned"
           /\ outcome'[attempt] = answer
           /\ \A a \in Attempts \ {attempt} : outcome'[a] = outcome[a]
BY DEF TypeOK, Return

(* After any clean-up the attempt's container is gone, or the daemon is on *)
(* record as having refused to remove it.                                  *)
LEMMA CleanupRemoves ==
    ASSUME TypeOK, Cleanup \/ KillAndRemove
    PROVE  /\ box' \in [Attempts -> Boxes] /\ refused' \in [Attempts -> SUBSET Calls]
           /\ refused'[attempt] = {} => box'[attempt] = "removed"
           /\ \A a \in Attempts \ {attempt} : box'[a] = box[a] /\ refused'[a] = refused[a]
<1>0. attempt \in Attempts /\ box \in [Attempts -> Boxes]
      /\ refused \in [Attempts -> SUBSET Calls]
  BY DEF TypeOK
<1>1. CASE /\ box' = [box EXCEPT ![attempt] = "removed"]
           /\ UNCHANGED refused
  BY <1>0, <1>1 DEF Boxes
<1>2. CASE Refuse("remove") /\ UNCHANGED box
  <2>1. "remove" \in Calls BY DEF Calls
  <2>q. QED BY <1>0, <1>2, <2>1, RefuseRecords
<1>3. CASE /\ box' = [box EXCEPT ![attempt] = IF Ended(attempt) THEN @ ELSE "exited"]
           /\ Refuse("remove")
  <2>1. "remove" \in Calls BY DEF Calls
  <2>2. box' \in [Attempts -> Boxes] BY <1>0, <1>3 DEF Boxes
  <2>3. \A a \in Attempts \ {attempt} : box'[a] = box[a] BY <1>0, <1>3
  <2>q. QED BY <1>0, <1>3, <2>1, <2>2, <2>3, RefuseRecords
<1>q. QED BY <1>1, <1>2, <1>3 DEF Cleanup, KillAndRemove

(* A step that returns: the container is cleaned up or a refusal is on     *)
(* record, and the invariant holds again.                                  *)
LEMMA ReturnKeeps ==
    ASSUME SandboxInv, pc # "returned", NEW answer \in Outcomes \ {"none"}, Return(answer),
           UNCHANGED <<attempt, version, from>>,
           seen' \in BOOLEAN, code' \in {0, 1, 137}, digest' \in [Attempts -> 0..Images],
           box' \in [Attempts -> Boxes], refused' \in [Attempts -> SUBSET Calls],
           refused'[attempt] = {} => box'[attempt] = "removed",
           \A a \in Attempts \ {attempt} : box'[a] = box[a] /\ refused'[a] = refused[a]
    PROVE  SandboxInv'
<1> USE DEF SandboxInv
<1>1. /\ outcome' \in [Attempts -> Outcomes] /\ pc' = "returned"
      /\ outcome'[attempt] = answer /\ answer # "none"
      /\ \A a \in Attempts \ {attempt} : outcome'[a] = outcome[a]
  BY ReturnRecords
<1>2. TypeOK' BY <1>1 DEF TypeOK
<1>3. attempt \in Nat /\ \A a \in Attempts : a \in Nat BY AttemptIsNat DEF TypeOK
<1>4. InOrder' BY <1>1, <1>3 DEF InOrder
<1>5. RemovedUnlessRefused' BY <1>1 DEF RemovedUnlessRefused
<1>q. QED BY <1>2, <1>4, <1>5
-----------------------------------------------------------------------------
LEMMA InitSandboxInv == Init => SandboxInv
<1> SUFFICES ASSUME Init PROVE SandboxInv OBVIOUS
<1>1. TypeOK
  <2>1. 1 \in Attempts /\ 1 \in 1..Images /\ 0 \in 0..Images BY DEF Attempts
  <2>2. "none" \in Boxes /\ "none" \in Outcomes BY DEF Boxes, Outcomes
  <2>q. QED BY <2>1, <2>2 DEF Init, TypeOK
<1>2. InOrder
  <2>1. \A a \in Attempts : a \in Nat /\ ~(a < 1) BY DEF Attempts
  <2>q. QED BY <2>1 DEF Init, InOrder
<1>3. RemovedUnlessRefused BY DEF Init, RemovedUnlessRefused
<1>q. QED BY <1>1, <1>2, <1>3 DEF SandboxInv

(* What the container and other programs do: a container that ends was at  *)
(* work, so its attempt has not returned or was refused something.         *)
LEMMA StepWorld ==
    ASSUME SandboxInv, Retag \/ \E a \in Attempts : Exit(a) \/ OutOfMemory(a)
    PROVE  SandboxInv'
<1> USE DEF SandboxInv
<1>1. CASE Retag
  BY <1>1 DEF Retag, TypeOK, InOrder, RemovedUnlessRefused
<1>2. ASSUME NEW a \in Attempts, NEW b \in {"exited", "oom"}, box[a] = "running",
             box' = [box EXCEPT ![a] = b],
             UNCHANGED <<pc, attempt, version, from, seen, code, outcome, digest, refused>>
      PROVE  SandboxInv'
  <2>1. box' \in [Attempts -> Boxes] BY <1>2 DEF TypeOK, Boxes
  <2>2. TypeOK' BY <1>2, <2>1 DEF TypeOK
  <2>3. \A c \in Attempts : box'[c] = IF c = a THEN b ELSE box[c] BY <1>2 DEF TypeOK
  <2>4. InOrder' BY <1>2, <2>3 DEF InOrder
  <2>5. RemovedUnlessRefused' BY <1>2, <2>3 DEF RemovedUnlessRefused
  <2>q. QED BY <2>2, <2>4, <2>5
<1>q. QED BY <1>1, <1>2 DEF Exit, OutOfMemory

LEMMA StepProgress == ASSUME SandboxInv, Progress PROVE SandboxInv'
<1> USE DEF SandboxInv
<1>0. /\ attempt \in Attempts /\ box \in [Attempts -> Boxes]
      /\ from \in [Attempts -> 0..Images] /\ digest \in [Attempts -> 0..Images]
      /\ version \in 0..Images /\ seen \in BOOLEAN /\ code \in {0, 1, 137}
      /\ attempt \in Nat /\ \A a \in Attempts : a \in Nat
  BY AttemptIsNat DEF TypeOK
<1>1. CASE Create
  <2>1. /\ pc = "create" /\ pc' = "start" /\ box' = [box EXCEPT ![attempt] = "created"]
        /\ from' = [from EXCEPT ![attempt] = version]
        /\ UNCHANGED <<attempt, version, seen, code, outcome, digest, refused>>
    BY <1>1 DEF Create
  <2>2. box' \in [Attempts -> Boxes] /\ from' \in [Attempts -> 0..Images]
    BY <1>0, <2>1 DEF Boxes
  <2>3. \A a \in Attempts : box'[a] = IF a = attempt THEN "created" ELSE box[a]
    BY <1>0, <2>1
  <2>4. outcome[attempt] = "none" BY <1>0, <2>1 DEF InOrder
  <2>5. TypeOK' BY <2>1, <2>2 DEF TypeOK
  <2>6. InOrder' BY <1>0, <2>1, <2>3 DEF InOrder
  <2>7. RemovedUnlessRefused' BY <2>1, <2>3, <2>4 DEF RemovedUnlessRefused
  <2>q. QED BY <2>5, <2>6, <2>7
<1>2. CASE Start
  <2>1. /\ pc = "start" /\ pc' = "wait" /\ box' = [box EXCEPT ![attempt] = "running"]
        /\ UNCHANGED <<attempt, version, from, seen, code, outcome, digest, refused>>
    BY <1>2 DEF Start
  <2>2. box' \in [Attempts -> Boxes] BY <1>0, <2>1 DEF Boxes
  <2>3. \A a \in Attempts : box'[a] = IF a = attempt THEN "running" ELSE box[a]
    BY <1>0, <2>1
  <2>4. outcome[attempt] = "none" BY <1>0, <2>1 DEF InOrder
  <2>5. TypeOK' BY <2>1, <2>2 DEF TypeOK
  <2>6. InOrder' BY <1>0, <2>1, <2>3 DEF InOrder
  <2>7. RemovedUnlessRefused' BY <2>1, <2>3, <2>4 DEF RemovedUnlessRefused
  <2>q. QED BY <2>5, <2>6, <2>7
<1>3. CASE WaitEnds
  <2>1. /\ pc = "wait" /\ pc' = "logs" /\ code' \in {0, 1, 137}
        /\ UNCHANGED <<attempt, box, version, from, seen, outcome, digest, refused>>
    BY <1>3 DEF WaitEnds
  <2>2. TypeOK' BY <2>1 DEF TypeOK
  <2>q. QED BY <2>1, <2>2 DEF InOrder, RemovedUnlessRefused
<1>4. CASE ReadLogs
  <2>1. TypeOK' BY <1>4 DEF ReadLogs, TypeOK
  <2>q. QED BY <1>4, <2>1 DEF ReadLogs, InOrder, RemovedUnlessRefused
<1>5. CASE Inspect
  <2>1. /\ pc = "inspect" /\ pc' = "digest" /\ seen' \in BOOLEAN
        /\ UNCHANGED <<attempt, box, version, from, code, outcome, digest, refused>>
    BY <1>5 DEF Inspect
  <2>2. TypeOK' BY <2>1 DEF TypeOK
  <2>q. QED BY <2>1, <2>2 DEF InOrder, RemovedUnlessRefused
<1>6. CASE WaitTimesOut
  <2>1. /\ pc = "wait" /\ Return("timeout") /\ (Cleanup \/ KillAndRemove)
        /\ UNCHANGED <<attempt, version, from, seen, code, digest>>
    BY <1>6 DEF WaitTimesOut
  <2>2. "timeout" \in Outcomes \ {"none"} BY DEF Outcomes
  <2>q. QED BY <1>0, <2>1, <2>2, CleanupRemoves, ReturnKeeps
<1>7. CASE ReportOom
  <2>1. /\ pc = "digest" /\ Return("oom") /\ Cleanup
        /\ UNCHANGED <<attempt, version, from, seen, code, digest>>
    BY <1>7 DEF ReportOom
  <2>2. "oom" \in Outcomes \ {"none"} BY DEF Outcomes
  <2>q. QED BY <1>0, <2>1, <2>2, CleanupRemoves, ReturnKeeps
<1>8. CASE Complete
  <2>1. /\ pc = "digest" /\ Return("ok") /\ Cleanup
        /\ digest' = [digest EXCEPT ![attempt] = version]
        /\ UNCHANGED <<attempt, version, from, seen, code>>
    BY <1>8 DEF Complete
  <2>2. "ok" \in Outcomes \ {"none"} /\ digest' \in [Attempts -> 0..Images]
    BY <1>0, <2>1 DEF Outcomes
  <2>q. QED BY <1>0, <2>1, <2>2, CleanupRemoves, ReturnKeeps
<1>q. QED BY <1>1, <1>2, <1>3, <1>4, <1>5, <1>6, <1>7, <1>8 DEF Progress

(* The daemon refuses a request: the execution returns with its error, or, *)
(* where execute goes on, the refusal is on record.                        *)
LEMMA StepRefused == ASSUME SandboxInv, Refused PROVE SandboxInv'
<1> USE DEF SandboxInv
<1>0. /\ attempt \in Attempts /\ box \in [Attempts -> Boxes]
      /\ digest \in [Attempts -> 0..Images] /\ seen \in BOOLEAN /\ code \in {0, 1, 137}
  BY DEF TypeOK
<1>1. CASE WaitCloses
  <2>1. /\ pc = "wait" /\ pc' = "logs" /\ Refuse("wait")
        /\ UNCHANGED <<attempt, box, version, from, seen, code, outcome, digest>>
    BY <1>1 DEF WaitCloses
  <2>2. "wait" \in Calls BY DEF Calls
  <2>3. /\ refused' \in [Attempts -> SUBSET Calls]
        /\ \A a \in Attempts : refused'[a] = {} => refused[a] = {}
    BY <2>1, <2>2, RefuseRecords
  <2>4. TypeOK' BY <2>1, <2>3 DEF TypeOK
  <2>q. QED BY <2>1, <2>3, <2>4 DEF InOrder, RemovedUnlessRefused
<1>2. CASE WaitFails
  <2>1. /\ pc = "wait" /\ Return("docker") /\ Cleanup
        /\ UNCHANGED <<attempt, version, from, seen, code, digest>>
    BY <1>2 DEF WaitFails
  <2>2. "docker" \in Outcomes \ {"none"} BY DEF Outcomes
  <2>q. QED BY <1>0, <2>1, <2>2, CleanupRemoves, ReturnKeeps
<1>3. ASSUME NEW call \in {"create", "start", "logs", "inspect", "digest"}, FailsWith(call)
      PROVE  SandboxInv'
  <2>1. /\ pc = call /\ Refuse(call) /\ Return("docker")
        /\ UNCHANGED <<attempt, box, version, from, seen, code, digest>>
    BY <1>3 DEF FailsWith
  <2>2. "docker" \in Outcomes \ {"none"} /\ call \in Calls /\ pc # "returned"
    BY <2>1 DEF Outcomes, Calls
  <2>3. /\ refused' \in [Attempts -> SUBSET Calls] /\ refused'[attempt] # {}
        /\ \A a \in Attempts \ {attempt} : refused'[a] = refused[a]
    <3>1. /\ refused' \in [Attempts -> SUBSET Calls]
          /\ \A a \in Attempts :
                refused'[a] = IF a = attempt THEN refused[a] \cup {call} ELSE refused[a]
      BY <2>1, <2>2, RefuseRecords
    <3>2. call \in refused'[attempt] BY <1>0, <3>1
    <3>q. QED BY <3>1, <3>2
  <2>q. QED BY <1>0, <2>1, <2>2, <2>3, ReturnKeeps
<1>q. QED BY <1>1, <1>2, <1>3 DEF Refused, DigestFails

(* The engine's retry: the attempt it follows has returned.                *)
LEMMA StepRetry == ASSUME SandboxInv, Retry PROVE SandboxInv'
<1> USE DEF SandboxInv
<1>1. /\ pc = "returned" /\ attempt < MaxAttempts /\ attempt' = attempt + 1
      /\ pc' = "create" /\ seen' = FALSE /\ code' = 0
      /\ UNCHANGED <<box, version, from, outcome, digest, refused>>
  BY DEF Retry
<1>2. attempt \in Attempts /\ attempt' \in Attempts BY <1>1 DEF TypeOK, Attempts
<1>3. TypeOK' BY <1>1, <1>2 DEF TypeOK
<1>4. attempt \in Nat /\ \A a \in Attempts : a \in Nat BY <1>2, AttemptIsNat
<1>5. InOrder' BY <1>1, <1>2, <1>4 DEF InOrder
<1>q. QED BY <1>1, <1>3, <1>5 DEF RemovedUnlessRefused

LEMMA StepSandboxInv == SandboxInv /\ [Next]_vars => SandboxInv'
<1>1. ASSUME SandboxInv, UNCHANGED vars PROVE SandboxInv'
  BY <1>1 DEF SandboxInv, vars, TypeOK, InOrder, RemovedUnlessRefused
<1>q. QED BY <1>1, StepWorld, StepProgress, StepRefused, StepRetry DEF Next

THEOREM SandboxInvariant == Spec => []SandboxInv
BY InitSandboxInv, StepSandboxInv, PTL DEF Spec
-----------------------------------------------------------------------------
(* Every variable keeps its type: an execution that returned has an        *)
(* outcome to return.                                                      *)
THEOREM SandboxTypeCorrect == Spec => []TypeOK
<1>1. SandboxInv => TypeOK BY DEF SandboxInv
<1>q. QED BY <1>1, SandboxInvariant, PTL

(* No way out of execute leaves a container behind that the daemon did not *)
(* refuse to remove, and a retry runs beside no attempt before it unless   *)
(* the daemon refused that attempt something.                              *)
THEOREM NothingLeftBehind == Spec => []LeftBehindOnlyOnRefusal
<1>1. SandboxInv => LeftBehindOnlyOnRefusal
  <2> SUFFICES ASSUME SandboxInv PROVE LeftBehindOnlyOnRefusal OBVIOUS
  <2>1. ASSUME NEW a \in Attempts, NEW b \in Attempts, a < b,
               box[a] = "running", box[b] = "running"
        PROVE  refused[a] # {}
    <3>1. a \in Nat /\ b \in Nat /\ attempt \in Nat
      BY AttemptIsNat DEF SandboxInv, TypeOK
    <3>2. ~(b > attempt) BY <2>1 DEF SandboxInv, InOrder
    <3>3. outcome[a] # "none" BY <2>1, <3>1, <3>2 DEF SandboxInv, InOrder
    <3>q. QED BY <2>1, <3>3 DEF SandboxInv, RemovedUnlessRefused
  <2>q. QED BY <2>1 DEF SandboxInv, LeftBehindOnlyOnRefusal, AttemptsDoNotOverlap, RemovedUnlessRefused
<1>q. QED BY <1>1, SandboxInvariant, PTL
-----------------------------------------------------------------------------
HIDE SandboxAssumption
(* Evidence packs.  Whatever stands in a finding's directory is of one     *)
(* pack, and a manifest there is of a pack that was accepted whole.        *)
OnePack(f) ==
    \A x \in InPack : packDir[f][x] # Gone =>
        /\ packDir[f][x].pack \in 1..Len(packs)
        /\ packs[packDir[f][x].pack].finding = f
        /\ packDir[f][x].files = packs[packDir[f][x].pack].files \cup Generated
        /\ x = "manifest.json" => ~packs[packDir[f][x].pack].unsafe
        /\ \A y \in InPack : packDir[f][y] # Gone => packDir[f][y].pack = packDir[f][x].pack

(* A save that writes has removed what was there, and writes the manifest  *)
(* only when nothing of the pack was refused.                              *)
SaveInOrder ==
    save.stage # "idle" =>
        /\ save.finding \in Packed /\ Current \in 1..MaxPacks /\ packs[Current].finding = save.finding
        /\ save.stage \in {"writing", "manifest"} =>
              \A x \in InPack : packDir[save.finding][x] # Gone =>
                  packDir[save.finding][x].pack = Current /\ x # "manifest.json"
        /\ save.stage # "manifest" /\ packs[Current].unsafe => save.left # <<>>
        /\ save.stage = "manifest" => ~packs[Current].unsafe

(* Of a finding that no save disturbed, the archive and what is still to   *)
(* be read are what its manifest lists, from the manifest's pack.          *)
Manifest(f) == packDir[f]["manifest.json"]
Touched(f) ==
    \/ \E x \in InPack : <<f, x>> \in export.listed
    \/ \E x \in InPack, n \in 1..MaxPacks : <<f, x, n>> \in zip
FollowsManifest(f) ==
    Touched(f) =>
        /\ f \notin export.left
        /\ f \notin disturbed =>
              /\ Manifest(f) # Gone
              /\ \A x \in InPack : <<f, x>> \in export.listed => x \in Manifest(f).files
              /\ \A x \in InPack, n \in 1..MaxPacks : <<f, x, n>> \in zip =>
                     x \in Manifest(f).files /\ n = Manifest(f).pack
              /\ \A x \in Manifest(f).files :
                     <<f, x>> \in export.listed \/ <<f, x, Manifest(f).pack>> \in zip
ExportFollows ==
    /\ export.stage = "reading" => \A f \in Packed : FollowsManifest(f)
    /\ export.stage = "idle" => export.listed = {}

PackInv ==
    /\ PackTypeOK /\ SaveInOrder /\ ExportFollows /\ ExportIsOnePack
    /\ \A f \in Packed : OnePack(f)
-----------------------------------------------------------------------------
LEMMA PacksGrow ==
    ASSUME NEW n \in Nat, packs \in Seq(SavedPack), n \in 1..Len(packs)
    PROVE  /\ packs[n] \in SavedPack /\ packs[n].finding \in Packed
           /\ packs[n].files \in SUBSET PackFiles /\ packs[n].unsafe \in BOOLEAN
<1>1. packs[n] \in SavedPack OBVIOUS
<1>q. QED BY <1>1 DEF SavedPack

LEMMA EntryWritten ==
    ASSUME PackTypeOK, NEW f \in Packed, NEW x \in InPack, NEW v \in PackEntry,
           packDir' = [packDir EXCEPT ![f][x] = v]
    PROVE  /\ packDir' \in [Packed -> [InPack -> PackEntry]]
           /\ \A g \in Packed, y \in InPack :
                  packDir'[g][y] = IF g = f /\ y = x THEN v ELSE packDir[g][y]
<1>1. packDir \in [Packed -> [InPack -> PackEntry]] BY DEF PackTypeOK
<1>2. [packDir[f] EXCEPT ![x] = v] \in [InPack -> PackEntry] BY <1>1
<1>3. packDir' = [packDir EXCEPT ![f] = [packDir[f] EXCEPT ![x] = v]] BY <1>1
<1>4. packDir' \in [Packed -> [InPack -> PackEntry]] BY <1>1, <1>2, <1>3
<1>5. packDir'[f] = [packDir[f] EXCEPT ![x] = v] BY <1>1, <1>3
<1>6. \A g \in Packed : g # f => packDir'[g] = packDir[g] BY <1>1, <1>3
<1>7. \A y \in InPack : packDir'[f][y] = IF y = x THEN v ELSE packDir[f][y] BY <1>1, <1>5
<1>q. QED BY <1>4, <1>6, <1>7

(* packs only grows. *)
Grows == /\ Len(packs) <= Len(packs')
         /\ \A n \in 1..Len(packs) : n \in 1..Len(packs') /\ packs'[n] = packs[n]

LEMMA OnePackKept ==
    ASSUME NEW f \in Packed, OnePack(f), Grows, packs \in Seq(SavedPack),
           \A y \in InPack : packDir'[f][y] = packDir[f][y]
    PROVE  OnePack(f)'
BY DEF OnePack, Grows

(* A step of a save leaves the export alone: what it changes it disturbs.  *)
LEMMA ExportKept ==
    ASSUME PackInv, UNCHANGED <<export, zip>>, Grows,
           disturbed \subseteq disturbed', export.stage # "reading" => disturbed' = disturbed,
           \A f \in Packed : \/ export.stage # "reading" \/ f \in disturbed'
                             \/ \A y \in InPack : packDir'[f][y] = packDir[f][y]
    PROVE  ExportFollows' /\ ExportIsOnePack'
<1>0. packs \in Seq(SavedPack) /\ Len(packs) \in Nat BY DEF PackInv, PackTypeOK
<1>1. ExportFollows'
  <2>1. ASSUME NEW f \in Packed, export.stage = "reading" PROVE FollowsManifest(f)'
    <3>1. FollowsManifest(f) BY <2>1 DEF PackInv, ExportFollows
    <3>2. Touched(f)' <=> Touched(f) BY DEF Touched
    <3>3. CASE f \in disturbed' BY <3>1, <3>2, <3>3 DEF FollowsManifest
    <3>4. CASE f \notin disturbed'
      <4>1. f \notin disturbed /\ Manifest(f)' = Manifest(f)
        BY <2>1, <3>4 DEF Manifest, InPack, Generated
      <4>q. QED BY <3>1, <3>2, <4>1 DEF FollowsManifest
    <3>q. QED BY <3>3, <3>4
  <2>q. QED BY <2>1 DEF PackInv, ExportFollows
<1>2. ExportIsOnePack'
  <2> SUFFICES ASSUME export'.stage = "done", NEW f \in {e[1] : e \in zip'} \ disturbed'
               PROVE  \E n \in DOMAIN packs' :
                        /\ packs'[n].finding = f /\ ~packs'[n].unsafe
                        /\ {e \in zip' : e[1] = f} = {<<f, x, n>> : x \in packs'[n].files \cup Generated}
    BY DEF ExportIsOnePack
  <2>1. PICK n \in DOMAIN packs :
            /\ packs[n].finding = f /\ ~packs[n].unsafe
            /\ {e \in zip : e[1] = f} = {<<f, x, n>> : x \in packs[n].files \cup Generated}
    BY DEF PackInv, ExportIsOnePack
  <2>2. n \in 1..Len(packs) BY <1>0, <2>1
  <2>3. n \in DOMAIN packs' /\ packs'[n] = packs[n] BY <2>2 DEF Grows
  <2>q. QED BY <2>1, <2>3
<1>q. QED BY <1>1, <1>2
-----------------------------------------------------------------------------
LEMMA InitPackInv == PackAssumption /\ PackInit => PackInv
<1> SUFFICES ASSUME PackAssumption, PackInit PROVE PackInv OBVIOUS
<1>1. PackTypeOK
  <2>1. Gone \in PackEntry /\ NoSave \in Saving /\ NoExport \in Exporting
    BY DEF PackAssumption, Gone, PackEntry, NoSave, Saving, NoExport, Exporting
  <2>2. packs \in Seq(SavedPack) /\ Len(packs) <= MaxPacks
    BY DEF PackInit, PackAssumption
  <2>q. QED BY <2>1, <2>2 DEF PackInit, PackTypeOK
<1>2. SaveInOrder BY DEF PackInit, SaveInOrder, NoSave
<1>3. ExportFollows /\ ExportIsOnePack
  BY DEF PackInit, ExportFollows, ExportIsOnePack, NoExport
<1>4. \A f \in Packed : OnePack(f) BY DEF PackInit, OnePack
<1>q. QED BY <1>1, <1>2, <1>3, <1>4 DEF PackInv

LEMMA StepBegin == PackAssumption /\ PackInv /\ Begin => PackInv'
<1> SUFFICES ASSUME PackAssumption, PackInv, Begin PROVE PackInv' OBVIOUS
<1>0. packs \in Seq(SavedPack) /\ Len(packs) \in Nat /\ Len(packs) <= MaxPacks /\ MaxPacks \in Nat
      /\ save \in Saving
  BY DEF PackInv, PackTypeOK, PackAssumption
<1>1. PICK f \in Packed, pack \in Packs :
        /\ save.stage = "idle" /\ Len(packs) < MaxPacks
        /\ pack.unsafe => pack.files # <<>>
        /\ IF pack.reproducible
           THEN /\ packs' = Append(packs, [finding |-> f, files |-> FileSet(pack), unsafe |-> pack.unsafe])
                /\ save' = [stage |-> "removing", finding |-> f, left |-> pack.files]
           ELSE UNCHANGED <<packs, save>>
        /\ UNCHANGED <<packDir, export, zip, disturbed, artifacts>>
  BY DEF Begin
<1>2. CASE ~pack.reproducible
  <2>1. UNCHANGED packVars \/ UNCHANGED <<packs, save, packDir, export, zip, disturbed>>
    BY <1>1, <1>2
  <2>2. UNCHANGED <<packs, save, packDir, export, zip, disturbed>> BY <2>1 DEF packVars
  <2>3. Grows BY <1>0, <2>2 DEF Grows
  <2>4. ExportFollows' /\ ExportIsOnePack' BY <2>2, <2>3, ExportKept
  <2>5. \A g \in Packed : OnePack(g)' BY <1>0, <2>2, <2>3, OnePackKept DEF PackInv
  <2>q. QED BY <2>2, <2>4, <2>5 DEF PackInv, PackTypeOK, SaveInOrder, Current
<1>3. CASE pack.reproducible
  <2> DEFINE new == [finding |-> f, files |-> FileSet(pack), unsafe |-> pack.unsafe]
  <2>1. pack.files \in Seq(PackFiles) /\ pack.unsafe \in BOOLEAN /\ FileSet(pack) \subseteq PackFiles
    <3>1. pack.unsafe \in BOOLEAN BY DEF Packs
    <3>2. PICK n \in 0..Cardinality(PackFiles) : pack.files \in [1..n -> PackFiles] BY DEF Packs
    <3>3. Cardinality(PackFiles) \in Nat \/ n \in Nat BY <3>2
    <3>4. n \in Nat BY <3>3
    <3>5. pack.files \in Seq(PackFiles) BY <3>2, <3>4
    <3>q. QED BY <3>1, <3>2, <3>5 DEF FileSet
  <2>2. new \in SavedPack /\ new.finding = f /\ new.unsafe = pack.unsafe BY <2>1 DEF SavedPack
  <2>3. packs' = Append(packs, new) BY <1>1, <1>3
  <2>4. /\ save'.stage = "removing" /\ save'.finding = f /\ save'.left = pack.files /\ save' \in Saving
    BY <1>1, <1>3, <2>1 DEF Saving
  <2> HIDE DEF new
  <2>5. /\ packs' \in Seq(SavedPack) /\ Len(packs') = Len(packs) + 1 /\ packs'[Len(packs')] = new
        /\ \A n \in 1..Len(packs) : packs'[n] = packs[n]
    BY <1>0, <2>2, <2>3
  <2>6. Grows BY <1>0, <2>5 DEF Grows
  <2>7. PackTypeOK' BY <1>0, <1>1, <2>4, <2>5 DEF PackInv, PackTypeOK
  <2>8. SaveInOrder'
    BY <1>0, <1>1, <2>1, <2>2, <2>4, <2>5 DEF SaveInOrder, Current
  <2>9. \A g \in Packed : OnePack(g)' BY <1>0, <1>1, <2>6, OnePackKept DEF PackInv
  <2>10. ExportFollows' /\ ExportIsOnePack' BY <1>1, <2>6, ExportKept
  <2>q. QED BY <2>7, <2>8, <2>9, <2>10 DEF PackInv
<1>q. QED BY <1>2, <1>3

(* What a save writes or removes disturbs its own finding alone.           *)
LEMMA DisturbsOwn ==
    ASSUME PackInv, save.stage # "idle", UNCHANGED <<packs, export, zip>>, disturbed' = Disturb(save.finding),
           \A f \in Packed \ {save.finding}, y \in InPack : packDir'[f][y] = packDir[f][y]
    PROVE  /\ ExportFollows' /\ ExportIsOnePack' /\ disturbed' \subseteq Packed
           /\ \A f \in Packed \ {save.finding} : OnePack(f)'
<1>1. save.finding \in Packed /\ packs \in Seq(SavedPack) /\ Len(packs) \in Nat /\ disturbed \subseteq Packed
  BY DEF PackInv, SaveInOrder, PackTypeOK
<1>2. Grows BY <1>1 DEF Grows
<1>3. \A f \in Packed \ {save.finding} : OnePack(f)' BY <1>1, <1>2, OnePackKept DEF PackInv
<1>4. /\ disturbed \subseteq disturbed' /\ disturbed' \subseteq Packed
      /\ export.stage # "reading" => disturbed' = disturbed
      /\ export.stage = "reading" => save.finding \in disturbed'
  BY <1>1 DEF Disturb
<1>5. \A f \in Packed : \/ export.stage # "reading" \/ f \in disturbed'
                         \/ \A y \in InPack : packDir'[f][y] = packDir[f][y]
  BY <1>4
<1>q. QED BY <1>2, <1>3, <1>4, <1>5, ExportKept

LEMMA StepRemoveOld == PackAssumption /\ PackInv /\ RemoveOld => PackInv'
<1> SUFFICES ASSUME PackAssumption, PackInv, RemoveOld PROVE PackInv' OBVIOUS
<1>f. PICK f \in Packed : f = save.finding BY DEF PackInv, RemoveOld, SaveInOrder
<1>0. /\ f \in Packed /\ f = save.finding /\ save \in Saving /\ packDir \in [Packed -> [InPack -> PackEntry]]
      /\ save.stage = "removing" /\ UNCHANGED <<packs, export, zip>> /\ disturbed' = Disturb(f)
      /\ OnePack(f) /\ Gone \in PackEntry
  BY <1>f DEF PackInv, PackTypeOK, RemoveOld, PackAssumption, PackEntry, Gone
<1>1. CASE Present(f) = {}
  <2>1. save' = [save EXCEPT !.stage = "writing"] /\ packDir' = packDir
    BY <1>0, <1>1 DEF RemoveOld, Old
  <2>2. /\ save' \in Saving /\ save'.stage = "writing" /\ save'.finding = f /\ save'.left = save.left
    BY <1>0, <2>1 DEF Saving
  <2>3. /\ ExportFollows' /\ ExportIsOnePack' /\ disturbed' \subseteq Packed
        /\ \A g \in Packed \ {f} : OnePack(g)'
    BY <1>0, <2>1, DisturbsOwn
  <2>4. OnePack(f)' BY <1>0, <2>1 DEF OnePack
  <2>5. PackTypeOK' BY <1>0, <2>1, <2>2, <2>3 DEF PackInv, PackTypeOK
  <2>6. \A x \in InPack : packDir'[f][x] = Gone BY <1>1, <2>1 DEF Present
  <2>7. SaveInOrder' BY <1>0, <2>2, <2>6 DEF PackInv, SaveInOrder, Current
  <2>q. QED BY <2>3, <2>4, <2>5, <2>7 DEF PackInv
<1>2. CASE Present(f) # {}
  <2>1. save' = save /\ \E x \in Present(f) : packDir' = [packDir EXCEPT ![f][x] = Gone]
    BY <1>0, <1>2 DEF RemoveOld, Old
  <2>2. PICK x \in InPack : packDir' = [packDir EXCEPT ![f][x] = Gone] BY <2>1 DEF Present
  <2>3. /\ packDir' \in [Packed -> [InPack -> PackEntry]]
        /\ \A g \in Packed, y \in InPack :
              packDir'[g][y] = IF g = f /\ y = x THEN Gone ELSE packDir[g][y]
    BY <1>0, <2>2, EntryWritten DEF PackInv
  <2>4. /\ ExportFollows' /\ ExportIsOnePack' /\ disturbed' \subseteq Packed
        /\ \A g \in Packed \ {f} : OnePack(g)'
    BY <1>0, <2>3, DisturbsOwn
  <2>5. \A y \in InPack : packDir'[f][y] # Gone => packDir'[f][y] = packDir[f][y] BY <1>0, <2>3
  <2>6. OnePack(f)' BY <1>0, <2>5 DEF OnePack
  <2>7. PackTypeOK' BY <1>0, <2>1, <2>3, <2>4 DEF PackInv, PackTypeOK
  <2>8. SaveInOrder' BY <1>0, <2>1 DEF PackInv, SaveInOrder, Current
  <2>q. QED BY <2>4, <2>6, <2>7, <2>8 DEF PackInv
<1>q. QED BY <1>1, <1>2

(* A write of a save: the file joins those of its own pack.                *)
LEMMA WriteOwn ==
    ASSUME PackAssumption, PackInv, save.stage \in {"writing", "manifest"}, NEW x \in InPack, Write(x),
           x = "manifest.json" => ~packs[Current].unsafe,
           UNCHANGED <<packs, export, zip>>, disturbed' = Disturb(save.finding)
    PROVE  /\ packDir' \in [Packed -> [InPack -> PackEntry]]
           /\ ExportFollows' /\ ExportIsOnePack' /\ disturbed' \subseteq Packed
           /\ \A g \in Packed : OnePack(g)'
           /\ \A y \in InPack : packDir'[save.finding][y] # Gone =>
                 packDir'[save.finding][y].pack = Current /\ (y = "manifest.json" => x = y)
<1>1. PICK f \in Packed : f = save.finding BY DEF PackInv, SaveInOrder
<1>2. PICK n \in 1..MaxPacks : n = Current BY DEF PackInv, SaveInOrder
<1>3. /\ packs \in Seq(SavedPack) /\ n = Len(packs) /\ n \in Nat /\ n \in 1..Len(packs)
      /\ packDir \in [Packed -> [InPack -> PackEntry]] /\ MaxPacks \in Nat
  BY <1>2 DEF PackInv, PackTypeOK, PackAssumption, Current
<1>4. PICK files \in SUBSET InPack : files = packs[n].files \cup Generated
  BY <1>3, PacksGrow DEF InPack
<1> DEFINE new == Entry(n, files)
<1>5. new \in PackEntry /\ new # Gone /\ new.pack = n /\ new.files = files
  BY <1>3 DEF Entry, PackEntry, Gone
<1>6. packDir' = [packDir EXCEPT ![f][x] = new] BY <1>1, <1>2, <1>4 DEF Write
<1> HIDE DEF new
<1>7. /\ packDir' \in [Packed -> [InPack -> PackEntry]]
      /\ \A g \in Packed, y \in InPack :
            packDir'[g][y] = IF g = f /\ y = x THEN new ELSE packDir[g][y]
  <2>1. PackTypeOK BY DEF PackInv
  <2>q. QED BY <1>5, <1>6, <2>1, EntryWritten
<1>8. /\ ExportFollows' /\ ExportIsOnePack' /\ disturbed' \subseteq Packed
      /\ \A g \in Packed \ {f} : OnePack(g)'
  BY <1>1, <1>7, DisturbsOwn
<1>9. \A y \in InPack : packDir[f][y] # Gone => packDir[f][y].pack = n /\ y # "manifest.json"
  BY <1>1, <1>2 DEF PackInv, SaveInOrder
<1>10. \A y \in InPack : packDir'[f][y] # Gone =>
          packDir'[f][y].pack = n /\ packDir'[f][y].files = files /\ (y = "manifest.json" => x = y)
  <2>1. \A y \in InPack : packDir[f][y] # Gone => packDir[f][y].files = files
    BY <1>4, <1>9 DEF PackInv, OnePack
  <2>q. QED BY <1>5, <1>7, <1>9, <2>1
<1>11. packs[n].finding = f /\ packs' = packs BY <1>1, <1>2 DEF PackInv, SaveInOrder
<1>12. OnePack(f)' BY <1>2, <1>3, <1>4, <1>10, <1>11 DEF OnePack
<1>q. QED BY <1>1, <1>2, <1>7, <1>8, <1>10, <1>12

LEMMA StepWriteNext == PackAssumption /\ PackInv /\ WriteNext => PackInv'
<1> SUFFICES ASSUME PackAssumption, PackInv, WriteNext PROVE PackInv' OBVIOUS
<1>0. /\ save \in Saving /\ save.stage \in {"writing", "manifest"} /\ save.left \in Seq(PackFiles)
      /\ UNCHANGED <<packs, export, zip>> /\ disturbed' = Disturb(save.finding)
      /\ NoSave \in Saving /\ NoSave.stage = "idle"
      /\ packs \in Seq(SavedPack) /\ Len(packs) <= MaxPacks /\ export \in Exporting
      /\ zip \subseteq Packed \X InPack \X (1..MaxPacks)
      /\ save.finding \in Packed /\ Current' = Current
  BY DEF PackInv, PackTypeOK, WriteNext, SaveInOrder, Saving, NoSave, Current
<1>1. CASE save.stage = "manifest"
  <2>1. Write("manifest.json") /\ save' = NoSave BY <1>1 DEF WriteNext
  <2>2. "manifest.json" \in InPack /\ ~packs[Current].unsafe
    BY <1>1 DEF InPack, Generated, PackInv, SaveInOrder
  <2>3. /\ packDir' \in [Packed -> [InPack -> PackEntry]]
        /\ ExportFollows' /\ ExportIsOnePack' /\ disturbed' \subseteq Packed
        /\ \A g \in Packed : OnePack(g)'
    BY <1>0, <2>1, <2>2, WriteOwn
  <2>4. PackTypeOK' BY <1>0, <2>1, <2>3 DEF PackTypeOK
  <2>5. SaveInOrder' BY <1>0, <2>1 DEF SaveInOrder
  <2>q. QED BY <2>3, <2>4, <2>5 DEF PackInv
<1>2. CASE save.stage = "writing" /\ save.left = <<>>
  <2>1. Write("reproduce.sh") /\ save' = [save EXCEPT !.stage = "manifest"]
    BY <1>2 DEF WriteNext
  <2>2. /\ save' \in Saving /\ save'.stage = "manifest" /\ save'.finding = save.finding
    BY <1>0, <2>1 DEF Saving
  <2>3. "reproduce.sh" \in InPack BY DEF InPack, Generated
  <2>4. /\ packDir' \in [Packed -> [InPack -> PackEntry]]
        /\ ExportFollows' /\ ExportIsOnePack' /\ disturbed' \subseteq Packed
        /\ \A g \in Packed : OnePack(g)'
        /\ \A y \in InPack : packDir'[save.finding][y] # Gone =>
              packDir'[save.finding][y].pack = Current /\ y # "manifest.json"
    BY <1>0, <2>1, <2>3, WriteOwn
  <2>5. PackTypeOK' BY <1>0, <2>2, <2>4 DEF PackTypeOK
  <2>6. ~packs[Current].unsafe /\ Current \in 1..MaxPacks /\ packs[Current].finding = save.finding
    BY <1>2 DEF PackInv, SaveInOrder
  <2>7. packs'[Current'] = packs[Current] BY <1>0
  <2>8. SaveInOrder'
    <3>1. \A y \in InPack : packDir'[save'.finding][y] # Gone =>
              packDir'[save'.finding][y].pack = Current' /\ y # "manifest.json"
      BY <1>0, <2>2, <2>4
    <3>2. Current' \in 1..MaxPacks /\ packs'[Current'].finding = save'.finding /\ ~packs'[Current'].unsafe
      BY <1>0, <2>2, <2>6, <2>7
    <3>3. save'.finding \in Packed /\ save'.stage = "manifest" BY <1>0, <2>2
    <3>q. QED BY <3>1, <3>2, <3>3 DEF SaveInOrder
  <2>q. QED BY <2>4, <2>5, <2>8 DEF PackInv
<1>3. CASE save.stage = "writing" /\ save.left # <<>> /\ save' = NoSave /\ UNCHANGED packDir
  <2>1. /\ ExportFollows' /\ ExportIsOnePack' /\ disturbed' \subseteq Packed
        /\ \A g \in Packed \ {save.finding} : OnePack(g)'
    BY <1>0, <1>3, DisturbsOwn
  <2>2. Grows BY <1>0 DEF Grows
  <2>3. \A g \in Packed : OnePack(g)' BY <1>0, <1>3, <2>2, OnePackKept DEF PackInv
  <2>4. PackTypeOK' BY <1>0, <1>3, <2>1 DEF PackInv, PackTypeOK
  <2>5. SaveInOrder' BY <1>0, <1>3 DEF SaveInOrder
  <2>q. QED BY <2>1, <2>3, <2>4, <2>5 DEF PackInv
<1>4. CASE /\ save.stage = "writing" /\ save.left # <<>> /\ ~(packs[Current].unsafe /\ Len(save.left) = 1)
           /\ Write(Head(save.left)) /\ save' = [save EXCEPT !.left = Tail(@)]
  <2>1. /\ Head(save.left) \in PackFiles /\ Tail(save.left) \in Seq(PackFiles)
        /\ packs[Current].unsafe => Tail(save.left) # <<>>
    <3>1. /\ Head(save.left) \in PackFiles /\ Tail(save.left) \in Seq(PackFiles)
          /\ Len(Tail(save.left)) = Len(save.left) - 1 /\ Len(save.left) \in Nat \ {0}
      BY <1>0, <1>4
    <3>2. Len(<<>>) = 0 OBVIOUS
    <3>3. ASSUME Tail(save.left) = <<>> PROVE Len(save.left) = 1
      <4>1. Len(Tail(save.left)) = 0 BY <3>2, <3>3, Zenon
      <4>q. QED BY <3>1, <4>1
    <3>q. QED BY <1>4, <3>1, <3>3
  <2>2. PICK x \in PackFiles : x = Head(save.left) BY <2>1
  <2>3. x \in InPack /\ x # "manifest.json" BY DEF InPack, PackAssumption
  <2>4. /\ save' \in Saving /\ save'.stage = "writing" /\ save'.finding = save.finding
        /\ save'.left = Tail(save.left)
    BY <1>0, <1>4, <2>1 DEF Saving
  <2>5. /\ packDir' \in [Packed -> [InPack -> PackEntry]]
        /\ ExportFollows' /\ ExportIsOnePack' /\ disturbed' \subseteq Packed
        /\ \A g \in Packed : OnePack(g)'
        /\ \A y \in InPack : packDir'[save.finding][y] # Gone =>
              packDir'[save.finding][y].pack = Current /\ y # "manifest.json"
    <3>1. Write(x) BY <1>4, <2>2
    <3>q. QED BY <1>0, <2>3, <3>1, WriteOwn
  <2>6. PackTypeOK' BY <1>0, <2>4, <2>5 DEF PackTypeOK
  <2>7. Current \in 1..MaxPacks /\ packs[Current].finding = save.finding
    BY <1>4 DEF PackInv, SaveInOrder
  <2>8. packs'[Current'] = packs[Current] BY <1>0
  <2>9. SaveInOrder'
    <3>1. \A y \in InPack : packDir'[save'.finding][y] # Gone =>
              packDir'[save'.finding][y].pack = Current' /\ y # "manifest.json"
      BY <1>0, <2>4, <2>5
    <3>2. Current' \in 1..MaxPacks /\ packs'[Current'].finding = save'.finding
          /\ (packs'[Current'].unsafe => save'.left # <<>>)
      BY <1>0, <2>1, <2>4, <2>7, <2>8
    <3>3. save'.finding \in Packed /\ save'.stage = "writing" BY <1>0, <2>4
    <3>q. QED BY <3>1, <3>2, <3>3 DEF SaveInOrder
  <2>q. QED BY <2>5, <2>6, <2>9 DEF PackInv
<1>q. QED BY <1>0, <1>1, <1>2, <1>3, <1>4 DEF WriteNext

(* What leaves the directories and the save as they are.                  *)
LEMMA DirsStay ==
    ASSUME PackInv, UNCHANGED <<packDir, packs, save>>
    PROVE  SaveInOrder' /\ \A g \in Packed : OnePack(g)'
<1>1. SaveInOrder' BY DEF PackInv, SaveInOrder, Current
<1>2. packs \in Seq(SavedPack) /\ Len(packs) \in Nat BY DEF PackInv, PackTypeOK
<1>3. Grows BY <1>2 DEF Grows
<1>4. \A g \in Packed : OnePack(g)' BY <1>2, <1>3, OnePackKept DEF PackInv
<1>q. QED BY <1>1, <1>4

LEMMA StepSaveStops == PackInv /\ (SaveStops \/ SaveArtifact \/ UNCHANGED packVars) => PackInv'
<1> SUFFICES ASSUME PackInv, SaveStops \/ SaveArtifact \/ UNCHANGED packVars PROVE PackInv'
  OBVIOUS
<1>1. /\ UNCHANGED <<packDir, packs, export, zip, disturbed>>
      /\ save' = NoSave \/ save' = save
  BY DEF SaveStops, SaveArtifact, packVars
<1>2. packs \in Seq(SavedPack) /\ Len(packs) \in Nat BY DEF PackInv, PackTypeOK
<1>3. Grows BY <1>1, <1>2 DEF Grows
<1>4. ExportFollows' /\ ExportIsOnePack' BY <1>1, <1>3, ExportKept
<1>5. \A g \in Packed : OnePack(g)' BY <1>1, <1>2, <1>3, OnePackKept DEF PackInv
<1>6. PackTypeOK'
  <2>1. NoSave \in Saving BY DEF NoSave, Saving
  <2>2. save' \in Saving BY <1>1, <2>1 DEF PackInv, PackTypeOK
  <2>q. QED BY <1>1, <2>2 DEF PackInv, PackTypeOK
<1>7. SaveInOrder'
  <2>1. CASE save' = NoSave BY <2>1 DEF SaveInOrder, NoSave
  <2>2. CASE save' = save BY <1>1, <2>2, DirsStay
  <2>q. QED BY <1>1, <2>1, <2>2
<1>q. QED BY <1>4, <1>5, <1>6, <1>7 DEF PackInv
-----------------------------------------------------------------------------
(* The export reads: the directories and the save stay as they are.        *)
LEMMA StepStartExport == PackInv /\ StartExport => PackInv'
<1> SUFFICES ASSUME PackInv, StartExport PROVE PackInv' OBVIOUS
<1>1. PICK findings \in SUBSET Packed :
        /\ export' = [stage |-> "reading", left |-> findings, listed |-> {}]
        /\ zip' = {} /\ disturbed' = IF save.stage = "idle" THEN {} ELSE {save.finding}
        /\ UNCHANGED <<packDir, packs, save, artifacts>>
  BY DEF StartExport
<1>2. /\ export' \in Exporting /\ export'.stage = "reading" /\ export'.listed = {}
      /\ disturbed' \subseteq Packed
  BY <1>1 DEF Exporting, PackInv, SaveInOrder
<1>3. PackTypeOK' BY <1>1, <1>2 DEF PackInv, PackTypeOK
<1>4. ExportFollows' /\ ExportIsOnePack'
  BY <1>1, <1>2 DEF ExportFollows, FollowsManifest, Touched, ExportIsOnePack
<1>q. QED BY <1>1, <1>3, <1>4, DirsStay DEF PackInv

(* An archive that has read everything its manifests list.                 *)
LEMMA DoneIsWhole ==
    ASSUME PackInv, export.stage = "reading", export.listed = {}, UNCHANGED <<packDir, packs, zip, disturbed>>
    PROVE  ExportIsOnePack'
<1> SUFFICES ASSUME NEW f \in {e[1] : e \in zip} \ disturbed
             PROVE  \E n \in DOMAIN packs :
                      /\ packs[n].finding = f /\ ~packs[n].unsafe
                      /\ {e \in zip : e[1] = f} = {<<f, x, n>> : x \in packs[n].files \cup Generated}
  BY DEF ExportIsOnePack
<1>1. zip \subseteq Packed \X InPack \X (1..MaxPacks) BY DEF PackInv, PackTypeOK
<1>2. f \in Packed /\ Touched(f) BY <1>1 DEF Touched
<1>3. "manifest.json" \in InPack BY DEF InPack, Generated
<1>4. /\ Manifest(f) # Gone
      /\ \A x \in InPack, n \in 1..MaxPacks : <<f, x, n>> \in zip =>
             x \in Manifest(f).files /\ n = Manifest(f).pack
      /\ \A x \in Manifest(f).files : <<f, x, Manifest(f).pack>> \in zip
  BY <1>2 DEF PackInv, ExportFollows, FollowsManifest
<1>5. PICK m \in 1..Len(packs) :
        /\ m = Manifest(f).pack /\ packs[m].finding = f /\ ~packs[m].unsafe
        /\ Manifest(f).files = packs[m].files \cup Generated
  BY <1>2, <1>3, <1>4 DEF PackInv, OnePack, Manifest
<1>6. m \in DOMAIN packs
  <2>1. packs \in Seq(SavedPack) BY DEF PackInv, PackTypeOK
  <2>q. QED BY <1>5, <2>1
<1>7. \A e \in zip : e[1] = f => e \in {<<f, x, m>> : x \in packs[m].files \cup Generated}
  BY <1>1, <1>4, <1>5
<1>8. \A x \in packs[m].files \cup Generated : <<f, x, m>> \in zip BY <1>4, <1>5
<1>9. {e \in zip : e[1] = f} = {<<f, x, m>> : x \in packs[m].files \cup Generated}
  BY <1>7, <1>8
<1>q. QED BY <1>5, <1>6, <1>9

LEMMA StepLoadManifest == PackInv /\ LoadManifest => PackInv'
<1> SUFFICES ASSUME PackInv, LoadManifest PROVE PackInv' OBVIOUS
<1>0. /\ export.stage = "reading" /\ export.listed = {}
      /\ UNCHANGED <<packDir, packs, save, zip, disturbed>> /\ export \in Exporting
      /\ packDir \in [Packed -> [InPack -> PackEntry]]
  BY DEF LoadManifest, PackInv, PackTypeOK
<1>1. CASE export.left = {}
  <2>1. export' = [export EXCEPT !.stage = "done"] BY <1>1 DEF LoadManifest
  <2>2. export' \in Exporting /\ export'.stage = "done" BY <1>0, <2>1 DEF Exporting
  <2>3. PackTypeOK' BY <1>0, <2>2 DEF PackInv, PackTypeOK
  <2>4. ExportFollows' BY <2>2 DEF ExportFollows
  <2>q. QED BY <1>0, <2>3, <2>4, DoneIsWhole, DirsStay DEF PackInv
<1>2. CASE export.left # {}
  <2>1. PICK f \in export.left :
          export' = IF Manifest(f) = Gone THEN [NoExport EXCEPT !.stage = "failed"]
                    ELSE [export EXCEPT !.left = @ \ {f}, !.listed = {<<f, x>> : x \in Manifest(f).files}]
    BY <1>2 DEF LoadManifest, Manifest
  <2>2. CASE Manifest(f) = Gone
    <3>1. export' \in Exporting /\ export'.stage = "failed" BY <2>1, <2>2 DEF NoExport, Exporting
    <3>2. PackTypeOK' BY <1>0, <3>1 DEF PackInv, PackTypeOK
    <3>3. ExportFollows' /\ ExportIsOnePack' BY <3>1 DEF ExportFollows, ExportIsOnePack
    <3>q. QED BY <1>0, <3>2, <3>3, DirsStay DEF PackInv
  <2>3. CASE Manifest(f) # Gone
    <3>1. f \in Packed /\ Manifest(f).files \subseteq InPack
      <4>1. f \in Packed BY <1>0 DEF Exporting
      <4>2. "manifest.json" \in InPack BY DEF InPack, Generated
      <4>3. Manifest(f) \in PackEntry BY <1>0, <4>1, <4>2 DEF Manifest
      <4>q. QED BY <4>1, <4>3 DEF PackEntry
    <3>2. /\ export' \in Exporting /\ export'.stage = "reading" /\ export'.left = export.left \ {f}
          /\ export'.listed = {<<f, x>> : x \in Manifest(f).files}
      <4>1. {<<f, x>> : x \in Manifest(f).files} \subseteq Packed \X InPack BY <3>1
      <4>q. QED BY <1>0, <2>1, <2>3, <4>1 DEF Exporting
    <3>3. PackTypeOK' BY <1>0, <3>2 DEF PackInv, PackTypeOK
    <3>4. ASSUME NEW g \in Packed PROVE FollowsManifest(g)'
      <4>1. FollowsManifest(g) /\ FollowsManifest(f) /\ Manifest(g)' = Manifest(g)
        BY <1>0, <3>1 DEF PackInv, ExportFollows, Manifest
      <4>2. CASE g = f
        <5>1. \A x \in InPack, n \in 1..MaxPacks : <<f, x, n>> \notin zip
          BY <4>1 DEF FollowsManifest, Touched
        <5>q. QED BY <1>0, <2>3, <3>2, <4>1, <4>2, <5>1 DEF FollowsManifest
      <4>3. CASE g # f
        <5>1. \A x \in InPack : <<g, x>> \notin export'.listed BY <3>2, <4>3
        <5>2. Touched(g)' => Touched(g) BY <1>0, <5>1 DEF Touched
        <5>q. QED BY <1>0, <3>2, <4>1, <5>1, <5>2 DEF FollowsManifest
      <4>q. QED BY <4>2, <4>3
    <3>5. ExportFollows' /\ ExportIsOnePack' BY <3>2, <3>4 DEF ExportFollows, ExportIsOnePack
    <3>q. QED BY <1>0, <3>3, <3>5, DirsStay DEF PackInv
  <2>q. QED BY <2>2, <2>3
<1>q. QED BY <1>1, <1>2

LEMMA StepReadEntry == PackInv /\ ReadEntry => PackInv'
<1> SUFFICES ASSUME PackInv, ReadEntry PROVE PackInv' OBVIOUS
<1>0. /\ export.stage = "reading" /\ export \in Exporting
      /\ UNCHANGED <<packDir, packs, save, disturbed>>
      /\ packDir \in [Packed -> [InPack -> PackEntry]]
      /\ zip \subseteq Packed \X InPack \X (1..MaxPacks) /\ Len(packs) <= MaxPacks
      /\ MaxPacks \in Nat
  BY PackAssumption DEF ReadEntry, PackInv, PackTypeOK, PackAssumption
<1>1. PICK entry \in export.listed :
         IF packDir[entry[1]][entry[2]] = Gone THEN export' = [NoExport EXCEPT !.stage = "failed"] /\ UNCHANGED zip
         ELSE /\ zip' = zip \cup {<<entry[1], entry[2], packDir[entry[1]][entry[2]].pack>>}
              /\ export' = [export EXCEPT !.listed = @ \ {entry}]
  BY DEF ReadEntry
<1>2. PICK f \in Packed, x \in InPack : entry = <<f, x>> BY <1>0 DEF Exporting
<1>3. CASE packDir[f][x] = Gone
  <2>1. export' \in Exporting /\ export'.stage = "failed" /\ zip' = zip
    BY <1>1, <1>2, <1>3 DEF NoExport, Exporting
  <2>2. PackTypeOK' BY <1>0, <2>1 DEF PackInv, PackTypeOK
  <2>3. ExportFollows' /\ ExportIsOnePack' BY <2>1 DEF ExportFollows, ExportIsOnePack
  <2>q. QED BY <1>0, <2>2, <2>3, DirsStay DEF PackInv
<1>4. CASE packDir[f][x] # Gone
  <2>1. PICK n \in 1..MaxPacks : n = packDir[f][x].pack
    <3>1. packDir[f][x].pack \in 1..Len(packs) BY <1>4 DEF PackInv, OnePack
    <3>2. Len(packs) \in Nat BY DEF PackInv, PackTypeOK
    <3>q. QED BY <1>0, <3>1, <3>2
  <2>2. zip' = zip \cup {<<f, x, n>>} /\ export' = [export EXCEPT !.listed = @ \ {<<f, x>>}]
    BY <1>1, <1>2, <1>4, <2>1
  <2>3. /\ export' \in Exporting /\ export'.stage = "reading" /\ export'.left = export.left
        /\ export'.listed = export.listed \ {<<f, x>>}
    BY <1>0, <2>2 DEF Exporting
  <2>4. PackTypeOK' BY <1>0, <2>2, <2>3 DEF PackInv, PackTypeOK
  <2>5. ASSUME NEW g \in Packed PROVE FollowsManifest(g)'
    <3>1. FollowsManifest(g) /\ FollowsManifest(f) /\ Manifest(g)' = Manifest(g) /\ Touched(f)
      BY <1>0, <1>2 DEF PackInv, ExportFollows, Manifest, Touched
    <3>2. CASE g # f
      <4>1. \A y \in InPack : <<g, y>> \in export'.listed <=> <<g, y>> \in export.listed
        BY <2>3, <3>2
      <4>2. \A y, k : <<g, y, k>> \in zip' <=> <<g, y, k>> \in zip BY <2>2, <3>2
      <4>3. Touched(g)' => Touched(g) BY <4>1, <4>2 DEF Touched
      <4>4. Manifest(g) # Gone => Manifest(g).files \subseteq InPack
        <5>1. "manifest.json" \in InPack BY DEF InPack, Generated
        <5>2. Manifest(g) \in PackEntry BY <1>0, <5>1 DEF Manifest
        <5>q. QED BY <5>2 DEF PackEntry
      <4>q. QED BY <1>0, <2>3, <3>1, <4>1, <4>2, <4>3, <4>4 DEF FollowsManifest
    <3>3. CASE g = f
      <4>1. f \notin export'.left BY <2>3, <3>1 DEF FollowsManifest
      <4>2. ASSUME f \notin disturbed
            PROVE  /\ Manifest(f) # Gone
                   /\ \A y \in InPack : <<f, y>> \in export'.listed => y \in Manifest(f).files
                   /\ \A y \in InPack, k \in 1..MaxPacks : <<f, y, k>> \in zip' =>
                          y \in Manifest(f).files /\ k = Manifest(f).pack
                   /\ \A y \in Manifest(f).files :
                          <<f, y>> \in export'.listed \/ <<f, y, Manifest(f).pack>> \in zip'
        <5>1. /\ Manifest(f) # Gone
              /\ \A y \in InPack : <<f, y>> \in export.listed => y \in Manifest(f).files
              /\ \A y \in InPack, k \in 1..MaxPacks : <<f, y, k>> \in zip =>
                     y \in Manifest(f).files /\ k = Manifest(f).pack
              /\ \A y \in Manifest(f).files :
                     <<f, y>> \in export.listed \/ <<f, y, Manifest(f).pack>> \in zip
          BY <3>1, <4>2 DEF FollowsManifest
        <5>2. "manifest.json" \in InPack BY DEF InPack, Generated
        <5>3. n = Manifest(f).pack
          BY <1>4, <2>1, <5>1, <5>2 DEF PackInv, OnePack, Manifest
        <5>4. <<f, x>> \in export.listed BY <1>2
        <5>q. QED BY <2>2, <2>3, <5>1, <5>3, <5>4
      <4>q. QED BY <1>0, <3>1, <3>3, <4>1, <4>2 DEF FollowsManifest
    <3>q. QED BY <3>2, <3>3
  <2>6. ExportFollows' /\ ExportIsOnePack' BY <2>3, <2>5 DEF ExportFollows, ExportIsOnePack
  <2>q. QED BY <1>0, <2>4, <2>6, DirsStay DEF PackInv
<1>q. QED BY <1>3, <1>4

LEMMA StepPackInv == PackAssumption /\ PackInv /\ [PackNext]_packVars => PackInv'
BY StepBegin, StepRemoveOld, StepWriteNext, StepSaveStops, StepStartExport, StepLoadManifest, StepReadEntry
   DEF PackNext

(* Directories and archives hold one pack each, whatever was cut off.      *)
THEOREM PackInvariant == PackSpec => []PackInv
<1>1. PackAssumption BY PackAssumption
<1>q. QED BY <1>1, InitPackInv, StepPackInv, PTL DEF PackSpec

(* An archive has whole packs, one of each finding that no save disturbed. *)
THEOREM ArchiveIsWhole == PackSpec => []ExportIsOnePack
<1>1. PackInv => ExportIsOnePack BY DEF PackInv
<1>q. QED BY <1>1, PackInvariant, PTL

(* Every pack, file and manifest on disk is one that some save wrote.      *)
THEOREM PackTypeCorrect == PackSpec => []PackTypeOK
<1>1. PackInv => PackTypeOK BY DEF PackInv
<1>q. QED BY <1>1, PackInvariant, PTL
-----------------------------------------------------------------------------
(* The parts share no variables: whichever of them takes the steps, each   *)
(* behaves as its own specification says, or stands still.                 *)
LEMMA ExecutionRunsParts ==
    ExecutionSpec => ChaosSpec /\ MonitorSpec /\ BridgeSpec /\ GateSpec /\ OutputSpec /\ PackSpec
<1>1. ExecutionInit => ChaosInit /\ MonitorInit /\ BridgeInit /\ GateInit /\ OutputInit /\ PackInit
  BY DEF ExecutionInit
<1>2. ASSUME [ExecutionNext]_executionVars
      PROVE  /\ [ChaosNext]_chaosVars /\ [MonitorNext]_monitorVars /\ [BridgeNext]_bridgeVars
             /\ [GateNext]_gateVars /\ [OutputNext]_outputVars /\ [PackNext]_packVars
  BY <1>2, Zenon DEF ExecutionNext, executionVars
<1>q. QED
  BY <1>1, <1>2, PTL DEF ExecutionSpec, ChaosSpec, MonitorSpec, BridgeSpec, GateSpec, OutputSpec, PackSpec

(* All that runs or writes keeps the types of its variables: no clock      *)
(* passes u64::MAX, no shrunk trace is longer than the trace, no node is   *)
(* blamed that does not exist, a validation passes exactly at level 3, and *)
(* a report is of findings that were collected.                            *)
THEOREM ExecutionTypeCorrect == ExecutionSpec => []ExecutionTypeOK
<1>1. ExecutionInit => part \in Parts BY DEF ExecutionInit
<1>2. part \in Parts /\ [ExecutionNext]_executionVars => (part \in Parts)'
  BY Zenon DEF ExecutionNext, executionVars, Parts
<1>3. /\ part \in Parts /\ ChaosTypeOK /\ MonitorTypeOK /\ BridgeTypeOK
      /\ GateTypeOK /\ OutputTypeOK /\ PackTypeOK
      => ExecutionTypeOK
  BY Zenon DEF ExecutionTypeOK
<1>q. QED
  BY <1>1, <1>2, <1>3, ExecutionRunsParts, ChaosTypeCorrect, MonitorTypeCorrect, BridgeTypeCorrect,
     GateTypeCorrect, OutputTypeCorrect, PackTypeCorrect, PTL DEF ExecutionSpec
=============================================================================
