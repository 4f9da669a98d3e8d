------------------------- MODULE SimulationMonitor -------------------------
(***************************************************************************)
(* GlobalInvariantMonitor of the distributed engine: six invariants, and   *)
(* the custom ones of the configuration, evaluated over a snapshot of the  *)
(* simulated nodes.  The nodes are a HashMap: every check meets them in an *)
(* order that nobody chooses, and the checks that return early stop at the *)
(* first pair or node that violates them.                                  *)
(***************************************************************************)
EXTENDS Naturals, Sequences, FiniteSets

CONSTANTS Nodes,      \* node ids
          Values,     \* committed values, state roots, finalized roots
          Messages,   \* message ids
          Ticks       \* bound: heights, ticks and limits are 0..Ticks

None == "none"
ASSUME MonitorAssumption == IsFiniteSet(Nodes) /\ None \notin Nodes /\ Ticks \in Nat

Time == 0..Ticks
\* NodeStateSnapshot
Snapshot ==
    [height : Time, value : Values \cup {None}, progress : Time, processed : Seq(Messages),
     reachable : BOOLEAN, blocked : Time, root : Values \cup {None},
     finalized : SUBSET Values, revoked : SUBSET Values]
Default == [height |-> 0, value |-> None, progress |-> 0, processed |-> <<>>, reachable |-> TRUE,
            blocked |-> 0, root |-> None, finalized |-> {}, revoked |-> {}]

\* The states that simulations hand over: each varies what one invariant reads.
Processed == UNION {[1..n -> Messages] : n \in 0..2}
Committed(h, v) == [Default EXCEPT !.height = h, !.value = v]
Blocked(r, b) == [Default EXCEPT !.reachable = r, !.blocked = b]
Finalized(f, r) == [Default EXCEPT !.finalized = f, !.revoked = r]
Snapshots == [Nodes -> {Committed(h, v) : h \in Time, v \in Values \cup {None}}]
    \cup [Nodes -> {[Default EXCEPT !.progress = p] : p \in Time}]
    \cup [Nodes -> {[Default EXCEPT !.processed = s] : s \in Processed}]
    \cup [Nodes -> {Blocked(r, b) : r \in BOOLEAN, b \in Time}]
    \cup [Nodes -> {[Default EXCEPT !.root = r] : r \in Values \cup {None}}]
    \cup [Nodes -> {Finalized(f, r) : f \in SUBSET Values, r \in {{}} \cup {{v} : v \in Values}}]

\* What check_expr of a CustomInvariant can be: a limit on a metric, a limit on
\* blocked withdrawals, or text that evaluate_custom_expr does not understand.
CustomExprs == [expr : {"batch", "withdrawal"}, limit : {0, 1}] \cup {[expr |-> "other"]}

VARIABLES nodes,    \* SimulationState::nodes
          simTick, within, hatch, exempt, metric,  \* its other fields
          custom,   \* the configuration's custom invariant
          reported, \* the result of check_all: the nodes blamed, by invariant
          monitorStage

monitorVars == <<nodes, simTick, within, hatch, exempt, metric, custom, reported, monitorStage>>

Orders == {o \in [1..Cardinality(Nodes) -> Nodes] : \A i, j \in DOMAIN o : i # j => o[i] # o[j]}
Unchecked == [safety |-> {None}]

NoSnapshot == [n \in Nodes |-> Default]
MonitorInit ==
    /\ nodes = NoSnapshot
    /\ simTick = Ticks /\ within = 0 /\ hatch = 1 /\ exempt = {} /\ metric = 1
    /\ custom = [expr |-> "other"]
    /\ reported = Unchecked /\ monitorStage = "simulating"

\* The simulation hands over its state, the configuration its limits.
Hand == /\ monitorStage = "simulating" /\ monitorStage' = "handed"
        /\ nodes' \in Snapshots
        /\ within' \in {0, 1}
        /\ exempt' \in {{}, {CHOOSE n \in Nodes : TRUE}}
        /\ custom' \in CustomExprs
        /\ UNCHANGED <<simTick, hatch, metric, reported>>
-----------------------------------------------------------------------------
(* The checks, each with the nodes it blames ({}: nothing is violated).    *)

\* by_height holds the first committed value of each height.
SafetyOfNeighbours(order) ==
    LET clash(j) == j > 1 /\ nodes[order[j - 1]].value # None /\ nodes[order[j]].value # None
                    /\ nodes[order[j - 1]].height = nodes[order[j]].height
                    /\ nodes[order[j - 1]].value # nodes[order[j]].value
        found == {j \in DOMAIN order : clash(j)}
    IN  IF found = {} THEN {} ELSE {order[CHOOSE j \in found : TRUE]}
Safety(order) ==
    LET scan[i \in 0..Len(order)] ==
            IF i = 0 THEN [first |-> [h \in Time |-> None], blamed |-> {}]
            ELSE LET before == scan[i - 1]
                     n == order[i]
                     owner == before.first[nodes[n].height]
                 IN  IF before.blamed # {} \/ nodes[n].value = None THEN before
                     ELSE IF owner = None THEN [before EXCEPT !.first[nodes[n].height] = n]
                     ELSE IF nodes[owner].value # nodes[n].value THEN [before EXCEPT !.blamed = {owner, n}]
                     ELSE before
    IN  scan[Len(order)].blamed

\* saturating_sub
Since(t, earlier) == IF earlier > t THEN 0 ELSE t - earlier
Liveness == {n \in Nodes \ exempt : Since(simTick, nodes[n].progress) > within}

Repeats(s) == \E i, j \in DOMAIN s : i < j /\ s[i] = s[j]
FirstOf(order, violating) ==
    LET matching == {i \in DOMAIN order : order[i] \in violating}
    IN  IF matching = {} THEN {} ELSE {order[CHOOSE i \in matching : \A j \in matching : i <= j]}
Idempotency(order) == FirstOf(order, {n \in Nodes : Repeats(nodes[n].processed)})

BlockedBeyond(limit) == {n \in Nodes : ~nodes[n].reachable /\ nodes[n].blocked > limit}
EscapeHatch == BlockedBeyond(hatch)

\* The first root found is compared with each of the others.
ProverConsistency(order) ==
    LET rooted == {i \in DOMAIN order : nodes[order[i]].root # None}
        first == CHOOSE i \in rooted : \A j \in rooted : i <= j
        other == {i \in rooted : nodes[order[i]].root # nodes[order[first]].root}
    IN  IF other = {} THEN {}
        ELSE {order[first], order[CHOOSE i \in other : \A j \in other : i <= j]}

FinalizationMonotonicity(order) ==
    FirstOf(order, {n \in Nodes : nodes[n].finalized \cap nodes[n].revoked # {}})

\* evaluate_custom_expr; a violated custom invariant blames every node.
Custom ==
    IF \/ custom.expr = "batch" /\ metric > custom.limit
       \/ custom.expr = "withdrawal" /\ BlockedBeyond(custom.limit) # {}
    THEN Nodes ELSE {}

CheckAll == \E order \in Orders :
    /\ monitorStage = "handed" /\ monitorStage' = "checked"
    /\ reported' = [safety |-> Safety(order), liveness |-> Liveness, idempotency |-> Idempotency(order),
                    escape_hatch |-> EscapeHatch, prover |-> ProverConsistency(order),
                    finalization |-> FinalizationMonotonicity(order), custom |-> Custom]
    /\ UNCHANGED <<nodes, simTick, within, hatch, exempt, metric, custom>>

MonitorNext == Hand \/ CheckAll
MonitorSpec == MonitorInit /\ [][MonitorNext]_monitorVars
-----------------------------------------------------------------------------
MonitorTypeOK ==
    /\ monitorStage \in {"simulating", "handed", "checked"} /\ nodes \in [Nodes -> Snapshot]
    /\ monitorStage = "checked" => \A invariant \in DOMAIN reported : reported[invariant] \subseteq Nodes

Conflict(m, n) == /\ nodes[m].value # None /\ nodes[n].value # None
                  /\ nodes[m].height = nodes[n].height /\ nodes[m].value # nodes[n].value
Mismatch(m, n) == nodes[m].root # None /\ nodes[n].root # None /\ nodes[m].root # nodes[n].root

\* Whatever the order of the map: a fork or a mismatch of roots between any
\* two nodes is reported, and the two nodes blamed for one do disagree; so for
\* a message processed twice and a root revoked.  (The monitor's check_all.)
MonitorExact ==
    monitorStage = "checked" =>
        /\ (reported.safety # {}) = (\E m, n \in Nodes : Conflict(m, n))
        /\ reported.safety # {} => \E m, n \in reported.safety : Conflict(m, n)
        /\ (reported.prover # {}) = (\E m, n \in Nodes : Mismatch(m, n))
        /\ reported.prover # {} => \E m, n \in reported.prover : Mismatch(m, n)
        /\ (reported.idempotency # {}) = (\E n \in Nodes : Repeats(nodes[n].processed))
        /\ \A n \in reported.idempotency : Repeats(nodes[n].processed)
        /\ (reported.finalization # {}) = (\E n \in Nodes : nodes[n].finalized \cap nodes[n].revoked # {})
=============================================================================
