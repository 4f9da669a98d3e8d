---------------------------- MODULE CircomCheck ----------------------------
(***************************************************************************)
(* The Circom analysis of the crypto engine.  CircomSignalGraph::from_file *)
(* reads a circuit line by line; to_smt2 asks, over a prime field, for two *)
(* witnesses with the same inputs and different outputs; the checker gives *)
(* the query to Z3 and, when Z3 does not answer, searches at random among  *)
(* the integers.                                                           *)
(***************************************************************************)
EXTENDS Integers, Sequences, FiniteSets, SequencesExt

CONSTANTS Prime,       \* of the field
          Draws,       \* what the random search draws values from
          Expressions, \* bound: the expressions in circuits
          MaxCircomLines, MaxConstraints \* bounds: lines in a template, constraints

ASSUME CircomAssumption ==
    /\ Prime \in Nat \ {0} /\ Draws \subseteq Int /\ Expressions \subseteq Seq(Seq(STRING))
    /\ MaxCircomLines \in Nat /\ MaxConstraints \in Nat

\* An expression is a sum of products of names; "1" is the number.
One == "1"
Declarations == {[kind |-> "input", name |-> "x"], [kind |-> "output", name |-> "y"],
                 [kind |-> "intermediate", name |-> "z"], [kind |-> "output", name |-> "z"]}

VARIABLES signals,     \* graph.signals, in order of declaration
          constraints, \* graph.constraints
          meant,       \* history: the constraints as the circuit has them
          depth,       \* brace_depth: 1 in the template
          plainCircuit,\* history: the circuit has only what the parser understands
          circomStage, \* reading, refused, checking, checked
          target,      \* target_signal
          result       \* Z3CheckResult

circomVars == <<signals, constraints, meant, depth, plainCircuit, circomStage, target, result>>
NoResult == [verdict |-> "none", fallback |-> <<>>]

CircomInit ==
    /\ signals = <<>> /\ constraints = <<>> /\ meant = <<>>
    /\ depth = 1 /\ plainCircuit = TRUE
    /\ circomStage = "reading" /\ target = "y" /\ result = NoResult
-----------------------------------------------------------------------------
(* from_file.  A name stands for the first signal declared with it before. *)
Lookup(name) ==
    LET ids == {i \in DOMAIN signals : signals[i].name = name}
    IN  IF ids = {} THEN 0 ELSE CHOOSE i \in ids : \A j \in ids : i <= j
Number == -1
Resolve(expr) == [t \in DOMAIN expr |-> [f \in DOMAIN expr[t] |-> IF expr[t][f] = One THEN Number ELSE Lookup(expr[t][f])]]

\* split_top_level_multiply, at the first product of the text: what stands
\* before it and its first factor, and the rest.
SplitMultiply(expr) ==
    LET products == {t \in DOMAIN expr : Len(expr[t]) > 1}
        t == CHOOSE p \in products : \A q \in products : p <= q
    IN  IF products = {} THEN <<>>
        ELSE <<SubSeq(expr, 1, t - 1) \o <<<<Head(expr[t])>>>>, <<Tail(expr[t])>> \o SubSeq(expr, t + 1, Len(expr))>>

ParseConstraint(op, lhs, rhs) ==
    IF op = "===" /\ SplitMultiply(lhs) # <<>>
    THEN [kind |-> "R1CS", sides |-> SplitMultiply(lhs), of |-> rhs]
    ELSE [kind |-> "Equality", sides |-> <<lhs>>, of |-> rhs]

Read(parsed) ==
    [kind |-> parsed.kind, of |-> Resolve(parsed.of),
     sides |-> [i \in DOMAIN parsed.sides |-> Resolve(parsed.sides[i])]]

NamesOf(expr) == UNION {ToSet(expr[t]) : t \in DOMAIN expr}
\* Every name is declared; a product on the left of === stands alone.
Understood(op, lhs, rhs) ==
    /\ \A name \in NamesOf(lhs) \cup NamesOf(rhs) : name = One \/ Lookup(name) # 0
    /\ op = "===" /\ SplitMultiply(lhs) # <<>> => Len(lhs) = 1

Declare == \E d \in Declarations :
    /\ circomStage = "reading" /\ depth = 1 /\ Len(signals) < MaxCircomLines
    /\ signals' = Append(signals, d)
    /\ plainCircuit' = (plainCircuit /\ Lookup(d.name) = 0)
    /\ UNCHANGED <<constraints, meant, depth, circomStage, target, result>>

Constrain == \E op \in {"<==", "==="}, lhs, rhs \in Expressions :
    /\ circomStage = "reading" /\ depth = 1 /\ Len(meant) < MaxConstraints
    /\ op = "<==" => Len(lhs) = 1 /\ Len(lhs[1]) = 1
    /\ constraints' = Append(constraints, Read(ParseConstraint(op, lhs, rhs)))
    /\ meant' = Append(meant, [lhs |-> Resolve(lhs), rhs |-> Resolve(rhs)])
    /\ plainCircuit' = (plainCircuit /\ Understood(op, lhs, rhs))
    /\ UNCHANGED <<signals, depth, circomStage, target, result>>

\* "signal output y <== ..." is read as a declaration only.
DeclareAndConstrain == \E d \in Declarations, rhs \in Expressions :
    /\ circomStage = "reading" /\ depth = 1 /\ Len(signals) < MaxCircomLines /\ Len(meant) < MaxConstraints
    /\ Lookup(d.name) = 0
    /\ signals' = Append(signals, d)
    /\ meant' = Append(meant, [lhs |-> <<<<Len(signals) + 1>>>>, rhs |-> Resolve(rhs)])
    /\ plainCircuit' = FALSE
    /\ UNCHANGED <<constraints, depth, circomStage, target, result>>

\* The end of the file, with its braces balanced or not.
EndOfFile == \E missing \in {0, 1} :
    /\ circomStage = "reading" /\ depth = 1
    /\ depth' = missing
    /\ circomStage' = IF missing = 0 THEN "checking" ELSE "refused"
    /\ UNCHANGED <<signals, constraints, meant, plainCircuit, target, result>>
-----------------------------------------------------------------------------
(* Values of expressions under a witness.  In SMT an unknown name is 0;    *)
(* in the random search it makes the value undefined.                      *)
Value(name, w) == IF name = Number THEN 1 ELSE IF name = 0 THEN 0 ELSE w[name]
Product(term, w) ==
    LET upTo[i \in 0..Len(term)] == IF i = 0 THEN 1 ELSE upTo[i - 1] * Value(term[i], w)
    IN  upTo[Len(term)]
Eval(expr, w) ==
    LET upTo[i \in 0..Len(expr)] == IF i = 0 THEN 0 ELSE upTo[i - 1] + Product(expr[i], w)
    IN  upTo[Len(expr)]
Equal(a, b) == a % Prime = b % Prime

Left(c, w) == IF c.kind = "R1CS" THEN Eval(c.sides[1], w) * Eval(c.sides[2], w) ELSE Eval(c.sides[1], w)
Satisfies(w) == \A i \in DOMAIN constraints : Equal(Left(constraints[i], w), Eval(constraints[i].of, w))
Means(w) == \A i \in DOMAIN meant : Equal(Eval(meant[i].lhs, w), Eval(meant[i].rhs, w))

Witnesses == [DOMAIN signals -> 0..(Prime - 1)]
Targets == {i \in DOMAIN signals : signals[i].kind = "output" /\ signals[i].name = target}
SameInputs(a, b) == \A i \in DOMAIN signals : signals[i].kind = "input" => a[i] = b[i]
TargetsDiffer(a, b) == Targets # {} => \E i \in Targets : a[i] # b[i]

\* Whether the query of to_smt2 has a model.
QueryOneWitness(a, b) == Satisfies(a) /\ SameInputs(a, b) /\ TargetsDiffer(a, b)
Query(a, b) == Satisfies(a) /\ Satisfies(b) /\ SameInputs(a, b) /\ TargetsDiffer(a, b)
Satisfiable == \E a, b \in Witnesses : Query(a, b)

Answered == /\ circomStage = "checking"
            /\ result' = [NoResult EXCEPT !.verdict = IF Satisfiable THEN "under_constrained" ELSE "constrained"]
            /\ circomStage' = "checked"
            /\ UNCHANGED <<signals, constraints, meant, depth, plainCircuit, target>>
-----------------------------------------------------------------------------
(* random_witness_search, for the first output that no constraint touches. *)
Refs(c) == UNION {UNION {ToSet(e[t]) : t \in DOMAIN e} : e \in ToSet(c.sides) \cup {c.of}}
Unconstrained == {i \in DOMAIN signals : signals[i].kind = "output" /\ \A k \in DOMAIN constraints : i \notin Refs(constraints[k])}
Same(i, j) == signals[i] = signals[j]
SearchTarget ==
    LET first == CHOOSE i \in Unconstrained : \A j \in Unconstrained : i <= j
    IN  CHOOSE i \in DOMAIN signals : Same(i, first) /\ \A j \in DOMAIN signals : Same(j, first) => i <= j

Known(expr) == \A t \in DOMAIN expr : 0 \notin ToSet(expr[t])
SingleSignal(expr) == Len(expr) = 1 /\ Len(expr[1]) = 1 /\ expr[1][1] \notin {0, Number}
\* One pass of propagate_simple_equalities over the constraints, and as many
\* passes as there are constraints.
Assigned(v, c) ==
    IF c.kind = "R1CS" THEN v
    ELSE IF SingleSignal(c.sides[1])
         THEN IF Known(c.of) THEN [v EXCEPT ![c.sides[1][1][1]] = Eval(c.of, v)] ELSE v
    ELSE IF SingleSignal(c.of) /\ Known(c.sides[1])
         THEN [v EXCEPT ![c.of[1][1]] = Eval(c.sides[1], v)] ELSE v
Propagate(w) ==
    LET after[i \in 0..Len(constraints)] ==
            IF i = 0 THEN w ELSE Assigned(after[i - 1], constraints[i])
    IN  after[Len(constraints)]
Propagated(w) ==
    LET after[i \in 0..Len(constraints)] == IF i = 0 THEN w ELSE Propagate(after[i - 1])
    IN  after[Len(constraints)]
ConstraintsHold(w) ==
    \A i \in DOMAIN constraints : LET c == constraints[i] IN
        /\ Known(c.of) /\ \A e \in ToSet(c.sides) : Known(e)
        /\ Left(c, w) = Eval(c.of, w)

Searches ==
    {pair \in {LET a == Propagated(w) IN <<a, [a EXCEPT ![SearchTarget] = @ + 1]>> : w \in [DOMAIN signals -> Draws]} :
        ConstraintsHold(pair[1]) /\ ConstraintsHold(pair[2])}

\* Z3 fails, or answers neither sat nor unsat.
NotAnswered ==
    /\ circomStage = "checking"
    /\ \E pair \in {<<>>} \cup (IF Unconstrained = {} THEN {} ELSE Searches) :
           result' = [verdict |-> "unknown", fallback |-> pair]
    /\ circomStage' = "checked"
    /\ UNCHANGED <<signals, constraints, meant, depth, plainCircuit, target>>

CircomNext == \/ Declare \/ Constrain \/ DeclareAndConstrain \/ EndOfFile
              \/ Answered \/ NotAnswered
CircomSpec == CircomInit /\ [][CircomNext]_circomVars
-----------------------------------------------------------------------------
CircomTypeOK ==
    /\ signals \in Seq(Declarations) /\ Len(signals) <= MaxCircomLines
    /\ Len(constraints) <= Len(meant) /\ Len(meant) <= MaxConstraints
    /\ \A i \in DOMAIN constraints : constraints[i].kind \in {"R1CS", "Equality"}
    /\ circomStage \in {"reading", "refused", "checking", "checked"}
    /\ result.verdict \in {"none", "constrained", "under_constrained", "unknown"}

Determined == \A a, b \in Witnesses :
    Means(a) /\ Means(b) /\ SameInputs(a, b) => \A i \in Targets : a[i] = b[i]

\* For a circuit that the parser understands and an output as the target, the
\* verdict is about the circuit: "constrained" only if the inputs determine
\* the output in the field, "under_constrained" only if they do not.  Of every
\* circuit the two witnesses of a random search satisfy each constraint that
\* was read, with the same inputs and different outputs.
\* (from_file, to_smt2, check_internal)
FallbackIsWitness ==
    result.fallback # <<>> =>
        LET a == result.fallback[1]  b == result.fallback[2] IN
        /\ Satisfies(a) /\ Satisfies(b) /\ SameInputs(a, b)
        /\ \E i \in DOMAIN signals : signals[i].kind = "output" /\ a[i] # b[i]
VerdictAboutCircuit ==
    /\ FallbackIsWitness
    /\ plainCircuit /\ Targets # {} =>
        /\ result.verdict = "constrained" => Determined
        /\ result.verdict = "under_constrained" => ~Determined

\* What the query is for, of every circuit: "constrained" says that the
\* inputs determine the output.
ConstrainedIsDetermined ==
    result.verdict = "constrained" => Determined
=============================================================================
