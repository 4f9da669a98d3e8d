----------------------------- MODULE Halo2Check -----------------------------
(***************************************************************************)
(* The zero-knowledge analysis of the crypto engine, run_phase3_analysis:  *)
(* a graph of the Halo2 chips of the workspace with the risks its text     *)
(* shows, a solver query for every chip at risk, then the differential     *)
(* tests and image bindings of zkVMs.  Any error loses the whole output.   *)
(***************************************************************************)
EXTENDS Naturals, Sequences, FiniteSets, SequencesExt

CONSTANTS Chips,      \* names of types that implement Chip
          RangeChips, \* those whose name contains "RangeCheck"
          Within,     \* pairs of names, the first ending with the second
          Columns, Selectors,
          MaxImpls, MaxTests \* bounds: methods read, zkVM checks asked for

ASSUME Halo2Assumption ==
    /\ IsFiniteSet(Chips) /\ RangeChips \subseteq Chips /\ Within \subseteq Chips \X Chips
    /\ \A c \in Chips : <<c, c>> \in Within
    /\ MaxImpls \in Nat /\ MaxTests \in Nat

\* The block of a configure or synthesize method, as far as the graph reads it.
Blocks == [columns : SUBSET Columns, selectors : SUBSET Selectors,
           constrained : SUBSET Columns, names : {{}} \cup {{c} : c \in Chips}]
NoBlock == [columns |-> {}, selectors |-> {}, constrained |-> {}, names |-> {}]

VARIABLES zkStage,  \* configure, synthesize, check, zkvm, done, failed
          configured, synthesized, \* the chips' states: name -> block
          known,    \* the keys of chips
          queue,    \* the chips at risk that are still to be checked
          unanswered, \* history: chips whose query got no answer
          tests,    \* zkVM checks made
          zkFindings

zkVars == <<zkStage, configured, synthesized, known, queue, unanswered, tests, zkFindings>>

Halo2Init ==
    /\ zkStage = "configure"
    /\ configured = [c \in Chips |-> NoBlock] /\ synthesized = [c \in Chips |-> NoBlock]
    /\ known = {} /\ queue = <<>> /\ unanswered = {} /\ tests = 0 /\ zkFindings = <<>>
-----------------------------------------------------------------------------
(* ConstraintDependencyGraph::build                                        *)

\* The index lists the configure methods, then the synthesize methods; two
\* types of one name share an entry, which the later one overwrites.
Extract == \E chip \in Chips, block \in Blocks, readable \in BOOLEAN :
    /\ zkStage \in {"configure", "synthesize"} /\ tests < MaxImpls
    /\ zkStage = "synthesize" => block.columns = {} /\ block.selectors = {}
    /\ tests' = tests + 1
    /\ IF ~readable THEN zkStage' = "failed" /\ UNCHANGED <<configured, synthesized, known>>
       ELSE /\ known' = known \cup {chip}
            /\ IF zkStage = "configure"
               THEN configured' = [configured EXCEPT ![chip] = block] /\ UNCHANGED synthesized
               ELSE synthesized' = [synthesized EXCEPT ![chip] = block] /\ UNCHANGED configured
            /\ UNCHANGED zkStage
    /\ UNCHANGED <<queue, unanswered, zkFindings>>

Synthesize == /\ zkStage = "configure" /\ zkStage' = "synthesize"
              /\ UNCHANGED <<configured, synthesized, known, queue, unanswered, tests, zkFindings>>

Mentioned(chip) == configured[chip].names \cup synthesized[chip].names
\* contains("Provider::") holds for every name that ends with the provider's.
Edges == {e \in known \X known : \* from the provider to the consumer
             e[1] # e[2] /\ \E n \in Mentioned(e[2]) : <<n, e[1]>> \in Within}
IsolatedIn(chip) == {col \in configured[chip].columns :
                        col \notin configured[chip].constrained \cup synthesized[chip].constrained}
IsolatedNodes == {c \in known : IsolatedIn(c) # {}}
RangeGaps == {e \in Edges : e[1] \in RangeChips /\ e[2] \in IsolatedNodes}
SelectorConflicts == {p \in known \X known : p[1] # p[2] /\ configured[p[1]].selectors \cap configured[p[2]].selectors # {}}
HighRisk == IsolatedNodes \cup UNION {{p[1], p[2]} : p \in RangeGaps \cup SelectorConflicts}

\* Without a configure method of a Chip there is no graph.
GraphBuilt == /\ zkStage = "synthesize"
              /\ zkStage' = "check" /\ tests' = 0
              /\ queue' = IF known = {} THEN <<>> ELSE SetToSeq(HighRisk)
              /\ UNCHANGED <<configured, synthesized, known, unanswered, zkFindings>>
-----------------------------------------------------------------------------
(* check_high_risk_nodes: render_chip_smt2 asks for two different outputs, *)
(* and for equal ones too unless the chip has an isolated column.          *)
AnyIsolated(chip) == IsolatedNodes # {}
QuerySatisfiable(chip) == chip \in IsolatedNodes

Finding(kind, chip) == [kind |-> kind, ordinal |-> Len(zkFindings) + 1, chip |-> chip]
CheckChip == \E answered \in BOOLEAN :
    /\ zkStage = "check" /\ queue # <<>>
    /\ LET chip == Head(queue) IN
       /\ zkFindings' = IF answered /\ QuerySatisfiable(chip) THEN Append(zkFindings, Finding("halo2", chip)) ELSE zkFindings
       /\ unanswered' = IF answered THEN unanswered ELSE unanswered \cup {chip}
    /\ queue' = Tail(queue)
    /\ UNCHANGED <<zkStage, configured, synthesized, known, tests>>

ChipsChecked == /\ zkStage = "check" /\ queue = <<>> /\ zkStage' = "zkvm"
                /\ UNCHANGED <<configured, synthesized, known, queue, unanswered, tests, zkFindings>>

\* A differential test or an image binding, which fails on a guest image that
\* cannot be read.
ZkvmCheck == \E outcome \in {"same", "divergence", "binding", "error"} :
    /\ zkStage = "zkvm" /\ tests < MaxTests
    /\ tests' = tests + 1
    /\ zkFindings' = IF outcome \in {"divergence", "binding"} THEN Append(zkFindings, Finding(outcome, "zkvm"))
                     ELSE IF outcome = "error" THEN <<>> ELSE zkFindings
    /\ zkStage' = IF outcome = "error" THEN "failed" ELSE zkStage
    /\ UNCHANGED <<configured, synthesized, known, queue, unanswered>>

Phase3Done == /\ zkStage = "zkvm" /\ zkStage' = "done"
              /\ UNCHANGED <<configured, synthesized, known, queue, unanswered, tests, zkFindings>>

Halo2Next == \/ Extract \/ Synthesize \/ GraphBuilt \/ CheckChip
             \/ ChipsChecked \/ ZkvmCheck \/ Phase3Done
Halo2Spec == Halo2Init /\ [][Halo2Next]_zkVars
-----------------------------------------------------------------------------
Halo2TypeOK ==
    /\ zkStage \in {"configure", "synthesize", "check", "zkvm", "done", "failed"}
    /\ configured \in [Chips -> Blocks] /\ synthesized \in [Chips -> Blocks]
    /\ known \subseteq Chips /\ queue \in Seq(Chips) /\ unanswered \subseteq Chips
    /\ tests \in 0..(IF MaxImpls > MaxTests THEN MaxImpls ELSE MaxTests)
    /\ zkFindings \in Seq([kind : {"halo2", "divergence", "binding"}, ordinal : Nat, chip : Chips \cup {"zkvm"}])

\* A finished analysis reports a chip as under-constrained exactly when one of
\* its columns occurs in no constraining line of its methods and the solver
\* answered, whatever else is wrong around the chip, and no two findings share
\* an ordinal.  (build, check_high_risk_nodes, run_phase3_analysis)
ChipFindingsExact ==
    zkStage = "done" =>
        /\ {zkFindings[i].chip : i \in {k \in DOMAIN zkFindings : zkFindings[k].kind = "halo2"}}
              = {c \in known : IsolatedIn(c) # {}} \ unanswered
        /\ \A i, j \in DOMAIN zkFindings : zkFindings[i].ordinal = zkFindings[j].ordinal => i = j
=============================================================================
