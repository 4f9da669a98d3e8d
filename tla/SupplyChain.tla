---------------------------- MODULE SupplyChain ----------------------------
(***************************************************************************)
(* SupplyChainAnalyzer of the crypto engine: a call graph by names over    *)
(* all files of the workspace, and for every advisory a chain of calls     *)
(* from a function that looks cryptographic to the affected one.  The sets *)
(* of the graph are hash sets: the search meets them in any order.         *)
(***************************************************************************)
EXTENDS Naturals, Sequences, FiniteSets, SequencesExt

CONSTANTS Functions, \* names of functions of the workspace and its crates
          Entries,   \* the names that detect_crypto_entries looks for
          NearDepth, \* 3 in the code: how near a function must be
          MaxEdges   \* bound: calls of the workspace

ASSUME SupplyAssumption ==
    /\ IsFiniteSet(Functions) /\ Entries \subseteq Functions
    /\ NearDepth \in Nat /\ MaxEdges \in Nat

Severities == <<"Observation", "Low", "Medium", "High", "Critical">>
Rank(severity) == CHOOSE i \in DOMAIN Severities : Severities[i] = severity
Advisories == [affected : Functions, severity : {"Low", "Critical"}, dev : BOOLEAN]

VARIABLES supplyStage, \* scanning, failed, searching, judged
          defined,     \* the keys of the graph
          calls,       \* its edges: pairs of caller and callee
          advisory,
          paths,       \* the queue of paths
          visited,
          judged       \* CveCallPathResult

supplyVars == <<supplyStage, defined, calls, advisory, paths, visited, judged>>
NoVerdict == [chain |-> <<>>, severity |-> "none"]

SupplyInit == /\ supplyStage = "scanning" /\ defined = {} /\ calls = {}
              /\ advisory = [affected |-> CHOOSE f \in Functions : TRUE, severity |-> "Low", dev |-> FALSE]
              /\ paths = <<>> /\ visited = {} /\ judged = NoVerdict
-----------------------------------------------------------------------------
(* build_tree_sitter_call_graph: calls of a function of itself, and names  *)
(* of the excluded list, are left out; a file that cannot be read fails    *)
(* the analysis.                                                           *)
ReadCall == \E f, g \in Functions :
    /\ supplyStage = "scanning" /\ Cardinality(calls) < MaxEdges
    /\ defined' = defined \cup {f}
    /\ calls' = IF f = g THEN calls ELSE calls \cup {<<f, g>>}
    /\ UNCHANGED <<supplyStage, advisory, paths, visited, judged>>

UnreadableFile == /\ supplyStage = "scanning" /\ supplyStage' = "failed"
                  /\ UNCHANGED <<defined, calls, advisory, paths, visited, judged>>

CryptoEntries == defined \cap Entries
Arrangements(S) == {o \in [1..Cardinality(S) -> S] : \A i, j \in DOMAIN o : i # j => o[i] # o[j]}

\* An advisory: of a development dependency it is downgraded at once.
Take == \E a \in Advisories :
    /\ supplyStage = "scanning"
    /\ advisory' = a
    /\ IF a.dev
       THEN /\ supplyStage' = "judged" /\ judged' = [chain |-> <<>>, severity |-> "Low"]
            /\ UNCHANGED <<paths, visited>>
       ELSE /\ supplyStage' = "searching" /\ UNCHANGED judged
            /\ paths' \in {[i \in DOMAIN order |-> <<order[i]>>] : order \in Arrangements(CryptoEntries)}
            /\ visited' = CryptoEntries
    /\ UNCHANGED <<defined, calls>>
-----------------------------------------------------------------------------
(* find_reachable_chain, one path of the queue at a time.                    *)
Callees(f) == {g \in Functions : <<f, g>> \in calls}

\* The queue after a path was taken from its front.
PushFront(waiting, more) == more \o waiting
PushBack(waiting, more) == waiting \o more

Adjusted(chain) ==
    IF Len(chain) - 1 <= NearDepth THEN "Critical"
    ELSE IF Rank(advisory.severity) >= Rank("High") THEN advisory.severity ELSE "High"

Visit ==
    /\ supplyStage = "searching" /\ paths # <<>>
    /\ LET path == Head(paths)
           last == path[Len(path)]
           new == Callees(last) \ visited
       IN  IF last = advisory.affected
           THEN /\ supplyStage' = "judged" /\ judged' = [chain |-> path, severity |-> Adjusted(path)]
                /\ UNCHANGED <<paths, visited>>
           ELSE /\ \E order \in Arrangements(new) :
                      paths' = PushBack(Tail(paths), [i \in DOMAIN order |-> Append(path, order[i])])
                /\ visited' = visited \cup new
                /\ UNCHANGED <<supplyStage, judged>>
    /\ UNCHANGED <<defined, calls, advisory>>

Unreachable == /\ supplyStage = "searching" /\ paths = <<>>
               /\ supplyStage' = "judged" /\ judged' = [chain |-> <<>>, severity |-> advisory.severity]
               /\ UNCHANGED <<defined, calls, advisory, paths, visited>>

SupplyNext == ReadCall \/ UnreadableFile \/ Take \/ Visit \/ Unreachable
SupplySpec == SupplyInit /\ [][SupplyNext]_supplyVars
-----------------------------------------------------------------------------
SupplyTypeOK ==
    /\ supplyStage \in {"scanning", "failed", "searching", "judged"}
    /\ defined \subseteq Functions /\ calls \subseteq Functions \X Functions
    /\ advisory \in Advisories /\ paths \in Seq(Seq(Functions)) /\ visited \subseteq Functions
    /\ judged.chain \in Seq(Functions) /\ judged.severity \in ToSet(Severities) \cup {"none"}

\* The functions at most n calls away from a crypto entry.
NearEntry[n \in 0..(Cardinality(Functions) + NearDepth)] ==
    IF n = 0 THEN CryptoEntries
    ELSE NearEntry[n - 1] \cup {g \in Functions : \E f \in NearEntry[n - 1] : <<f, g>> \in calls}

\* An advisory is critical exactly when its function is near: the chain that
\* is reported is one of calls, and no chain is shorter, in whatever order the
\* sets were met; without a chain there is none.  (find_reachable_chain,
\* analyze)
SeverityFollowsDistance ==
    (supplyStage = "judged" /\ ~advisory.dev) =>
        LET chain == judged.chain IN
        /\ chain # <<>> =>
             /\ chain[1] \in CryptoEntries /\ chain[Len(chain)] = advisory.affected
             /\ \A i \in 1..(Len(chain) - 1) : <<chain[i], chain[i + 1]>> \in calls
             /\ \A n \in 0..(Len(chain) - 2) : advisory.affected \notin NearEntry[n]
        /\ chain = <<>> => advisory.affected \notin NearEntry[Cardinality(Functions)]
        /\ (judged.severity = "Critical") =
              (advisory.severity = "Critical" \/ advisory.affected \in NearEntry[NearDepth])
        /\ Rank(judged.severity) >= Rank(advisory.severity)
=============================================================================
