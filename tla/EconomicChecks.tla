--------------------------- MODULE EconomicChecks ---------------------------
(***************************************************************************)
(* EconomicAttackChecker of the distributed engine: the attack vectors of  *)
(* a directory of checklists, looked for in what the syntax trees of a     *)
(* workspace contain.  The LLM may only reword a finding's description.    *)
(***************************************************************************)
EXTENDS Naturals, Sequences, FiniteSets, SequencesExt

CONSTANTS Symbols,     \* symbols that are called or declared, and patterns
          Containing,  \* pairs of normalised symbols, the first containing the second
          SymbolTail,  \* of a symbol, what follows its last "::"
          MaxFiles,    \* bound: files of the workspace
          MaxVectors   \* bound: vectors of the checklists

ASSUME EconomicAssumption ==
    /\ Containing \subseteq Symbols \X Symbols
    /\ \A s \in Symbols : <<s, s>> \in Containing
    /\ SymbolTail \in [Symbols -> Symbols]
    /\ MaxFiles \in Nat /\ MaxVectors \in Nat

\* EconomicAttackVector and EconDetection.
Detections == [kind : {"call_absent", "call_present"}, patterns : {{s} : s \in Symbols}]
                  \cup [kind : {"field_absent"}, field : Symbols]
                  \cup [kind : {"bound"}, const : Symbols, exists : BOOLEAN]
Vectors == [id : 1..MaxVectors, detection : Detections]
\* A source file: whether it can be read, whether it is a lib.rs or main.rs,
\* and the calls, or the declarations, in it.
SourceFiles ==
    {[readable |-> r, target |-> t, calls |-> c, fields |-> {}, consts |-> {}] :
        r \in BOOLEAN, t \in BOOLEAN, c \in SUBSET Symbols}
    \cup {[readable |-> TRUE, target |-> TRUE, calls |-> {}, fields |-> {s}, consts |-> {s}] : s \in Symbols}

VARIABLES econStage,   \* checklist, failed, workspace, analyzing, analyzed
          checklist,   \* the vectors, sorted once all files are read
          sources,     \* the workspace's files, in the order of the walk
          indexed,     \* the semantic index has a call
          parsing,     \* the parser took the Rust grammar
          econAt,      \* the vector that analyze looks at
          econFindings \* [vector, located, worded]

econVars == <<econStage, checklist, sources, indexed, parsing, econAt, econFindings>>

EconInit == /\ econStage = "checklist" /\ checklist = <<>> /\ sources = <<>>
            /\ indexed = FALSE /\ parsing = TRUE /\ econAt = 1 /\ econFindings = <<>>
-----------------------------------------------------------------------------
(* load_from_dir: one file that cannot be read or parsed fails it.         *)
LoadVectors == \E readable \in BOOLEAN, v \in Vectors :
    /\ econStage = "checklist" /\ Len(checklist) < MaxVectors
    /\ IF readable THEN checklist' = Append(checklist, v) /\ UNCHANGED econStage
                   ELSE econStage' = "failed" /\ UNCHANGED checklist
    /\ UNCHANGED <<sources, indexed, parsing, econAt, econFindings>>

\* The sort is stable: what is before what in the sorted checklist.
StableById(order) == \A i, j \in DOMAIN order : i < j =>
    LET a == checklist[order[i]].id  b == checklist[order[j]].id
    IN  a < b \/ (a = b /\ order[i] < order[j])
Loaded == /\ econStage = "checklist" /\ econStage' = "workspace"
          /\ \E order \in [DOMAIN checklist -> DOMAIN checklist] :
                 StableById(order) /\ checklist' = [i \in DOMAIN order |-> checklist[order[i]]]
          /\ UNCHANGED <<sources, indexed, parsing, econAt, econFindings>>

AddFile == \E f \in SourceFiles :
    /\ econStage = "workspace" /\ Len(sources) < MaxFiles
    /\ sources' = Append(sources, f)
    /\ UNCHANGED <<econStage, checklist, indexed, parsing, econAt, econFindings>>

Analyze == /\ econStage = "workspace" /\ econStage' = "analyzing"
           /\ indexed' \in BOOLEAN /\ parsing' \in BOOLEAN
           /\ UNCHANGED <<checklist, sources, econAt, econFindings>>
-----------------------------------------------------------------------------
(* scan_workspace: files that cannot be read are left out, and analyze     *)
(* takes the scan that failed altogether for one that found nothing.       *)
Scanned == {i \in DOMAIN sources : parsing /\ sources[i].readable}
CalledSymbols == UNION {sources[i].calls : i \in Scanned}
Fields == UNION {sources[i].fields : i \in Scanned}
Consts == UNION {sources[i].consts : i \in Scanned}

CallMatchesExactly(symbol, pattern) == symbol = pattern
CallMatches(symbol, pattern) == <<symbol, pattern>> \in Containing \/ <<SymbolTail[symbol], SymbolTail[pattern]>> \in Containing
MatchingCalls(patterns) == {c \in CalledSymbols : \E p \in patterns : CallMatches(c, p)}
ConstsLike(pattern) == {c \in Consts : <<c, pattern>> \in Containing}

\* workspace_has_compiled_code
CompiledCode == /\ \E i \in DOMAIN sources : sources[i].target
                /\ indexed \/ CalledSymbols # {}

\* run_detection: whether it fires, and whether it points at code.
Triggered(d) ==
    \/ d.kind = "call_absent" /\ CompiledCode /\ MatchingCalls(d.patterns) = {}
    \/ d.kind = "call_present" /\ MatchingCalls(d.patterns) # {}
    \/ d.kind = "field_absent" /\ d.field \notin Fields
    \/ d.kind = "bound" /\ ((ConstsLike(d.const) = {}) <=> d.exists)
Located(d) == \/ d.kind = "call_present" /\ MatchingCalls(d.patterns) # {}
              \/ d.kind = "bound" /\ ConstsLike(d.const) # {}

\* One turn of analyze's loop; render_description has no LLM, an answer or an error.
CheckVector == \E worded \in BOOLEAN :
    /\ econStage = "analyzing" /\ econAt <= Len(checklist)
    /\ LET v == checklist[econAt] IN
       /\ Triggered(v.detection) \/ ~worded
       /\ econFindings' = IF Triggered(v.detection)
                          THEN Append(econFindings, [vector |-> v, located |-> Located(v.detection), worded |-> worded])
                          ELSE econFindings
    /\ econAt' = econAt + 1
    /\ UNCHANGED <<econStage, checklist, sources, indexed, parsing>>

Analyzed == /\ econStage = "analyzing" /\ econAt > Len(checklist) /\ econStage' = "analyzed"
            /\ UNCHANGED <<checklist, sources, indexed, parsing, econAt, econFindings>>

EconNext == LoadVectors \/ Loaded \/ AddFile \/ Analyze \/ CheckVector \/ Analyzed
EconSpec == EconInit /\ [][EconNext]_econVars
-----------------------------------------------------------------------------
EconTypeOK ==
    /\ econStage \in {"checklist", "failed", "workspace", "analyzing", "analyzed"}
    /\ checklist \in Seq(Vectors) /\ Len(checklist) <= MaxVectors
    /\ sources \in Seq(SourceFiles) /\ Len(sources) <= MaxFiles
    /\ indexed \in BOOLEAN /\ parsing \in BOOLEAN
    /\ econAt \in 1..(MaxVectors + 1)
    /\ econFindings \in Seq([vector : Vectors, located : BOOLEAN, worded : BOOLEAN])

\* What the checklist calls absent is in no file that could be read, not even
\* as the tail of a path; or the scan failed altogether, which analyze does not
\* say: then the semantic index knows of calls, and no finding of the checklist
\* points at code.  A file that could not be read says nothing.
\* (CallSiteAbsent, find_matching_calls, scan_workspace)
AbsenceIsReal ==
    \A i \in DOMAIN econFindings : LET d == econFindings[i].vector.detection IN
        d.kind = "call_absent" =>
            \/ \A f \in ToSet(sources) : f.readable =>
                   ~\E c \in f.calls, p \in d.patterns : SymbolTail[c] = SymbolTail[p]
            \/ ~parsing /\ indexed /\ \A j \in DOMAIN econFindings : ~econFindings[j].located
=============================================================================
