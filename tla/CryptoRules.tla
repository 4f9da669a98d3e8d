---------------------------- MODULE CryptoRules ----------------------------
(***************************************************************************)
(* RuleEvaluator of the crypto engine: misuse rules, each of patterns over *)
(* the syntax tree and of checks on the text, evaluated over every file of *)
(* every member of the workspace.                                          *)
(***************************************************************************)
EXTENDS Integers, Sequences, FiniteSets, SequencesExt

CONSTANTS RuleIds, Names, Checks,
          RustPaths,    \* the files that a walk may meet
          FileLines,    \* bound: lines of a file
          SnippetLines, \* max_lines of the snippets, 10 in the code
          MaxRules, MaxVisits \* bounds: rules loaded, files met by the walks

ASSUME RulesAssumption ==
    /\ RuleIds \subseteq Nat /\ IsFiniteSet(Checks) /\ FileLines \in Nat \ {0}
    /\ SnippetLines \in Nat \ {0} /\ MaxRules \in Nat /\ MaxVisits \in Nat

\* CryptoMisuseRule: its patterns, here the names they look for, and checks.
Rules == [id : RuleIds, patterns : SUBSET Names, checks : SUBSET Checks]
\* What a file has: nodes that a pattern can match, in a test module or not,
\* and the lines that a check's expressions match.
Contents == [nodes : {{}} \cup {{x} : x \in [name : Names, line : {1}, test : BOOLEAN]},
             lines : [Checks -> SUBSET (1..FileLines)]]

VARIABLES ruleStage, \* loading, failed, walking, done
          rules, contents,
          visits,    \* what the walks of the members meet: [crate, path, readable]
          found      \* all_matches: [rule, crate, path, start, end, nodes]

ruleVars == <<ruleStage, rules, contents, visits, found>>

Empty == [nodes |-> {}, lines |-> [c \in Checks |-> {}]]
RulesInit == /\ ruleStage = "loading" /\ rules = <<>>
             /\ contents = [p \in RustPaths |-> Empty]
             /\ visits = <<>> /\ found = <<>>
-----------------------------------------------------------------------------
(* load_from_dir and validate_rule_schema.                                 *)
ValidRule(rule) == rule.patterns # {} \/ rule.checks # {}

LoadRule == \E rule \in Rules, parses \in BOOLEAN :
    /\ ruleStage = "loading" /\ Len(rules) < MaxRules
    /\ IF ValidRule(rule) /\ parses
       THEN rules' = Append(rules, rule) /\ UNCHANGED ruleStage
       ELSE ruleStage' = "failed" /\ UNCHANGED rules
    /\ UNCHANGED <<contents, visits, found>>

\* The sort is stable: what is before what in the sorted rules.
StableByRuleId(order) == \A i, j \in DOMAIN order : i < j =>
    LET a == rules[order[i]].id  b == rules[order[j]].id
    IN  a < b \/ (a = b /\ order[i] < order[j])
RulesLoaded ==
    /\ ruleStage = "loading" /\ rules # <<>>
    /\ \E order \in [DOMAIN rules -> DOMAIN rules] :
           StableByRuleId(order) /\ rules' = [i \in DOMAIN order |-> rules[order[i]]]
    /\ contents' \in [RustPaths -> Contents]
    /\ ruleStage' = "walking"
    /\ UNCHANGED <<visits, found>>

-----------------------------------------------------------------------------
(* snippet_for_line                                                        *)
AtLeastOne(n) == IF n < 1 THEN 1 ELSE n
Window(line) ==
    LET start == AtLeastOne(line - SnippetLines \div 2)
        end == start + SnippetLines - 1
        clamped == IF end > FileLines
                   THEN [start |-> AtLeastOne(FileLines - (SnippetLines - 1)), end |-> FileLines]
                   ELSE [start |-> start, end |-> end]
    IN  IF line \in clamped.start..clamped.end THEN clamped
        ELSE [start |-> line, end |-> IF line + SnippetLines - 1 > FileLines THEN FileLines ELSE line + SnippetLines - 1]

Match(rule, visit, line, nodes) ==
    [rule |-> rule.id, crate |-> visit.crate, path |-> visit.path,
     start |-> Window(line).start, end |-> Window(line).end, nodes |-> nodes]

\* dedup_rule_matches: the first of each key is kept.
KeyOfFile(m) == <<m.rule, m.path>>
Key(m) == <<m.rule, m.path, m.start, m.end>>
Dedup(matches) ==
    LET first(i) == \A j \in 1..(i - 1) : Key(matches[j]) # Key(matches[i])
        kept[i \in 0..Len(matches)] ==
            IF i = 0 THEN <<>>
            ELSE IF first(i) THEN Append(kept[i - 1], matches[i]) ELSE kept[i - 1]
    IN  kept[Len(matches)]

\* Of each pattern's nodes only one is kept; should_skip_node skips no call.
PatternMatches(rule, visit) ==
    LET nodes == {n \in contents[visit.path].nodes : n.name \in rule.patterns}
    IN  [i \in 1..Cardinality(nodes) |-> LET n == SetToSeq(nodes)[i] IN Match(rule, visit, n.line, {n.name})]
\* The lines of a check come in the order of its expressions, each line once.
CheckMatches(rule, visit) ==
    LET lines == contents[visit.path].lines
        matched(check) == [i \in 1..Cardinality(lines[check]) |-> Match(rule, visit, SetToSeq(lines[check])[i], {})]
        checks == SetToSeq(rule.checks)
    IN  IF \E c \in rule.checks : lines[c] = {} THEN <<>>
        ELSE Dedup(FlattenSeq([i \in DOMAIN checks |-> matched(checks[i])]))

\* One rule of evaluate_file: the matches of checks, which name the first
\* pattern's node too, stand for those of patterns.
RuleMatches(rule, visit) ==
    LET byPattern == PatternMatches(rule, visit)
        byCheck == CheckMatches(rule, visit)
    IN  IF rule.patterns # {} /\ byPattern = <<>> THEN <<>>
        ELSE IF rule.checks # {} /\ byCheck = <<>> THEN <<>>
        ELSE IF byCheck = <<>> THEN byPattern
        ELSE IF byPattern = <<>> THEN byCheck
        ELSE [i \in DOMAIN byCheck |-> [byCheck[i] EXCEPT !.nodes = byPattern[1].nodes]]

\* A walk meets a file; a member inside another's directory meets it again.
EvaluateFile == \E crate \in {"outer", "inner"}, path \in RustPaths, readable \in BOOLEAN :
    /\ ruleStage = "walking" /\ Len(visits) < MaxVisits
    /\ \A i \in DOMAIN visits : visits[i].path = path =>
           visits[i].crate # crate /\ visits[i].readable = readable
    /\ LET visit == [crate |-> crate, path |-> path, readable |-> readable]
           matches == Dedup(FlattenSeq([i \in DOMAIN rules |-> RuleMatches(rules[i], visit)]))
       IN  /\ visits' = Append(visits, visit)
           /\ found' = IF readable THEN found \o matches ELSE found
    /\ UNCHANGED <<ruleStage, rules, contents>>

Evaluated == /\ ruleStage = "walking" /\ visits # <<>>
             /\ ruleStage' = "done" /\ found' = Dedup(found)
             /\ UNCHANGED <<rules, contents, visits>>

RulesNext == LoadRule \/ RulesLoaded \/ EvaluateFile \/ Evaluated
RulesSpec == RulesInit /\ [][RulesNext]_ruleVars
-----------------------------------------------------------------------------
RulesTypeOK ==
    /\ ruleStage \in {"loading", "failed", "walking", "done"}
    /\ rules \in Seq(Rules) /\ contents \in [RustPaths -> Contents]
    /\ visits \in Seq([crate : {"outer", "inner"}, path : RustPaths, readable : BOOLEAN])
    /\ found \in Seq([rule : RuleIds, crate : {"outer", "inner"}, path : RustPaths,
                      start : 1..FileLines, end : 1..FileLines, nodes : SUBSET Names])

\* Deduplication removes what is double and no more: no two matches of a rule
\* have one place, though nested members meet a file twice, and every line
\* that a rule of checks hits lies in one of its matches; a match stays within
\* its file, however near the hit is to an end of it.
MatchesCoverHits ==
    ruleStage = "done" =>
        /\ \A i, j \in DOMAIN found : Key(found[i]) = Key(found[j]) => i = j
        /\ \A rule \in ToSet(rules), visit \in ToSet(visits) :
             LET text == contents[visit.path].lines IN
             (visit.readable /\ rule.patterns = {} /\ \A c \in rule.checks : text[c] # {}) =>
                 \A c \in rule.checks : \A line \in text[c] :
                     \E m \in ToSet(found) : m.rule = rule.id /\ m.path = visit.path /\ line \in m.start..m.end
        /\ \A m \in ToSet(found) : \E rule \in ToSet(rules) :
               /\ rule.id = m.rule /\ 1 <= m.start /\ m.end <= FileLines
               /\ \A c \in rule.checks : contents[m.path].lines[c] # {}

\* What the comment of should_skip_node says, "Skip the entire mod block
\* decorated with #[cfg(test)]".
TestCodeSkipped ==
    \A m \in ToSet(found) : m.nodes # {} =>
        \E n \in contents[m.path].nodes : n.name \in m.nodes /\ ~n.test
=============================================================================
