---------------------------- MODULE HarnessGate ----------------------------
(***************************************************************************)
(* KaniHarnessScaffolder and EvidenceGate: a harness is assembled around   *)
(* an assertion that a rule fixes, and the gate compiles it and runs it    *)
(* twice.  The fix loop lets an LLM rewrite a harness that does not        *)
(* compile, and must keep it from rewriting what the harness asserts.      *)
(* Several gates of one process work at once in one directory of binaries. *)
(***************************************************************************)
EXTENDS Naturals, Sequences, FiniteSets

CONSTANTS Gates,     \* validations at work
          Asserts,   \* texts of lines that assert: "stub", "required", "other"
          Counted,   \* those that ASSERTION_PATTERN matches
          Sources,   \* bound: what callers and the LLM write
          GateRetries, \* bound: values of max_retries
          GateTimes, \* bound: readings of the system clock are 1..GateTimes
          MaxPaths   \* bound: binaries of the process

\* A line that asserts, in code or in a comment or string, and a source.
AssertLines == [text : Asserts, code : BOOLEAN]
InCodeLine(text) == [text |-> text, code |-> TRUE]
NoSource == [harness |-> FALSE, lines |-> <<>>]

ASSUME GateAssumption ==
    /\ Sources \subseteq [harness : BOOLEAN, lines : Seq(AssertLines)]
    /\ {"stub", "required"} \subseteq Counted /\ Counted \subseteq Asserts /\ "other" \in Asserts
    /\ GateRetries \subseteq Nat /\ GateTimes \in Nat \ {0} /\ MaxPaths \in Nat

\* The text that the LLM is asked about and what it answers.
AssumeHints == {"none", "assume", "assume_and_assert", "contradiction", "prose"}

VARIABLES gate,     \* Gates -> what a call has reached
          binaries, \* path -> [gate, source]: the binaries on disk
          ticker,   \* the clock
          counter   \* PERSIST_COUNTER

gateVars == <<gate, binaries, ticker, counter>>

Fresh == [stage |-> "idle", fixing |-> FALSE, original |-> NoSource, source |-> NoSource, required |-> "none",
          retries |-> 0, attempt |-> 0, path |-> <<>>, ran |-> {}, level |-> 0, passed |-> FALSE]
GateInit == /\ gate = [g \in Gates |-> Fresh] /\ binaries = << >>
            /\ ticker = 1 /\ counter = 0
-----------------------------------------------------------------------------
(* count_assertions and extract_required_assertion.                        *)
CountedIn(source) == {i \in DOMAIN source.lines : source.lines[i].code /\ source.lines[i].text \in Counted}
FirstCounted(source) == source.lines[CHOOSE i \in CountedIn(source) : \A j \in CountedIn(source) : i <= j].text
AssertsText(source, text) == \E i \in DOMAIN source.lines : source.lines[i].text = text

\* parse_assume_lines keeps what starts as an assumption, ends as a statement
\* and is not a contradiction; assemble puts it before the call.
Assembled(hint) ==
    [harness |-> TRUE,
     lines |-> <<InCodeLine("stub")>> \o (IF hint = "assume_and_assert" THEN <<InCodeLine("other")>> ELSE <<>>)
                   \o <<InCodeLine("required")>>]

\* KaniHarnessScaffolder::build; without an LLM, or when its call fails, there
\* are no hints.
Scaffold(g) == \E hint \in AssumeHints :
    /\ gate[g].stage = "idle"
    /\ gate' = [gate EXCEPT ![g] = [Fresh EXCEPT !.stage = "text", !.required = "required", !.attempt = 1,
                                                 !.original = Assembled(hint), !.source = Assembled(hint)]]
    /\ UNCHANGED <<binaries, ticker, counter>>

\* fix_syntax_and_retry: what must stay is the line of the first assertion.
StartFix(g) == \E source \in Sources, retries \in GateRetries :
    /\ gate[g].stage = "idle"
    /\ gate' = [gate EXCEPT ![g] =
           IF CountedIn(source) = {} THEN [Fresh EXCEPT !.stage = "done", !.fixing = TRUE, !.original = source, !.attempt = 1]
           ELSE [Fresh EXCEPT !.stage = "ask", !.fixing = TRUE, !.original = source, !.source = source,
                              !.required = FirstCounted(source), !.retries = retries, !.attempt = 1]]
    /\ UNCHANGED <<binaries, ticker, counter>>

\* The call fails, the answer asserts more than the original, or it is tried.
AddsAssertions(source, original) == Cardinality(CountedIn(source)) > Cardinality(CountedIn(original))
Ask(g) ==
    /\ gate[g].stage = "ask"
    /\ \/ gate' = [gate EXCEPT ![g].stage = "done"]
       \/ \E source \in Sources :
             gate' = [gate EXCEPT ![g].source = source,
                                  ![g].stage = IF AddsAssertions(source, gate[g].original) THEN "done" ELSE "text"]
    /\ UNCHANGED <<binaries, ticker, counter>>
-----------------------------------------------------------------------------
(* validate.  A result that does not pass ends a scaffolded harness, and   *)
(* an attempt of the fix loop, whose own result then is of level 0.        *)
Failed(g, level) == LET v == gate[g] IN
    gate' = [gate EXCEPT ![g] =
        IF ~v.fixing THEN [v EXCEPT !.stage = "done", !.level = level]
        ELSE IF v.attempt < v.retries THEN [v EXCEPT !.stage = "ask", !.attempt = v.attempt + 1, !.ran = {}]
        ELSE [v EXCEPT !.stage = "done", !.attempt = v.retries, !.level = 0]]

CheckText(g) ==
    /\ gate[g].stage = "text"
    /\ IF gate[g].source.harness /\ AssertsText(gate[g].source, gate[g].required)
       THEN gate' = [gate EXCEPT ![g].stage = "compile"] ELSE Failed(g, 0)
    /\ UNCHANGED <<binaries, ticker, counter>>

\* next_binary_path: the clock, and a counter that no two calls read alike.
PathOfClock(g) == <<ticker, 0>>
PathOf(g) == <<ticker, counter>>
Allocate(g) ==
    /\ gate[g].stage = "compile" /\ counter < MaxPaths
    /\ counter' = counter + 1
    /\ gate' = [gate EXCEPT ![g].stage = "rustc", ![g].path = PathOf(g)]
    /\ UNCHANGED <<binaries, ticker>>

\* rustc replaces the binary, or fails and leaves none.
Compile(g) ==
    /\ gate[g].stage = "rustc"
    /\ \/ /\ binaries' = [p \in DOMAIN binaries \cup {gate[g].path} |->
                             IF p = gate[g].path THEN [gate |-> g, source |-> gate[g].source] ELSE binaries[p]]
          /\ gate' = [gate EXCEPT ![g].stage = "first"]
       \/ UNCHANGED binaries /\ Failed(g, 1)
    /\ UNCHANGED <<ticker, counter>>

\* run_binary: four attempts while the file is busy; an error, or output that
\* differs between the two runs, fails.
Run(g) ==
    /\ gate[g].stage \in {"first", "second"}
    /\ LET ran == gate[g].ran \cup {binaries[gate[g].path]} IN
       \/ gate[g].stage = "first" /\ gate' = [gate EXCEPT ![g].stage = "second", ![g].ran = ran]
       \/ gate[g].stage = "first" /\ Failed(g, 1)
       \/ gate[g].stage = "second" /\ Failed(g, 2)
       \/ /\ gate[g].stage = "second"
          /\ gate' = [gate EXCEPT ![g].stage = "done", ![g].ran = ran, ![g].level = 3, ![g].passed = TRUE]
    /\ UNCHANGED <<binaries, ticker, counter>>

GateTick == ticker < GateTimes /\ ticker' = ticker + 1 /\ UNCHANGED <<gate, binaries, counter>>

GateNext == \/ GateTick
            \/ \E g \in Gates : \/ Scaffold(g) \/ StartFix(g) \/ Ask(g)
                                \/ CheckText(g) \/ Allocate(g) \/ Compile(g) \/ Run(g)
GateSpec == GateInit /\ [][GateNext]_gateVars
-----------------------------------------------------------------------------
SourceType == [harness : BOOLEAN, lines : Seq(AssertLines)]
Binary == [gate : Gates, source : SourceType]
Paths == Nat \X Nat
Validation ==
    [stage : {"idle", "ask", "text", "compile", "rustc", "first", "second", "done"}, fixing : BOOLEAN,
     original : SourceType, source : SourceType, required : Asserts \cup {"none"},
     retries : Nat, attempt : Nat, path : Paths \cup {<<>>}, ran : SUBSET Binary, level : 0..3, passed : BOOLEAN]
GateTypeOK ==
    /\ gate \in [Gates -> Validation] /\ \A g \in Gates : (gate[g].passed <=> gate[g].level = 3)
    /\ DOMAIN binaries \subseteq Paths /\ \A p \in DOMAIN binaries : binaries[p] \in Binary
    /\ ticker \in 1..GateTimes /\ counter \in 0..MaxPaths

\* A harness that passes, rewritten or not, has the text of the assertion
\* that was required of it, and one that the LLM rewrote asserts no more often
\* than the original.  (validate, fix_syntax_and_retry)
RequiredTextStays ==
    \A g \in Gates : gate[g].passed =>
        /\ AssertsText(gate[g].source, gate[g].required) /\ gate[g].source.harness
        /\ gate[g].fixing =>
              /\ gate[g].required = FirstCounted(gate[g].original)
              /\ Cardinality(CountedIn(gate[g].source)) <= Cardinality(CountedIn(gate[g].original))

\* What a gate says of a harness is about that harness: both runs were of the
\* binary that this call compiled from the source it returns, which has the
\* required text, whatever other calls did in the directory meanwhile.
\* (compile_harness, next_binary_path, validate)
RunsOwnHarness ==
    /\ RequiredTextStays
    /\ \A g \in Gates : gate[g].passed => gate[g].ran = {[gate |-> g, source |-> gate[g].source]}

\* What the prompt of the fix loop forbids (evidence_gate.rs:249): adding,
\* removing or changing assertions.
AssertionsUnchanged ==
    \A g \in Gates : gate[g].passed /\ gate[g].fixing =>
        SelectSeq(gate[g].source.lines, LAMBDA l : l.code) = SelectSeq(gate[g].original.lines, LAMBDA l : l.code)
=============================================================================
