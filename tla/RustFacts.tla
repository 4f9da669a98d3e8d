----------------------------- MODULE RustFacts -----------------------------
(***************************************************************************)
(* The facts about Rust files that engines rely on.  scan_file (crypto     *)
(* engine) reads a file line by line, keeping the impl block and the       *)
(* function it believes to be in; project-ir keeps a copy of that scanner  *)
(* for macros and trait impls, and takes calls from the syntax tree.       *)
(* SemanticIndex::build runs scan_file over a workspace, in a worker with  *)
(* a timeout and two fallbacks.                                            *)
(***************************************************************************)
EXTENDS Integers, Sequences, FiniteSets, SequencesExt

CONSTANTS FnNames,   \* names of functions
          Types,     \* types of impl blocks
          MaxLines,  \* bound: lines of a file
          MaxBuilds  \* bound: backends tried, three in the code

No == "no"
ASSUME FactsAssumption == MaxLines \in Nat /\ MaxBuilds \in 1..3 /\ No \notin FnNames \cup Types

\* A context of the scanner: a function or an impl block, or none of it.
Context(name) == [name |-> name, depth |-> 0, opened |-> FALSE]
Outside == Context(No)
\* What brace_delta tells apart in a line, and what a line can begin in.
Tokens == {"open", "close", "quote", "escape", "line_comment", "comment_open", "comment_close",
           "raw_open", "raw_close", "space"}
Constructs == {"code", "string", "raw", "comment"}

\* A line: its tokens; what it is to the language, that is the construct it
\* begins and ends in and what it does to blocks; what the regular
\* expressions match in it.
Line(starts, toks, body, ends, impl, fn, generic, calls, macro) ==
    [starts |-> starts, toks |-> toks, body |-> body, ends |-> ends,
     impl |-> impl, fn |-> fn, generic |-> generic, calls |-> calls, macro |-> macro]
Text(starts, toks, body, ends) == Line(starts, toks, body, ends, No, No, FALSE, {}, FALSE)
Code(toks, body) == Text("code", toks, body, "code")
Fn(toks, body, f, generic, calls) == Line("code", toks, body, "code", No, f, generic, calls, FALSE)
Impl(t) == Line("code", <<"open">>, "opens", "code", t, No, FALSE, {}, FALSE)
Macro == Line("code", <<>>, "none", "code", No, No, FALSE, {}, TRUE)

\* A generic function or call has `<` where FN_DECL_RE and CALL_RE want `(`.
\* They match patterns, macro arguments, `Self(` and comments all the same.
Site(f, as) == [callee |-> f, as |-> as]
Heads(toks, body, generic) == {Fn(toks, body, f, generic, {}) : f \in FnNames}
OneLiner(f) == Fn(<<"open", "close">>, "both", f, FALSE, {Site(g, "call") : g \in FnNames \ {f}})
CallsMade(as) == {Fn(<<>>, "none", No, FALSE, {Site(f, as)}) : f \in FnNames}
Hidden(c) == {Line(c, <<"open">>, "none", c, No, f, FALSE, {}, FALSE) : f \in FnNames}
DeclarationLines ==
    Heads(<<"open">>, "opens", FALSE) \cup Heads(<<>>, "none", FALSE) \cup Heads(<<>>, "ends", FALSE)
    \cup Heads(<<"open">>, "opens", TRUE) \cup Heads(<<>>, "none", TRUE) \cup Heads(<<>>, "ends", TRUE)
    \cup {OneLiner(f) : f \in FnNames} \cup {Impl(t) : t \in Types}
Statements ==
    CallsMade("call") \cup CallsMade("lookalike") \cup CallsMade("turbofish")
    \cup {Macro, Code(<<"open">>, "opens"), Code(<<"close">>, "closes"),
          Code(<<"quote", "open", "escape", "quote", "quote">>, "none")}
CharLiterals == {Code(<<"open">>, "none"), Code(<<"quote">>, "none")}
CommentsAndStrings ==
    Hidden("comment") \cup Hidden("string") \cup Hidden("raw") \cup
    {Code(<<"line_comment", "open">>, "none"),
     Text("code", <<"comment_open">>, "none", "comment"),
     Text("comment", <<"comment_open", "open", "comment_close">>, "none", "comment"),
     Text("comment", <<"comment_close">>, "none", "code"),
     Text("code", <<"raw_open", "close">>, "none", "raw"),
     Text("raw", <<"quote", "open">>, "none", "raw"),
     Text("raw", <<"raw_close">>, "none", "code"),
     Text("code", <<"quote", "escape">>, "none", "string"),
     Text("string", <<"quote">>, "none", "code"),
     Text("string", <<"space", "quote">>, "none", "code")}
Lines == DeclarationLines \cup Statements \cup CharLiterals \cup CommentsAndStrings

\* To the language: a function by its declaration, or none.
Function(name, generic) == [name |-> name, generic |-> generic]
Nobody == Function(No, FALSE)

VARIABLES file,       \* the lines read so far
          lex,        \* BraceScanState
          implCtx,    \* impl_ctx
          fnCtx,      \* fn_ctx
          callGraph,  \* the scanner's: pairs of caller and callee
          symbols,    \* its keys: the functions it knows
          macroSites, traitImpls,
          construct,  \* syntax: the construct that the next line begins in
          blocks,     \* syntax: the open blocks, each a function or Nobody
          pending,    \* syntax: the function whose body has not begun
          treeCalls, treeFns, treeMacros, \* syntax: what the file really says
          plain,      \* history: the file is of the kind that the scanner's comment assumes
          tries,      \* history: backends tried
          backend     \* of the index: none, building, failed, or one of the three

factVars == <<file, lex, implCtx, fnCtx, callGraph, symbols, macroSites, traitImpls,
              construct, blocks, pending, treeCalls, treeFns, treeMacros, plain, tries, backend>>

FactsInit ==
    /\ file = <<>> /\ lex = [mode |-> "code", depth |-> 0]
    /\ implCtx = Outside /\ fnCtx = Outside
    /\ callGraph = {} /\ symbols = {} /\ macroSites = {} /\ traitImpls = {}
    /\ construct = "code" /\ blocks = <<>> /\ pending = Nobody
    /\ treeCalls = {} /\ treeFns = {} /\ treeMacros = {}
    /\ plain = TRUE
    /\ tries = 0 /\ backend = "none"
-----------------------------------------------------------------------------
(* brace_delta, token by token.  Its state outlives the line, and so does  *)
(* an escape: the backslash that ends a line takes the first byte of the   *)
(* next with it.                                                           *)
LexStep(s, tok) ==
    IF s.cut THEN s
    ELSE IF s.mode = "raw" THEN IF tok = "raw_close" THEN [s EXCEPT !.mode = "code"] ELSE s
    ELSE IF s.mode = "escaped" THEN
         IF tok = "raw_open" THEN [s EXCEPT !.mode = "code"] ELSE [s EXCEPT !.mode = "string"]
    ELSE IF s.mode = "string" THEN
         IF tok = "escape" THEN [s EXCEPT !.mode = "escaped"]
         ELSE IF tok \in {"quote", "raw_open", "raw_close"} THEN [s EXCEPT !.mode = "code"] ELSE s
    ELSE IF s.depth > 0 THEN
         IF tok = "comment_open" THEN [s EXCEPT !.depth = @ + 1]
         ELSE IF tok = "comment_close" THEN [s EXCEPT !.depth = @ - 1] ELSE s
    ELSE CASE tok = "line_comment" -> [s EXCEPT !.cut = TRUE]
           [] tok = "comment_open" -> [s EXCEPT !.depth = 1]
           [] tok = "raw_open" -> [s EXCEPT !.mode = "raw"]
           [] tok \in {"quote", "raw_close"} -> [s EXCEPT !.mode = "string"]
           [] tok = "open" -> [s EXCEPT !.delta = @ + 1]
           [] tok = "close" -> [s EXCEPT !.delta = @ - 1]
           [] OTHER -> s
LineStart == [mode |-> lex.mode, depth |-> lex.depth, delta |-> 0, cut |-> FALSE]
BraceDelta(toks) ==
    LET after[i \in 0..Len(toks)] == IF i = 0 THEN LineStart ELSE LexStep(after[i - 1], toks[i])
    IN  after[Len(toks)]

\* A context after a line: its block may have been opened, and it ends when
\* its depth is back to zero.  contains('{') sees every brace of the line.
HasBrace(line) == \E i \in DOMAIN line.toks : line.toks[i] = "open"
AfterLineUnopened(ctx, line, delta) ==
    IF ctx.depth + delta <= 0 THEN Outside ELSE [name |-> ctx.name, depth |-> ctx.depth + delta, opened |-> TRUE]
AfterLine(ctx, line, delta) ==
    LET opened == ctx.opened \/ HasBrace(line)
    IN  IF opened /\ ctx.depth + delta <= 0 THEN Outside
        ELSE [name |-> ctx.name, depth |-> ctx.depth + delta, opened |-> opened]

\* One iteration of scan_file: macros see the context of the line before, a
\* declaration opens a context when there is none, calls go to the context.
MatchedFn(line) == IF line.generic THEN No ELSE line.fn
Scan(line) ==
    LET braces == BraceDelta(line.toks)
        declared == MatchedFn(line)
        impl == IF implCtx = Outside /\ line.impl # No THEN Context(line.impl) ELSE implCtx
        fn == IF fnCtx = Outside /\ declared # No THEN Context(declared) ELSE fnCtx
        matched == {c.callee : c \in {c \in line.calls : c.as # "turbofish"}} \cup ({declared} \ {No})
    IN  /\ lex' = [mode |-> braces.mode, depth |-> braces.depth]
        /\ macroSites' = IF line.macro
                         THEN macroSites \cup {[line |-> Len(file) + 1, caller |-> fnCtx.name]}
                         ELSE macroSites
        /\ traitImpls' = IF impl # Outside /\ declared # No
                         THEN traitImpls \cup {[line |-> Len(file) + 1, type |-> impl.name, method |-> declared]}
                         ELSE traitImpls
        /\ symbols' = IF fnCtx = Outside /\ declared # No THEN symbols \cup {declared} ELSE symbols
        /\ callGraph' = IF fn = Outside THEN callGraph ELSE callGraph \cup {<<fn.name, c>> : c \in matched \ {fn.name}}
        /\ implCtx' = IF impl = Outside THEN Outside ELSE AfterLine(impl, line, braces.delta)
        /\ fnCtx' = IF fn = Outside THEN Outside ELSE AfterLine(fn, line, braces.delta)
-----------------------------------------------------------------------------
(* The syntax tree of the same lines, as walk_node and                     *)
(* collect_calls_in_function meet it: what each line is to the language.   *)
Shown(line) == line.starts = "code" /\ (line.toks = <<>> \/ line.toks[1] # "line_comment")
Innermost(stack) ==
    LET fns == {i \in DOMAIN stack : stack[i] # Nobody}
    IN  IF fns = {} THEN Nobody ELSE stack[CHOOSE i \in fns : \A j \in fns : j <= i]

\* A function is one of the tree's once its body begins, and a call is of
\* the innermost function; of the calls, collect_calls_in_function records
\* those that are not lookalikes.
Declared(line) ==
    IF Shown(line) /\ line.fn # No THEN Function(line.fn, line.generic) ELSE pending
Begins(line) == line.body \in {"opens", "both"} /\ Declared(line) # Nobody
Around(line) == IF Begins(line) THEN Declared(line) ELSE Innermost(blocks)
Tree(line) ==
    /\ construct' = line.ends
    /\ pending' = IF line.body = "none" THEN Declared(line) ELSE Nobody
    /\ blocks' = CASE line.body = "opens" -> Append(blocks, Declared(line))
                   [] line.body = "closes" -> SubSeq(blocks, 1, Len(blocks) - 1)
                   [] OTHER -> blocks
    /\ treeFns' = IF Begins(line) THEN treeFns \cup {Declared(line)} ELSE treeFns
    /\ treeCalls' = treeCalls \cup
                     {[caller |-> Around(line), callee |-> c.callee, as |-> c.as] :
                         c \in {c \in line.calls : c.callee # Around(line).name}}
    /\ treeMacros' = IF Shown(line) /\ line.macro
                     THEN treeMacros \cup {[line |-> Len(file) + 1, caller |-> Innermost(blocks)]} ELSE treeMacros

\* "assumes top-level declarations": functions are not nested, have bodies
\* that begin before anything else, and no declaration or macro stands in a
\* comment or a string.  And what brace_delta takes for granted: no literal
\* is of a brace or a quote, and the line after a backslash is indented.
PlainLine(line) ==
    /\ line \notin CharLiterals
    /\ lex.mode = "escaped" => line.toks # <<>> /\ line.toks[1] = "space"
    /\ Shown(line) \/ (line.fn = No /\ line.impl = No /\ ~line.macro)
    /\ line.fn # No => (Innermost(blocks) = Nobody /\ pending = Nobody /\ line.body # "ends")
    /\ implCtx # Outside => line.impl = No
    /\ \A ctx \in {fnCtx, implCtx} :
           ctx # Outside /\ ~ctx.opened =>
               ToSet(line.toks) \subseteq {"open", "close"} /\ construct = "code" /\ line.calls = {}

\* Source that parses: no block is closed that is not open, or between a
\* function's name and its body, and no statement stands outside a function.
Reads(line) ==
    /\ line.starts = construct
    /\ line.body = "closes" => blocks # <<>> /\ pending = Nobody
    /\ (line.calls # {} \/ line.macro) /\ line.fn = No => Innermost(blocks) # Nobody
    /\ Shown(line) /\ (line.fn # No \/ line.impl # No) => pending = Nobody

ReadLine == \E line \in Lines :
    /\ backend = "none" /\ Len(file) < MaxLines /\ Reads(line)
    /\ Scan(line) /\ Tree(line)
    /\ plain' = (plain /\ PlainLine(line))
    /\ file' = Append(file, line)
    /\ UNCHANGED <<tries, backend>>
-----------------------------------------------------------------------------
(* SemanticIndex::build over the workspace: every backend is the same scan *)
(* and fails on the first file it cannot read.  After a panic or a timeout *)
(* of the worker only the last fallback is tried.                          *)
Backends == <<"rust-analyzer", "lsp-subprocess", "tree-sitter-fallback">>

Built == /\ backend \in {"none", "building"} /\ tries < MaxBuilds
         /\ backend' = Backends[tries + 1] /\ tries' = tries + 1
Unreadable == /\ backend \in {"none", "building"} /\ tries < MaxBuilds
              /\ tries' = tries + 1
              /\ backend' = IF tries + 1 = MaxBuilds THEN "failed" ELSE "building"
WorkerLost == /\ backend = "none" /\ tries = 0
              /\ tries' = MaxBuilds - 1 /\ backend' = "building"

Build == /\ Built \/ Unreadable \/ WorkerLost
         /\ UNCHANGED <<file, lex, implCtx, fnCtx, callGraph, symbols, macroSites, traitImpls,
                        construct, blocks, pending, treeCalls, treeFns, treeMacros, plain>>

FactsNext == ReadLine \/ Build
FactsSpec == FactsInit /\ [][FactsNext]_factVars
-----------------------------------------------------------------------------
FnDecls == [name : FnNames, generic : BOOLEAN]
FactsTypeOK ==
    /\ file \in Seq(Lines) /\ Len(file) <= MaxLines /\ \A i \in DOMAIN file : file[i].toks \in Seq(Tokens)
    /\ lex.mode \in {"code", "string", "escaped", "raw"} /\ lex.depth \in Nat
    /\ \A ctx \in {implCtx, fnCtx} : ctx.depth \in Int /\ (ctx.opened => ctx.depth > 0)
    /\ construct \in Constructs
    /\ blocks \in Seq(FnDecls \cup {Nobody}) /\ pending \in FnDecls \cup {Nobody} /\ treeFns \subseteq FnDecls
    /\ callGraph \subseteq FnNames \X FnNames /\ symbols \subseteq FnNames
    /\ tries \in 0..MaxBuilds /\ backend \in {"none", "building", "failed"} \cup ToSet(Backends)

\* On files of the kind that the scanner assumes, it charges every call and
\* every macro to the function that the syntax tree charges it to, and
\* misses or adds nothing but this: generic functions with all that is in
\* them, generic calls, and what only looks like a call (ra_client.rs
\* scan_file against semantic.rs collect_calls_in_function).
Ordinary == {d \in treeFns : ~d.generic}
ScannersAgree ==
    plain /\ pending = Nobody =>
        /\ symbols = {d.name : d \in Ordinary}
        /\ callGraph = {<<c.caller.name, c.callee>> :
                           c \in {c \in treeCalls : c.caller \in Ordinary /\ c.as # "turbofish"}}
        /\ macroSites = {[line |-> m.line, caller |-> IF m.caller.generic THEN No ELSE m.caller.name] :
                            m \in treeMacros}
=============================================================================
