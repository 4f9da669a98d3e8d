---------------------------- MODULE EngineProofs ----------------------------
(* What the engines read and conclude: the facts that are scanned out of a *)
(* Rust file, the matches of the misuse rules, the verdict on a Circom     *)
(* circuit, the findings on Halo2 chips, on economic checklists and on the *)
(* dependencies of a workspace.  The first lemmas are about data: least    *)
(* numbers, recursive functions, the elements of a set in some order.      *)
EXTENDS StaticEngines, FiniteSetTheorems, SequenceTheorems, WellFoundedInduction, TLAPS
-----------------------------------------------------------------------------
(* Every nonempty set of natural numbers has a least element.              *)
LEMMA LeastNat ==
    ASSUME NEW S \in SUBSET Nat, S # {}
    PROVE  \E m \in S : \A n \in S : m <= n
<1> DEFINE R == {ss \in Nat \X Nat : ss[1] < ss[2]}
<1>1. IsWellFoundedOn(R, Nat) BY NatLessThanWellFounded DEF OpToRel
<1> HIDE DEF R
<1>2. PICK m \in S : \A n \in S : ~(<<n, m>> \in R) BY <1>1, WFMin
<1>3. \A n \in S : ~(n < m) BY <1>2 DEF R
<1>q. QED BY <1>3

(* What repeats a step n times, from a, has values for all of them: the    *)
(* recursive functions of the models are of this form.                     *)
Repetition(w, S, a, n, next) ==
    w \in [0..n -> S] /\ w[0] = a /\ \A i \in 1..n : w[i] = next[<<w[i - 1], i>>]

LEMMA Repeated ==
    ASSUME NEW S, NEW a \in S, NEW n \in Nat, NEW next \in [S \X (1..n) -> S]
    PROVE  \E w : Repetition(w, S, a, n, next)
<1> USE DEF Repetition
<1> DEFINE Right(w, m) == w[0] = a /\ \A i \in 1..m : w[i] = next[<<w[i - 1], i>>]
           B == {m \in 0..n : ~\E w \in [0..m -> S] : Right(w, m)}
<1>1. CASE B = {}
  <2>1. n \in 0..n OBVIOUS
  <2>q. QED BY <1>1, <2>1
<1>2. CASE B # {}
  <2>1. PICK m \in B : \A k \in B : m <= k
    <3>1. B \in SUBSET Nat OBVIOUS
    <3>q. QED BY <1>2, <3>1, LeastNat
  <2>2. m \in 0..n /\ ~\E w \in [0..m -> S] : Right(w, m) BY <2>1
  <2>3. CASE m = 0
    <3> DEFINE w == [i \in 0..0 |-> a]
    <3>1. w \in [0..0 -> S] /\ Right(w, 0) OBVIOUS
    <3>q. QED BY <2>2, <2>3, <3>1
  <2>4. CASE m # 0
    <3>1. m - 1 \in 0..n /\ m \in 1..n /\ ~(m <= m - 1) BY <2>2, <2>4
    <3>2. m - 1 \notin B BY <2>1, <3>1
    <3>3. PICK w \in [0..(m - 1) -> S] : Right(w, m - 1) BY <3>1, <3>2
    <3> DEFINE longer == [i \in 0..m |-> IF i = m THEN next[<<w[m - 1], m>>] ELSE w[i]]
    <3>4. w[m - 1] \in S /\ next[<<w[m - 1], m>>] \in S BY <3>1, <3>3
    <3>5. longer \in [0..m -> S]
      <4>1. \A i \in 0..m : i # m => i \in 0..(m - 1) BY <3>1
      <4>q. QED BY <3>3, <3>4, <4>1
    <3>6. longer[0] = a BY <3>1, <3>3
    <3>7. ASSUME NEW i \in 1..m PROVE longer[i] = next[<<longer[i - 1], i>>]
      <4>1. i - 1 \in 0..m /\ i - 1 # m /\ longer[i - 1] = w[i - 1] BY <3>1
      <4>2. CASE i = m BY <4>1, <4>2
      <4>3. CASE i # m
        <5>1. i \in 1..(m - 1) /\ i \in 0..m BY <3>1, <4>3
        <5>2. w[i] = next[<<w[i - 1], i>>] BY <3>3, <5>1
        <5>q. QED BY <4>1, <4>3, <5>1, <5>2
      <4>q. QED BY <4>2, <4>3
    <3>8. Right(longer, m) BY <3>6, <3>7
    <3>q. QED BY <2>2, <3>5, <3>8
  <2>q. QED BY <2>3, <2>4
<1>q. QED BY <1>1, <1>2

(* SetToSeq of a finite set is its elements, each once.                    *)
LEMMA EachInSeq ==
    ASSUME NEW S, IsFiniteSet(S)
    PROVE  /\ SetToSeq(S) \in Seq(S)
           /\ \A i, j \in DOMAIN SetToSeq(S) : SetToSeq(S)[i] = SetToSeq(S)[j] => i = j
           /\ {SetToSeq(S)[i] : i \in DOMAIN SetToSeq(S)} = S
<1>1. PICK l \in Nat : l = Cardinality(S) /\ ExistsBijection(1..l, S) BY FS_CardinalityType
<1>2. \E f \in [1..l -> S] : IsInjective(f)
  BY <1>1 DEF ExistsBijection, Bijection, Injection, IsInjective
<1>3. PICK f \in [1..l -> S] : f = SetToSeq(S) /\ IsInjective(f) BY <1>1, <1>2 DEF SetToSeq
<1>4. \A i, j \in 1..l : f[i] = f[j] => i = j BY <1>3 DEF IsInjective
<1>5. f \in Injection(1..l, S) BY <1>3, <1>4 DEF Injection, IsInjective
<1>6. IsFiniteSet(1..l) /\ Cardinality(1..l) = l BY <1>1, FS_Interval
<1>7. f \in Surjection(1..l, S) BY <1>1, <1>5, <1>6, FS_Injection
<1>8. {f[i] : i \in 1..l} = S BY <1>3, <1>7 DEF Surjection
<1>9. f \in Seq(S)
  <2>1. \A n \in Nat : \A u : u \in [1..n -> S] => u \in Seq(S) OBVIOUS
  <2>q. QED BY <1>1, <2>1
<1>q. QED BY <1>3, <1>4, <1>8, <1>9
-----------------------------------------------------------------------------
(* The scanner of Rust files.  Along a line the lexer's states are those   *)
(* of a recursive function of the tokens.                                  *)
Decls == FnDecls \cup {Nobody}
Modes == {"code", "string", "escaped", "raw"}
LexStates == [mode : Modes, depth : Nat, delta : Int, cut : BOOLEAN]
LexAlong(g, toks) ==
    /\ g \in [0..Len(toks) -> LexStates] /\ g[0] = LineStart
    /\ \A i \in 1..Len(toks) : g[i] = LexStep(g[i - 1], toks[i])

FactsTyped ==
    /\ lex \in [mode : Modes, depth : Nat] /\ construct \in Constructs
    /\ blocks \in Seq(Decls) /\ pending \in Decls /\ treeFns \subseteq FnDecls

LEMMA LexStepIs ==
    ASSUME NEW s \in LexStates, NEW tok
    PROVE  /\ LexStep(s, tok) \in LexStates
           /\ \/ LexStep(s, tok).delta = s.delta
              \/ tok = "open" /\ LexStep(s, tok).delta = s.delta + 1
              \/ tok = "close" /\ LexStep(s, tok).delta = s.delta - 1
           /\ s.mode = "code" /\ s.depth = 0 /\ ~s.cut =>
                  /\ tok = "open" => LexStep(s, tok) = [s EXCEPT !.delta = s.delta + 1]
                  /\ tok = "close" => LexStep(s, tok) = [s EXCEPT !.delta = s.delta - 1]
<1>1. PICK m \in Modes, p \in Nat, d \in Int, c \in BOOLEAN : s = [mode |-> m, depth |-> p, delta |-> d, cut |-> c]
  BY DEF LexStates
<1>2. s.mode = m /\ s.depth = p /\ s.delta = d /\ s.cut = c BY <1>1
<1>3. PICK r : r = LexStep(s, tok) OBVIOUS
<1> DEFINE Became(mm, pp, dd, cc) == [mode |-> mm, depth |-> pp, delta |-> dd, cut |-> cc]
<1>4. \/ r = s
      \/ r = Became("code", p, d, c) \/ r = Became("string", p, d, c) \/ r = Became("escaped", p, d, c)
      \/ r = Became("raw", p, d, c)
      \/ r = Became(m, p + 1, d, c) \/ (p > 0 /\ r = Became(m, p - 1, d, c)) \/ r = Became(m, 1, d, c)
      \/ r = Became(m, p, d, TRUE)
      \/ tok = "open" /\ r = Became(m, p, d + 1, c)
      \/ tok = "close" /\ r = Became(m, p, d - 1, c)
  BY <1>1, <1>2, <1>3 DEF LexStep
<1>5. r \in LexStates
  <2>1. \A mm \in Modes, pp \in Nat, dd \in Int, cc \in BOOLEAN : Became(mm, pp, dd, cc) \in LexStates
    BY DEF LexStates
  <2>2. /\ "code" \in Modes /\ "string" \in Modes /\ "escaped" \in Modes /\ "raw" \in Modes
        /\ p + 1 \in Nat /\ (p > 0 => p - 1 \in Nat) /\ 1 \in Nat /\ d + 1 \in Int /\ d - 1 \in Int /\ TRUE \in BOOLEAN
    BY DEF Modes
  <2>3. /\ Became("code", p, d, c) \in LexStates /\ Became("string", p, d, c) \in LexStates
        /\ Became("escaped", p, d, c) \in LexStates /\ Became("raw", p, d, c) \in LexStates
    BY <2>1, <2>2
  <2>4. /\ Became(m, p + 1, d, c) \in LexStates /\ (p > 0 => Became(m, p - 1, d, c) \in LexStates)
        /\ Became(m, 1, d, c) \in LexStates /\ Became(m, p, d, TRUE) \in LexStates
        /\ Became(m, p, d + 1, c) \in LexStates /\ Became(m, p, d - 1, c) \in LexStates
    BY <2>1, <2>2
  <2> HIDE DEF Became
  <2>q. QED BY <1>4, <2>3, <2>4
<1>6. r.delta = d \/ (tok = "open" /\ r.delta = d + 1) \/ (tok = "close" /\ r.delta = d - 1) BY <1>1, <1>4
<1>7. ASSUME m = "code", p = 0, ~c
      PROVE  /\ tok = "open" => r = [s EXCEPT !.delta = s.delta + 1]
             /\ tok = "close" => r = [s EXCEPT !.delta = s.delta - 1]
  BY <1>1, <1>2, <1>3, <1>7 DEF LexStep
<1>q. QED BY <1>2, <1>3, <1>5, <1>6, <1>7

(* What the recursive functions of the model compute.                      *)
LEMMA LineStartTyped ==
    ASSUME FactsTyped
    PROVE  LineStart \in LexStates
<1>1. lex.mode \in Modes /\ lex.depth \in Nat BY DEF FactsTyped
<1>2. \A m \in Modes, p \in Nat : [mode |-> m, depth |-> p, delta |-> 0, cut |-> FALSE] \in LexStates BY DEF LexStates
<1>q. QED BY <1>1, <1>2 DEF LineStart

LEMMA BraceDeltaIs ==
    ASSUME FactsTyped, NEW toks \in Seq(Tokens)
    PROVE  \E g : LexAlong(g, toks) /\ BraceDelta(toks) = g[Len(toks)]
<1>1. PICK l \in Nat : l = Len(toks) OBVIOUS
<1>2. PICK start \in LexStates : start = LineStart BY LineStartTyped
<1> DEFINE Taken(g) == [i \in 0..l |-> IF i = 0 THEN start ELSE LexStep(g[i - 1], toks[i])]
           chosen == CHOOSE g : g = Taken(g)
<1>3. BraceDelta(toks) = chosen[l] BY <1>1, <1>2 DEF BraceDelta
<1>4. \E g : g = Taken(g)
  <2>1. PICK f : f = [q \in LexStates \X (1..l) |-> LexStep(q[1], toks[q[2]])] OBVIOUS
  <2>2. \A v \in LexStates, i \in 1..l : f[<<v, i>>] = LexStep(v, toks[i]) BY <2>1
  <2>3. f \in [LexStates \X (1..l) -> LexStates] BY <2>1, LexStepIs
  <2>4. PICK p : Repetition(p, LexStates, start, l, f) BY <2>3, Repeated
  <2>5. p \in [0..l -> LexStates] /\ p[0] = start /\ \A i \in 1..l : p[i] = f[<<p[i - 1], i>>] BY <2>4 DEF Repetition
  <2>6. \A i \in 1..l : p[i - 1] \in LexStates BY <2>5
  <2>7. \A i \in 1..l : p[i] = LexStep(p[i - 1], toks[i]) BY <2>2, <2>5, <2>6
  <2>8. \A i \in 0..l : i # 0 => i \in 1..l OBVIOUS
  <2>9. \A i \in 0..l : p[i] = IF i = 0 THEN start ELSE LexStep(p[i - 1], toks[i]) BY <2>5, <2>7, <2>8
  <2>q. QED BY <2>5, <2>9
<1> HIDE DEF Taken
<1>5. PICK g : g = chosen /\ g = Taken(g) BY <1>4
<1> HIDE DEF chosen
<1>6. \A i \in 0..l : g[i] = IF i = 0 THEN start ELSE LexStep(g[i - 1], toks[i]) BY <1>5 DEF Taken
<1>7. \A i \in 0..l : g[i] \in LexStates
  <2>1. SUFFICES ASSUME NEW j \in 0..l, g[j] \notin LexStates PROVE FALSE OBVIOUS
  <2>2. PICK B : B = {i \in 0..l : g[i] \notin LexStates} OBVIOUS
  <2>3. B \in SUBSET Nat /\ j \in B BY <2>1, <2>2
  <2>4. PICK i \in B : \A k \in B : i <= k BY <2>3, LeastNat
  <2>5. g[0] = start BY <1>6
  <2>6. i # 0 /\ i \in 1..l /\ i - 1 \in 0..l BY <2>2, <2>4, <2>5
  <2>7. i - 1 \notin B BY <2>4, <2>6
  <2>8. g[i - 1] \in LexStates BY <2>2, <2>6, <2>7
  <2>q. QED BY <1>6, <2>2, <2>4, <2>6, <2>8, LexStepIs
<1>8. DOMAIN g = 0..l BY <1>5 DEF Taken
<1>9. g = [i \in 0..l |-> g[i]] BY <1>5 DEF Taken
<1>10. g \in [0..l -> LexStates] BY <1>7, <1>9
<1>11. g[0] = start /\ \A i \in 1..l : g[i] = LexStep(g[i - 1], toks[i]) BY <1>6
<1>q. QED BY <1>1, <1>2, <1>3, <1>5, <1>10, <1>11 DEF LexAlong

(* The steps of the lexer that the lines take.                             *)
At(mode, nesting, delta) == [mode |-> mode, depth |-> nesting, delta |-> delta, cut |-> FALSE]
Cut(s, d) == s.mode = "code" /\ s.depth = 0 /\ s.delta = d /\ s.cut

LEMMA StepFrom ==
    ASSUME NEW m \in Modes, NEW p \in Nat, NEW d \in Int, NEW tok, NEW r, r = LexStep(At(m, p, d), tok)
    PROVE  /\ m = "raw" => r = At(IF tok = "raw_close" THEN "code" ELSE m, p, d)
           /\ m = "escaped" /\ tok # "raw_open" => r = At("string", p, d)
           /\ m = "string" => /\ tok = "escape" => r = At("escaped", p, d)
                              /\ tok = "quote" => r = At("code", p, d)
                              /\ tok \in {"open", "space"} => r = At(m, p, d)
           /\ m = "code" /\ p > 0 => /\ tok = "comment_open" => r = At(m, p + 1, d)
                                     /\ tok = "comment_close" => r = At(m, p - 1, d)
                                     /\ tok = "open" => r = At(m, p, d)
           /\ m = "code" /\ p = 0 => /\ tok = "comment_open" => r = At(m, 1, d)
                                     /\ tok = "raw_open" => r = At("raw", p, d)
                                     /\ tok = "quote" => r = At("string", p, d)
                                     /\ tok = "open" => r = At(m, p, d + 1)
                                     /\ tok = "close" => r = At(m, p, d - 1)
                                     /\ tok = "line_comment" => Cut(r, d)
<1> DEFINE Record(mm, pp, dd, c) == [mode |-> mm, depth |-> pp, delta |-> dd, cut |-> c]
<1>1. PICK c \in BOOLEAN : c = FALSE OBVIOUS
<1>2. \A mm, pp, dd : At(mm, pp, dd) = Record(mm, pp, dd, c) BY <1>1 DEF At
<1>4. PICK s : s = Record(m, p, d, c) OBVIOUS
<1>5. s.mode = m /\ s.depth = p /\ s.delta = d /\ s.cut = c /\ ~c BY <1>1, <1>4
<1>6. r = LexStep(s, tok) BY <1>2, <1>4
<1>7. ASSUME m = "raw" PROVE r = Record(IF tok = "raw_close" THEN "code" ELSE m, p, d, c)
  BY <1>4, <1>5, <1>6, <1>7 DEF LexStep
<1>8. ASSUME m = "escaped", tok # "raw_open" PROVE r = Record("string", p, d, c)
  BY <1>4, <1>5, <1>6, <1>8 DEF LexStep
<1>9. ASSUME m = "string"
      PROVE  /\ tok = "escape" => r = Record("escaped", p, d, c)
             /\ tok = "quote" => r = Record("code", p, d, c)
             /\ tok \in {"open", "space"} => r = Record(m, p, d, c)
  BY <1>4, <1>5, <1>6, <1>9 DEF LexStep
<1>10. ASSUME m = "code", p > 0
       PROVE  /\ tok = "comment_open" => r = Record(m, p + 1, d, c)
              /\ tok = "comment_close" => r = Record(m, p - 1, d, c)
              /\ tok = "open" => r = Record(m, p, d, c)
  BY <1>4, <1>5, <1>6, <1>10 DEF LexStep
<1>11. ASSUME m = "code", p = 0
       PROVE  /\ tok = "comment_open" => r = Record(m, 1, d, c)
              /\ tok = "raw_open" => r = Record("raw", p, d, c)
              /\ tok = "quote" => r = Record("string", p, d, c)
              /\ tok = "open" => r = Record(m, p, d + 1, c)
              /\ tok = "close" => r = Record(m, p, d - 1, c)
  BY <1>4, <1>5, <1>6, <1>11 DEF LexStep
<1>12. ASSUME m = "code", p = 0, tok = "line_comment" PROVE r.mode = m /\ r.depth = p /\ r.delta = d /\ r.cut
  BY <1>4, <1>5, <1>6, <1>12 DEF LexStep
<1> HIDE DEF Record
<1>q. QED BY <1>2, <1>7, <1>8, <1>9, <1>10, <1>11, <1>12 DEF Cut

LEMMA StepsOfLines ==
    /\ \A d \in Int : /\ LexStep(At("code", 0, d), "open") = At("code", 0, d + 1)
                      /\ LexStep(At("code", 0, d), "close") = At("code", 0, d - 1)
    /\ LexStep(At("code", 0, 0), "quote") = At("string", 0, 0)
    /\ LexStep(At("code", 0, 0), "comment_open") = At("code", 1, 0)
    /\ LexStep(At("code", 0, 0), "raw_open") = At("raw", 0, 0)
    /\ Cut(LexStep(LexStep(At("code", 0, 0), "line_comment"), "open"), 0)
    /\ LexStep(At("code", 1, 0), "comment_open") = At("code", 2, 0)
    /\ LexStep(At("code", 2, 0), "open") = At("code", 2, 0)
    /\ LexStep(At("code", 2, 0), "comment_close") = At("code", 1, 0)
    /\ LexStep(At("code", 1, 0), "open") = At("code", 1, 0)
    /\ LexStep(At("code", 1, 0), "comment_close") = At("code", 0, 0)
    /\ \A tok \in {"close", "open", "quote"} : LexStep(At("raw", 0, 0), tok) = At("raw", 0, 0)
    /\ LexStep(At("raw", 0, 0), "raw_close") = At("code", 0, 0)
    /\ \A tok \in {"open", "space"} : LexStep(At("string", 0, 0), tok) = At("string", 0, 0)
    /\ LexStep(At("string", 0, 0), "quote") = At("code", 0, 0)
    /\ LexStep(At("string", 0, 0), "escape") = At("escaped", 0, 0)
    /\ \A tok \in {"quote", "space"} : LexStep(At("escaped", 0, 0), tok) = At("string", 0, 0)
<1>1. \A s : Cut(s, 0) => LexStep(s, "open") = s BY DEF LexStep, Cut
<1>2. "code" \in Modes /\ "raw" \in Modes /\ "string" \in Modes /\ "escaped" \in Modes BY DEF Modes
<1>3. 1 + 1 = 2 /\ 2 - 1 = 1 /\ 1 - 1 = 0 /\ 1 > 0 /\ 2 > 0 /\ 0 \in Int OBVIOUS
<1>4. \A m \in Modes, p \in Nat, d \in Int : \A tok :
        /\ m = "raw" => LexStep(At(m, p, d), tok) = At(IF tok = "raw_close" THEN "code" ELSE m, p, d)
        /\ m = "escaped" /\ tok # "raw_open" => LexStep(At(m, p, d), tok) = At("string", p, d)
  BY StepFrom
<1>5. \A p \in Nat, d \in Int : \A tok :
        /\ tok = "escape" => LexStep(At("string", p, d), tok) = At("escaped", p, d)
        /\ tok = "quote" => LexStep(At("string", p, d), tok) = At("code", p, d)
        /\ tok \in {"open", "space"} => LexStep(At("string", p, d), tok) = At("string", p, d)
  BY <1>2, StepFrom
<1>6. \A p \in Nat, d \in Int : \A tok : p > 0 =>
        /\ tok = "comment_open" => LexStep(At("code", p, d), tok) = At("code", p + 1, d)
        /\ tok = "comment_close" => LexStep(At("code", p, d), tok) = At("code", p - 1, d)
        /\ tok = "open" => LexStep(At("code", p, d), tok) = At("code", p, d)
  BY <1>2, StepFrom
<1>7. \A d \in Int : \A tok :
        /\ tok = "comment_open" => LexStep(At("code", 0, d), tok) = At("code", 1, d)
        /\ tok = "raw_open" => LexStep(At("code", 0, d), tok) = At("raw", 0, d)
        /\ tok = "quote" => LexStep(At("code", 0, d), tok) = At("string", 0, d)
        /\ tok = "open" => LexStep(At("code", 0, d), tok) = At("code", 0, d + 1)
        /\ tok = "close" => LexStep(At("code", 0, d), tok) = At("code", 0, d - 1)
        /\ tok = "line_comment" => Cut(LexStep(At("code", 0, d), tok), d)
  BY <1>2, StepFrom
<1>q. QED BY <1>1, <1>2, <1>3, <1>4, <1>5, <1>6, <1>7

(* Lines have up to five tokens.                                           *)
LEMMA AlongLine ==
    ASSUME FactsTyped
    PROVE  /\ BraceDelta(<<>>) = LineStart
           /\ \A a \in Tokens : BraceDelta(<<a>>) = LexStep(LineStart, a)
           /\ \A a, b \in Tokens : BraceDelta(<<a, b>>) = LexStep(LexStep(LineStart, a), b)
           /\ \A a, b, c \in Tokens :
                  BraceDelta(<<a, b, c>>) = LexStep(LexStep(LexStep(LineStart, a), b), c)
           /\ \A a, b, c, d, e \in Tokens :
                  BraceDelta(<<a, b, c, d, e>>) =
                      LexStep(LexStep(LexStep(LexStep(LexStep(LineStart, a), b), c), d), e)
<1>1. BraceDelta(<<>>) = LineStart
  <2>1. <<>> \in Seq(Tokens) /\ Len(<<>>) = 0 OBVIOUS
  <2>2. PICK g : LexAlong(g, <<>>) /\ BraceDelta(<<>>) = g[0] BY <2>1, BraceDeltaIs
  <2>q. QED BY <2>2 DEF LexAlong
<1>2. ASSUME NEW t \in Seq(Tokens)
      PROVE  \E g : /\ BraceDelta(t) = g[Len(t)] /\ g[0] = LineStart
                    /\ \A i \in 1..Len(t) : g[i] = LexStep(g[i - 1], t[i])
  BY BraceDeltaIs DEF LexAlong
<1>3. ASSUME NEW a \in Tokens PROVE BraceDelta(<<a>>) = LexStep(LineStart, a)
  <2>1. PICK t \in Seq(Tokens) : t = <<a>> /\ Len(t) = 1 /\ t[1] = a
    <3>1. <<a>> \in Seq(Tokens) /\ Len(<<a>>) = 1 /\ <<a>>[1] = a OBVIOUS
    <3>q. QED BY <3>1
  <2>2. PICK g : /\ BraceDelta(t) = g[1] /\ g[0] = LineStart
                 /\ \A i \in 1..1 : g[i] = LexStep(g[i - 1], t[i])
    BY <1>2, <2>1
  <2>3. g[1] = LexStep(g[1 - 1], t[1]) /\ 1 - 1 = 0 BY <2>2
  <2>q. QED BY <2>1, <2>2, <2>3
<1>4. ASSUME NEW a \in Tokens, NEW b \in Tokens PROVE BraceDelta(<<a, b>>) = LexStep(LexStep(LineStart, a), b)
  <2>1. PICK t \in Seq(Tokens) : t = <<a, b>> /\ Len(t) = 2 /\ t[1] = a /\ t[2] = b
    <3>1. <<a, b>> \in Seq(Tokens) /\ Len(<<a, b>>) = 2 /\ <<a, b>>[1] = a /\ <<a, b>>[2] = b OBVIOUS
    <3>q. QED BY <3>1
  <2>2. PICK g : /\ BraceDelta(t) = g[2] /\ g[0] = LineStart
                 /\ \A i \in 1..2 : g[i] = LexStep(g[i - 1], t[i])
    BY <1>2, <2>1
  <2>3. g[1] = LexStep(g[1 - 1], t[1]) /\ g[2] = LexStep(g[2 - 1], t[2]) /\ 1 - 1 = 0 /\ 2 - 1 = 1 BY <2>2
  <2>q. QED BY <2>1, <2>2, <2>3
<1>5. ASSUME NEW a \in Tokens, NEW b \in Tokens, NEW c \in Tokens
      PROVE  BraceDelta(<<a, b, c>>) = LexStep(LexStep(LexStep(LineStart, a), b), c)
  <2>1. PICK t \in Seq(Tokens) : t = <<a, b, c>> /\ Len(t) = 3 /\ t[1] = a /\ t[2] = b /\ t[3] = c
    <3>1. /\ <<a, b, c>> \in Seq(Tokens) /\ Len(<<a, b, c>>) = 3
          /\ <<a, b, c>>[1] = a /\ <<a, b, c>>[2] = b /\ <<a, b, c>>[3] = c
      OBVIOUS
    <3>q. QED BY <3>1
  <2>2. PICK g : /\ BraceDelta(t) = g[3] /\ g[0] = LineStart
                 /\ \A i \in 1..3 : g[i] = LexStep(g[i - 1], t[i])
    BY <1>2, <2>1
  <2>3. /\ g[1] = LexStep(g[1 - 1], t[1]) /\ g[2] = LexStep(g[2 - 1], t[2]) /\ g[3] = LexStep(g[3 - 1], t[3])
        /\ 1 - 1 = 0 /\ 2 - 1 = 1 /\ 3 - 1 = 2
    BY <2>2
  <2>q. QED BY <2>1, <2>2, <2>3
<1>6. ASSUME NEW a \in Tokens, NEW b \in Tokens, NEW c \in Tokens, NEW d \in Tokens, NEW e \in Tokens
      PROVE  BraceDelta(<<a, b, c, d, e>>) =
                 LexStep(LexStep(LexStep(LexStep(LexStep(LineStart, a), b), c), d), e)
  <2>1. PICK t \in Seq(Tokens) : /\ t = <<a, b, c, d, e>> /\ Len(t) = 5
                                 /\ t[1] = a /\ t[2] = b /\ t[3] = c /\ t[4] = d /\ t[5] = e
    <3>1. /\ <<a, b, c, d, e>> \in Seq(Tokens) /\ Len(<<a, b, c, d, e>>) = 5
          /\ <<a, b, c, d, e>>[1] = a /\ <<a, b, c, d, e>>[2] = b /\ <<a, b, c, d, e>>[3] = c
          /\ <<a, b, c, d, e>>[4] = d /\ <<a, b, c, d, e>>[5] = e
      OBVIOUS
    <3>q. QED BY <3>1
  <2>2. PICK g : /\ BraceDelta(t) = g[5] /\ g[0] = LineStart
                 /\ \A i \in 1..5 : g[i] = LexStep(g[i - 1], t[i])
    BY <1>2, <2>1
  <2>3. /\ g[1] = LexStep(g[1 - 1], t[1]) /\ g[2] = LexStep(g[2 - 1], t[2]) /\ g[3] = LexStep(g[3 - 1], t[3])
        /\ g[4] = LexStep(g[4 - 1], t[4]) /\ g[5] = LexStep(g[5 - 1], t[5])
        /\ 1 - 1 = 0 /\ 2 - 1 = 1 /\ 3 - 1 = 2 /\ 4 - 1 = 3 /\ 5 - 1 = 4
    BY <2>2
  <2>q. QED BY <2>1, <2>2, <2>3
<1>q. QED BY <1>1, <1>3, <1>4, <1>5, <1>6


(* The forms of a line: its tokens, what it does to blocks, where it ends. *)
Form(line, starts, toks, body, ends) ==
    line.starts = starts /\ line.toks = toks /\ line.body = body /\ line.ends = ends
QuotedBrace == <<"quote", "open", "escape", "quote", "quote">>
Unbraced ==
    {<<"code", QuotedBrace, "code">>, <<"code", <<"line_comment", "open">>, "code">>,
     <<"code", <<"comment_open">>, "comment">>,
     <<"comment", <<"comment_open", "open", "comment_close">>, "comment">>,
     <<"comment", <<"comment_close">>, "code">>,
     <<"code", <<"raw_open", "close">>, "raw">>, <<"raw", <<"quote", "open">>, "raw">>, <<"raw", <<"raw_close">>, "code">>,
     <<"code", <<"quote", "escape">>, "string">>, <<"string", <<"quote">>, "code">>,
     <<"string", <<"space", "quote">>, "code">>}
Bare(line) == line.calls = {} /\ ~line.macro
Declares(line) ==
    /\ ~line.macro
    /\ \/ Form(line, "code", <<"open">>, "opens", "code") /\ line.calls = {}
       \/ \E b \in {"none", "ends"} : Form(line, "code", <<>>, b, "code") /\ line.calls = {}
       \/ /\ Form(line, "code", <<"open", "close">>, "both", "code") /\ ~line.generic
          /\ line.calls = {Site(g, "call") : g \in FnNames \ {line.fn}}
       \/ \E s \in {"comment", "string", "raw"} : Form(line, s, <<"open">>, "none", s) /\ line.calls = {}
States(line) ==
    \/ Form(line, "code", <<>>, "none", "code")
    \/ Form(line, "code", <<"open">>, "opens", "code") /\ Bare(line)
    \/ Form(line, "code", <<"close">>, "closes", "code") /\ Bare(line)
    \/ \E s, t, e : <<s, t, e>> \in Unbraced /\ Form(line, s, t, "none", e) /\ Bare(line)
Named(line) ==
    /\ line.fn \in FnNames \cup {No} /\ line.impl \in Types \cup {No}
    /\ line.generic \in BOOLEAN /\ line.macro \in BOOLEAN
    /\ \A c \in line.calls : c.callee \in FnNames

LEMMA LineFields ==
    ASSUME NEW s, NEW t, NEW b, NEW e, NEW i, NEW f, NEW g, NEW c, NEW m,
           NEW line, line = Line(s, t, b, e, i, f, g, c, m)
    PROVE  /\ Form(line, s, t, b, e) /\ line.impl = i /\ line.fn = f /\ line.generic = g
           /\ line.calls = c /\ line.macro = m
<1>1. Form(line, s, t, b, e) BY DEF Line, Form
<1>2. line.impl = i /\ line.fn = f /\ line.generic = g /\ line.calls = c /\ line.macro = m BY DEF Line
<1>q. QED BY <1>1, <1>2

LEMMA LineIs ==
    ASSUME NEW line \in Lines
    PROVE  line \in CharLiterals \/ (Named(line) /\ IF line.fn = No THEN States(line) ELSE Declares(line))
<1>1. PICK no, yes : no = FALSE /\ yes = TRUE OBVIOUS
<1> DEFINE Is(s, t, b, e, i, f, g, c, m) ==
        /\ Form(line, s, t, b, e) /\ line.impl = i /\ line.fn = f /\ line.generic = g
        /\ line.calls = c /\ line.macro = m
<1>2. \A s, t, b, e, i, f, g, c, m : line = Line(s, t, b, e, i, f, g, c, m) => Is(s, t, b, e, i, f, g, c, m)
  BY LineFields
<1>3. \A t, b, f, g, c : Fn(t, b, f, g, c) = Line("code", t, b, "code", No, f, g, c, no) BY <1>1 DEF Fn
<1>4. \A s, t, b, e : Text(s, t, b, e) = Line(s, t, b, e, No, No, no, {}, no) BY <1>1 DEF Text
<1>5. \A t, b : Code(t, b) = Line("code", t, b, "code", No, No, no, {}, no) BY <1>4 DEF Code
<1>6. \A x : Impl(x) = Line("code", <<"open">>, "opens", "code", x, No, no, {}, no) BY <1>1 DEF Impl
<1>7. Macro = Line("code", <<>>, "none", "code", No, No, no, {}, yes) BY <1>1 DEF Macro
<1>9. No \notin FnNames /\ No \notin Types BY FactsAssumption DEF FactsAssumption
<1> HIDE DEF Is
<1>10. CASE line \in DeclarationLines
  <2>1. ASSUME NEW t, NEW b, NEW g \in BOOLEAN, line \in Heads(t, b, g)
        PROVE  \E f \in FnNames : Is("code", t, b, "code", No, f, g, {}, no)
    <3>1. PICK f \in FnNames : line = Fn(t, b, f, g, {}) BY <2>1 DEF Heads
    <3>q. QED BY <1>2, <1>3, <3>1
  <2>2. CASE \E g \in BOOLEAN : line \in Heads(<<"open">>, "opens", g)
    <3>1. PICK f \in FnNames, g \in BOOLEAN : Is("code", <<"open">>, "opens", "code", No, f, g, {}, no) BY <2>1, <2>2
    <3>q. QED BY <1>1, <1>9, <3>1 DEF Is, Named, Declares
  <2>3. CASE \E g \in BOOLEAN, b \in {"none", "ends"} : line \in Heads(<<>>, b, g)
    <3>1. PICK f \in FnNames, g \in BOOLEAN, b \in {"none", "ends"} : Is("code", <<>>, b, "code", No, f, g, {}, no)
      BY <2>1, <2>3
    <3>q. QED BY <1>1, <1>9, <3>1 DEF Is, Named, Declares
  <2>4. CASE \E f \in FnNames : line = OneLiner(f)
    <3>1. PICK f \in FnNames : line = OneLiner(f) BY <2>4
    <3>2. PICK c : c = {Site(g, "call") : g \in FnNames \ {f}} OBVIOUS
    <3>3. Is("code", <<"open", "close">>, "both", "code", No, f, no, c, no)
      BY <1>1, <1>2, <1>3, <3>1, <3>2 DEF OneLiner
    <3>4. \A x \in c : x.callee \in FnNames BY <3>2 DEF Site
    <3>q. QED BY <1>1, <1>9, <3>2, <3>3, <3>4 DEF Is, Named, Declares
  <2>5. CASE \E i \in Types : line = Impl(i)
    <3>1. PICK i \in Types : line = Impl(i) BY <2>5
    <3>2. Is("code", <<"open">>, "opens", "code", i, No, no, {}, no) BY <1>2, <1>6, <3>1
    <3>q. QED BY <1>1, <1>9, <3>2 DEF Is, Named, States, Bare
  <2>6. \/ line \in Heads(<<"open">>, "opens", FALSE) \/ line \in Heads(<<"open">>, "opens", TRUE)
        \/ line \in Heads(<<>>, "none", FALSE) \/ line \in Heads(<<>>, "none", TRUE)
        \/ line \in Heads(<<>>, "ends", FALSE) \/ line \in Heads(<<>>, "ends", TRUE)
        \/ line \in {OneLiner(f) : f \in FnNames} \/ line \in {Impl(t) : t \in Types}
    BY <1>10, Zenon DEF DeclarationLines
  <2>q. QED BY <2>2, <2>3, <2>4, <2>5, <2>6
<1>11. CASE line \in Statements
  <2>1. \/ \E as \in {"call", "lookalike", "turbofish"} : line \in CallsMade(as)
        \/ line = Macro \/ line = Code(<<"open">>, "opens") \/ line = Code(<<"close">>, "closes")
        \/ line = Code(QuotedBrace, "none")
    BY <1>11 DEF Statements, QuotedBrace
  <2>2. CASE \E as \in {"call", "lookalike", "turbofish"} : line \in CallsMade(as)
    <3>1. PICK as : line \in CallsMade(as) BY <2>2
    <3>2. PICK f \in FnNames : line = Fn(<<>>, "none", No, FALSE, {Site(f, as)}) BY <3>1 DEF CallsMade
    <3>3. PICK c : c = {Site(f, as)} OBVIOUS
    <3>4. Is("code", <<>>, "none", "code", No, No, no, c, no) BY <1>1, <1>2, <1>3, <3>2, <3>3
    <3>5. \A x \in c : x.callee \in FnNames BY <3>3 DEF Site
    <3>q. QED BY <1>1, <1>9, <3>4, <3>5 DEF Is, Named, States
  <2>3. CASE line = Macro
    <3>1. Is("code", <<>>, "none", "code", No, No, no, {}, yes) BY <1>2, <1>7, <2>3
    <3>q. QED BY <1>1, <1>9, <3>1 DEF Is, Named, States
  <2>4. CASE line = Code(<<"open">>, "opens")
    <3>1. Is("code", <<"open">>, "opens", "code", No, No, no, {}, no) BY <1>2, <1>5, <2>4
    <3>q. QED BY <1>1, <1>9, <3>1 DEF Is, Named, States, Bare
  <2>5. CASE line = Code(<<"close">>, "closes")
    <3>1. Is("code", <<"close">>, "closes", "code", No, No, no, {}, no) BY <1>2, <1>5, <2>5
    <3>q. QED BY <1>1, <1>9, <3>1 DEF Is, Named, States, Bare
  <2>6. CASE line = Code(QuotedBrace, "none")
    <3>1. Is("code", QuotedBrace, "none", "code", No, No, no, {}, no) BY <1>2, <1>5, <2>6
    <3>2. <<"code", QuotedBrace, "code">> \in Unbraced BY Zenon DEF Unbraced
    <3>3. States(line) BY <1>1, <3>1, <3>2 DEF Is, States, Bare
    <3>q. QED BY <1>1, <3>1, <3>3 DEF Is, Named
  <2>q. QED BY <2>1, <2>2, <2>3, <2>4, <2>5, <2>6
<1>12. CASE line \in CommentsAndStrings
  <2>1. \/ line \in {Code(<<"line_comment", "open">>, "none"),
                     Text("code", <<"comment_open">>, "none", "comment"),
                     Text("comment", <<"comment_open", "open", "comment_close">>, "none", "comment"),
                     Text("comment", <<"comment_close">>, "none", "code"),
                     Text("code", <<"raw_open", "close">>, "none", "raw"),
                     Text("raw", <<"quote", "open">>, "none", "raw"),
                     Text("raw", <<"raw_close">>, "none", "code"),
                     Text("code", <<"quote", "escape">>, "none", "string"),
                     Text("string", <<"quote">>, "none", "code"),
                     Text("string", <<"space", "quote">>, "none", "code")}
        \/ \E s \in {"comment", "string", "raw"} : line \in Hidden(s)
    BY <1>12, Zenon DEF CommentsAndStrings
  <2>2. ASSUME NEW s, NEW t, NEW e, <<s, t, e>> \in Unbraced, line = Text(s, t, "none", e)
        PROVE  Named(line) /\ line.fn = No /\ States(line)
    <3>2. Is(s, t, "none", e, No, No, no, {}, no) BY <1>2, <1>4, <2>2
    <3>3. States(line) BY <1>1, <2>2, <3>2 DEF Is, States, Bare
    <3>q. QED BY <1>1, <3>2, <3>3 DEF Is, Named
  <2>3. Code(<<"line_comment", "open">>, "none") = Text("code", <<"line_comment", "open">>, "none", "code")
    BY DEF Code
  <2>4. CASE \E s \in {"comment", "string", "raw"} : line \in Hidden(s)
    <3>1. PICK s \in {"comment", "string", "raw"} : line \in Hidden(s) BY <2>4
    <3>2. PICK f \in FnNames : line = Line(s, <<"open">>, "none", s, No, f, FALSE, {}, FALSE) BY <3>1 DEF Hidden
    <3>3. Is(s, <<"open">>, "none", s, No, f, no, {}, no) BY <1>1, <1>2, <3>2
    <3>q. QED BY <1>1, <1>9, <3>1, <3>3 DEF Is, Named, Declares
  <2>5. /\ <<"code", <<"line_comment", "open">>, "code">> \in Unbraced
        /\ <<"code", <<"comment_open">>, "comment">> \in Unbraced
        /\ <<"comment", <<"comment_open", "open", "comment_close">>, "comment">> \in Unbraced
        /\ <<"comment", <<"comment_close">>, "code">> \in Unbraced
        /\ <<"code", <<"raw_open", "close">>, "raw">> \in Unbraced
        /\ <<"raw", <<"quote", "open">>, "raw">> \in Unbraced
        /\ <<"raw", <<"raw_close">>, "code">> \in Unbraced
        /\ <<"code", <<"quote", "escape">>, "string">> \in Unbraced
        /\ <<"string", <<"quote">>, "code">> \in Unbraced
        /\ <<"string", <<"space", "quote">>, "code">> \in Unbraced
    BY Zenon DEF Unbraced
  <2>q. QED BY <2>1, <2>2, <2>3, <2>4, <2>5, Zenon
<1>q. QED BY <1>10, <1>11, <1>12 DEF Lines

(* On plain lines the lexer is where the language is, and its sum of       *)
(* braces is what the line does to blocks.                                 *)
Aligned(l, c) ==
    /\ c = "code" => l.mode = "code" /\ l.depth = 0
    /\ c = "comment" => l.mode = "code" /\ l.depth = 1
    /\ c = "raw" => l.mode = "raw" /\ l.depth = 0
    /\ c = "string" => l.mode \in {"string", "escaped"} /\ l.depth = 0
Net(body) == IF body = "opens" THEN 1 ELSE IF body = "closes" THEN -1 ELSE 0

LEMMA FormIs ==
    ASSUME NEW line \in Lines, line \notin CharLiterals
    PROVE  \/ Form(line, "code", <<>>, line.body, "code") /\ line.body \in {"none", "ends"}
           \/ Form(line, "code", <<"open">>, "opens", "code")
           \/ Form(line, "code", <<"close">>, "closes", "code")
           \/ Form(line, "code", <<"open", "close">>, "both", "code")
           \/ \E s \in {"comment", "string", "raw"} : Form(line, s, <<"open">>, "none", s)
           \/ \E s, t, e : <<s, t, e>> \in Unbraced /\ Form(line, s, t, "none", e)
<1>1. CASE line.fn = No
  <2>1. States(line) BY <1>1, LineIs
  <2>q. QED BY <2>1 DEF States, Form
<1>2. CASE line.fn # No
  <2>1. Declares(line) BY <1>2, LineIs
  <2>q. QED BY <2>1 DEF Declares, Form
<1>q. QED BY <1>1, <1>2

LEMMA TokensOfForms ==
    /\ <<>> \in Seq(Tokens) /\ <<"open">> \in Seq(Tokens) /\ <<"close">> \in Seq(Tokens)
    /\ <<"open", "close">> \in Seq(Tokens)
    /\ \A s, t, e : <<s, t, e>> \in Unbraced => t \in Seq(Tokens) /\ e \in Constructs
<1>1. \A tok \in {"open", "close", "quote", "escape", "line_comment", "comment_open", "comment_close",
                  "raw_open", "raw_close", "space"} : tok \in Tokens
  BY DEF Tokens
<1>2. /\ <<>> \in Seq(Tokens) /\ <<"open">> \in Seq(Tokens) /\ <<"close">> \in Seq(Tokens)
      /\ <<"open", "close">> \in Seq(Tokens)
  BY <1>1
<1>3. /\ QuotedBrace \in Seq(Tokens) /\ <<"line_comment", "open">> \in Seq(Tokens)
      /\ <<"comment_open">> \in Seq(Tokens) /\ <<"comment_open", "open", "comment_close">> \in Seq(Tokens)
      /\ <<"comment_close">> \in Seq(Tokens) /\ <<"raw_open", "close">> \in Seq(Tokens)
      /\ <<"quote", "open">> \in Seq(Tokens) /\ <<"raw_close">> \in Seq(Tokens)
      /\ <<"quote", "escape">> \in Seq(Tokens) /\ <<"quote">> \in Seq(Tokens)
      /\ <<"space", "quote">> \in Seq(Tokens)
  BY <1>1 DEF QuotedBrace
<1>4. \A e \in {"code", "comment", "raw", "string"} : e \in Constructs BY DEF Constructs
<1>5. ASSUME NEW s, NEW t, NEW e, <<s, t, e>> \in Unbraced PROVE t \in Seq(Tokens) /\ e \in Constructs
  BY <1>3, <1>4, <1>5 DEF Unbraced
<1>q. QED BY <1>2, <1>5

LEMMA Reading ==
    ASSUME FactsTyped, Aligned(lex, construct), NEW line \in Lines, line \notin CharLiterals,
           line.starts = construct, lex.mode = "escaped" => line.toks # <<>> /\ line.toks[1] = "space",
           NEW b, b = BraceDelta(line.toks)
    PROVE  Aligned(b, line.ends) /\ b.delta = Net(line.body)
<1>1. PICK m \in Modes, p \in Nat : m = lex.mode /\ p = lex.depth BY DEF FactsTyped
<1>2. LineStart = At(m, p, 0) BY <1>1 DEF LineStart, At
<1>3. \A mm, pp, dd : At(mm, pp, dd).mode = mm /\ At(mm, pp, dd).depth = pp /\ At(mm, pp, dd).delta = dd BY DEF At
<1>4. \A tok \in {"open", "close", "quote", "escape", "line_comment", "comment_open", "comment_close",
                  "raw_open", "raw_close", "space"} : tok \in Tokens
  BY DEF Tokens
<1>5. CASE Form(line, "code", <<>>, line.body, "code") /\ line.body \in {"none", "ends"}
  <2>1. b = LineStart BY <1>5, AlongLine DEF Form
  <2>2. m = "code" /\ p = 0 BY <1>1, <1>5 DEF Form, Aligned
  <2>q. QED BY <1>2, <1>3, <1>5, <2>1, <2>2 DEF Form, Aligned, Net
<1>6. CASE Form(line, "code", <<"open">>, "opens", "code")
  <2>1. m = "code" /\ p = 0 BY <1>1, <1>6 DEF Form, Aligned
  <2>2. b = At("code", 0, 0 + 1) BY <1>2, <1>4, <1>6, <2>1, AlongLine, StepsOfLines DEF Form
  <2>q. QED BY <1>3, <1>6, <2>2 DEF Form, Aligned, Net
<1>7. CASE Form(line, "code", <<"close">>, "closes", "code")
  <2>1. m = "code" /\ p = 0 BY <1>1, <1>7 DEF Form, Aligned
  <2>2. b = At("code", 0, 0 - 1) BY <1>2, <1>4, <1>7, <2>1, AlongLine, StepsOfLines DEF Form
  <2>q. QED BY <1>3, <1>7, <2>2 DEF Form, Aligned, Net
<1>8. CASE Form(line, "code", <<"open", "close">>, "both", "code")
  <2>1. m = "code" /\ p = 0 BY <1>1, <1>8 DEF Form, Aligned
  <2>2. b = LexStep(LexStep(At("code", 0, 0), "open"), "close") BY <1>2, <1>4, <1>8, <2>1, AlongLine DEF Form
  <2>3. b = At("code", 0, (0 + 1) - 1) BY <2>2, StepsOfLines
  <2>q. QED BY <1>3, <1>8, <2>3 DEF Form, Aligned, Net
<1>9. CASE \E s \in {"comment", "string", "raw"} : Form(line, s, <<"open">>, "none", s)
  <2>1. PICK s \in {"comment", "string", "raw"} : Form(line, s, <<"open">>, "none", s) BY <1>9
  <2>2. b = LexStep(At(m, p, 0), "open") BY <1>2, <1>4, <2>1, AlongLine DEF Form
  <2>3. m # "escaped" BY <1>1, <2>1 DEF Form
  <2>4. CASE s = "comment"
    <3>1. m = "code" /\ p = 1 BY <1>1, <2>1, <2>4 DEF Form, Aligned
    <3>2. b = At("code", 1, 0) BY <2>2, <3>1, StepsOfLines
    <3>q. QED BY <1>3, <2>1, <2>4, <3>2 DEF Form, Aligned, Net
  <2>5. CASE s = "string"
    <3>1. m = "string" /\ p = 0 BY <1>1, <2>1, <2>3, <2>5 DEF Form, Aligned
    <3>2. b = At("string", 0, 0) BY <2>2, <3>1, StepsOfLines
    <3>q. QED BY <1>3, <2>1, <2>5, <3>2 DEF Form, Aligned, Net
  <2>6. CASE s = "raw"
    <3>1. m = "raw" /\ p = 0 BY <1>1, <2>1, <2>6 DEF Form, Aligned
    <3>2. b = At("raw", 0, 0) BY <2>2, <3>1, StepsOfLines
    <3>q. QED BY <1>3, <2>1, <2>6, <3>2 DEF Form, Aligned, Net
  <2>q. QED BY <2>1, <2>4, <2>5, <2>6
<1>10. CASE \E s, t, e : <<s, t, e>> \in Unbraced /\ Form(line, s, t, "none", e)
  <2>1. PICK s, t, e : <<s, t, e>> \in Unbraced /\ Form(line, s, t, "none", e) BY <1>10
  <2>2. /\ b = BraceDelta(t) /\ s = construct /\ line.ends = e /\ Net(line.body) = 0
        /\ m = "escaped" => t # <<>> /\ t[1] = "space"
    BY <1>1, <2>1 DEF Form, Net
  <2>3. \A mm, pp : b = At(mm, pp, 0) => b.mode = mm /\ b.depth = pp /\ b.delta = 0 BY <1>3
  <2>4. b.mode = "code" /\ b.depth = 0 /\ b.delta = 0 /\ e = "code" => Aligned(b, line.ends) /\ b.delta = Net(line.body)
    BY <2>2 DEF Aligned
  <2>5. CASE s = "code"
    <3>1. m = "code" /\ p = 0 BY <1>1, <2>2, <2>5 DEF Aligned
    <3>2. \/ t = QuotedBrace /\ e = "code"
          \/ t = <<"line_comment", "open">> /\ e = "code"
          \/ t = <<"comment_open">> /\ e = "comment"
          \/ t = <<"raw_open", "close">> /\ e = "raw"
          \/ t = <<"quote", "escape">> /\ e = "string"
      BY <2>1, <2>5 DEF Unbraced
    <3>3. CASE t = QuotedBrace /\ e = "code"
      <4>1. b = LexStep(LexStep(LexStep(LexStep(LexStep(At("code", 0, 0), "quote"), "open"), "escape"), "quote"), "quote")
        BY <1>2, <1>4, <2>2, <3>1, <3>3, AlongLine DEF QuotedBrace
      <4>2. b = At("code", 0, 0) BY <4>1, StepsOfLines
      <4>q. QED BY <2>3, <2>4, <3>3, <4>2
    <3>4. CASE t = <<"line_comment", "open">> /\ e = "code"
      <4>1. b = LexStep(LexStep(At("code", 0, 0), "line_comment"), "open")
        BY <1>2, <1>4, <2>2, <3>1, <3>4, AlongLine
      <4>2. Cut(b, 0) BY <4>1, StepsOfLines
      <4>q. QED BY <2>4, <3>4, <4>2 DEF Cut
    <3>5. CASE t = <<"comment_open">> /\ e = "comment"
      <4>1. b = At("code", 1, 0) BY <1>2, <1>4, <2>2, <3>1, <3>5, AlongLine, StepsOfLines
      <4>q. QED BY <2>2, <2>3, <3>5, <4>1 DEF Aligned
    <3>6. CASE t = <<"raw_open", "close">> /\ e = "raw"
      <4>1. b = LexStep(LexStep(At("code", 0, 0), "raw_open"), "close")
        BY <1>2, <1>4, <2>2, <3>1, <3>6, AlongLine
      <4>2. b = At("raw", 0, 0) BY <4>1, StepsOfLines
      <4>q. QED BY <2>2, <2>3, <3>6, <4>2 DEF Aligned
    <3>7. CASE t = <<"quote", "escape">> /\ e = "string"
      <4>1. b = LexStep(LexStep(At("code", 0, 0), "quote"), "escape")
        BY <1>2, <1>4, <2>2, <3>1, <3>7, AlongLine
      <4>2. b = At("escaped", 0, 0) BY <4>1, StepsOfLines
      <4>q. QED BY <2>2, <2>3, <3>7, <4>2 DEF Aligned
    <3>q. QED BY <3>2, <3>3, <3>4, <3>5, <3>6, <3>7
  <2>6. CASE s = "comment"
    <3>1. m = "code" /\ p = 1 BY <1>1, <2>2, <2>6 DEF Aligned
    <3>2. \/ t = <<"comment_open", "open", "comment_close">> /\ e = "comment"
          \/ t = <<"comment_close">> /\ e = "code"
      BY <2>1, <2>6 DEF Unbraced
    <3>3. CASE t = <<"comment_open", "open", "comment_close">> /\ e = "comment"
      <4>1. b = LexStep(LexStep(LexStep(At("code", 1, 0), "comment_open"), "open"), "comment_close")
        BY <1>2, <1>4, <2>2, <3>1, <3>3, AlongLine
      <4>2. b = At("code", 1, 0) BY <4>1, StepsOfLines
      <4>q. QED BY <2>2, <2>3, <3>3, <4>2 DEF Aligned
    <3>4. CASE t = <<"comment_close">> /\ e = "code"
      <4>1. b = At("code", 0, 0) BY <1>2, <1>4, <2>2, <3>1, <3>4, AlongLine, StepsOfLines
      <4>q. QED BY <2>3, <2>4, <3>4, <4>1
    <3>q. QED BY <3>2, <3>3, <3>4
  <2>7. CASE s = "raw"
    <3>1. m = "raw" /\ p = 0 BY <1>1, <2>2, <2>7 DEF Aligned
    <3>2. (t = <<"quote", "open">> /\ e = "raw") \/ (t = <<"raw_close">> /\ e = "code")
      BY <2>1, <2>7 DEF Unbraced
    <3>3. CASE t = <<"quote", "open">> /\ e = "raw"
      <4>1. b = LexStep(LexStep(At("raw", 0, 0), "quote"), "open")
        BY <1>2, <1>4, <2>2, <3>1, <3>3, AlongLine
      <4>2. b = At("raw", 0, 0) BY <4>1, StepsOfLines
      <4>q. QED BY <2>2, <2>3, <3>3, <4>2 DEF Aligned
    <3>4. CASE t = <<"raw_close">> /\ e = "code"
      <4>1. b = At("code", 0, 0) BY <1>2, <1>4, <2>2, <3>1, <3>4, AlongLine, StepsOfLines
      <4>q. QED BY <2>3, <2>4, <3>4, <4>1
    <3>q. QED BY <3>2, <3>3, <3>4
  <2>8. CASE s = "string"
    <3>1. m \in {"string", "escaped"} /\ p = 0 BY <1>1, <2>2, <2>8 DEF Aligned
    <3>2. (t = <<"quote">> /\ e = "code") \/ (t = <<"space", "quote">> /\ e = "code")
      BY <2>1, <2>8 DEF Unbraced
    <3>3. CASE t = <<"quote">> /\ e = "code"
      <4>1. t[1] = "quote" BY <3>3
      <4>2. m = "string" BY <2>2, <3>1, <4>1
      <4>3. b = At("code", 0, 0) BY <1>2, <1>4, <2>2, <3>1, <3>3, <4>2, AlongLine, StepsOfLines
      <4>q. QED BY <2>3, <2>4, <3>3, <4>3
    <3>4. CASE t = <<"space", "quote">> /\ e = "code"
      <4>1. b = LexStep(LexStep(At(m, 0, 0), "space"), "quote")
        BY <1>2, <1>4, <2>2, <3>1, <3>4, AlongLine
      <4>2. b = At("code", 0, 0) BY <3>1, <4>1, StepsOfLines
      <4>q. QED BY <2>3, <2>4, <3>4, <4>2
    <3>q. QED BY <3>2, <3>3, <3>4
  <2>q. QED BY <2>1, <2>5, <2>6, <2>7, <2>8 DEF Unbraced
<1>q. QED BY <1>5, <1>6, <1>7, <1>8, <1>9, <1>10, FormIs

LEMMA LineTyped ==
    ASSUME NEW line \in Lines
    PROVE  Named(line) /\ line.toks \in Seq(Tokens) /\ line.ends \in Constructs
<1>1. CASE line \in CharLiterals
  <2>1. PICK no : no = FALSE OBVIOUS
  <2>2. \E t \in {<<"open">>, <<"quote">>} : line = Code(t, "none") BY <1>1 DEF CharLiterals
  <2>3. PICK t \in {<<"open">>, <<"quote">>} : line = Line("code", t, "none", "code", No, No, no, {}, no)
    BY <2>1, <2>2 DEF Code, Text
  <2>4. /\ line.toks = t /\ line.ends = "code" /\ line.impl = No /\ line.fn = No /\ line.generic = no
        /\ line.calls = {} /\ line.macro = no
    BY <2>3, LineFields DEF Form
  <2>5. "open" \in Tokens /\ "quote" \in Tokens BY DEF Tokens
  <2>6. Named(line) BY <2>1, <2>4 DEF Named
  <2>7. line.toks \in Seq(Tokens)
    <3>1. <<"open">> \in Seq(Tokens) /\ <<"quote">> \in Seq(Tokens) BY <2>5
    <3>q. QED BY <2>4, <3>1
  <2>q. QED BY <2>4, <2>6, <2>7 DEF Constructs
<1>2. CASE line \notin CharLiterals
  <2>1. Named(line) BY <1>2, LineIs
  <2>2. line.toks \in Seq(Tokens) /\ line.ends \in Constructs BY <1>2, FormIs, TokensOfForms DEF Form, Constructs
  <2>q. QED BY <2>1, <2>2
<1>q. QED BY <1>1, <1>2

LEMMA FunctionsAre ==
    /\ Nobody.name = No /\ ~Nobody.generic
    /\ \A f, g : Function(f, g).name = f /\ Function(f, g).generic = g
    /\ \A d \in FnDecls : d # Nobody /\ d.name \in FnNames /\ d.name # No /\ d.generic \in BOOLEAN
    /\ \A f \in FnNames, g \in BOOLEAN : Function(f, g) \in FnDecls
    /\ \A d \in Decls : d # Nobody => d \in FnDecls
<1>1. PICK no : no = FALSE OBVIOUS
<1>2. Nobody = [name |-> No, generic |-> no] BY <1>1 DEF Nobody, Function
<1>3. Nobody.name = No /\ ~Nobody.generic BY <1>1, <1>2
<1>4. \A f, g : Function(f, g).name = f /\ Function(f, g).generic = g BY DEF Function
<1>5. \A d \in FnDecls : d.name \in FnNames /\ d.generic \in BOOLEAN BY DEF FnDecls
<1>6. No \notin FnNames BY FactsAssumption DEF FactsAssumption
<1>7. \A f \in FnNames, g \in BOOLEAN : Function(f, g) \in FnDecls BY DEF Function, FnDecls
<1>q. QED BY <1>3, <1>4, <1>5, <1>6, <1>7 DEF Decls

LEMMA DeclaredTyped ==
    ASSUME FactsTyped, NEW line \in Lines
    PROVE  Declared(line) \in Decls
<1>1. line.fn # No => Function(line.fn, line.generic) \in FnDecls BY LineTyped, FunctionsAre DEF Named
<1>2. Declared(line) = IF Shown(line) /\ line.fn # No THEN Function(line.fn, line.generic) ELSE pending BY DEF Declared
<1>q. QED BY <1>1, <1>2 DEF FactsTyped, Decls

LEMMA Popped ==
    ASSUME NEW s \in Seq(Decls), s # <<>>
    PROVE  /\ SubSeq(s, 1, Len(s) - 1) \in Seq(Decls) /\ Len(SubSeq(s, 1, Len(s) - 1)) = Len(s) - 1
           /\ \A i \in 1..(Len(s) - 1) : SubSeq(s, 1, Len(s) - 1)[i] = s[i]
<1>1. PICK n \in Nat : n = Len(s) OBVIOUS
<1>2. n # 0 BY <1>1
<1>3. PICK m \in Nat : m = n - 1 /\ n = m + 1 BY <1>2
<1>4. PICK r : r = [i \in 1..m |-> s[i]] OBVIOUS
<1>5. SubSeq(s, 1, m) = r
  <2>1. \A i \in 1..m : i + 1 - 1 = i OBVIOUS
  <2>2. SubSeq(s, 1, m) = [i \in 1..(1 + m - 1) |-> s[i + 1 - 1]] BY <1>1, <1>3
  <2>q. QED BY <1>3, <1>4, <2>1, <2>2
<1>6. \A i \in 1..m : s[i] \in Decls BY <1>1, <1>3
<1>7. r \in [1..m -> Decls] BY <1>4, <1>6
<1>8. r \in Seq(Decls) /\ Len(r) = m BY <1>7
<1>q. QED BY <1>1, <1>3, <1>4, <1>5, <1>8

LEMMA Pushed ==
    ASSUME NEW s \in Seq(Decls), NEW e \in Decls
    PROVE  /\ Append(s, e) \in Seq(Decls) /\ Len(Append(s, e)) = Len(s) + 1 /\ Append(s, e)[Len(s) + 1] = e
           /\ \A i \in 1..Len(s) : Append(s, e)[i] = s[i]
OBVIOUS

LEMMA DeltaTyped ==
    ASSUME FactsTyped, NEW line \in Lines
    PROVE  BraceDelta(line.toks) \in LexStates
<1>1. PICK t \in Seq(Tokens) : t = line.toks BY LineTyped
<1>2. PICK l \in Nat : l = Len(t) /\ l \in 0..l BY <1>1
<1>3. PICK g : LexAlong(g, t) /\ BraceDelta(t) = g[l] BY <1>2, BraceDeltaIs
<1>q. QED BY <1>1, <1>2, <1>3 DEF LexAlong

LEMMA TypedNext ==
    ASSUME FactsTyped, NEW line \in Lines, Reads(line), Scan(line), Tree(line)
    PROVE  FactsTyped'
<1>1. PICK b \in LexStates : b = BraceDelta(line.toks) BY DeltaTyped
<1>2. lex' = [mode |-> b.mode, depth |-> b.depth] BY <1>1 DEF Scan
<1>3. b.mode \in Modes /\ b.depth \in Nat BY DEF LexStates
<1>4. PICK d \in Decls : d = Declared(line) BY DeclaredTyped
<1>5. /\ construct' = line.ends
      /\ pending' = IF line.body = "none" THEN d ELSE Nobody
      /\ blocks' = CASE line.body = "opens" -> Append(blocks, d)
                     [] line.body = "closes" -> SubSeq(blocks, 1, Len(blocks) - 1)
                     [] OTHER -> blocks
      /\ treeFns' = IF Begins(line) THEN treeFns \cup {d} ELSE treeFns
  BY <1>4 DEF Tree
<1>6. construct' \in Constructs BY <1>5, LineTyped
<1>7. pending' \in Decls BY <1>5 DEF Decls
<1>8. blocks \in Seq(Decls) BY DEF FactsTyped
<1>9. blocks' \in Seq(Decls)
  <2>1. CASE line.body = "opens" BY <1>5, <1>8, <2>1, Pushed
  <2>2. CASE line.body = "closes"
    <3>1. blocks # <<>> BY <2>2 DEF Reads
    <3>2. SubSeq(blocks, 1, Len(blocks) - 1) \in Seq(Decls) BY <1>8, <3>1, Popped
    <3>q. QED BY <1>5, <2>2, <3>2
  <2>3. CASE line.body \notin {"opens", "closes"} BY <1>5, <1>8, <2>3
  <2>q. QED BY <2>1, <2>2, <2>3
<1>10. treeFns' \subseteq FnDecls BY <1>4, <1>5, FunctionsAre DEF FactsTyped, Begins
<1>q. QED BY <1>2, <1>3, <1>6, <1>7, <1>9, <1>10 DEF FactsTyped

(* One iteration of the scanner, as its context and its facts see it.      *)
CalleesOf(line) == {c.callee : c \in {c \in line.calls : c.as # "turbofish"}}
Owed(f, line) == {<<f, c>> : c \in CalleesOf(line) \ {f}}
LEMMA ScanIs ==
    ASSUME NEW line, Scan(line), NEW b, b = BraceDelta(line.toks), NEW f, f = MatchedFn(line)
    PROVE  /\ lex' = [mode |-> b.mode, depth |-> b.depth]
           /\ macroSites' = IF line.macro
                            THEN macroSites \cup {[line |-> Len(file) + 1, caller |-> fnCtx.name]}
                            ELSE macroSites
           /\ fnCtx = Outside /\ f = No => fnCtx' = Outside /\ symbols' = symbols /\ callGraph' = callGraph
           /\ fnCtx = Outside /\ f # No =>
                  /\ fnCtx' = AfterLine(Context(f), line, b.delta) /\ symbols' = symbols \cup {f}
                  /\ callGraph' = callGraph \cup Owed(f, line)
           /\ fnCtx # Outside /\ f = No =>
                  /\ fnCtx' = AfterLine(fnCtx, line, b.delta) /\ symbols' = symbols
                  /\ callGraph' = callGraph \cup Owed(fnCtx.name, line)
<1>1. PICK matched : matched = CalleesOf(line) \cup ({f} \ {No}) OBVIOUS
<1>2. PICK fn : fn = IF fnCtx = Outside /\ f # No THEN Context(f) ELSE fnCtx OBVIOUS
<1>3. /\ lex' = [mode |-> b.mode, depth |-> b.depth]
      /\ macroSites' = IF line.macro
                       THEN macroSites \cup {[line |-> Len(file) + 1, caller |-> fnCtx.name]}
                       ELSE macroSites
      /\ symbols' = IF fnCtx = Outside /\ f # No THEN symbols \cup {f} ELSE symbols
      /\ callGraph' = IF fn = Outside THEN callGraph ELSE callGraph \cup {<<fn.name, c>> : c \in matched \ {fn.name}}
      /\ fnCtx' = IF fn = Outside THEN Outside ELSE AfterLine(fn, line, b.delta)
  BY <1>1, <1>2 DEF Scan, CalleesOf
<1>4. ASSUME f # No PROVE Context(f) # Outside /\ Context(f).name = f BY <1>4 DEF Outside, Context
<1>5. ASSUME f # No PROVE matched \ {f} = CalleesOf(line) \ {f} BY <1>1, <1>5
<1>6. ASSUME f = No PROVE matched = CalleesOf(line) BY <1>1, <1>6
<1>7. CASE fnCtx = Outside /\ f = No BY <1>2, <1>3, <1>7
<1>8. CASE fnCtx = Outside /\ f # No
  <2>1. fn = Context(f) /\ fn # Outside /\ fn.name = f BY <1>2, <1>4, <1>8
  <2>q. QED BY <1>3, <1>5, <1>8, <2>1 DEF Owed
<1>9. CASE fnCtx # Outside /\ f = No
  <2>1. fn = fnCtx BY <1>2, <1>9
  <2>q. QED BY <1>3, <1>6, <1>9, <2>1 DEF Owed
<1>10. CASE fnCtx # Outside /\ f # No BY <1>3, <1>10
<1>q. QED BY <1>7, <1>8, <1>9, <1>10

(* The facts of the tree as the scanner gives them.                        *)
OrdinaryNames(fns) == {d.name : d \in {d \in fns : ~d.generic}}
Charged(sites) == {<<c.caller.name, c.callee>> : c \in {c \in sites : ~c.caller.generic /\ c.as # "turbofish"}}
SeenAt(d) == IF d.generic THEN No ELSE d.name
SeenMacros(macros) == {[line |-> m.line, caller |-> SeenAt(m.caller)] : m \in macros}
CallsOf(d, line) ==
    {[caller |-> d, callee |-> c.callee, as |-> c.as] : c \in {c \in line.calls : c.callee # d.name}}

LEMMA MoreNames ==
    ASSUME NEW fns, NEW d
    PROVE  OrdinaryNames(fns \cup {d}) = IF d.generic THEN OrdinaryNames(fns) ELSE OrdinaryNames(fns) \cup {d.name}
BY DEF OrdinaryNames

LEMMA MoreCharged ==
    ASSUME NEW sites, NEW line, NEW d
    PROVE  /\ d.generic => Charged(sites \cup CallsOf(d, line)) = Charged(sites)
           /\ ~d.generic => Charged(sites \cup CallsOf(d, line)) = Charged(sites) \cup Owed(d.name, line)
<1> DEFINE Call(c) == [caller |-> d, callee |-> c.callee, as |-> c.as]
<1>1. \A c : Call(c).caller = d /\ Call(c).callee = c.callee /\ Call(c).as = c.as OBVIOUS
<1>2. \A x : x \in CallsOf(d, line) <=> \E c \in line.calls : c.callee # d.name /\ x = Call(c) BY DEF CallsOf
<1> HIDE DEF Call
<1>3. \A x : x \in Charged(sites \cup CallsOf(d, line)) <=>
             \/ x \in Charged(sites)
             \/ \E c \in CallsOf(d, line) : ~c.caller.generic /\ c.as # "turbofish" /\ x = <<c.caller.name, c.callee>>
  BY DEF Charged
<1>4. \A x : (\E c \in CallsOf(d, line) : ~c.caller.generic /\ c.as # "turbofish" /\ x = <<c.caller.name, c.callee>>)
             <=> \E c \in line.calls : c.callee # d.name /\ ~d.generic /\ c.as # "turbofish" /\ x = <<d.name, c.callee>>
  BY <1>1, <1>2
<1>5. \A x : x \in Owed(d.name, line) <=>
             \E c \in line.calls : c.callee # d.name /\ c.as # "turbofish" /\ x = <<d.name, c.callee>>
  BY DEF CalleesOf, Owed
<1>q. QED BY <1>3, <1>4, <1>5

LEMMA MoreMacros ==
    ASSUME NEW macros, NEW n, NEW d
    PROVE  SeenMacros(macros \cup {[line |-> n, caller |-> d]}) =
               SeenMacros(macros) \cup {[line |-> n, caller |-> SeenAt(d)]}
<1>1. PICK m : m = [line |-> n, caller |-> d] OBVIOUS
<1>2. m.line = n /\ m.caller = d BY <1>1
<1>3. SeenMacros(macros \cup {m}) = SeenMacros(macros) \cup {[line |-> m.line, caller |-> SeenAt(m.caller)]}
  BY DEF SeenMacros
<1>q. QED BY <1>1, <1>2, <1>3

(* Blocks are a stack: the scanner keeps the depth of its context where    *)
(* the language keeps the blocks themselves.  Of the functions that have   *)
(* begun one at most is open, and the context is its own, or none when it  *)
(* is generic.                                                             *)
NoFunction(s) == \A i \in DOMAIN s : s[i] = Nobody
OnlyFunction(s, k) == s[k] # Nobody /\ \A i \in DOMAIN s : i # k => s[i] = Nobody
WithoutLast(s) == IF s = <<>> THEN s ELSE SubSeq(s, 1, Len(s) - 1)
InBody(k) ==
    /\ OnlyFunction(blocks, k) /\ blocks[k] \in treeFns
    /\ fnCtx = IF blocks[k].generic THEN Outside
               ELSE [name |-> blocks[k].name, depth |-> Len(blocks) - k + 1, opened |-> TRUE]
ContextIsInnermost ==
    \/ pending = Nobody /\ NoFunction(blocks) /\ fnCtx = Outside
    \/ pending # Nobody /\ NoFunction(blocks) /\ fnCtx = IF pending.generic THEN Outside ELSE Context(pending.name)
    \/ pending = Nobody /\ \E k \in DOMAIN blocks : InBody(k)
SameFacts ==
    /\ symbols = OrdinaryNames(treeFns) \cup (IF pending = Nobody \/ pending.generic THEN {} ELSE {pending.name})
    /\ callGraph = Charged(treeCalls) /\ macroSites = SeenMacros(treeMacros)
    /\ \A c \in treeCalls : c.caller \in treeFns
FactsInv == FactsTyped /\ (plain => Aligned(lex, construct) /\ SameFacts /\ ContextIsInnermost)

LEMMA InnermostIs ==
    ASSUME NEW s \in Seq(Decls)
    PROVE  /\ (\A i \in DOMAIN s : s[i] = Nobody) => Innermost(s) = Nobody
           /\ \A k \in DOMAIN s : s[k] # Nobody /\ (\A i \in DOMAIN s : i # k => s[i] = Nobody) => Innermost(s) = s[k]
<1>1. ASSUME \A i \in DOMAIN s : s[i] = Nobody PROVE Innermost(s) = Nobody
  <2>1. {i \in DOMAIN s : s[i] # Nobody} = {} BY <1>1
  <2>q. QED BY <2>1 DEF Innermost
<1>2. ASSUME NEW k \in DOMAIN s, s[k] # Nobody, \A i \in DOMAIN s : i # k => s[i] = Nobody
      PROVE  Innermost(s) = s[k]
  <2>1. {i \in DOMAIN s : s[i] # Nobody} = {k} BY <1>2
  <2>2. k \in Nat BY <1>2
  <2>3. (CHOOSE i \in {k} : \A j \in {k} : j <= i) = k BY <2>2
  <2>q. QED BY <2>1, <2>3 DEF Innermost
<1>q. QED BY <1>1, <1>2

LEMMA Stacks ==
    ASSUME NEW s \in Seq(Decls)
    PROVE  /\ NoFunction(s) => NoFunction(Append(s, Nobody)) /\ NoFunction(WithoutLast(s))
           /\ \A f \in Decls : NoFunction(s) /\ f # Nobody =>
                  Len(s) + 1 \in DOMAIN Append(s, f) /\ OnlyFunction(Append(s, f), Len(s) + 1)
           /\ \A k \in DOMAIN s : OnlyFunction(s, k) =>
                  /\ s # <<>>
                  /\ k \in DOMAIN Append(s, Nobody) /\ OnlyFunction(Append(s, Nobody), k) /\ Append(s, Nobody)[k] = s[k]
                  /\ k = Len(s) => NoFunction(WithoutLast(s))
                  /\ k # Len(s) => /\ k \in DOMAIN WithoutLast(s) /\ OnlyFunction(WithoutLast(s), k)
                                   /\ WithoutLast(s)[k] = s[k]
<1>1. PICK n \in Nat : n = Len(s) /\ DOMAIN s = 1..n OBVIOUS
<1>2. Nobody \in Decls BY DEF Decls
<1>3. ASSUME NEW f \in Decls
      PROVE  /\ DOMAIN Append(s, f) = 1..(n + 1) /\ Append(s, f)[n + 1] = f
             /\ \A i \in 1..n : Append(s, f)[i] = s[i]
  BY <1>1, Pushed
<1>4. ASSUME s # <<>>
      PROVE  /\ n \in 1..n /\ DOMAIN WithoutLast(s) = 1..(n - 1)
             /\ \A i \in 1..(n - 1) : WithoutLast(s)[i] = s[i]
  <2>1. n # 0 BY <1>1, <1>4
  <2>2. PICK r \in Seq(Decls) : r = WithoutLast(s) /\ Len(r) = n - 1 /\ \A i \in 1..(n - 1) : r[i] = s[i]
    BY <1>1, <1>4, Popped DEF WithoutLast
  <2>q. QED BY <1>1, <2>1, <2>2
<1>5. \A i \in 1..(n + 1) : i \in 1..n \/ i = n + 1 BY <1>1
<1>6. \A i \in 1..(n - 1) : i \in 1..n BY <1>1
<1>7. \A i \in 1..n : i \in 1..(n + 1) /\ i # n + 1 /\ (i # n => i \in 1..(n - 1)) BY <1>1
<1>8. n + 1 \in 1..(n + 1) BY <1>1
<1>9. ASSUME NoFunction(s) PROVE NoFunction(Append(s, Nobody)) /\ NoFunction(WithoutLast(s))
  <2>1. NoFunction(Append(s, Nobody)) BY <1>1, <1>2, <1>3, <1>5, <1>9 DEF NoFunction
  <2>2. CASE s = <<>> BY <1>9, <2>1, <2>2 DEF WithoutLast
  <2>3. CASE s # <<>> BY <1>1, <1>4, <1>6, <1>9, <2>1, <2>3 DEF NoFunction
  <2>q. QED BY <2>2, <2>3
<1>10. ASSUME NEW f \in Decls, NoFunction(s), f # Nobody
       PROVE  n + 1 \in DOMAIN Append(s, f) /\ OnlyFunction(Append(s, f), n + 1)
  BY <1>1, <1>3, <1>5, <1>8, <1>10 DEF NoFunction, OnlyFunction
<1>11. ASSUME NEW k \in 1..n, OnlyFunction(s, k)
       PROVE  /\ s # <<>>
              /\ k \in DOMAIN Append(s, Nobody) /\ OnlyFunction(Append(s, Nobody), k) /\ Append(s, Nobody)[k] = s[k]
              /\ k = n => NoFunction(WithoutLast(s))
              /\ k # n => /\ k \in DOMAIN WithoutLast(s) /\ OnlyFunction(WithoutLast(s), k)
                          /\ WithoutLast(s)[k] = s[k]
  <2>1. s # <<>> BY <1>1, <1>11
  <2>2. k \in DOMAIN Append(s, Nobody) /\ OnlyFunction(Append(s, Nobody), k) /\ Append(s, Nobody)[k] = s[k]
    BY <1>1, <1>2, <1>3, <1>5, <1>7, <1>11 DEF OnlyFunction
  <2>3. ASSUME k = n PROVE NoFunction(WithoutLast(s))
    <3>1. \A i \in 1..(n - 1) : i # n BY <1>1
    <3>q. QED BY <1>1, <1>4, <1>6, <1>11, <2>1, <2>3, <3>1 DEF NoFunction, OnlyFunction
  <2>4. ASSUME k # n
        PROVE  k \in DOMAIN WithoutLast(s) /\ OnlyFunction(WithoutLast(s), k) /\ WithoutLast(s)[k] = s[k]
    BY <1>1, <1>4, <1>6, <1>7, <1>11, <2>1, <2>4 DEF OnlyFunction
  <2>q. QED BY <2>1, <2>2, <2>3, <2>4
<1>q. QED BY <1>1, <1>9, <1>10, <1>11

LEMMA ContextAfter ==
    ASSUME NEW line, NEW f
    PROVE  /\ ~HasBrace(line) => AfterLine(Context(f), line, 0) = Context(f)
           /\ HasBrace(line) => /\ AfterLine(Context(f), line, 0) = Outside
                                /\ AfterLine(Context(f), line, 1) = [name |-> f, depth |-> 1, opened |-> TRUE]
<1>1. PICK ctx : ctx = Context(f) OBVIOUS
<1>2. ctx = [name |-> f, depth |-> 0, opened |-> FALSE] BY <1>1 DEF Context
<1>3. ctx.name = f /\ ctx.depth = 0 /\ ctx.opened = FALSE BY <1>2
<1>4. 0 + 0 = 0 /\ 0 + 1 = 1 /\ 0 <= 0 /\ ~(1 <= 0) OBVIOUS
<1>5. ASSUME HasBrace(line)
      PROVE  /\ AfterLine(ctx, line, 0) = Outside
             /\ AfterLine(ctx, line, 1) = [name |-> f, depth |-> 1, opened |-> TRUE]
  <2>1. (ctx.opened \/ HasBrace(line)) = TRUE BY <1>5
  <2>q. QED BY <1>3, <1>4, <2>1, Zenon DEF AfterLine
<1>6. ASSUME ~HasBrace(line) PROVE AfterLine(ctx, line, 0) = ctx
  <2>1. (ctx.opened \/ HasBrace(line)) = FALSE BY <1>3, <1>6
  <2>2. AfterLine(ctx, line, 0) = [name |-> f, depth |-> 0, opened |-> FALSE]
    BY <1>3, <1>4, <2>1, Zenon DEF AfterLine
  <2>q. QED BY <1>2, <2>2
<1>q. QED BY <1>1, <1>5, <1>6

LEMMA AlignedNext ==
    ASSUME FactsTyped, Aligned(lex, construct), NEW line \in Lines, Reads(line), PlainLine(line), Scan(line), Tree(line)
    PROVE  Aligned(lex', construct') /\ BraceDelta(line.toks).delta = Net(line.body)
<1>1. PICK b : b = BraceDelta(line.toks) OBVIOUS
<1>2. line \notin CharLiterals /\ (lex.mode = "escaped" => line.toks # <<>> /\ line.toks[1] = "space")
  BY DEF PlainLine
<1>3. line.starts = construct BY DEF Reads
<1>4. Aligned(b, line.ends) /\ b.delta = Net(line.body) BY <1>1, <1>2, <1>3, Reading
<1>5. lex' = [mode |-> b.mode, depth |-> b.depth] BY <1>1, ScanIs
<1>6. construct' = line.ends BY DEF Tree
<1>7. lex'.mode = b.mode /\ lex'.depth = b.depth BY <1>5
<1>q. QED BY <1>1, <1>4, <1>6, <1>7 DEF Aligned

LEMMA MacrosNext ==
    ASSUME NEW line, Scan(line), Tree(line), PlainLine(line), macroSites = SeenMacros(treeMacros),
           line.macro => fnCtx.name = SeenAt(Innermost(blocks))
    PROVE  macroSites' = SeenMacros(treeMacros')
<1>1. line.macro => Shown(line) BY DEF PlainLine
<1>2. macroSites' = IF line.macro
                    THEN macroSites \cup {[line |-> Len(file) + 1, caller |-> fnCtx.name]}
                    ELSE macroSites
  BY ScanIs
<1>3. treeMacros' = IF Shown(line) /\ line.macro
                    THEN treeMacros \cup {[line |-> Len(file) + 1, caller |-> Innermost(blocks)]} ELSE treeMacros
  BY DEF Tree
<1>4. CASE line.macro
  <2>1. PICK n : n = Len(file) + 1 OBVIOUS
  <2>2. PICK d : d = Innermost(blocks) OBVIOUS
  <2>3. macroSites' = macroSites \cup {[line |-> n, caller |-> SeenAt(d)]} BY <1>2, <1>4, <2>1, <2>2
  <2>4. treeMacros' = treeMacros \cup {[line |-> n, caller |-> d]} BY <1>1, <1>3, <1>4, <2>1, <2>2
  <2>q. QED BY <2>3, <2>4, MoreMacros
<1>5. CASE ~line.macro BY <1>2, <1>3, <1>5
<1>q. QED BY <1>4, <1>5

(* A line without a declaration, when no function waits for its body.      *)
LEMMA Quiet ==
    ASSUME NEW line, line.fn = No, pending = Nobody, Reads(line), Tree(line)
    PROVE  /\ pending' = Nobody /\ treeFns' = treeFns
           /\ treeCalls' = treeCalls \cup CallsOf(Innermost(blocks), line)
           /\ line.body = "opens" => blocks' = Append(blocks, Nobody)
           /\ line.body = "closes" => blocks' = WithoutLast(blocks) /\ blocks # <<>>
           /\ line.body \notin {"opens", "closes"} => blocks' = blocks
<1>1. Declared(line) = Nobody BY DEF Declared
<1>2. ~Begins(line) /\ Around(line) = Innermost(blocks) BY <1>1 DEF Begins, Around
<1>3. pending' = Nobody /\ treeFns' = treeFns BY <1>1, <1>2 DEF Tree
<1>4. treeCalls' = treeCalls \cup CallsOf(Innermost(blocks), line) BY <1>2 DEF Tree, CallsOf
<1>5. blocks' = CASE line.body = "opens" -> Append(blocks, Nobody)
                  [] line.body = "closes" -> SubSeq(blocks, 1, Len(blocks) - 1)
                  [] OTHER -> blocks
  BY <1>1 DEF Tree
<1>6. line.body = "closes" => blocks # <<>> BY DEF Reads
<1>q. QED BY <1>3, <1>4, <1>5, <1>6 DEF WithoutLast

LEMMA NoCalls ==
    ASSUME NEW line, line.calls = {}
    PROVE  \A d : CallsOf(d, line) = {} /\ Owed(d, line) = {}
BY DEF CallsOf, CalleesOf, Owed

(* Outside a function a line without a declaration does nothing, or opens  *)
(* or closes a block that is no function.                                  *)
LEMMA OutsideStays ==
    ASSUME FactsTyped, SameFacts, fnCtx = Outside, pending = Nobody, NoFunction(blocks),
           NEW line, line.fn = No, Reads(line), PlainLine(line), Scan(line), Tree(line)
    PROVE  SameFacts' /\ ContextIsInnermost'
<1>1. blocks \in Seq(Decls) BY DEF FactsTyped
<1>2. Innermost(blocks) = Nobody BY <1>1, InnermostIs DEF NoFunction
<1>3. line.calls = {} /\ ~line.macro BY <1>2 DEF Reads
<1>4. pending' = Nobody /\ treeFns' = treeFns /\ treeCalls' = treeCalls BY <1>3, NoCalls, Quiet
<1>5. MatchedFn(line) = No BY DEF MatchedFn
<1>6. fnCtx' = Outside /\ symbols' = symbols /\ callGraph' = callGraph BY <1>5, ScanIs
<1>7. macroSites' = SeenMacros(treeMacros') BY <1>3, MacrosNext DEF SameFacts
<1>8. NoFunction(blocks') BY <1>1, Quiet, Stacks
<1>9. SameFacts' BY <1>4, <1>6, <1>7 DEF SameFacts
<1>q. QED BY <1>4, <1>6, <1>8, <1>9 DEF ContextIsInnermost

(* A declaration: a generic function is none to the scanner, any other     *)
(* opens its context, and both begin with the body.                        *)
LEMMA OutsideDeclares ==
    ASSUME FactsTyped, Aligned(lex, construct), SameFacts, fnCtx = Outside, pending = Nobody, NoFunction(blocks),
           NEW line \in Lines, line.fn # No, Reads(line), PlainLine(line), Scan(line), Tree(line)
    PROVE  SameFacts' /\ ContextIsInnermost'
<1>1. blocks \in Seq(Decls) /\ treeFns \subseteq FnDecls BY DEF FactsTyped
<1>2. Shown(line) /\ line.body # "ends" /\ line \notin CharLiterals BY DEF PlainLine
<1>3. PICK f \in FnNames, g \in BOOLEAN : f = line.fn /\ g = line.generic BY LineTyped DEF Named
<1>4. PICK d \in FnDecls : d = Function(f, g) BY FunctionsAre
<1>5. d.name = f /\ d.generic = g /\ d # Nobody /\ f # No BY <1>4, FunctionsAre
<1>6. Declared(line) = d BY <1>2, <1>3, <1>4 DEF Declared
<1>7. PICK b : b = BraceDelta(line.toks) OBVIOUS
<1>8. b.delta = Net(line.body) BY <1>7, AlignedNext
<1>9. ~line.macro /\ macroSites' = SeenMacros(treeMacros')
  <2>1. ~line.macro BY <1>2, LineIs DEF Declares
  <2>q. QED BY <2>1, MacrosNext DEF SameFacts
<1>10. g => fnCtx' = Outside /\ symbols' = symbols /\ callGraph' = callGraph
  BY <1>3, ScanIs DEF MatchedFn
<1>11. ~g => /\ fnCtx' = AfterLine(Context(f), line, b.delta) /\ symbols' = symbols \cup {f}
             /\ callGraph' = callGraph \cup Owed(f, line)
  <2>1. ~g => MatchedFn(line) = f BY <1>3 DEF MatchedFn
  <2>q. QED BY <1>5, <1>7, <2>1, ScanIs
<1>12. symbols = OrdinaryNames(treeFns) BY DEF SameFacts
<1>13. \/ Form(line, "code", <<>>, "none", "code") /\ line.calls = {}
       \/ Form(line, "code", <<"open">>, "opens", "code") /\ line.calls = {}
       \/ Form(line, "code", <<"open", "close">>, "both", "code") /\ ~g
  <2>1. Declares(line) BY <1>2, LineIs
  <2>2. line.starts = "code" BY <1>2 DEF Shown
  <2>q. QED BY <1>2, <1>3, <2>1, <2>2 DEF Declares, Form
<1>14. CASE Form(line, "code", <<>>, "none", "code") /\ line.calls = {}
  <2>1. line.toks = <<>> /\ line.body = "none" BY <1>14 DEF Form
  <2>2. ~Begins(line) BY <2>1 DEF Begins
  <2>3. /\ blocks' = blocks /\ pending' = d /\ treeFns' = treeFns
        /\ treeCalls' = treeCalls \cup CallsOf(Around(line), line)
    BY <1>6, <2>1, <2>2 DEF Tree, CallsOf
  <2>4. treeCalls' = treeCalls /\ Owed(f, line) = {} BY <1>14, <2>3, NoCalls
  <2>5. ~HasBrace(line) BY <2>1 DEF HasBrace
  <2>6. b.delta = 0 BY <1>8, <2>1 DEF Net
  <2>7. fnCtx' = IF g THEN Outside ELSE Context(f)
    <3>1. AfterLine(Context(f), line, 0) = Context(f) BY <2>5, ContextAfter
    <3>q. QED BY <1>10, <1>11, <2>6, <3>1
  <2>8. callGraph' = callGraph BY <1>10, <1>11, <2>4
  <2>9. symbols' = OrdinaryNames(treeFns') \cup (IF pending' = Nobody \/ pending'.generic THEN {} ELSE {pending'.name})
    BY <1>5, <1>10, <1>11, <1>12, <2>3
  <2>10. SameFacts' BY <1>9, <2>3, <2>4, <2>8, <2>9 DEF SameFacts
  <2>q. QED BY <1>5, <2>3, <2>7, <2>10 DEF ContextIsInnermost
<1>15. CASE Form(line, "code", <<"open">>, "opens", "code") /\ line.calls = {}
  <2>1. line.toks = <<"open">> /\ line.body = "opens" BY <1>15 DEF Form
  <2>2. Begins(line) BY <1>5, <1>6, <2>1 DEF Begins
  <2>3. /\ blocks' = Append(blocks, d) /\ pending' = Nobody /\ treeFns' = treeFns \cup {d}
        /\ treeCalls' = treeCalls \cup CallsOf(Around(line), line)
    BY <1>6, <2>1, <2>2 DEF Tree, CallsOf
  <2>4. treeCalls' = treeCalls /\ Owed(f, line) = {} BY <1>15, <2>3, NoCalls
  <2>5. HasBrace(line)
    <3>1. 1 \in DOMAIN line.toks /\ line.toks[1] = "open" BY <2>1
    <3>q. QED BY <3>1 DEF HasBrace
  <2>6. b.delta = 1 BY <1>8, <2>1 DEF Net
  <2>7. PICK k : k = Len(blocks) + 1 OBVIOUS
  <2>8. k \in DOMAIN blocks' /\ OnlyFunction(blocks', k) BY <1>1, <1>5, <2>3, <2>7, Stacks DEF Decls
  <2>9. blocks'[k] = d /\ Len(blocks') - k + 1 = 1
    <3>1. d \in Decls BY DEF Decls
    <3>2. Len(Append(blocks, d)) = Len(blocks) + 1 /\ Append(blocks, d)[Len(blocks) + 1] = d BY <1>1, <3>1, Pushed
    <3>3. Len(blocks) \in Nat BY <1>1
    <3>q. QED BY <2>3, <2>7, <3>2, <3>3
  <2>10. fnCtx' = IF g THEN Outside ELSE [name |-> f, depth |-> 1, opened |-> TRUE]
    <3>1. AfterLine(Context(f), line, 1) = [name |-> f, depth |-> 1, opened |-> TRUE] BY <2>5, ContextAfter
    <3>q. QED BY <1>10, <1>11, <2>6, <3>1
  <2>11. InBody(k)'
    <3>1. d \in treeFns' BY <2>3
    <3>2. fnCtx' = IF d.generic THEN Outside ELSE [name |-> d.name, depth |-> Len(blocks') - k + 1, opened |-> TRUE]
      BY <1>5, <2>9, <2>10
    <3>q. QED BY <2>8, <2>9, <3>1, <3>2 DEF InBody, OnlyFunction
  <2>12. callGraph' = callGraph BY <1>10, <1>11, <2>4
  <2>13. symbols' = OrdinaryNames(treeFns') BY <1>5, <1>10, <1>11, <1>12, <2>3, MoreNames
  <2>14. SameFacts' BY <1>9, <2>3, <2>4, <2>12, <2>13 DEF SameFacts
  <2>q. QED BY <2>3, <2>8, <2>11, <2>14 DEF ContextIsInnermost, InBody, OnlyFunction
<1>16. CASE Form(line, "code", <<"open", "close">>, "both", "code") /\ ~g
  <2>1. line.toks = <<"open", "close">> /\ line.body = "both" BY <1>16 DEF Form
  <2>2. Begins(line) /\ Around(line) = d BY <1>5, <1>6, <2>1 DEF Begins, Around
  <2>3. /\ blocks' = blocks /\ pending' = Nobody /\ treeFns' = treeFns \cup {d}
        /\ treeCalls' = treeCalls \cup CallsOf(d, line)
    BY <1>6, <2>1, <2>2 DEF Tree, CallsOf
  <2>4. HasBrace(line)
    <3>1. 1 \in DOMAIN line.toks /\ line.toks[1] = "open" BY <2>1
    <3>q. QED BY <3>1 DEF HasBrace
  <2>5. b.delta = 0 BY <1>8, <2>1 DEF Net
  <2>6. fnCtx' = Outside
    <3>1. AfterLine(Context(f), line, 0) = Outside BY <2>4, ContextAfter
    <3>q. QED BY <1>11, <1>16, <2>5, <3>1
  <2>7. callGraph' = Charged(treeCalls') BY <1>5, <1>11, <1>16, <2>3, MoreCharged DEF SameFacts
  <2>8. symbols' = OrdinaryNames(treeFns') BY <1>5, <1>11, <1>12, <1>16, <2>3, MoreNames
  <2>9. \A c \in CallsOf(d, line) : c.caller = d BY DEF CallsOf
  <2>10. \A c \in treeCalls' : c.caller \in treeFns' BY <2>3, <2>9 DEF SameFacts
  <2>11. SameFacts' BY <1>9, <2>3, <2>7, <2>8, <2>10 DEF SameFacts
  <2>q. QED BY <2>3, <2>6, <2>11 DEF ContextIsInnermost
<1>q. QED BY <1>13, <1>14, <1>15, <1>16

(* Before its body: the next line begins it, or has nothing.               *)
LEMMA WaitingNext ==
    ASSUME FactsTyped, Aligned(lex, construct), SameFacts, pending # Nobody, NoFunction(blocks),
           fnCtx = IF pending.generic THEN Outside ELSE Context(pending.name),
           NEW line \in Lines, Reads(line), PlainLine(line), Scan(line), Tree(line)
    PROVE  SameFacts' /\ ContextIsInnermost'
<1>1. blocks \in Seq(Decls) /\ treeFns \subseteq FnDecls BY DEF FactsTyped
<1>2. PICK d \in FnDecls : d = pending BY FunctionsAre DEF FactsTyped
<1>3. PICK f \in FnNames, g \in BOOLEAN : f = d.name /\ g = d.generic /\ f # No /\ d # Nobody BY FunctionsAre
<1>4. line.fn = No
  <2>1. Shown(line) => line.fn = No BY DEF Reads
  <2>q. QED BY <2>1 DEF PlainLine
<1>5. Innermost(blocks) = Nobody BY <1>1, InnermostIs DEF NoFunction
<1>6. line.calls = {} /\ ~line.macro BY <1>4, <1>5 DEF Reads
<1>7. macroSites' = SeenMacros(treeMacros') BY <1>6, MacrosNext DEF SameFacts
<1>8. PICK b : b = BraceDelta(line.toks) OBVIOUS
<1>9. b.delta = Net(line.body) BY <1>8, AlignedNext
<1>10. \A x : Owed(x, line) = {} BY <1>6, NoCalls
<1>11. symbols' = symbols /\ callGraph' = callGraph
  <2>1. MatchedFn(line) = No BY <1>4 DEF MatchedFn
  <2>q. QED BY <1>10, <2>1, ScanIs
<1>12. fnCtx' = IF g THEN Outside ELSE AfterLine(Context(f), line, b.delta)
  <2>1. MatchedFn(line) = No BY <1>4 DEF MatchedFn
  <2>2. fnCtx = IF g THEN Outside ELSE Context(f) BY <1>2, <1>3
  <2>3. Context(f) # Outside BY <1>3 DEF Context, Outside
  <2>q. QED BY <1>8, <2>1, <2>2, <2>3, ScanIs
<1>13. Declared(line) = d BY <1>2, <1>4 DEF Declared
<1>14. symbols = OrdinaryNames(treeFns) \cup (IF g THEN {} ELSE {f}) BY <1>2, <1>3 DEF SameFacts
<1>15. \/ line.body = "none" /\ (~g => line.toks = <<>>)
       \/ line.body = "opens" /\ line.toks = <<"open">>
  <2>1. States(line) BY <1>4, LineIs DEF PlainLine
  <2>2. line.body # "closes" BY <1>2, <1>3 DEF Reads
  <2>3. \/ line.body = "none" /\ line.toks = <<>>
        \/ line.body = "opens" /\ line.toks = <<"open">>
        \/ line.body = "none" /\ \E s, e : <<s, line.toks, e>> \in Unbraced /\ line.starts = s
    BY <2>1, <2>2 DEF States, Form
  <2>4. ASSUME ~g PROVE ~\E s, e : <<s, line.toks, e>> \in Unbraced /\ line.starts = s
    <3>1. fnCtx = Context(f) /\ Context(f) # Outside /\ ~Context(f).opened
      BY <1>2, <1>3, <2>4 DEF Context, Outside
    <3>2. ToSet(line.toks) \subseteq {"open", "close"} /\ construct = "code"
      BY <3>1 DEF PlainLine
    <3>3. line.starts = "code" BY <3>2 DEF Reads
    <3>4. ASSUME NEW s, NEW e, <<s, line.toks, e>> \in Unbraced, s = "code"
          PROVE  \E tok \in {"quote", "line_comment", "comment_open", "raw_open"} :
                     1 \in DOMAIN line.toks /\ line.toks[1] = tok
      BY <3>4 DEF Unbraced, QuotedBrace
    <3>5. \A i \in DOMAIN line.toks : line.toks[i] \in {"open", "close"} BY <3>2 DEF ToSet
    <3>q. QED BY <3>3, <3>4, <3>5
  <2>q. QED BY <2>3, <2>4
<1>16. CASE line.body = "none" /\ (~g => line.toks = <<>>)
  <2>1. ~Begins(line) BY <1>16 DEF Begins
  <2>2. /\ blocks' = blocks /\ pending' = d /\ treeFns' = treeFns
        /\ treeCalls' = treeCalls \cup CallsOf(Around(line), line)
    BY <1>13, <1>16, <2>1 DEF Tree, CallsOf
  <2>3. treeCalls' = treeCalls BY <1>6, <2>2, NoCalls
  <2>4. fnCtx' = IF g THEN Outside ELSE Context(f)
    <3>1. b.delta = 0 BY <1>9, <1>16 DEF Net
    <3>2. ~g => ~HasBrace(line) BY <1>16 DEF HasBrace
    <3>3. ~g => AfterLine(Context(f), line, 0) = Context(f) BY <3>2, ContextAfter
    <3>q. QED BY <1>12, <3>1, <3>3
  <2>5. symbols' = OrdinaryNames(treeFns') \cup (IF pending' = Nobody \/ pending'.generic THEN {} ELSE {pending'.name})
    BY <1>3, <1>11, <1>14, <2>2
  <2>6. SameFacts' BY <1>7, <1>11, <2>2, <2>3, <2>5 DEF SameFacts
  <2>q. QED BY <1>3, <2>2, <2>4, <2>6 DEF ContextIsInnermost
<1>17. CASE line.body = "opens" /\ line.toks = <<"open">>
  <2>1. Begins(line) BY <1>3, <1>13, <1>17 DEF Begins
  <2>2. /\ blocks' = Append(blocks, d) /\ pending' = Nobody /\ treeFns' = treeFns \cup {d}
        /\ treeCalls' = treeCalls \cup CallsOf(Around(line), line)
    BY <1>13, <1>17, <2>1 DEF Tree, CallsOf
  <2>3. treeCalls' = treeCalls BY <1>6, <2>2, NoCalls
  <2>4. HasBrace(line)
    <3>1. 1 \in DOMAIN line.toks /\ line.toks[1] = "open" BY <1>17
    <3>q. QED BY <3>1 DEF HasBrace
  <2>5. b.delta = 1 BY <1>9, <1>17 DEF Net
  <2>6. PICK k : k = Len(blocks) + 1 OBVIOUS
  <2>7. k \in DOMAIN blocks' /\ OnlyFunction(blocks', k) BY <1>1, <1>3, <2>2, <2>6, Stacks DEF Decls
  <2>8. blocks'[k] = d /\ Len(blocks') - k + 1 = 1
    <3>1. d \in Decls BY DEF Decls
    <3>2. Len(Append(blocks, d)) = Len(blocks) + 1 /\ Append(blocks, d)[Len(blocks) + 1] = d BY <1>1, <3>1, Pushed
    <3>3. Len(blocks) \in Nat BY <1>1
    <3>q. QED BY <2>2, <2>6, <3>2, <3>3
  <2>9. fnCtx' = IF g THEN Outside ELSE [name |-> f, depth |-> 1, opened |-> TRUE]
    <3>1. AfterLine(Context(f), line, 1) = [name |-> f, depth |-> 1, opened |-> TRUE] BY <2>4, ContextAfter
    <3>q. QED BY <1>12, <2>5, <3>1
  <2>10. InBody(k)'
    <3>1. d \in treeFns' BY <2>2
    <3>2. fnCtx' = IF d.generic THEN Outside ELSE [name |-> d.name, depth |-> Len(blocks') - k + 1, opened |-> TRUE]
      BY <1>3, <2>8, <2>9
    <3>q. QED BY <2>7, <2>8, <3>1, <3>2 DEF InBody, OnlyFunction
  <2>11. symbols' = OrdinaryNames(treeFns') BY <1>3, <1>11, <1>14, <2>2, MoreNames
  <2>12. SameFacts' BY <1>7, <1>11, <2>2, <2>3, <2>11 DEF SameFacts
  <2>q. QED BY <2>2, <2>7, <2>10, <2>12 DEF ContextIsInnermost, InBody, OnlyFunction
<1>q. QED BY <1>15, <1>16, <1>17

(* In a body: the depth of the context is that of the blocks above it.     *)
LEMMA InBodyNext ==
    ASSUME FactsTyped, Aligned(lex, construct), SameFacts, pending = Nobody, NEW k \in DOMAIN blocks, InBody(k),
           NEW line \in Lines, Reads(line), PlainLine(line), Scan(line), Tree(line)
    PROVE  SameFacts' /\ ContextIsInnermost'
<1>1. blocks \in Seq(Decls) /\ treeFns \subseteq FnDecls BY DEF FactsTyped
<1>2. PICK n \in Nat : n = Len(blocks) /\ k \in 1..n BY <1>1
<1>3. PICK d \in FnDecls : d = blocks[k] /\ d \in treeFns BY <1>1 DEF InBody
<1>4. PICK f \in FnNames, g \in BOOLEAN : f = d.name /\ g = d.generic /\ f # No /\ d # Nobody BY FunctionsAre
<1>5. OnlyFunction(blocks, k) BY DEF InBody
<1>6. Innermost(blocks) = d BY <1>1, <1>3, <1>5, InnermostIs DEF OnlyFunction
<1>7. line.fn = No BY <1>4, <1>6 DEF PlainLine
<1>8. PICK h \in Int : h = n - k + 1 BY <1>2
<1>9. fnCtx = IF g THEN Outside ELSE [name |-> f, depth |-> h, opened |-> TRUE]
  BY <1>2, <1>3, <1>4, <1>8 DEF InBody
<1>10. fnCtx.name = SeenAt(d) /\ (~g => fnCtx # Outside) BY <1>4, <1>9 DEF Outside, Context, SeenAt
<1>11. macroSites' = SeenMacros(treeMacros') BY <1>6, <1>10, MacrosNext DEF SameFacts
<1>12. PICK b : b = BraceDelta(line.toks) OBVIOUS
<1>13. b.delta = Net(line.body) BY <1>12, AlignedNext
<1>14. pending' = Nobody /\ treeFns' = treeFns /\ treeCalls' = treeCalls \cup CallsOf(d, line)
  BY <1>6, <1>7, Quiet
<1>15. /\ symbols' = symbols
       /\ callGraph' = IF g THEN callGraph ELSE callGraph \cup Owed(f, line)
       /\ fnCtx' = IF g THEN Outside ELSE AfterLine(fnCtx, line, b.delta)
  <2>1. MatchedFn(line) = No BY <1>7 DEF MatchedFn
  <2>2. ~g => fnCtx.name = f BY <1>4, <1>10 DEF SeenAt
  <2>3. CASE g
    <3>1. fnCtx = Outside BY <1>9, <2>3
    <3>q. QED BY <2>1, <2>3, <3>1, ScanIs
  <2>4. CASE ~g
    <3>1. fnCtx # Outside /\ fnCtx.name = f BY <1>10, <2>2, <2>4
    <3>q. QED BY <1>12, <2>1, <2>4, <3>1, ScanIs
  <2>q. QED BY <2>3, <2>4
<1>16. SameFacts'
  <2>1. callGraph' = Charged(treeCalls')
    <3>1. callGraph = Charged(treeCalls) BY DEF SameFacts
    <3>3. /\ g => Charged(treeCalls \cup CallsOf(d, line)) = Charged(treeCalls)
          /\ ~g => Charged(treeCalls \cup CallsOf(d, line)) = Charged(treeCalls) \cup Owed(f, line)
      BY <1>4, MoreCharged
    <3>q. QED BY <1>4, <1>14, <1>15, <3>1, <3>3
  <2>2. \A c \in CallsOf(d, line) : c.caller = d BY DEF CallsOf
  <2>3. \A c \in treeCalls' : c.caller \in treeFns' BY <1>3, <1>14, <2>2 DEF SameFacts
  <2>q. QED BY <1>11, <1>14, <1>15, <2>1, <2>3 DEF SameFacts
<1>17. ASSUME NEW delta \in Int, ~g
       PROVE  AfterLine(fnCtx, line, delta) =
                  IF h + delta <= 0 THEN Outside ELSE [name |-> f, depth |-> h + delta, opened |-> TRUE]
  <2>1. fnCtx.name = f /\ fnCtx.depth = h /\ fnCtx.opened = TRUE BY <1>9, <1>17
  <2>2. (fnCtx.opened \/ HasBrace(line)) = TRUE BY <2>1
  <2>q. QED BY <2>1, <2>2, Zenon DEF AfterLine
<1>18. ASSUME k \in DOMAIN blocks', OnlyFunction(blocks', k), blocks'[k] = d,
              ~g => fnCtx' = [name |-> f, depth |-> Len(blocks') - k + 1, opened |-> TRUE]
       PROVE  ContextIsInnermost'
  <2>1. d \in treeFns' BY <1>3, <1>14
  <2>2. fnCtx' = IF d.generic THEN Outside ELSE [name |-> d.name, depth |-> Len(blocks') - k + 1, opened |-> TRUE]
    BY <1>4, <1>15, <1>18
  <2>3. InBody(k)' BY <1>18, <2>1, <2>2 DEF InBody, OnlyFunction
  <2>q. QED BY <1>14, <1>18, <2>3 DEF ContextIsInnermost, InBody, OnlyFunction
<1>19. CASE line.body \notin {"opens", "closes"}
  <2>1. b.delta = 0 /\ blocks' = blocks BY <1>7, <1>13, <1>19, Quiet DEF Net
  <2>2. ~(h + 0 <= 0) /\ h + 0 = h BY <1>2, <1>8
  <2>3. ~g => fnCtx' = [name |-> f, depth |-> h, opened |-> TRUE] BY <1>15, <1>17, <2>1, <2>2
  <2>q. QED BY <1>1, <1>2, <1>3, <1>5, <1>8, <1>16, <1>18, <2>1, <2>3
<1>20. CASE line.body = "opens"
  <2>1. b.delta = 1 /\ blocks' = Append(blocks, Nobody) BY <1>7, <1>13, <1>20, Quiet DEF Net
  <2>2. ~(h + 1 <= 0) BY <1>2, <1>8
  <2>3. ~g => fnCtx' = [name |-> f, depth |-> h + 1, opened |-> TRUE] BY <1>15, <1>17, <2>1, <2>2
  <2>4. k \in DOMAIN blocks' /\ OnlyFunction(blocks', k) /\ blocks'[k] = d
    BY <1>1, <1>3, <1>5, <2>1, Stacks
  <2>5. Len(blocks') - k + 1 = h + 1
    <3>1. Nobody \in Decls BY DEF Decls
    <3>2. Len(Append(blocks, Nobody)) = n + 1 BY <1>1, <1>2, <3>1, Pushed
    <3>q. QED BY <1>2, <1>8, <2>1, <3>2
  <2>q. QED BY <1>16, <1>18, <2>3, <2>4, <2>5
<1>21. CASE line.body = "closes"
  <2>1. b.delta = -1 /\ blocks' = WithoutLast(blocks) BY <1>7, <1>13, <1>21, Quiet DEF Net
  <2>2. CASE k = n
    <3>1. fnCtx' = Outside
      <4>1. h + (-1) <= 0 BY <1>2, <1>8, <2>2
      <4>q. QED BY <1>15, <1>17, <2>1, <4>1
    <3>2. NoFunction(blocks') BY <1>1, <1>2, <1>5, <2>1, <2>2, Stacks
    <3>q. QED BY <1>14, <1>16, <3>1, <3>2 DEF ContextIsInnermost
  <2>3. CASE k # n
    <3>1. ~g => fnCtx' = [name |-> f, depth |-> h + (-1), opened |-> TRUE]
      <4>1. ~(h + (-1) <= 0) BY <1>2, <1>8, <2>3
      <4>q. QED BY <1>15, <1>17, <2>1, <4>1
    <3>2. k \in DOMAIN blocks' /\ OnlyFunction(blocks', k) /\ blocks'[k] = d
      BY <1>1, <1>2, <1>3, <1>5, <2>1, <2>3, Stacks
    <3>3. Len(blocks') - k + 1 = h + (-1)
      <4>1. blocks # <<>> BY <1>1, <1>2
      <4>2. Len(WithoutLast(blocks)) = n - 1 BY <1>1, <1>2, <4>1, Popped DEF WithoutLast
      <4>q. QED BY <1>2, <1>8, <2>1, <4>2
    <3>q. QED BY <1>16, <1>18, <3>1, <3>2, <3>3
  <2>q. QED BY <2>2, <2>3
<1>q. QED BY <1>16, <1>19, <1>20, <1>21

LEMMA InitFactsInv ==
    ASSUME FactsInit
    PROVE  FactsInv
<1>1. Nobody \in Decls /\ "code" \in Modes /\ "code" \in Constructs /\ 0 \in Nat BY DEF Decls, Modes, Constructs
<1>2. lex = [mode |-> "code", depth |-> 0] /\ construct = "code" /\ blocks = <<>> /\ pending = Nobody /\ treeFns = {}
  BY DEF FactsInit
<1>3. FactsTyped BY <1>1, <1>2 DEF FactsTyped
<1>4. Aligned(lex, construct) BY <1>2 DEF Aligned
<1>5. OrdinaryNames({}) = {} /\ Charged({}) = {} /\ SeenMacros({}) = {} BY DEF OrdinaryNames, Charged, SeenMacros
<1>6. SameFacts BY <1>2, <1>5 DEF FactsInit, SameFacts
<1>7. ContextIsInnermost BY <1>2 DEF FactsInit, ContextIsInnermost, NoFunction
<1>q. QED BY <1>3, <1>4, <1>6, <1>7 DEF FactsInv

LEMMA StepFactsInv ==
    ASSUME FactsInv, [FactsNext]_factVars
    PROVE  FactsInv'
<1>1. CASE ReadLine
  <2>1. PICK line \in Lines : Reads(line) /\ Scan(line) /\ Tree(line) /\ plain' = (plain /\ PlainLine(line))
    BY <1>1 DEF ReadLine
  <2>2. FactsTyped' BY <2>1, TypedNext DEF FactsInv
  <2>3. ASSUME plain' PROVE Aligned(lex', construct') /\ SameFacts' /\ ContextIsInnermost'
    <3>1. plain /\ PlainLine(line) BY <2>1, <2>3
    <3>2. FactsTyped /\ Aligned(lex, construct) /\ SameFacts /\ ContextIsInnermost BY <3>1 DEF FactsInv
    <3>3. Aligned(lex', construct') BY <2>1, <3>1, <3>2, AlignedNext
    <3>4. CASE pending = Nobody /\ NoFunction(blocks) /\ fnCtx = Outside
      <4>1. CASE line.fn = No BY <2>1, <3>1, <3>2, <3>3, <3>4, <4>1, OutsideStays
      <4>2. CASE line.fn # No BY <2>1, <3>1, <3>2, <3>3, <3>4, <4>2, OutsideDeclares
      <4>q. QED BY <4>1, <4>2
    <3>5. CASE /\ pending # Nobody /\ NoFunction(blocks)
               /\ fnCtx = IF pending.generic THEN Outside ELSE Context(pending.name)
      BY <2>1, <3>1, <3>2, <3>3, <3>5, WaitingNext
    <3>6. CASE pending = Nobody /\ \E k \in DOMAIN blocks : InBody(k)
      BY <2>1, <3>1, <3>2, <3>3, <3>6, InBodyNext
    <3>q. QED BY <3>2, <3>4, <3>5, <3>6 DEF ContextIsInnermost
  <2>q. QED BY <2>2, <2>3 DEF FactsInv
<1>2. CASE UNCHANGED <<lex, fnCtx, callGraph, symbols, macroSites, construct, blocks, pending,
                       treeCalls, treeFns, treeMacros, plain>>
  BY <1>2 DEF FactsInv, FactsTyped, SameFacts, ContextIsInnermost, InBody, NoFunction, OnlyFunction, Aligned
<1>3. CASE Build BY <1>2, <1>3 DEF Build
<1>4. CASE UNCHANGED factVars BY <1>2, <1>4 DEF factVars
<1>q. QED BY <1>1, <1>3, <1>4 DEF FactsNext

(* On plain files the line scanner of the crypto engine and the syntax     *)
(* tree of project-ir find the same functions, calls and macros but for    *)
(* generic functions, generic calls and lookalikes, however long the file  *)
(* and deep its blocks.                                                    *)
THEOREM ScannersAlwaysAgree == FactsSpec => []ScannersAgree
<1>1. FactsInit => FactsInv BY InitFactsInv
<1>2. FactsInv /\ [FactsNext]_factVars => FactsInv' BY StepFactsInv
<1>3. FactsInv => ScannersAgree
  <2> SUFFICES ASSUME FactsInv, plain, pending = Nobody
               PROVE  /\ symbols = {d.name : d \in Ordinary}
                      /\ callGraph = {<<c.caller.name, c.callee>> :
                                         c \in {c \in treeCalls : c.caller \in Ordinary /\ c.as # "turbofish"}}
                      /\ macroSites = {[line |-> m.line, caller |-> IF m.caller.generic THEN No ELSE m.caller.name] :
                                          m \in treeMacros}
    BY DEF ScannersAgree
  <2>1. SameFacts BY DEF FactsInv
  <2>2. symbols = {d.name : d \in Ordinary} BY <2>1 DEF SameFacts, OrdinaryNames, Ordinary
  <2>3. macroSites = {[line |-> m.line, caller |-> IF m.caller.generic THEN No ELSE m.caller.name] : m \in treeMacros}
    BY <2>1 DEF SameFacts, SeenMacros, SeenAt
  <2>4. \A c \in treeCalls : ~c.caller.generic <=> c.caller \in Ordinary BY <2>1 DEF SameFacts, Ordinary
  <2>5. callGraph = Charged(treeCalls) BY <2>1 DEF SameFacts
  <2>6. {c \in treeCalls : ~c.caller.generic /\ c.as # "turbofish"} =
        {c \in treeCalls : c.caller \in Ordinary /\ c.as # "turbofish"}
    BY <2>4
  <2>q. QED BY <2>2, <2>3, <2>5, <2>6 DEF Charged
<1>q. QED BY <1>1, <1>2, <1>3, PTL DEF FactsSpec
-----------------------------------------------------------------------------
(* Misuse rules.                                                           *)
LEMMA Deduped ==
    ASSUME NEW M, NEW s \in Seq(M)
    PROVE  /\ Dedup(s) \in Seq(M)
           /\ \A i, j \in DOMAIN Dedup(s) : Key(Dedup(s)[i]) = Key(Dedup(s)[j]) => i = j
           /\ \A i \in DOMAIN Dedup(s) : \E j \in DOMAIN s : Dedup(s)[i] = s[j]
           /\ \A j \in DOMAIN s : \E i \in DOMAIN Dedup(s) : Key(Dedup(s)[i]) = Key(s[j])
<1>1. PICK n \in Nat : n = Len(s) /\ DOMAIN s = 1..n OBVIOUS
<1> DEFINE First(i) == \A j \in 1..(i - 1) : Key(s[j]) # Key(s[i])
           Kept(g) == [i \in 0..n |-> IF i = 0 THEN <<>>
                                      ELSE IF First(i) THEN Append(g[i - 1], s[i]) ELSE g[i - 1]]
           chosen == CHOOSE g : g = Kept(g)
<1>2. Dedup(s) = chosen[n] BY <1>1 DEF Dedup
<1>3. \E g : g = Kept(g)
  <2>1. PICK V : V = Seq(M) OBVIOUS
  <2>2. PICK e \in V : e = <<>>
    <3>1. <<>> \in Seq(M) OBVIOUS
    <3>q. QED BY <2>1, <3>1
  <2>3. PICK f : f = [p \in V \X (1..n) |-> IF First(p[2]) THEN Append(p[1], s[p[2]]) ELSE p[1]] OBVIOUS
  <2>4. \A i \in 1..n : s[i] \in M BY <1>1
  <2>5. \A t \in V, i \in 1..n : Append(t, s[i]) \in V BY <2>1, <2>4
  <2>6. f \in [V \X (1..n) -> V] BY <2>3, <2>5
  <2>7. PICK w : Repetition(w, V, e, n, f) BY <2>6, Repeated
  <2>8. w \in [0..n -> V] /\ w[0] = <<>> /\ \A i \in 1..n : w[i] = f[<<w[i - 1], i>>]
    BY <2>2, <2>7 DEF Repetition
  <2>9. \A i \in 1..n : w[i] = IF First(i) THEN Append(w[i - 1], s[i]) ELSE w[i - 1]
    <3> SUFFICES ASSUME NEW i \in 1..n PROVE w[i] = IF First(i) THEN Append(w[i - 1], s[i]) ELSE w[i - 1]
      OBVIOUS
    <3>1. w[i - 1] \in V BY <2>8
    <3>2. <<w[i - 1], i>> \in V \X (1..n) BY <3>1
    <3> HIDE DEF First
    <3>q. QED BY <2>3, <2>8, <3>2
  <2> HIDE DEF First
  <2>10. \A i \in 0..n : i # 0 => i \in 1..n OBVIOUS
  <2>11. w = Kept(w) BY <2>8, <2>9, <2>10
  <2>q. QED BY <2>11
<1> HIDE DEF Kept
<1>4. PICK g : g = chosen /\ g = Kept(g) BY <1>3
<1> HIDE DEF chosen
<1> USE DEF Kept
<1>5. g[0] = <<>> /\ \A i \in 1..n : g[i] = IF First(i) THEN Append(g[i - 1], s[i]) ELSE g[i - 1]
  <2> HIDE DEF First
  <2>1. 0 \in 0..n /\ \A i \in 1..n : i \in 0..n /\ i # 0 OBVIOUS
  <2>q. QED BY <1>4, <2>1
<1> HIDE DEF Kept
<1> DEFINE Right(i) ==
              /\ g[i] \in Seq(M)
              /\ \A k, l \in DOMAIN g[i] : Key(g[i][k]) = Key(g[i][l]) => k = l
              /\ \A k \in DOMAIN g[i] : \E j \in 1..i : g[i][k] = s[j]
              /\ \A j \in 1..i : \E k \in DOMAIN g[i] : Key(g[i][k]) = Key(s[j])
<1>6. Right(0) BY <1>5
<1>7. ASSUME NEW i \in 1..n, Right(i - 1) PROVE Right(i)
  <2>1. PICK t \in Seq(M) : t = g[i - 1] BY <1>7
  <2>2. PICK m \in Nat : m = Len(t) /\ DOMAIN t = 1..m BY <2>1
  <2>3. /\ \A k, l \in 1..m : Key(t[k]) = Key(t[l]) => k = l
        /\ \A k \in 1..m : \E j \in 1..(i - 1) : t[k] = s[j]
        /\ \A j \in 1..(i - 1) : \E k \in 1..m : Key(t[k]) = Key(s[j])
    BY <1>7, <2>1, <2>2
  <2>4. CASE First(i)
    <3>1. s[i] \in M BY <1>1
    <3>2. PICK u : u = Append(t, s[i]) OBVIOUS
    <3>3. /\ u \in Seq(M) /\ DOMAIN u = 1..(m + 1) /\ u[m + 1] = s[i]
          /\ \A k \in 1..m : u[k] = t[k]
      BY <2>1, <2>2, <3>1, <3>2
    <3>4. g[i] = u BY <1>5, <2>1, <2>4, <3>2
    <3>5. \A k \in 1..m : Key(u[k]) # Key(s[i]) BY <2>3, <2>4, <3>3
    <3> HIDE DEF First
    <3>6. \A k \in 1..(m + 1) : k \in 1..m \/ k = m + 1 BY <2>2
    <3>7. \A k, l \in 1..(m + 1) : Key(u[k]) = Key(u[l]) => k = l BY <2>3, <3>3, <3>5, <3>6
    <3>8. \A k \in 1..(m + 1) : \E j \in 1..i : u[k] = s[j]
      <4> SUFFICES ASSUME NEW k \in 1..(m + 1) PROVE \E j \in 1..i : u[k] = s[j] OBVIOUS
      <4>1. \A j \in 1..(i - 1) : j \in 1..i OBVIOUS
      <4>2. i \in 1..i OBVIOUS
      <4>3. CASE k = m + 1 BY <3>3, <4>2, <4>3
      <4>4. CASE k \in 1..m
        <5>1. PICK j \in 1..(i - 1) : t[k] = s[j] BY <2>3, <4>4
        <5>q. QED BY <3>3, <4>1, <4>4, <5>1
      <4>q. QED BY <3>6, <4>3, <4>4
    <3>9. \A j \in 1..i : \E k \in 1..(m + 1) : Key(u[k]) = Key(s[j])
      <4>1. \A j \in 1..i : j = i \/ j \in 1..(i - 1) OBVIOUS
      <4>2. \A k \in 1..m : k \in 1..(m + 1) BY <2>2
      <4>3. m + 1 \in 1..(m + 1) BY <2>2
      <4>q. QED BY <2>3, <3>3, <4>1, <4>2, <4>3
    <3>q. QED BY <3>3, <3>4, <3>7, <3>8, <3>9
  <2>5. CASE ~First(i)
    <3>1. g[i] = t BY <1>5, <2>1, <2>5
    <3>2. PICK j \in 1..(i - 1) : Key(s[j]) = Key(s[i]) BY <2>5
    <3>3. PICK e \in 1..m : Key(t[e]) = Key(s[i]) BY <2>3, <3>2
    <3> HIDE DEF First
    <3>4. \A l \in 1..i : l = i \/ l \in 1..(i - 1) OBVIOUS
    <3>5. \A l \in 1..i : \E b \in 1..m : Key(t[b]) = Key(s[l]) BY <2>3, <3>3, <3>4
    <3>6. \A b \in 1..m : \E l \in 1..i : t[b] = s[l]
      <4>1. \A l \in 1..(i - 1) : l \in 1..i OBVIOUS
      <4>q. QED BY <2>3, <4>1
    <3>7. g[i] \in Seq(M) /\ DOMAIN g[i] = 1..m BY <2>1, <2>2, <3>1
    <3>8. \A k, l \in DOMAIN g[i] : Key(g[i][k]) = Key(g[i][l]) => k = l BY <2>3, <3>1, <3>7
    <3>9. \A k \in DOMAIN g[i] : \E l \in 1..i : g[i][k] = s[l] BY <3>1, <3>6, <3>7
    <3>10. \A l \in 1..i : \E k \in DOMAIN g[i] : Key(g[i][k]) = Key(s[l]) BY <3>1, <3>5, <3>7
    <3>q. QED BY <3>7, <3>8, <3>9, <3>10
  <2>q. QED BY <2>4, <2>5
<1> HIDE DEF Right
<1>8. Right(n)
  <2>1. SUFFICES ASSUME ~Right(n) PROVE FALSE OBVIOUS
  <2>2. PICK B : B = {i \in 0..n : ~Right(i)} OBVIOUS
  <2>3. B \in SUBSET Nat /\ n \in B BY <2>1, <2>2
  <2>4. PICK i \in B : \A k \in B : i <= k BY <2>3, LeastNat
  <2>5. i # 0 /\ i \in 1..n /\ i - 1 \in 0..n BY <1>6, <2>2, <2>4
  <2>6. i - 1 \notin B BY <2>4, <2>5
  <2>7. Right(i - 1) BY <2>2, <2>5, <2>6
  <2>q. QED BY <1>7, <2>2, <2>4, <2>5, <2>7
<1>9. PICK d : d = g[n] OBVIOUS
<1>10. /\ d \in Seq(M)
       /\ \A k, l \in DOMAIN d : Key(d[k]) = Key(d[l]) => k = l
       /\ \A k \in DOMAIN d : \E j \in 1..n : d[k] = s[j]
       /\ \A j \in 1..n : \E k \in DOMAIN d : Key(d[k]) = Key(s[j])
  BY <1>8, <1>9 DEF Right
<1>11. Dedup(s) = d BY <1>2, <1>4, <1>9
<1>q. QED BY <1>1, <1>10, <1>11

LEMMA Flattened ==
    ASSUME NEW M, NEW seqs \in Seq(Seq(M))
    PROVE  /\ FlattenSeq(seqs) \in Seq(M)
           /\ \A k \in DOMAIN FlattenSeq(seqs) : \E a \in DOMAIN seqs : \E b \in DOMAIN seqs[a] :
                  FlattenSeq(seqs)[k] = seqs[a][b]
           /\ \A a \in DOMAIN seqs : \A b \in DOMAIN seqs[a] : \E k \in DOMAIN FlattenSeq(seqs) :
                  FlattenSeq(seqs)[k] = seqs[a][b]
<1>1. PICK n \in Nat : n = Len(seqs) /\ DOMAIN seqs = 1..n OBVIOUS
<1>0. \A i \in 1..n : seqs[i] \in Seq(M) BY <1>1
<1>Z. CASE n = 0
  <2>1. FlattenSeq(seqs) = seqs /\ seqs = <<>> BY <1>1, <1>Z DEF FlattenSeq
  <2>q. QED BY <2>1
<1>P. CASE n # 0
  <2> DEFINE Joined(g) == [i \in 1..n |-> IF i = 1 THEN seqs[i] ELSE g[i - 1] \o seqs[i]]
             chosen == CHOOSE g : g = Joined(g)
  <2>2. FlattenSeq(seqs) = chosen[n] BY <1>1, <1>P DEF FlattenSeq
  <2>3. \E g : g = Joined(g)
    <3>1. PICK V : V = Seq(M) OBVIOUS
    <3>2. PICK e \in V : e = <<>>
      <4>1. <<>> \in Seq(M) OBVIOUS
      <4>q. QED BY <3>1, <4>1
    <3>3. PICK f : f = [p \in V \X (1..n) |-> p[1] \o seqs[p[2]]] OBVIOUS
    <3>5. \A t \in V, i \in 1..n : t \o seqs[i] \in V BY <3>1, <1>0
    <3>6. f \in [V \X (1..n) -> V] BY <3>3, <3>5
    <3>7. PICK w : Repetition(w, V, e, n, f) BY <3>6, Repeated
    <3>8. w \in [0..n -> V] /\ w[0] = <<>> /\ \A i \in 1..n : w[i] = f[<<w[i - 1], i>>]
      BY <3>2, <3>7 DEF Repetition
    <3>9. \A i \in 1..n : w[i] = w[i - 1] \o seqs[i]
      <4> SUFFICES ASSUME NEW i \in 1..n PROVE w[i] = w[i - 1] \o seqs[i] OBVIOUS
      <4>1. w[i - 1] \in V BY <3>8
      <4>2. <<w[i - 1], i>> \in V \X (1..n) BY <4>1
      <4>q. QED BY <3>3, <3>8, <4>2
    <3>10. PICK h : h = [i \in 1..n |-> w[i]] OBVIOUS
    <3>11. 1 \in 1..n /\ w[1] = <<>> \o seqs[1] /\ seqs[1] \in Seq(M)
      <4>1. 1 \in 1..n BY <1>P
      <4>2. w[1] = w[1 - 1] \o seqs[1] BY <3>9, <4>1
      <4>3. 1 - 1 = 0 OBVIOUS
      <4>4. w[1] = <<>> \o seqs[1] BY <3>8, <4>2, <4>3
      <4>q. QED BY <1>0, <4>1, <4>4
    <3>12. w[1] = seqs[1] BY <3>11
    <3>13. \A i \in 1..n : i # 1 => i - 1 \in 1..n OBVIOUS
    <3>14. \A i \in 1..n : h[i] = IF i = 1 THEN seqs[i] ELSE h[i - 1] \o seqs[i]
      BY <3>9, <3>10, <3>12, <3>13
    <3>15. h = Joined(h) BY <3>10, <3>14
    <3>q. QED BY <3>15
  <2> HIDE DEF Joined
  <2>4. PICK g : g = chosen /\ g = Joined(g) BY <2>3
  <2> HIDE DEF chosen
  <2>5. \A i \in 1..n : g[i] = IF i = 1 THEN seqs[i] ELSE g[i - 1] \o seqs[i] BY <2>4 DEF Joined
  <2> DEFINE Right(i) ==
              /\ g[i] \in Seq(M)
              /\ \A k \in DOMAIN g[i] : \E a \in 1..i : \E b \in DOMAIN seqs[a] : g[i][k] = seqs[a][b]
              /\ \A a \in 1..i : \A b \in DOMAIN seqs[a] : \E k \in DOMAIN g[i] : g[i][k] = seqs[a][b]
  <2>6. Right(1)
    <3>1. 1 \in 1..n /\ g[1] = seqs[1] BY <1>P, <2>5
    <3>2. \A a \in 1..1 : a = 1 OBVIOUS
    <3>3. 1 \in 1..1 OBVIOUS
    <3>q. QED BY <1>0, <3>1, <3>2, <3>3
  <2>7. ASSUME NEW i \in 2..n, Right(i - 1) PROVE Right(i)
    <3>1. PICK t \in Seq(M) : t = g[i - 1] BY <2>7
    <3>2. PICK m \in Nat : m = Len(t) /\ DOMAIN t = 1..m BY <3>1
    <3>0. i \in 1..n /\ i # 1 OBVIOUS
    <3>3. i \in 1..n /\ i # 1 /\ g[i] = t \o seqs[i]
      <4>1. g[i] = g[i - 1] \o seqs[i] BY <2>5, <3>0
      <4>q. QED BY <3>0, <3>1, <4>1
    <3>4. PICK r \in Seq(M) : r = seqs[i] BY <1>0, <3>3
    <3>5. PICK l \in Nat : l = Len(r) /\ DOMAIN r = 1..l BY <3>4
    <3>6. PICK u : u = t \o r OBVIOUS
    <3>7. /\ u \in Seq(M) /\ DOMAIN u = 1..(m + l)
          /\ \A k \in 1..m : u[k] = t[k]
          /\ \A k \in (m + 1)..(m + l) : u[k] = r[k - m]
      <4>1. u \in Seq(M) /\ Len(u) = m + l BY <3>1, <3>2, <3>4, <3>5, <3>6
      <4>2. DOMAIN u = 1..(m + l) BY <4>1
      <4>3. \A k \in 1..(m + l) : u[k] = IF k <= m THEN t[k] ELSE r[k - m]
        BY <3>1, <3>2, <3>4, <3>5, <3>6
      <4>4. \A k \in 1..m : k \in 1..(m + l) /\ k <= m BY <3>2, <3>5
      <4>5. \A k \in (m + 1)..(m + l) : k \in 1..(m + l) /\ ~(k <= m) BY <3>2, <3>5
      <4>q. QED BY <4>1, <4>2, <4>3, <4>4, <4>5
    <3>8. g[i] = u BY <3>3, <3>4, <3>6
    <3>9. \A k \in 1..(m + l) : k \in 1..m \/ (k \in (m + 1)..(m + l) /\ k - m \in 1..l) BY <3>2, <3>5
    <3>10. \A a \in 1..(i - 1) : a \in 1..i OBVIOUS
    <3>11. i \in 1..i OBVIOUS
    <3>12. \A k \in 1..m : \E a \in 1..(i - 1) : \E b \in DOMAIN seqs[a] : t[k] = seqs[a][b]
      <4>1. \A k \in DOMAIN g[i - 1] : \E a \in 1..(i - 1) : \E b \in DOMAIN seqs[a] : g[i - 1][k] = seqs[a][b]
        BY <2>7
      <4>q. QED BY <3>1, <3>2, <4>1
    <3>13. \A a \in 1..(i - 1) : \A b \in DOMAIN seqs[a] : \E k \in 1..m : t[k] = seqs[a][b]
      <4>1. \A a \in 1..(i - 1) : \A b \in DOMAIN seqs[a] : \E k \in DOMAIN g[i - 1] : g[i - 1][k] = seqs[a][b]
        BY <2>7
      <4> SUFFICES ASSUME NEW a \in 1..(i - 1), NEW b \in DOMAIN seqs[a] PROVE \E k \in 1..m : t[k] = seqs[a][b]
        OBVIOUS
      <4>2. PICK k \in DOMAIN g[i - 1] : g[i - 1][k] = seqs[a][b] BY <4>1
      <4>q. QED BY <3>1, <3>2, <4>2
    <3>14. \A k \in 1..(m + l) : \E a \in 1..i : \E b \in DOMAIN seqs[a] : u[k] = seqs[a][b]
      <4> SUFFICES ASSUME NEW k \in 1..(m + l)
                   PROVE  \E a \in 1..i : \E b \in DOMAIN seqs[a] : u[k] = seqs[a][b]
        OBVIOUS
      <4>1. CASE k \in 1..m
        <5>1. PICK a \in 1..(i - 1) : \E b \in DOMAIN seqs[a] : t[k] = seqs[a][b] BY <3>12, <4>1
        <5>2. a \in 1..i /\ u[k] = t[k] BY <3>7, <3>10, <4>1
        <5>q. QED BY <5>1, <5>2
      <4>2. CASE k \in (m + 1)..(m + l) /\ k - m \in 1..l
        <5>1. u[k] = seqs[i][k - m] /\ k - m \in DOMAIN seqs[i] BY <3>4, <3>5, <3>7, <4>2
        <5>q. QED BY <3>11, <5>1
      <4>q. QED BY <3>9, <4>1, <4>2
    <3>15. \A a \in 1..i : \A b \in DOMAIN seqs[a] : \E k \in 1..(m + l) : u[k] = seqs[a][b]
      <4> SUFFICES ASSUME NEW a \in 1..i, NEW b \in DOMAIN seqs[a]
                   PROVE  \E k \in 1..(m + l) : u[k] = seqs[a][b]
        OBVIOUS
      <4>1. CASE a = i
        <5>1. b \in 1..l BY <3>4, <3>5, <4>1
        <5>2. m + b \in (m + 1)..(m + l) /\ m + b \in 1..(m + l) /\ (m + b) - m = b BY <3>2, <3>5, <5>1
        <5>3. u[m + b] = r[b] BY <3>7, <5>2
        <5>q. QED BY <3>4, <4>1, <5>2, <5>3
      <4>2. CASE a # i
        <5>1. a \in 1..(i - 1) BY <4>2
        <5>2. PICK k \in 1..m : t[k] = seqs[a][b] BY <3>13, <5>1
        <5>3. k \in 1..(m + l) BY <3>2, <3>5
        <5>q. QED BY <3>7, <5>2, <5>3
      <4>q. QED BY <4>1, <4>2
    <3>16. g[i] \in Seq(M) /\ DOMAIN g[i] = 1..(m + l) BY <3>7, <3>8
    <3>17. \A k \in DOMAIN g[i] : \E a \in 1..i : \E b \in DOMAIN seqs[a] : g[i][k] = seqs[a][b]
      BY <3>8, <3>14, <3>16
    <3>18. \A a \in 1..i : \A b \in DOMAIN seqs[a] : \E k \in DOMAIN g[i] : g[i][k] = seqs[a][b]
      BY <3>8, <3>15, <3>16
    <3>q. QED BY <3>16, <3>17, <3>18
  <2> HIDE DEF Right
  <2>8. Right(n)
    <3>1. SUFFICES ASSUME ~Right(n) PROVE FALSE OBVIOUS
    <3>2. PICK B : B = {i \in 1..n : ~Right(i)} OBVIOUS
    <3>3. B \in SUBSET Nat /\ n \in B BY <1>P, <3>1, <3>2
    <3>4. PICK i \in B : \A k \in B : i <= k BY <3>3, LeastNat
    <3>5. i # 1 /\ i \in 2..n /\ i - 1 \in 1..n BY <2>6, <3>2, <3>4
    <3>6. i - 1 \notin B BY <3>4, <3>5
    <3>7. Right(i - 1) BY <3>2, <3>5, <3>6
    <3>q. QED BY <2>7, <3>2, <3>4, <3>5, <3>7
  <2>9. FlattenSeq(seqs) = g[n] BY <2>2, <2>4
  <2>10. PICK z : z = g[n] OBVIOUS
  <2>11. /\ z \in Seq(M)
         /\ \A k \in DOMAIN z : \E a \in 1..n : \E b \in DOMAIN seqs[a] : z[k] = seqs[a][b]
         /\ \A a \in 1..n : \A b \in DOMAIN seqs[a] : \E k \in DOMAIN z : z[k] = seqs[a][b]
    BY <2>8, <2>10 DEF Right
  <2>12. FlattenSeq(seqs) = z BY <2>9, <2>10
  <2>13. \A k \in DOMAIN z : \E a \in DOMAIN seqs : \E b \in DOMAIN seqs[a] : z[k] = seqs[a][b]
    <3> SUFFICES ASSUME NEW k \in DOMAIN z PROVE \E a \in DOMAIN seqs : \E b \in DOMAIN seqs[a] : z[k] = seqs[a][b]
      OBVIOUS
    <3>1. PICK a \in 1..n : \E b \in DOMAIN seqs[a] : z[k] = seqs[a][b] BY <2>11
    <3>2. a \in DOMAIN seqs BY <1>1
    <3>q. QED BY <3>1, <3>2
  <2>14. \A a \in DOMAIN seqs : \A b \in DOMAIN seqs[a] : \E k \in DOMAIN z : z[k] = seqs[a][b] BY <1>1, <2>11
  <2>q. QED BY <2>11, <2>12, <2>13, <2>14
<1>q. QED BY <1>Z, <1>P

LEMMA SeqOfSet ==
    ASSUME NEW S, IsFiniteSet(S)
    PROVE  DOMAIN SetToSeq(S) = 1..Cardinality(S)
<1>1. PICK l \in Nat : l = Cardinality(S) /\ ExistsBijection(1..l, S) BY FS_CardinalityType
<1>2. \E f \in [1..l -> S] : IsInjective(f)
  BY <1>1 DEF ExistsBijection, Bijection, Injection, IsInjective
<1>3. SetToSeq(S) \in [1..l -> S] BY <1>1, <1>2 DEF SetToSeq
<1>q. QED BY <1>1, <1>3

MatchType == [rule : RuleIds, crate : {"outer", "inner"}, path : RustPaths,
              start : 1..FileLines, end : 1..FileLines, nodes : SUBSET Names]
VisitType == [crate : {"outer", "inner"}, path : RustPaths, readable : BOOLEAN]
TextOf(visit) == contents[visit.path].lines
Covers(m, rule, visit, line) == m.rule = rule.id /\ m.path = visit.path /\ line \in m.start..m.end
AllHit(rule, visit) == \A c \in rule.checks : TextOf(visit)[c] # {}

LEMMA Windowed ==
    ASSUME RulesAssumption, NEW line \in 1..FileLines
    PROVE  /\ Window(line).start \in 1..FileLines /\ Window(line).end \in 1..FileLines
           /\ line \in Window(line).start..Window(line).end
<1>1. FileLines \in Nat \ {0} /\ SnippetLines \in Nat \ {0} BY DEF RulesAssumption
<1>2. PICK half \in Nat : half = SnippetLines \div 2 /\ half <= SnippetLines - 1 BY <1>1
<1>3. PICK start \in 1..FileLines : start = AtLeastOne(line - half) /\ start <= line /\ line - half <= start
  BY <1>1, <1>2 DEF AtLeastOne
<1>4. PICK end \in Nat : end = start + SnippetLines - 1 /\ line <= end BY <1>1, <1>2, <1>3
<1>5. PICK back \in 1..FileLines : back = AtLeastOne(FileLines - (SnippetLines - 1)) /\ (end > FileLines => back <= start)
  <2>1. PICK from \in Int : from = FileLines - (SnippetLines - 1) BY <1>1
  <2>2. AtLeastOne(from) \in 1..FileLines BY <1>1, <2>1 DEF AtLeastOne
  <2>3. end > FileLines => from <= start BY <1>1, <1>3, <1>4, <2>1
  <2>4. end > FileLines => AtLeastOne(from) <= start BY <1>1, <1>3, <2>1, <2>3 DEF AtLeastOne
  <2>q. QED BY <2>1, <2>2, <2>4
<1>6. CASE end > FileLines
  <2>1. line \in back..FileLines /\ back \in 1..FileLines /\ FileLines \in 1..FileLines BY <1>1, <1>3, <1>5, <1>6
  <2>2. Window(line) = [start |-> back, end |-> FileLines] BY <1>2, <1>3, <1>4, <1>5, <1>6, <2>1 DEF Window
  <2>q. QED BY <2>1, <2>2
<1>7. CASE ~(end > FileLines)
  <2>1. line \in start..end /\ end \in 1..FileLines BY <1>1, <1>3, <1>4, <1>7
  <2>2. Window(line) = [start |-> start, end |-> end] BY <1>2, <1>3, <1>4, <1>7, <2>1 DEF Window
  <2>q. QED BY <2>1, <2>2, <1>3
<1>q. QED BY <1>6, <1>7

LEMMA Matched ==
    ASSUME RulesAssumption, NEW rule \in Rules, NEW visit \in VisitType,
           NEW line \in 1..FileLines, NEW nodes \in SUBSET Names
    PROVE  Match(rule, visit, line, nodes) \in MatchType /\ Covers(Match(rule, visit, line, nodes), rule, visit, line)
<1>1. PICK w : w = Window(line) OBVIOUS
<1>2. w.start \in 1..FileLines /\ w.end \in 1..FileLines /\ line \in w.start..w.end BY <1>1, Windowed
<1>3. rule.id \in RuleIds BY DEF Rules
<1>4. visit.crate \in {"outer", "inner"} /\ visit.path \in RustPaths BY DEF VisitType
<1>5. Match(rule, visit, line, nodes) = [rule |-> rule.id, crate |-> visit.crate, path |-> visit.path,
                                          start |-> w.start, end |-> w.end, nodes |-> nodes]
  BY <1>1 DEF Match
<1>q. QED BY <1>2, <1>3, <1>4, <1>5 DEF MatchType, Covers

(* The matches of patterns and those of checks.                            *)
LEMMA PatternsMatched ==
    ASSUME RulesAssumption, contents \in [RustPaths -> Contents], NEW rule \in Rules, NEW visit \in VisitType
    PROVE  /\ PatternMatches(rule, visit) \in Seq(MatchType)
           /\ \A k \in DOMAIN PatternMatches(rule, visit) :
                  /\ PatternMatches(rule, visit)[k].rule = rule.id
                  /\ PatternMatches(rule, visit)[k].path = visit.path
           /\ rule.patterns = {} => PatternMatches(rule, visit) = <<>>
<1>1. PICK nodes : nodes = {n \in contents[visit.path].nodes : n.name \in rule.patterns} OBVIOUS
<1>2. contents[visit.path] \in Contents BY DEF VisitType
<1>3. contents[visit.path].nodes \in {{}} \cup {{x} : x \in [name : Names, line : {1}, test : BOOLEAN]}
  BY <1>2 DEF Contents
<1>4. IsFiniteSet(contents[visit.path].nodes)
  <2>1. PICK N : N = contents[visit.path].nodes OBVIOUS
  <2>2. N = {} \/ \E x : N = {x} BY <1>3, <2>1
  <2>3. CASE N = {} BY <2>1, <2>3, FS_EmptySet
  <2>4. CASE \E x : N = {x} BY <2>1, <2>4, FS_Singleton
  <2>q. QED BY <2>1, <2>2, <2>3, <2>4
<1>5. IsFiniteSet(nodes) BY <1>1, <1>4, FS_Subset
<1>6. \A n \in nodes : n.line = 1 /\ n.name \in Names BY <1>1, <1>3
<1>7. PICK s \in Seq(nodes) : s = SetToSeq(nodes) /\ DOMAIN s = 1..Cardinality(nodes)
  <2>1. Cardinality(nodes) \in Nat BY <1>5, FS_CardinalityType
  <2>2. SetToSeq(nodes) \in Seq(nodes) BY <1>5, EachInSeq
  <2>3. DOMAIN SetToSeq(nodes) = 1..Cardinality(nodes) BY <1>5, SeqOfSet
  <2>q. QED BY <2>2, <2>3
<1>8. PICK l \in Nat : l = Len(s) /\ DOMAIN s = 1..l BY <1>7
<1>9. 1 \in 1..FileLines BY DEF RulesAssumption
<1>10. PICK p : p = [i \in 1..l |-> Match(rule, visit, s[i].line, {s[i].name})] OBVIOUS
<1>11. PatternMatches(rule, visit) = p BY <1>1, <1>7, <1>8, <1>10 DEF PatternMatches
<1>12. \A i \in 1..l : s[i] \in nodes
  <2>1. \A i \in 1..Len(s) : s[i] \in nodes OBVIOUS
  <2>q. QED BY <1>8, <2>1
<1>13. \A i \in 1..l : p[i] \in MatchType /\ p[i].rule = rule.id /\ p[i].path = visit.path
  <2> SUFFICES ASSUME NEW i \in 1..l PROVE p[i] \in MatchType /\ p[i].rule = rule.id /\ p[i].path = visit.path
    OBVIOUS
  <2>1. s[i].line \in 1..FileLines /\ {s[i].name} \in SUBSET Names BY <1>6, <1>9, <1>12
  <2>2. p[i] = Match(rule, visit, s[i].line, {s[i].name}) BY <1>10
  <2>q. QED BY <2>1, <2>2, Matched DEF Covers
<1>14. p \in [1..l -> MatchType] BY <1>10, <1>13
<1>15. \A n \in Nat : \A u : u \in [1..n -> MatchType] => u \in Seq(MatchType) OBVIOUS
<1>16. p \in Seq(MatchType) /\ DOMAIN p = 1..l BY <1>8, <1>14, <1>15
<1>17. rule.patterns = {} => p = <<>>
  <2> SUFFICES ASSUME rule.patterns = {} PROVE p = <<>> OBVIOUS
  <2>1. nodes = {} BY <1>1
  <2>2. Cardinality(nodes) = 0 BY <2>1, FS_EmptySet
  <2>3. 1..l = 1..0 BY <1>7, <1>8, <2>2
  <2>4. Len(p) = 0 BY <1>8, <1>16, <2>3
  <2>q. QED BY <1>16, <2>4
<1>q. QED BY <1>11, <1>13, <1>16, <1>17

LEMMA ChecksMatched ==
    ASSUME RulesAssumption, contents \in [RustPaths -> Contents], NEW rule \in Rules, NEW visit \in VisitType
    PROVE  /\ CheckMatches(rule, visit) \in Seq(MatchType)
           /\ \A k \in DOMAIN CheckMatches(rule, visit) :
                  /\ CheckMatches(rule, visit)[k].rule = rule.id
                  /\ CheckMatches(rule, visit)[k].path = visit.path
           /\ ~AllHit(rule, visit) => CheckMatches(rule, visit) = <<>>
           /\ AllHit(rule, visit) => \A c \in rule.checks : \A line \in TextOf(visit)[c] :
                  \E k \in DOMAIN CheckMatches(rule, visit) : Covers(CheckMatches(rule, visit)[k], rule, visit, line)
<1>1. CASE ~AllHit(rule, visit)
  <2>1. CheckMatches(rule, visit) = <<>> BY <1>1 DEF CheckMatches, AllHit, TextOf
  <2>q. QED BY <1>1, <2>1
<1>2. CASE AllHit(rule, visit)
  <2>1. contents[visit.path] \in Contents /\ rule.checks \in SUBSET Checks BY DEF VisitType, Rules
  <2>2. PICK text \in [Checks -> SUBSET (1..FileLines)] : text = TextOf(visit) BY <2>1 DEF Contents, TextOf
  <2>3. \A c \in Checks : IsFiniteSet(text[c])
    <3>1. FileLines \in Nat BY DEF RulesAssumption
    <3>2. IsFiniteSet(1..FileLines) BY <3>1, FS_Interval
    <3>3. \A c \in Checks : text[c] \in SUBSET (1..FileLines) BY <2>2
    <3>q. QED BY <3>2, <3>3, FS_Subset
  <2>4. IsFiniteSet(rule.checks) BY <2>1, FS_Subset DEF RulesAssumption
  <2>5. PICK cs \in Seq(rule.checks) : cs = SetToSeq(rule.checks) /\ {cs[i] : i \in DOMAIN cs} = rule.checks
    BY <2>4, EachInSeq
  <2>6. PICK n \in Nat : n = Len(cs) /\ DOMAIN cs = 1..n BY <2>5
  <2> DEFINE matched(c) == [i \in 1..Cardinality(text[c]) |-> Match(rule, visit, SetToSeq(text[c])[i], {})]
  <2>7. \A c \in rule.checks :
            /\ matched(c) \in Seq(MatchType)
            /\ \A k \in DOMAIN matched(c) : matched(c)[k].rule = rule.id /\ matched(c)[k].path = visit.path
            /\ \A line \in text[c] : \E k \in DOMAIN matched(c) : Covers(matched(c)[k], rule, visit, line)
    <3> SUFFICES ASSUME NEW c \in rule.checks
                 PROVE  /\ matched(c) \in Seq(MatchType)
                        /\ \A k \in DOMAIN matched(c) : matched(c)[k].rule = rule.id /\ matched(c)[k].path = visit.path
                        /\ \A line \in text[c] : \E k \in DOMAIN matched(c) : Covers(matched(c)[k], rule, visit, line)
      OBVIOUS
    <3>1. PICK S \in SUBSET (1..FileLines) : S = text[c] /\ IsFiniteSet(S) BY <2>1, <2>2, <2>3
    <3>2. PICK s \in Seq(S) : s = SetToSeq(S) /\ DOMAIN s = 1..Cardinality(S) /\ {s[i] : i \in DOMAIN s} = S
      BY <3>1, EachInSeq, SeqOfSet
    <3>3. PICK l \in Nat : l = Len(s) /\ DOMAIN s = 1..l BY <3>2
    <3>4. PICK p : p = [i \in 1..l |-> Match(rule, visit, s[i], {})] OBVIOUS
    <3>5. matched(c) = p BY <3>1, <3>2, <3>3, <3>4
    <3>6. \A i \in 1..l : p[i] \in MatchType /\ Covers(p[i], rule, visit, s[i])
      <4> SUFFICES ASSUME NEW i \in 1..l PROVE p[i] \in MatchType /\ Covers(p[i], rule, visit, s[i]) OBVIOUS
      <4>1. s[i] \in 1..FileLines BY <3>2, <3>3
      <4>2. {} \in SUBSET Names OBVIOUS
      <4>q. QED BY <3>4, <4>1, <4>2, Matched
    <3>7. p \in [1..l -> MatchType] BY <3>4, <3>6
    <3>8. \A m \in Nat : \A u : u \in [1..m -> MatchType] => u \in Seq(MatchType) OBVIOUS
    <3>9. p \in Seq(MatchType) /\ DOMAIN p = 1..l BY <3>3, <3>7, <3>8
    <3>10. \A line \in S : \E k \in 1..l : Covers(p[k], rule, visit, line) BY <3>2, <3>3, <3>6
    <3> HIDE DEF matched
    <3>q. QED BY <3>1, <3>5, <3>6, <3>9, <3>10 DEF Covers
  <2>8. PICK ms : ms = [i \in DOMAIN cs |-> matched(cs[i])] OBVIOUS
  <2>9. CheckMatches(rule, visit) = Dedup(FlattenSeq(ms))
    BY <1>2, <2>2, <2>5, <2>8 DEF CheckMatches, AllHit, TextOf
  <2> HIDE DEF matched
  <2>10. \A i \in 1..n : cs[i] \in rule.checks /\ ms[i] = matched(cs[i]) BY <2>5, <2>6, <2>8
  <2>11. ms \in Seq(Seq(MatchType)) /\ DOMAIN ms = 1..n
    <3>1. ms \in [1..n -> Seq(MatchType)] BY <2>6, <2>7, <2>8, <2>10
    <3>2. \A m \in Nat : \A u : u \in [1..m -> Seq(MatchType)] => u \in Seq(Seq(MatchType)) OBVIOUS
    <3>q. QED BY <2>6, <2>8, <3>1, <3>2
  <2>12. PICK fl \in Seq(MatchType) :
            /\ fl = FlattenSeq(ms)
            /\ \A k \in DOMAIN fl : \E a \in DOMAIN ms : \E b \in DOMAIN ms[a] : fl[k] = ms[a][b]
            /\ \A a \in DOMAIN ms : \A b \in DOMAIN ms[a] : \E k \in DOMAIN fl : fl[k] = ms[a][b]
    <3>1. PICK fl : fl = FlattenSeq(ms) OBVIOUS
    <3>2. /\ FlattenSeq(ms) \in Seq(MatchType)
          /\ \A k \in DOMAIN FlattenSeq(ms) : \E a \in DOMAIN ms : \E b \in DOMAIN ms[a] : FlattenSeq(ms)[k] = ms[a][b]
          /\ \A a \in DOMAIN ms : \A b \in DOMAIN ms[a] : \E k \in DOMAIN FlattenSeq(ms) : FlattenSeq(ms)[k] = ms[a][b]
      <4>1. ms \in Seq(Seq(MatchType)) BY <2>11
      <4>q. QED BY <4>1, Flattened
    <3>q. QED BY <3>1, <3>2
  <2>13. PICK d \in Seq(MatchType) :
            /\ d = Dedup(fl)
            /\ \A i \in DOMAIN d : \E j \in DOMAIN fl : d[i] = fl[j]
            /\ \A j \in DOMAIN fl : \E i \in DOMAIN d : Key(d[i]) = Key(fl[j])
    BY Deduped
  <2>14. \A k \in DOMAIN fl : fl[k].rule = rule.id /\ fl[k].path = visit.path BY <2>7, <2>10, <2>11, <2>12
  <2>15. \A k \in DOMAIN d : d[k].rule = rule.id /\ d[k].path = visit.path BY <2>13, <2>14
  <2>16. ASSUME NEW c \in rule.checks, NEW line \in text[c] PROVE \E k \in DOMAIN d : Covers(d[k], rule, visit, line)
    <3>1. PICK a \in 1..n : cs[a] = c BY <2>5, <2>6
    <3>2. PICK b \in DOMAIN ms[a] : Covers(ms[a][b], rule, visit, line) BY <2>7, <2>10, <3>1
    <3>3. PICK j \in DOMAIN fl : fl[j] = ms[a][b] BY <2>11, <2>12, <3>2
    <3>4. PICK k \in DOMAIN d : Key(d[k]) = Key(fl[j]) BY <2>13
    <3>5. d[k].rule = fl[j].rule /\ d[k].path = fl[j].path /\ d[k].start = fl[j].start /\ d[k].end = fl[j].end
      BY <3>4 DEF Key
    <3>q. QED BY <3>2, <3>3, <3>5 DEF Covers
  <2>17. CheckMatches(rule, visit) = d BY <2>9, <2>12, <2>13
  <2>q. QED BY <1>2, <2>2, <2>15, <2>16, <2>17
<1>q. QED BY <1>1, <1>2
LEMMA RuleMatched ==
    ASSUME RulesAssumption, contents \in [RustPaths -> Contents], NEW rule \in Rules, NEW visit \in VisitType
    PROVE  /\ RuleMatches(rule, visit) \in Seq(MatchType)
           /\ \A k \in DOMAIN RuleMatches(rule, visit) :
                  /\ RuleMatches(rule, visit)[k].rule = rule.id
                  /\ RuleMatches(rule, visit)[k].path = visit.path
                  /\ AllHit(rule, visit)
           /\ rule.patterns = {} /\ AllHit(rule, visit) => \A c \in rule.checks : \A line \in TextOf(visit)[c] :
                  \E k \in DOMAIN RuleMatches(rule, visit) : Covers(RuleMatches(rule, visit)[k], rule, visit, line)
<1>1. PICK p \in Seq(MatchType) : p = PatternMatches(rule, visit) BY PatternsMatched
<1>2. PICK q \in Seq(MatchType) : q = CheckMatches(rule, visit) BY ChecksMatched
<1>3. /\ \A k \in DOMAIN p : p[k].rule = rule.id /\ p[k].path = visit.path
      /\ rule.patterns = {} => p = <<>>
  BY <1>1, PatternsMatched
<1>4. /\ \A k \in DOMAIN q : q[k].rule = rule.id /\ q[k].path = visit.path
      /\ ~AllHit(rule, visit) => q = <<>>
      /\ AllHit(rule, visit) => \A c \in rule.checks : \A line \in TextOf(visit)[c] :
             \E k \in DOMAIN q : Covers(q[k], rule, visit, line)
  BY <1>2, ChecksMatched
<1>5. rule.checks = {} => AllHit(rule, visit) BY DEF AllHit
<1>6. PICK named : named = [i \in DOMAIN q |-> [q[i] EXCEPT !.nodes = p[1].nodes]] OBVIOUS
<1>7. RuleMatches(rule, visit) = IF rule.patterns # {} /\ p = <<>> THEN <<>>
                                 ELSE IF rule.checks # {} /\ q = <<>> THEN <<>>
                                 ELSE IF q = <<>> THEN p
                                 ELSE IF p = <<>> THEN q
                                 ELSE named
  BY <1>1, <1>2, <1>6 DEF RuleMatches
<1>8. PICK r : r = RuleMatches(rule, visit) OBVIOUS
<1>9. CASE r = <<>> /\ (rule.checks # {} => q = <<>> \/ rule.patterns # {})
  <2>1. rule.patterns = {} /\ AllHit(rule, visit) => \A c \in rule.checks : \A line \in TextOf(visit)[c] : FALSE
    <3> SUFFICES ASSUME rule.patterns = {}, AllHit(rule, visit), NEW c \in rule.checks, NEW line \in TextOf(visit)[c]
                 PROVE  FALSE
      OBVIOUS
    <3>1. q = <<>> BY <1>9
    <3>q. QED BY <1>4, <3>1
  <2>q. QED BY <1>8, <1>9, <2>1
<1>10. CASE r = p /\ rule.checks = {}
  <2>q. QED BY <1>1, <1>3, <1>5, <1>8, <1>10
<1>11. CASE r = q /\ q # <<>>
  <2>q. QED BY <1>2, <1>4, <1>8, <1>11
<1>12. CASE r = named /\ q # <<>> /\ p # <<>>
  <2>1. PICK n \in Nat : n = Len(q) /\ DOMAIN q = 1..n BY <1>2
  <2>2. \A i \in 1..n : q[i] \in MatchType BY <1>2, <2>1
  <2>3. p[1] \in MatchType BY <1>1, <1>12
  <2>4. p[1].nodes \in SUBSET Names BY <2>3 DEF MatchType
  <2>5. \A i \in 1..n : [q[i] EXCEPT !.nodes = p[1].nodes] \in MatchType BY <2>2, <2>4 DEF MatchType
  <2>6. named \in [1..n -> MatchType] BY <1>6, <2>1, <2>5
  <2>7. \A m \in Nat : \A u : u \in [1..m -> MatchType] => u \in Seq(MatchType) OBVIOUS
  <2>8. named \in Seq(MatchType) /\ DOMAIN named = 1..n BY <2>1, <2>6, <2>7
  <2>9. \A i \in 1..n : named[i].rule = q[i].rule /\ named[i].path = q[i].path
    BY <1>6, <2>1, <2>2 DEF MatchType
  <2>10. AllHit(rule, visit) BY <1>4, <1>12
  <2>11. rule.patterns # {} BY <1>3, <1>12
  <2>q. QED BY <1>4, <1>8, <1>12, <2>1, <2>8, <2>9, <2>10, <2>11
<1>q. QED BY <1>7, <1>8, <1>9, <1>10, <1>11, <1>12

(* What was found so far covers the files that were visited so far, and    *)
(* every match is of a rule that the file called for.                      *)
Covered(rs, vs, fs) ==
    \A a \in DOMAIN rs, v \in DOMAIN vs :
        vs[v].readable /\ rs[a].patterns = {} /\ AllHit(rs[a], vs[v]) =>
            \A c \in rs[a].checks : \A line \in TextOf(vs[v])[c] :
                \E k \in DOMAIN fs : Covers(fs[k], rs[a], vs[v], line)
CalledFor(rs, fs) ==
    \A k \in DOMAIN fs : \E a \in DOMAIN rs :
        /\ rs[a].id = fs[k].rule
        /\ \A c \in rs[a].checks : contents[fs[k].path].lines[c] # {}
Distinct(fs) == \A i, j \in DOMAIN fs : Key(fs[i]) = Key(fs[j]) => i = j

RulesInv ==
    /\ ruleStage \in {"loading", "failed", "walking", "done"}
    /\ rules \in Seq(Rules) /\ contents \in [RustPaths -> Contents]
    /\ visits \in Seq(VisitType) /\ found \in Seq(MatchType)
    /\ ruleStage \in {"loading", "failed"} => visits = <<>> /\ found = <<>>
    /\ Covered(rules, visits, found) /\ CalledFor(rules, found)
    /\ ruleStage = "done" => Distinct(found)

LEMMA InitRulesInv == RulesAssumption /\ RulesInit => RulesInv
<1> SUFFICES ASSUME RulesAssumption, RulesInit PROVE RulesInv OBVIOUS
<1>1. Empty \in Contents BY DEF Empty, Contents
<1>2. contents \in [RustPaths -> Contents] BY <1>1 DEF RulesInit
<1>3. ruleStage = "loading" /\ rules = <<>> /\ visits = <<>> /\ found = <<>> BY DEF RulesInit
<1>4. Covered(rules, visits, found) /\ CalledFor(rules, found) BY <1>3 DEF Covered, CalledFor
<1>5. \A S : <<>> \in Seq(S) OBVIOUS
<1>q. QED BY <1>2, <1>3, <1>4, <1>5 DEF RulesInv

LEMMA EvaluateFileKeeps ==
    ASSUME RulesAssumption, RulesInv, EvaluateFile
    PROVE  RulesInv'
<1>1. PICK crate \in {"outer", "inner"}, path \in RustPaths, readable \in BOOLEAN :
          /\ ruleStage = "walking"
          /\ LET visit == [crate |-> crate, path |-> path, readable |-> readable]
                 matches == Dedup(FlattenSeq([i \in DOMAIN rules |-> RuleMatches(rules[i], visit)]))
             IN  /\ visits' = Append(visits, visit)
                 /\ found' = IF readable THEN found \o matches ELSE found
          /\ UNCHANGED <<ruleStage, rules, contents>>
  BY DEF EvaluateFile
<1>2. PICK visit \in VisitType : visit = [crate |-> crate, path |-> path, readable |-> readable] BY DEF VisitType
<1>3. PICK ms : ms = [i \in DOMAIN rules |-> RuleMatches(rules[i], visit)] OBVIOUS
<1>4. visits' = Append(visits, visit) /\ found' = IF readable THEN found \o Dedup(FlattenSeq(ms)) ELSE found
  BY <1>1, <1>2, <1>3
<1>5. rules \in Seq(Rules) /\ contents \in [RustPaths -> Contents] /\ visits \in Seq(VisitType) /\ found \in Seq(MatchType)
      /\ Covered(rules, visits, found) /\ CalledFor(rules, found)
  BY DEF RulesInv
<1>6. PICK n \in Nat : n = Len(rules) /\ DOMAIN rules = 1..n BY <1>5
<1>7. \A i \in 1..n : rules[i] \in Rules /\ ms[i] = RuleMatches(rules[i], visit) BY <1>3, <1>5, <1>6
<1>8. \A i \in 1..n :
          /\ ms[i] \in Seq(MatchType)
          /\ \A k \in DOMAIN ms[i] : /\ ms[i][k].rule = rules[i].id /\ ms[i][k].path = visit.path
                                     /\ AllHit(rules[i], visit)
          /\ rules[i].patterns = {} /\ AllHit(rules[i], visit) =>
                 \A c \in rules[i].checks : \A line \in TextOf(visit)[c] :
                     \E k \in DOMAIN ms[i] : Covers(ms[i][k], rules[i], visit, line)
  <2> SUFFICES ASSUME NEW i \in 1..n
               PROVE  /\ ms[i] \in Seq(MatchType)
                      /\ \A k \in DOMAIN ms[i] : /\ ms[i][k].rule = rules[i].id /\ ms[i][k].path = visit.path
                                                 /\ AllHit(rules[i], visit)
                      /\ rules[i].patterns = {} /\ AllHit(rules[i], visit) =>
                             \A c \in rules[i].checks : \A line \in TextOf(visit)[c] :
                                 \E k \in DOMAIN ms[i] : Covers(ms[i][k], rules[i], visit, line)
    OBVIOUS
  <2>1. PICK rule \in Rules : rule = rules[i] /\ ms[i] = RuleMatches(rule, visit) BY <1>7
  <2>2. PICK r : r = RuleMatches(rule, visit) OBVIOUS
  <2>3. /\ r \in Seq(MatchType)
        /\ \A k \in DOMAIN r : r[k].rule = rule.id /\ r[k].path = visit.path /\ AllHit(rule, visit)
    BY <1>5, <2>2, RuleMatched
  <2>4. rule.patterns = {} /\ AllHit(rule, visit) => \A c \in rule.checks : \A line \in TextOf(visit)[c] :
            \E k \in DOMAIN r : Covers(r[k], rule, visit, line)
    BY <1>5, <2>2, RuleMatched
  <2>5. ms[i] = r /\ rules[i] = rule BY <2>1, <2>2
  <2>q. QED BY <2>3, <2>4, <2>5
<1>9. ms \in Seq(Seq(MatchType)) /\ DOMAIN ms = 1..n
  <2>1. ms \in [1..n -> Seq(MatchType)] BY <1>3, <1>6, <1>8
  <2>2. \A m \in Nat : \A u : u \in [1..m -> Seq(MatchType)] => u \in Seq(Seq(MatchType)) OBVIOUS
  <2>q. QED BY <1>3, <1>6, <2>1, <2>2
<1>10. PICK fl : fl = FlattenSeq(ms) OBVIOUS
<1>11. /\ fl \in Seq(MatchType)
       /\ \A k \in DOMAIN fl : \E a \in DOMAIN ms : \E b \in DOMAIN ms[a] : fl[k] = ms[a][b]
       /\ \A a \in DOMAIN ms : \A b \in DOMAIN ms[a] : \E k \in DOMAIN fl : fl[k] = ms[a][b]
  <2>1. /\ FlattenSeq(ms) \in Seq(MatchType)
        /\ \A k \in DOMAIN FlattenSeq(ms) : \E a \in DOMAIN ms : \E b \in DOMAIN ms[a] : FlattenSeq(ms)[k] = ms[a][b]
        /\ \A a \in DOMAIN ms : \A b \in DOMAIN ms[a] : \E k \in DOMAIN FlattenSeq(ms) : FlattenSeq(ms)[k] = ms[a][b]
    <3>1. ms \in Seq(Seq(MatchType)) BY <1>9
    <3>q. QED BY <3>1, Flattened
  <2>q. QED BY <1>10, <2>1
<1>12. PICK d : d = Dedup(fl) OBVIOUS
<1>13. /\ d \in Seq(MatchType)
       /\ \A i \in DOMAIN d : \E j \in DOMAIN fl : d[i] = fl[j]
       /\ \A j \in DOMAIN fl : \E i \in DOMAIN d : Key(d[i]) = Key(fl[j])
  BY <1>11, <1>12, Deduped
<1>14. \A k \in DOMAIN d : \E a \in 1..n :
           rules[a].id = d[k].rule /\ \A c \in rules[a].checks : contents[d[k].path].lines[c] # {}
  <2> SUFFICES ASSUME NEW k \in DOMAIN d
               PROVE  \E a \in 1..n : /\ rules[a].id = d[k].rule
                                      /\ \A c \in rules[a].checks : contents[d[k].path].lines[c] # {}
    OBVIOUS
  <2>1. PICK j \in DOMAIN fl : d[k] = fl[j] BY <1>13
  <2>2. PICK a \in 1..n : \E b \in DOMAIN ms[a] : fl[j] = ms[a][b] BY <1>9, <1>11
  <2>3. d[k].rule = rules[a].id /\ d[k].path = visit.path /\ AllHit(rules[a], visit) BY <1>8, <2>1, <2>2
  <2>q. QED BY <2>3 DEF AllHit, TextOf
<1>15. ASSUME NEW a \in 1..n, rules[a].patterns = {}, AllHit(rules[a], visit),
              NEW c \in rules[a].checks, NEW line \in TextOf(visit)[c]
       PROVE  \E k \in DOMAIN d : Covers(d[k], rules[a], visit, line)
  <2>1. PICK b \in DOMAIN ms[a] : Covers(ms[a][b], rules[a], visit, line) BY <1>8, <1>15
  <2>2. PICK j \in DOMAIN fl : fl[j] = ms[a][b] BY <1>9, <1>11
  <2>3. PICK k \in DOMAIN d : Key(d[k]) = Key(fl[j]) BY <1>13
  <2>4. d[k].rule = fl[j].rule /\ d[k].path = fl[j].path /\ d[k].start = fl[j].start /\ d[k].end = fl[j].end
    BY <2>3 DEF Key
  <2>q. QED BY <2>1, <2>2, <2>4 DEF Covers
<1>16. PICK l \in Nat : l = Len(visits) /\ DOMAIN visits = 1..l BY <1>5
<1>17. PICK vs : vs = visits' OBVIOUS
<1>18. vs \in Seq(VisitType) /\ DOMAIN vs = 1..(l + 1) /\ vs[l + 1] = visit /\ \A v \in 1..l : vs[v] = visits[v]
  BY <1>4, <1>5, <1>16, <1>17
<1>19. PICK m \in Nat : m = Len(found) /\ DOMAIN found = 1..m BY <1>5
<1>20. PICK fs : fs = found' OBVIOUS
<1>21. /\ fs \in Seq(MatchType)
       /\ \A k \in 1..m : k \in DOMAIN fs /\ fs[k] = found[k]
       /\ readable => \A k \in DOMAIN d : \E i \in DOMAIN fs : fs[i] = d[k]
       /\ \A i \in DOMAIN fs : (\E k \in 1..m : fs[i] = found[k]) \/ \E k \in DOMAIN d : fs[i] = d[k]
  <2>1. CASE ~readable BY <1>4, <1>5, <1>19, <1>20, <2>1
  <2>2. CASE readable
    <3>1. PICK o \in Nat : o = Len(d) /\ DOMAIN d = 1..o BY <1>13
    <3>2. fs = found \o d BY <1>4, <1>10, <1>12, <1>20, <2>2
    <3>3. fs \in Seq(MatchType) /\ Len(fs) = m + o BY <1>5, <1>13, <1>19, <3>1, <3>2
    <3>4. DOMAIN fs = 1..(m + o) BY <3>3
    <3>5. \A i \in 1..(m + o) : fs[i] = IF i <= m THEN found[i] ELSE d[i - m]
      BY <1>5, <1>13, <1>19, <3>1, <3>2
    <3>6. \A k \in 1..m : k \in 1..(m + o) /\ k <= m BY <1>19, <3>1
    <3>7. \A k \in 1..o : m + k \in 1..(m + o) /\ ~(m + k <= m) /\ (m + k) - m = k BY <1>19, <3>1
    <3>8. \A i \in 1..(m + o) : (i <= m /\ i \in 1..m) \/ (~(i <= m) /\ i - m \in 1..o) BY <1>19, <3>1
    <3>9. \A k \in 1..o : fs[m + k] = d[k] BY <3>5, <3>7
    <3>10. \A k \in 1..m : k \in DOMAIN fs /\ fs[k] = found[k] BY <3>4, <3>5, <3>6
    <3>11. \A k \in DOMAIN d : \E i \in DOMAIN fs : fs[i] = d[k] BY <3>1, <3>4, <3>7, <3>9
    <3>12. ASSUME NEW i \in 1..(m + o) PROVE (\E k \in 1..m : fs[i] = found[k]) \/ \E k \in 1..o : fs[i] = d[k]
      <4>1. CASE i <= m /\ i \in 1..m BY <3>5, <4>1
      <4>2. CASE ~(i <= m) /\ i - m \in 1..o BY <3>5, <4>2
      <4>q. QED BY <3>8, <4>1, <4>2
    <3>q. QED BY <3>1, <3>3, <3>4, <3>10, <3>11, <3>12
  <2>q. QED BY <2>1, <2>2
<1>22. \A v \in 1..(l + 1) : v \in 1..l \/ v = l + 1 BY <1>16
<1>23. Covered(rules, vs, fs)
  <2> SUFFICES ASSUME NEW a \in DOMAIN rules, NEW v \in DOMAIN vs, vs[v].readable, rules[a].patterns = {},
                      AllHit(rules[a], vs[v]), NEW c \in rules[a].checks, NEW line \in TextOf(vs[v])[c]
               PROVE  \E k \in DOMAIN fs : Covers(fs[k], rules[a], vs[v], line)
    BY DEF Covered
  <2>1. CASE v \in 1..l
    <3>1. vs[v] = visits[v] /\ v \in DOMAIN visits BY <1>16, <1>18, <2>1
    <3>2. PICK k \in DOMAIN found : Covers(found[k], rules[a], visits[v], line) BY <1>5, <3>1 DEF Covered
    <3>q. QED BY <1>19, <1>21, <3>1, <3>2
  <2>2. CASE v = l + 1
    <3>1. vs[v] = visit /\ readable BY <1>2, <1>18, <2>2
    <3>2. PICK k \in DOMAIN d : Covers(d[k], rules[a], visit, line) BY <1>6, <1>15, <3>1
    <3>q. QED BY <1>21, <3>1, <3>2
  <2>q. QED BY <1>18, <1>22, <2>1, <2>2
<1>24. CalledFor(rules, fs)
  <2> SUFFICES ASSUME NEW i \in DOMAIN fs
               PROVE  \E a \in DOMAIN rules : /\ rules[a].id = fs[i].rule
                                              /\ \A c \in rules[a].checks : contents[fs[i].path].lines[c] # {}
    BY DEF CalledFor
  <2>1. CASE \E k \in 1..m : fs[i] = found[k] BY <1>5, <1>19, <2>1 DEF CalledFor
  <2>2. CASE \E k \in DOMAIN d : fs[i] = d[k] BY <1>6, <1>14, <2>2
  <2>q. QED BY <1>21, <2>1, <2>2
<1>25. rules' = rules /\ contents' = contents /\ ruleStage' = "walking" BY <1>1
<1>26. Covered(rules, vs, fs)' /\ CalledFor(rules, fs)'
  BY <1>23, <1>24, <1>25 DEF Covered, CalledFor, AllHit, TextOf
<1>q. QED BY <1>5, <1>17, <1>18, <1>20, <1>21, <1>25, <1>26 DEF RulesInv

LEMMA StepRulesInv == RulesAssumption /\ RulesInv /\ [RulesNext]_ruleVars => RulesInv'
<1> SUFFICES ASSUME RulesAssumption, RulesInv, [RulesNext]_ruleVars PROVE RulesInv' OBVIOUS
<1>1. CASE LoadRule
  <2>1. PICK rule \in Rules, parses \in BOOLEAN :
          /\ ruleStage = "loading"
          /\ \/ rules' = Append(rules, rule) /\ ruleStage' = ruleStage
             \/ ruleStage' = "failed" /\ rules' = rules
          /\ UNCHANGED <<contents, visits, found>>
    BY <1>1 DEF LoadRule
  <2>2. rules' \in Seq(Rules) /\ ruleStage' \in {"loading", "failed"} BY <2>1 DEF RulesInv
  <2>3. visits' = <<>> /\ found' = <<>> BY <2>1 DEF RulesInv
  <2>4. Covered(rules', visits', found') /\ CalledFor(rules', found') BY <2>3 DEF Covered, CalledFor
  <2>q. QED BY <2>1, <2>2, <2>3, <2>4 DEF RulesInv, Covered, CalledFor
<1>2. CASE RulesLoaded
  <2>1. PICK order \in [DOMAIN rules -> DOMAIN rules] : rules' = [i \in DOMAIN order |-> rules[order[i]]]
    BY <1>2 DEF RulesLoaded
  <2>2. PICK n \in Nat : n = Len(rules) /\ DOMAIN rules = 1..n BY DEF RulesInv
  <2>3. \A i \in 1..n : rules[order[i]] \in Rules BY <2>1, <2>2 DEF RulesInv
  <2>4. rules' \in [1..n -> Rules] BY <2>1, <2>2, <2>3
  <2>5. \A m \in Nat : \A u : u \in [1..m -> Rules] => u \in Seq(Rules) OBVIOUS
  <2>6. rules' \in Seq(Rules) BY <2>2, <2>4, <2>5
  <2>7. /\ ruleStage = "loading" /\ ruleStage' = "walking" /\ contents' \in [RustPaths -> Contents]
        /\ UNCHANGED <<visits, found>>
    BY <1>2 DEF RulesLoaded
  <2>8. visits' = <<>> /\ found' = <<>> BY <2>7 DEF RulesInv
  <2>q. QED BY <2>6, <2>7, <2>8 DEF RulesInv, Covered, CalledFor
<1>3. CASE EvaluateFile BY <1>3, EvaluateFileKeeps
<1>4. CASE Evaluated
  <2>1. ruleStage' = "done" /\ found' = Dedup(found) /\ UNCHANGED <<rules, contents, visits>> BY <1>4 DEF Evaluated
  <2>2. PICK d : d = found' OBVIOUS
  <2>3. /\ d \in Seq(MatchType) /\ Distinct(d)
        /\ \A i \in DOMAIN d : \E j \in DOMAIN found : d[i] = found[j]
        /\ \A j \in DOMAIN found : \E i \in DOMAIN d : Key(d[i]) = Key(found[j])
    <3>1. found \in Seq(MatchType) BY DEF RulesInv
    <3>q. QED BY <2>1, <2>2, <3>1, Deduped DEF Distinct
  <2>4. Covered(rules, visits, d)
    <3> SUFFICES ASSUME NEW a \in DOMAIN rules, NEW v \in DOMAIN visits, visits[v].readable, rules[a].patterns = {},
                        AllHit(rules[a], visits[v]), NEW c \in rules[a].checks, NEW line \in TextOf(visits[v])[c]
                 PROVE  \E k \in DOMAIN d : Covers(d[k], rules[a], visits[v], line)
      BY DEF Covered
    <3>1. PICK j \in DOMAIN found : Covers(found[j], rules[a], visits[v], line) BY DEF RulesInv, Covered
    <3>2. PICK k \in DOMAIN d : Key(d[k]) = Key(found[j]) BY <2>3
    <3>3. d[k].rule = found[j].rule /\ d[k].path = found[j].path /\ d[k].start = found[j].start /\ d[k].end = found[j].end
      BY <3>2 DEF Key
    <3>q. QED BY <3>1, <3>3 DEF Covers
  <2>5. CalledFor(rules, d)
    <3> SUFFICES ASSUME NEW k \in DOMAIN d
                 PROVE  \E a \in DOMAIN rules : /\ rules[a].id = d[k].rule
                                                /\ \A c \in rules[a].checks : contents[d[k].path].lines[c] # {}
      BY DEF CalledFor
    <3>1. PICK j \in DOMAIN found : d[k] = found[j] BY <2>3
    <3>q. QED BY <3>1 DEF RulesInv, CalledFor
  <2>6. Covered(rules, visits, d)' /\ CalledFor(rules, d)'
    BY <2>1, <2>4, <2>5 DEF Covered, CalledFor, AllHit, TextOf
  <2>7. Distinct(found') BY <2>2, <2>3
  <2>q. QED BY <2>1, <2>2, <2>3, <2>6, <2>7 DEF RulesInv, Distinct
<1>5. CASE UNCHANGED ruleVars
  <2>1. UNCHANGED <<ruleStage, rules, contents, visits, found>> BY <1>5 DEF ruleVars
  <2>0. Covered(rules, visits, found) /\ CalledFor(rules, found) BY DEF RulesInv
  <2>4. Covered(rules, visits, found)' BY <2>0, <2>1 DEF Covered, AllHit, TextOf
  <2>2. Covered(rules, visits, found)' /\ CalledFor(rules, found)' BY <2>0, <2>1, <2>4 DEF CalledFor
  <2>3. (ruleStage = "done" => Distinct(found))' BY <2>1 DEF RulesInv, Distinct
  <2>q. QED BY <2>1, <2>2, <2>3 DEF RulesInv
<1>q. QED BY <1>1, <1>2, <1>3, <1>4, <1>5 DEF RulesNext

\* The matches of a finished evaluation are distinct, of rules that their file
\* called for, and cover every line that a rule of checks hit, for any rules,
\* files and visits (dedup_rule_matches, snippet_for_line).
THEOREM MatchesAreExact == RulesSpec => []MatchesCoverHits
<1>1. RulesAssumption BY RulesAssumption
<1>2. RulesInv => MatchesCoverHits
  <2> SUFFICES ASSUME RulesInv, ruleStage = "done" PROVE MatchesCoverHits BY DEF MatchesCoverHits
  <2>1. Covered(rules, visits, found) /\ CalledFor(rules, found) /\ Distinct(found) BY DEF RulesInv
  <2>2. ASSUME NEW rule \in ToSet(rules), NEW visit \in ToSet(visits), visit.readable, rule.patterns = {},
               \A c \in rule.checks : contents[visit.path].lines[c] # {},
               NEW c \in rule.checks, NEW line \in contents[visit.path].lines[c]
        PROVE  \E m \in ToSet(found) : m.rule = rule.id /\ m.path = visit.path /\ line \in m.start..m.end
    <3>1. PICK a \in DOMAIN rules : rule = rules[a] BY DEF ToSet
    <3>2. PICK v \in DOMAIN visits : visit = visits[v] BY DEF ToSet
    <3>3. AllHit(rules[a], visits[v]) /\ line \in TextOf(visits[v])[c] BY <2>2, <3>1, <3>2 DEF AllHit, TextOf
    <3>4. PICK k \in DOMAIN found : Covers(found[k], rules[a], visits[v], line) BY <2>1, <2>2, <3>1, <3>2, <3>3 DEF Covered
    <3>5. found[k] \in ToSet(found) BY DEF ToSet
    <3>q. QED BY <3>1, <3>2, <3>4, <3>5 DEF Covers
  <2>3. ASSUME NEW m \in ToSet(found)
        PROVE  \E rule \in ToSet(rules) : /\ rule.id = m.rule /\ 1 <= m.start /\ m.end <= FileLines
                                          /\ \A c \in rule.checks : contents[m.path].lines[c] # {}
    <3>1. PICK k \in DOMAIN found : m = found[k] BY DEF ToSet
    <3>2. PICK a \in DOMAIN rules : /\ rules[a].id = found[k].rule
                                    /\ \A c \in rules[a].checks : contents[found[k].path].lines[c] # {}
      BY <2>1 DEF CalledFor
    <3>3. rules[a] \in ToSet(rules) BY DEF ToSet
    <3>4. 1 <= m.start /\ m.end <= FileLines
      <4>1. found[k] \in MatchType BY DEF RulesInv
      <4>2. m.start \in 1..FileLines /\ m.end \in 1..FileLines BY <3>1, <4>1 DEF MatchType
      <4>q. QED BY <4>2
    <3>q. QED BY <3>1, <3>2, <3>3, <3>4
  <2>4. ASSUME NEW rule \in ToSet(rules), NEW visit \in ToSet(visits)
        PROVE  (visit.readable /\ rule.patterns = {} /\ \A c \in rule.checks : contents[visit.path].lines[c] # {}) =>
                   \A c \in rule.checks : \A line \in contents[visit.path].lines[c] :
                       \E m \in ToSet(found) : m.rule = rule.id /\ m.path = visit.path /\ line \in m.start..m.end
    BY <2>2
  <2>5. \A i, j \in DOMAIN found : Key(found[i]) = Key(found[j]) => i = j BY <2>1 DEF Distinct
  <2>q. QED BY <2>3, <2>4, <2>5 DEF MatchesCoverHits
<1>q. QED BY <1>1, <1>2, InitRulesInv, StepRulesInv, PTL DEF RulesSpec
-----------------------------------------------------------------------------
(* The Circom analysis.  Expressions are sequences of terms, terms of the  *)
(* numbers of signals.                                                     *)
Exprs(n) == Seq(Seq((-1)..n))
ReadType(n) == [kind : {"R1CS", "Equality"}, sides : Seq(Exprs(n)) \ {<<>>}, of : Exprs(n)]
MeantType(n) == [lhs : Exprs(n), rhs : Exprs(n)]
Valued(w, n) == \A k \in 1..n : w[k] \in Int

LEMMA Wider ==
    ASSUME NEW S, NEW T, S \subseteq T
    PROVE  Seq(S) \subseteq Seq(T)
OBVIOUS

LEMMA WiderTypes ==
    ASSUME NEW n \in Nat
    PROVE  /\ Exprs(n) \subseteq Exprs(n + 1)
           /\ Seq(ReadType(n)) \subseteq Seq(ReadType(n + 1))
           /\ Seq(MeantType(n)) \subseteq Seq(MeantType(n + 1))
<1>1. (-1)..n \subseteq (-1)..(n + 1) OBVIOUS
<1>2. Seq((-1)..n) \subseteq Seq((-1)..(n + 1)) BY <1>1, Wider
<1>3. Exprs(n) \subseteq Exprs(n + 1) BY <1>2, Wider DEF Exprs
<1>4. Seq(Exprs(n)) \subseteq Seq(Exprs(n + 1)) BY <1>3, Wider
<1>5. ReadType(n) \subseteq ReadType(n + 1) BY <1>3, <1>4 DEF ReadType
<1>6. MeantType(n) \subseteq MeantType(n + 1) BY <1>3 DEF MeantType
<1>q. QED BY <1>3, <1>5, <1>6, Wider

(* Products and sums, which are taken from left to right.                  *)
LEMMA ValueTyped ==
    ASSUME NEW n \in Nat, NEW w, Valued(w, n), NEW name \in (-1)..n
    PROVE  Value(name, w) \in Int
<1>1. name = -1 \/ name = 0 \/ name \in 1..n OBVIOUS
<1>q. QED BY <1>1 DEF Value, Number, Valued

Products(p, term, w) ==
    /\ p \in [0..Len(term) -> Int] /\ p[0] = 1
    /\ \A i \in 1..Len(term) : p[i] = p[i - 1] * Value(term[i], w)

LEMMA ProductIs ==
    ASSUME NEW n \in Nat, NEW w, Valued(w, n), NEW term \in Seq((-1)..n)
    PROVE  \E p : Products(p, term, w) /\ Product(term, w) = p[Len(term)]
<1>1. PICK l \in Nat : l = Len(term) OBVIOUS
<1> DEFINE Taken(g) == [i \in 0..l |-> IF i = 0 THEN 1 ELSE g[i - 1] * Value(term[i], w)]
           chosen == CHOOSE g : g = Taken(g)
<1>2. Product(term, w) = chosen[l] BY <1>1 DEF Product
<1>3. \A i \in 1..l : Value(term[i], w) \in Int
  <2>1. \A i \in 1..l : term[i] \in (-1)..n BY <1>1
  <2>q. QED BY <2>1, ValueTyped
<1>4. PICK p : Products(p, term, w)
  <2>1. PICK f : f = [q \in Int \X (1..l) |-> q[1] * Value(term[q[2]], w)] OBVIOUS
  <2>2. \A v \in Int, i \in 1..l : f[<<v, i>>] = v * Value(term[i], w) /\ f[<<v, i>>] \in Int BY <1>3, <2>1
  <2>3. f \in [Int \X (1..l) -> Int] BY <1>3, <2>1
  <2>4. 1 \in Int OBVIOUS
  <2>5. PICK p : Repetition(p, Int, 1, l, f) BY <2>3, <2>4, Repeated
  <2>6. p \in [0..l -> Int] /\ p[0] = 1 /\ \A i \in 1..l : p[i] = f[<<p[i - 1], i>>] BY <2>5 DEF Repetition
  <2>7. \A i \in 1..l : p[i - 1] \in Int BY <2>6
  <2>8. \A i \in 1..l : p[i] = p[i - 1] * Value(term[i], w) BY <2>2, <2>6, <2>7
  <2>q. QED BY <1>1, <2>6, <2>8 DEF Products
<1>5. p = Taken(p)
  <2>1. \A i \in 0..l : i # 0 => i \in 1..l OBVIOUS
  <2>2. \A i \in 0..l : p[i] = IF i = 0 THEN 1 ELSE p[i - 1] * Value(term[i], w) BY <1>1, <1>4, <2>1 DEF Products
  <2>3. p \in [0..l -> Int] BY <1>1, <1>4 DEF Products
  <2>q. QED BY <2>2, <2>3
<1> HIDE DEF Taken
<1>6. PICK g : g = chosen /\ g = Taken(g) BY <1>5
<1> HIDE DEF chosen
<1>7. \A i \in 0..l : g[i] = p[i]
  <2>1. \A i \in 0..l : g[i] = IF i = 0 THEN 1 ELSE g[i - 1] * Value(term[i], w) BY <1>6 DEF Taken
  <2>2. /\ p[0] = 1 /\ \A i \in 1..l : p[i] = p[i - 1] * Value(term[i], w) BY <1>1, <1>4 DEF Products
  <2>3. SUFFICES ASSUME NEW j \in 0..l, g[j] # p[j] PROVE FALSE OBVIOUS
  <2>4. PICK B : B = {i \in 0..l : g[i] # p[i]} OBVIOUS
  <2>5. B \in SUBSET Nat /\ j \in B BY <2>3, <2>4
  <2>6. PICK i \in B : \A k \in B : i <= k BY <2>5, LeastNat
  <2>7. i # 0 /\ i \in 1..l /\ i - 1 \in 0..l BY <2>1, <2>2, <2>4, <2>6
  <2>8. i - 1 \notin B BY <2>6, <2>7
  <2>9. g[i - 1] = p[i - 1] BY <2>4, <2>7, <2>8
  <2>10. g[i] = g[i - 1] * Value(term[i], w) BY <2>1, <2>7
  <2>q. QED BY <2>2, <2>4, <2>6, <2>7, <2>9, <2>10
<1>8. Product(term, w) = p[l] BY <1>2, <1>6, <1>7
<1>q. QED BY <1>1, <1>4, <1>8

LEMMA ProductTyped ==
    ASSUME NEW n \in Nat, NEW w, Valued(w, n), NEW term \in Seq((-1)..n)
    PROVE  Product(term, w) \in Int
<1>1. PICK p : Products(p, term, w) /\ Product(term, w) = p[Len(term)] BY ProductIs
<1>2. Len(term) \in 0..Len(term) OBVIOUS
<1>q. QED BY <1>1, <1>2 DEF Products

LEMMA HeadAndTail ==
    ASSUME NEW S, NEW x \in Seq(S), NEW k \in Nat, Len(x) = k + 1
    PROVE  /\ Head(x) = x[1] /\ x[1] \in S
           /\ Tail(x) \in Seq(S) /\ Len(Tail(x)) = k /\ \A i \in 1..k : Tail(x)[i] = x[i + 1]
OBVIOUS

LEMMA SameElements ==
    ASSUME NEW S, NEW s \in Seq(S), NEW t \in Seq(S), Len(s) = Len(t), \A i \in 1..Len(s) : s[i] = t[i]
    PROVE  s = t
OBVIOUS

LEMMA OneElement ==
    ASSUME NEW S, NEW x \in S
    PROVE  <<x>> \in Seq(S) /\ Len(<<x>>) = 1 /\ <<x>>[1] = x
OBVIOUS

LEMMA ProductSplit ==
    ASSUME NEW n \in Nat, NEW w, Valued(w, n), NEW term \in Seq((-1)..n), term # <<>>
    PROVE  Product(term, w) = Product(<<term[1]>>, w) * Product(Tail(term), w)
<1>1. PICK l \in Nat : l + 1 = Len(term)
  <2>1. Len(term) \in Nat /\ Len(term) # 0 OBVIOUS
  <2>2. Len(term) - 1 \in Nat /\ (Len(term) - 1) + 1 = Len(term) BY <2>1
  <2>q. QED BY <2>2
<1>2. PICK rest : rest = Tail(term) OBVIOUS
<1>r. rest \in Seq((-1)..n) /\ Len(rest) = l /\ \A i \in 1..l : rest[i] = term[i + 1] BY <1>1, <1>2, HeadAndTail
<1>3. term[1] \in (-1)..n BY <1>1, HeadAndTail
<1>4. PICK one \in Seq((-1)..n) : one = <<term[1]>> /\ Len(one) = 1 /\ one[1] = term[1]
  <2>1. <<term[1]>> \in Seq((-1)..n) /\ Len(<<term[1]>>) = 1 /\ <<term[1]>>[1] = term[1] BY <1>3, OneElement
  <2>q. QED BY <2>1
<1>5. PICK p : Products(p, term, w) /\ Product(term, w) = p[l + 1] BY <1>1, ProductIs
<1>6. PICK q : Products(q, rest, w) /\ Product(rest, w) = q[l] BY <1>r, ProductIs
<1>7. PICK o : Products(o, one, w) /\ Product(one, w) = o[1] BY <1>4, ProductIs
<1>8. PICK a \in Int : a = Value(term[1], w) BY <1>3, ValueTyped
<1>9. Product(one, w) = a
  <2>1. 1 \in 1..1 OBVIOUS
  <2>2. o[0] = 1 /\ o[1] = o[1 - 1] * Value(one[1], w) BY <1>4, <1>7, <2>1 DEF Products
  <2>3. o[1] = 1 * a BY <1>4, <1>8, <2>2
  <2>q. QED BY <1>7, <1>8, <2>3
<1>10. p \in [0..(l + 1) -> Int] /\ p[0] = 1 /\ \A i \in 1..(l + 1) : p[i] = p[i - 1] * Value(term[i], w)
  BY <1>1, <1>5 DEF Products
<1>11. q \in [0..l -> Int] /\ q[0] = 1 /\ \A i \in 1..l : q[i] = q[i - 1] * Value(rest[i], w)
  BY <1>r, <1>6 DEF Products
<1>12. \A i \in 0..l : p[i + 1] = a * q[i]
  <2>1. SUFFICES ASSUME NEW j \in 0..l, p[j + 1] # a * q[j] PROVE FALSE OBVIOUS
  <2>2. PICK B : B = {i \in 0..l : p[i + 1] # a * q[i]} OBVIOUS
  <2>3. B \in SUBSET Nat /\ j \in B BY <2>1, <2>2
  <2>4. PICK i \in B : \A k \in B : i <= k BY <2>3, LeastNat
  <2>5. CASE i = 0
    <3>1. 1 \in 1..(l + 1) /\ 1 - 1 = 0 BY <1>1
    <3>2. p[1] = p[1 - 1] * Value(term[1], w) BY <1>10, <3>1
    <3>3. p[1] = 1 * a BY <1>8, <1>10, <3>1, <3>2
    <3>4. a * q[0] = a BY <1>8, <1>11
    <3>q. QED BY <1>8, <2>2, <2>4, <2>5, <3>3, <3>4
  <2>6. CASE i # 0
    <3>1. i \in 1..l /\ i - 1 \in 0..l /\ i + 1 \in 1..(l + 1) /\ (i + 1) - 1 = i /\ (i - 1) + 1 = i BY <2>2, <2>6
    <3>2. i - 1 \notin B BY <2>4, <3>1
    <3>3. p[i] = a * q[i - 1] BY <2>2, <3>1, <3>2
    <3>4. p[i + 1] = p[i] * Value(term[i + 1], w) BY <1>10, <3>1
    <3>5. q[i] = q[i - 1] * Value(term[i + 1], w) BY <1>r, <1>11, <3>1
    <3>6. PICK v \in Int : v = Value(term[i + 1], w)
      <4>1. term[i + 1] \in (-1)..n BY <1>1, <3>1
      <4>q. QED BY <4>1, ValueTyped
    <3>7. PICK b \in Int : b = q[i - 1] BY <1>11, <3>1
    <3>8. (a * b) * v = a * (b * v) BY <1>8, <3>6, <3>7
    <3>9. p[i + 1] = a * q[i] BY <3>3, <3>4, <3>5, <3>6, <3>7, <3>8
    <3>q. QED BY <2>2, <2>4, <3>9
  <2>q. QED BY <2>5, <2>6
<1>13. p[l + 1] = a * q[l] BY <1>1, <1>12
<1>q. QED BY <1>2, <1>4, <1>5, <1>6, <1>9, <1>13

Sums(s, expr, w) ==
    /\ s \in [0..Len(expr) -> Int] /\ s[0] = 0
    /\ \A i \in 1..Len(expr) : s[i] = s[i - 1] + Product(expr[i], w)

LEMMA EvalIs ==
    ASSUME NEW n \in Nat, NEW w, Valued(w, n), NEW expr \in Exprs(n)
    PROVE  \E s : Sums(s, expr, w) /\ Eval(expr, w) = s[Len(expr)]
<1>0. expr \in Seq(Seq((-1)..n)) BY DEF Exprs
<1>1. PICK l \in Nat : l = Len(expr) BY <1>0
<1> DEFINE Taken(g) == [i \in 0..l |-> IF i = 0 THEN 0 ELSE g[i - 1] + Product(expr[i], w)]
           chosen == CHOOSE g : g = Taken(g)
<1>2. Eval(expr, w) = chosen[l] BY <1>1 DEF Eval
<1>3. \A i \in 1..l : Product(expr[i], w) \in Int
  <2>1. \A i \in 1..l : expr[i] \in Seq((-1)..n) BY <1>0, <1>1
  <2>q. QED BY <2>1, ProductTyped
<1>4. PICK s : Sums(s, expr, w)
  <2>1. PICK f : f = [q \in Int \X (1..l) |-> q[1] + Product(expr[q[2]], w)] OBVIOUS
  <2>2. \A v \in Int, i \in 1..l : f[<<v, i>>] = v + Product(expr[i], w) /\ f[<<v, i>>] \in Int BY <1>3, <2>1
  <2>3. f \in [Int \X (1..l) -> Int] BY <1>3, <2>1
  <2>4. 0 \in Int OBVIOUS
  <2>5. PICK s : Repetition(s, Int, 0, l, f) BY <2>3, <2>4, Repeated
  <2>6. s \in [0..l -> Int] /\ s[0] = 0 /\ \A i \in 1..l : s[i] = f[<<s[i - 1], i>>] BY <2>5 DEF Repetition
  <2>7. \A i \in 1..l : s[i - 1] \in Int BY <2>6
  <2>8. \A i \in 1..l : s[i] = s[i - 1] + Product(expr[i], w) BY <2>2, <2>6, <2>7
  <2>q. QED BY <1>1, <2>6, <2>8 DEF Sums
<1>5. s = Taken(s)
  <2>1. \A i \in 0..l : i # 0 => i \in 1..l OBVIOUS
  <2>2. \A i \in 0..l : s[i] = IF i = 0 THEN 0 ELSE s[i - 1] + Product(expr[i], w) BY <1>1, <1>4, <2>1 DEF Sums
  <2>3. s \in [0..l -> Int] BY <1>1, <1>4 DEF Sums
  <2>q. QED BY <2>2, <2>3
<1> HIDE DEF Taken
<1>6. PICK g : g = chosen /\ g = Taken(g) BY <1>5
<1> HIDE DEF chosen
<1>7. \A i \in 0..l : g[i] = s[i]
  <2>1. \A i \in 0..l : g[i] = IF i = 0 THEN 0 ELSE g[i - 1] + Product(expr[i], w) BY <1>6 DEF Taken
  <2>2. /\ s[0] = 0 /\ \A i \in 1..l : s[i] = s[i - 1] + Product(expr[i], w) BY <1>1, <1>4 DEF Sums
  <2>3. SUFFICES ASSUME NEW j \in 0..l, g[j] # s[j] PROVE FALSE OBVIOUS
  <2>4. PICK B : B = {i \in 0..l : g[i] # s[i]} OBVIOUS
  <2>5. B \in SUBSET Nat /\ j \in B BY <2>3, <2>4
  <2>6. PICK i \in B : \A k \in B : i <= k BY <2>5, LeastNat
  <2>7. i # 0 /\ i \in 1..l /\ i - 1 \in 0..l BY <2>1, <2>2, <2>4, <2>6
  <2>8. i - 1 \notin B BY <2>6, <2>7
  <2>9. g[i - 1] = s[i - 1] BY <2>4, <2>7, <2>8
  <2>10. g[i] = g[i - 1] + Product(expr[i], w) BY <2>1, <2>7
  <2>q. QED BY <2>2, <2>4, <2>6, <2>7, <2>9, <2>10
<1>8. Eval(expr, w) = s[l] BY <1>2, <1>6, <1>7
<1>q. QED BY <1>1, <1>4, <1>8

LEMMA EvalTyped ==
    ASSUME NEW n \in Nat, NEW w, Valued(w, n), NEW expr \in Exprs(n)
    PROVE  Eval(expr, w) \in Int
<1>1. PICK s : Sums(s, expr, w) /\ Eval(expr, w) = s[Len(expr)] BY EvalIs
<1>2. Len(expr) \in 0..Len(expr) BY DEF Exprs
<1>q. QED BY <1>1, <1>2 DEF Sums

LEMMA EvalOne ==
    ASSUME NEW n \in Nat, NEW w, Valued(w, n), NEW term \in Seq((-1)..n)
    PROVE  Eval(<<term>>, w) = Product(term, w)
<1>1. PICK e \in Exprs(n) : e = <<term>> /\ Len(e) = 1 /\ e[1] = term
  <2>1. <<term>> \in Seq(Seq((-1)..n)) /\ Len(<<term>>) = 1 /\ <<term>>[1] = term OBVIOUS
  <2>q. QED BY <2>1 DEF Exprs
<1>2. PICK s : Sums(s, e, w) /\ Eval(e, w) = s[1] BY <1>1, EvalIs
<1>3. 1 \in 1..1 /\ 1 - 1 = 0 OBVIOUS
<1>4. s[0] = 0 /\ s[1] = s[1 - 1] + Product(e[1], w) BY <1>1, <1>2, <1>3 DEF Sums
<1>5. s[1] = 0 + Product(term, w) BY <1>1, <1>3, <1>4
<1>q. QED BY <1>1, <1>2, <1>5, ProductTyped
(* Reading.  What the parser made of a constraint has, on a plain circuit, *)
(* the values of what the circuit says: splitting a product keeps them.    *)
NameExprs == Seq(Seq(STRING))
Resolved(name) == IF name = One THEN Number ELSE Lookup(name)
ResolvedTerm(term) == [f \in DOMAIN term |-> Resolved(term[f])]
Signals == signals \in Seq(Declarations)

LEMMA FunctionsAreSequences ==
    ASSUME NEW S, NEW n \in Nat, NEW f \in [1..n -> S]
    PROVE  f \in Seq(S) /\ Len(f) = n /\ DOMAIN f = 1..n
OBVIOUS

LEMMA ResolvedTyped ==
    ASSUME Signals, NEW name
    PROVE  Resolved(name) \in (-1)..Len(signals) /\ Lookup(name) \in 0..Len(signals)
<1>1. PICK n \in Nat : n = Len(signals) /\ DOMAIN signals = 1..n BY DEF Signals
<1>2. PICK ids : ids = {i \in 1..n : signals[i].name = name} OBVIOUS
<1>3. Lookup(name) = IF ids = {} THEN 0 ELSE CHOOSE i \in ids : \A j \in ids : i <= j BY <1>1, <1>2 DEF Lookup
<1>4. Lookup(name) \in 0..n
  <2>1. CASE ids = {} BY <1>3, <2>1
  <2>2. CASE ids # {}
    <3>1. ids \in SUBSET Nat BY <1>2
    <3>2. \E i \in ids : \A j \in ids : i <= j BY <2>2, <3>1, LeastNat
    <3>3. Lookup(name) \in ids BY <1>3, <2>2, <3>2
    <3>q. QED BY <1>2, <3>3
  <2>q. QED BY <2>1, <2>2
<1>q. QED BY <1>1, <1>4 DEF Resolved, Number

LEMMA TermResolved ==
    ASSUME Signals, NEW term \in Seq(STRING)
    PROVE  /\ ResolvedTerm(term) \in Seq((-1)..Len(signals)) /\ Len(ResolvedTerm(term)) = Len(term)
           /\ \A f \in 1..Len(term) : ResolvedTerm(term)[f] = Resolved(term[f])
<1>1. PICK l \in Nat : l = Len(term) /\ DOMAIN term = 1..l OBVIOUS
<1>2. ResolvedTerm(term) \in [1..l -> (-1)..Len(signals)] BY <1>1, ResolvedTyped DEF ResolvedTerm
<1>3. \A f \in 1..l : ResolvedTerm(term)[f] = Resolved(term[f]) BY <1>1 DEF ResolvedTerm
<1>q. QED BY <1>1, <1>2, <1>3, FunctionsAreSequences

LEMMA ExprResolved ==
    ASSUME Signals, NEW expr \in NameExprs
    PROVE  /\ Resolve(expr) \in Exprs(Len(signals)) /\ Len(Resolve(expr)) = Len(expr)
           /\ \A t \in 1..Len(expr) : Resolve(expr)[t] = ResolvedTerm(expr[t])
<1>0. expr \in Seq(Seq(STRING)) BY DEF NameExprs
<1>1. PICK l \in Nat : l = Len(expr) /\ DOMAIN expr = 1..l BY <1>0
<1>2. Resolve(expr) = [t \in 1..l |-> ResolvedTerm(expr[t])] BY <1>1 DEF Resolve, ResolvedTerm, Resolved
<1>3. \A t \in 1..l : expr[t] \in Seq(STRING) BY <1>0, <1>1
<1>4. \A t \in 1..l : ResolvedTerm(expr[t]) \in Seq((-1)..Len(signals)) BY <1>3, TermResolved
<1>5. Resolve(expr) \in [1..l -> Seq((-1)..Len(signals))] BY <1>2, <1>4
<1>6. Resolve(expr) \in Seq(Seq((-1)..Len(signals))) /\ Len(Resolve(expr)) = l BY <1>5, FunctionsAreSequences
<1>q. QED BY <1>1, <1>2, <1>6 DEF Exprs

LEMMA OneTermResolved ==
    ASSUME Signals, NEW term \in Seq(STRING)
    PROVE  <<term>> \in NameExprs /\ Resolve(<<term>>) = <<ResolvedTerm(term)>>
<1>1. PICK e \in NameExprs : e = <<term>> /\ Len(e) = 1 /\ e[1] = term
  <2>1. <<term>> \in Seq(Seq(STRING)) /\ Len(<<term>>) = 1 /\ <<term>>[1] = term OBVIOUS
  <2>q. QED BY <2>1 DEF NameExprs
<1>2. PICK r : r = Resolve(e) OBVIOUS
<1>3. r \in Exprs(Len(signals)) /\ Len(r) = 1 /\ r[1] = ResolvedTerm(term) BY <1>1, <1>2, ExprResolved
<1>4. r \in Seq(Seq((-1)..Len(signals))) BY <1>3 DEF Exprs
<1>5. r = <<r[1]>> BY <1>3, <1>4
<1>q. QED BY <1>1, <1>2, <1>3, <1>5

LEMMA SplitTyped ==
    ASSUME NEW expr \in NameExprs, SplitMultiply(expr) # <<>>
    PROVE  /\ SplitMultiply(expr) \in Seq(NameExprs)
           /\ Len(expr) = 1 => /\ expr[1] \in Seq(STRING) /\ Len(expr[1]) > 1 /\ expr = <<expr[1]>>
                               /\ SplitMultiply(expr) = <<<<<<Head(expr[1])>>>>, <<Tail(expr[1])>>>>
<1>0. expr \in Seq(Seq(STRING)) BY DEF NameExprs
<1>1. PICK l \in Nat : l = Len(expr) /\ DOMAIN expr = 1..l BY <1>0
<1>2. PICK products : products = {t \in 1..l : Len(expr[t]) > 1} OBVIOUS
<1>3. PICK t : t = CHOOSE p \in products : \A q \in products : p <= q OBVIOUS
<1>4. SplitMultiply(expr) = IF products = {} THEN <<>>
                            ELSE <<SubSeq(expr, 1, t - 1) \o <<<<Head(expr[t])>>>>,
                                   <<Tail(expr[t])>> \o SubSeq(expr, t + 1, Len(expr))>>
  BY <1>1, <1>2, <1>3 DEF SplitMultiply
<1>5. products # {} BY <1>4
<1>6. t \in products
  <2>1. products \in SUBSET Nat BY <1>2
  <2>2. \E p \in products : \A q \in products : p <= q BY <1>5, <2>1, LeastNat
  <2>q. QED BY <1>3, <2>2
<1>7. PICK x \in Seq(STRING) : x = expr[t] /\ Len(x) > 1 BY <1>0, <1>1, <1>2, <1>6
<1>8. Head(x) \in STRING /\ Tail(x) \in Seq(STRING)
  <2>1. Len(x) \in Nat BY <1>7
  <2>2. PICK k \in Nat : k = Len(x) - 1 BY <1>7, <2>1
  <2>3. Len(x) = k + 1 BY <2>1, <2>2
  <2>q. QED BY <1>7, <2>3, HeadAndTail
<1>9. <<<<Head(x)>>>> \in Seq(Seq(STRING)) /\ <<Tail(x)>> \in Seq(Seq(STRING))
  <2>1. <<Head(x)>> \in Seq(STRING) BY <1>8
  <2>2. \A y \in Seq(STRING) : <<y>> \in Seq(Seq(STRING)) OBVIOUS
  <2>q. QED BY <1>8, <2>1, <2>2
<1>10. t \in 1..l BY <1>2, <1>6
<1>11. SubSeq(expr, 1, t - 1) \in Seq(Seq(STRING)) /\ SubSeq(expr, t + 1, l) \in Seq(Seq(STRING))
  <2>1. \A a, b \in 1..l : SubSeq(expr, a, b) \in Seq(Seq(STRING)) BY <1>0, <1>1
  <2>2. \A a, b \in Int : a > b => SubSeq(expr, a, b) = <<>> BY <1>0
  <2>3. <<>> \in Seq(Seq(STRING)) OBVIOUS
  <2>4. CASE t = 1
    <3>1. SubSeq(expr, 1, t - 1) = <<>> BY <2>2, <2>4
    <3>2. (t + 1 \in 1..l /\ l \in 1..l) \/ t + 1 > l BY <1>1, <1>10
    <3>3. SubSeq(expr, t + 1, l) \in Seq(Seq(STRING)) BY <1>1, <1>10, <2>1, <2>2, <2>3, <3>2
    <3>q. QED BY <2>3, <3>1, <3>3
  <2>5. CASE t # 1
    <3>1. 1 \in 1..l /\ t - 1 \in 1..l BY <1>1, <1>10, <2>5
    <3>2. (t + 1 \in 1..l /\ l \in 1..l) \/ t + 1 > l BY <1>1, <1>10
    <3>3. SubSeq(expr, t + 1, l) \in Seq(Seq(STRING)) BY <1>1, <1>10, <2>1, <2>2, <2>3, <3>2
    <3>q. QED BY <2>1, <3>1, <3>3
  <2>q. QED BY <2>4, <2>5
<1>r. \A y, z \in Seq(Seq(STRING)) : y \o z \in Seq(Seq(STRING)) OBVIOUS
<1>12. PICK a \in NameExprs : a = SubSeq(expr, 1, t - 1) \o <<<<Head(x)>>>> BY <1>9, <1>11, <1>r, Zenon DEF NameExprs
<1>13. PICK b \in NameExprs : b = <<Tail(x)>> \o SubSeq(expr, t + 1, l) BY <1>9, <1>11, <1>r, Zenon DEF NameExprs
<1>14. SplitMultiply(expr) = <<a, b>> BY <1>1, <1>4, <1>5, <1>7, <1>12, <1>13
<1>15. <<a, b>> \in Seq(NameExprs) OBVIOUS
<1>16. ASSUME Len(expr) = 1
       PROVE  /\ expr[1] = x /\ expr = <<x>>
              /\ a = <<<<Head(x)>>>> /\ b = <<Tail(x)>>
  <2>1. l = 1 /\ t = 1 BY <1>1, <1>10, <1>16
  <2>2. expr = <<expr[1]>> BY <1>0, <1>16
  <2>3. SubSeq(expr, 1, t - 1) = <<>> /\ SubSeq(expr, t + 1, l) = <<>> BY <1>0, <2>1
  <2>4. \A y \in Seq(Seq(STRING)) : <<>> \o y = y /\ y \o <<>> = y OBVIOUS
  <2>q. QED BY <1>7, <1>9, <1>12, <1>13, <2>1, <2>2, <2>3, <2>4
<1>q. QED BY <1>7, <1>14, <1>15, <1>16

ReadAs(op, lhs, rhs) == Read(ParseConstraint(op, lhs, rhs))
Agrees(c, m, n) == c.of = m.rhs /\ \A w : Valued(w, n) => Left(c, w) = Eval(m.lhs, w)

LEMMA ReadRightly ==
    ASSUME Signals, NEW op \in {"<==", "==="}, NEW lhs \in NameExprs, NEW rhs \in NameExprs
    PROVE  /\ ReadAs(op, lhs, rhs) \in ReadType(Len(signals))
           /\ Understood(op, lhs, rhs) =>
                  Agrees(ReadAs(op, lhs, rhs), [lhs |-> Resolve(lhs), rhs |-> Resolve(rhs)], Len(signals))
<1>1. PICK n \in Nat : n = Len(signals) BY DEF Signals
<1>2. PICK of \in Exprs(n) : of = Resolve(rhs) BY <1>1, ExprResolved
<1>3. PICK left \in Exprs(n) : left = Resolve(lhs) BY <1>1, ExprResolved
<1>4. CASE op = "===" /\ SplitMultiply(lhs) # <<>>
  <2>1. PICK s \in Seq(NameExprs) : s = SplitMultiply(lhs) BY <1>4, SplitTyped
  <2>2. PICK l \in Nat : l = Len(s) /\ DOMAIN s = 1..l /\ l # 0 BY <1>4, <2>1
  <2>3. PICK sides : sides = [i \in 1..l |-> Resolve(s[i])] OBVIOUS
  <2>4. \A i \in 1..l : s[i] \in NameExprs BY <2>1, <2>2
  <2>5. sides \in [1..l -> Exprs(n)] BY <1>1, <2>3, <2>4, ExprResolved
  <2>6. sides \in Seq(Exprs(n)) /\ Len(sides) = l BY <2>2, <2>5, FunctionsAreSequences
  <2>7. sides # <<>> BY <2>2, <2>6
  <2>8. PICK c : c = [kind |-> "R1CS", sides |-> sides, of |-> of] OBVIOUS
  <2>9. ReadAs(op, lhs, rhs) = c
    <3>1. ParseConstraint(op, lhs, rhs) = [kind |-> "R1CS", sides |-> s, of |-> rhs]
      BY <1>4, <2>1 DEF ParseConstraint
    <3>2. PICK parsed : parsed = ParseConstraint(op, lhs, rhs) OBVIOUS
    <3>3. parsed.kind = "R1CS" /\ parsed.sides = s /\ parsed.of = rhs BY <3>1, <3>2
    <3>4. Read(parsed) = [kind |-> "R1CS", of |-> Resolve(rhs), sides |-> [i \in DOMAIN s |-> Resolve(s[i])]]
      BY <3>3 DEF Read
    <3>q. QED BY <1>2, <2>2, <2>3, <2>8, <3>2, <3>4 DEF ReadAs
  <2>10. c \in ReadType(n) BY <2>6, <2>7, <2>8 DEF ReadType
  <2>11. ASSUME Understood(op, lhs, rhs), NEW w, Valued(w, n) PROVE Left(c, w) = Eval(left, w)
    <3>1. Len(lhs) = 1 BY <1>4, <2>11 DEF Understood
    <3>2. PICK x \in Seq(STRING) : Len(x) > 1 /\ lhs = <<x>> /\ s = <<<<<<Head(x)>>>>, <<Tail(x)>>>>
      BY <1>4, <2>1, <3>1, SplitTyped
    <3>3. PICK r : r = ResolvedTerm(x) OBVIOUS
    <3>4. /\ r \in Seq((-1)..n) /\ Len(r) = Len(x)
          /\ \A f \in 1..Len(x) : r[f] = Resolved(x[f])
      BY <1>1, <3>3, TermResolved
    <3>5. left = <<r>> BY <1>3, <3>2, <3>3, OneTermResolved
    <3>t. PICK k \in Nat : k + 1 = Len(x)
      <4>1. Len(x) \in Nat BY <3>2
      <4>2. Len(x) - 1 \in Nat BY <3>2, <4>1
      <4>3. (Len(x) - 1) + 1 = Len(x) BY <4>1
      <4>q. QED BY <4>2, <4>3
    <3>x. /\ Head(x) = x[1] /\ x[1] \in STRING
          /\ Tail(x) \in Seq(STRING) /\ Len(Tail(x)) = k /\ \A f \in 1..k : Tail(x)[f] = x[f + 1]
      <4>1. x \in Seq(STRING) /\ Len(x) = k + 1 BY <3>2, <3>t
      <4>q. QED BY <4>1, HeadAndTail
    <3>y. /\ r[1] \in (-1)..n /\ r # <<>>
          /\ Tail(r) \in Seq((-1)..n) /\ Len(Tail(r)) = k /\ \A f \in 1..k : Tail(r)[f] = r[f + 1]
      <4>1. r \in Seq((-1)..n) /\ Len(r) = k + 1 BY <3>4, <3>t
      <4>2. r # <<>> BY <4>1
      <4>q. QED BY <4>1, <4>2, HeadAndTail
    <3>h. PICK h \in Seq(STRING) : h = <<Head(x)>> /\ Len(h) = 1 /\ h[1] = x[1]
      <4>1. \A e \in STRING : <<e>> \in Seq(STRING) /\ Len(<<e>>) = 1 /\ <<e>>[1] = e OBVIOUS
      <4>q. QED BY <3>x, <4>1
    <3>6. <<Head(x)>> \in Seq(STRING) /\ Tail(x) \in Seq(STRING) BY <3>h, <3>x
    <3>7. ResolvedTerm(<<Head(x)>>) = <<r[1]>>
      <4>2. PICK rh : rh = ResolvedTerm(h) OBVIOUS
      <4>0. 1 \in 1..1 OBVIOUS
      <4>3. rh \in Seq((-1)..n) /\ Len(rh) = 1 /\ rh[1] = Resolved(h[1]) BY <1>1, <3>h, <4>0, <4>2, TermResolved
      <4>4. r[1] = Resolved(x[1]) BY <3>2, <3>4
      <4>5. rh = <<rh[1]>> BY <4>3
      <4>q. QED BY <3>h, <4>2, <4>3, <4>4, <4>5
    <3>8. ResolvedTerm(Tail(x)) = Tail(r)
      <4>1. PICK y \in Seq(STRING) : y = Tail(x) /\ Len(y) = k /\ \A f \in 1..k : y[f] = x[f + 1] BY <3>x
      <4>2. PICK ry : ry = ResolvedTerm(y) OBVIOUS
      <4>3. ry \in Seq((-1)..n) /\ Len(ry) = k /\ \A f \in 1..k : ry[f] = Resolved(y[f])
        BY <1>1, <4>1, <4>2, TermResolved
      <4>4. PICK z \in Seq((-1)..n) : z = Tail(r) /\ Len(z) = k /\ \A f \in 1..k : z[f] = r[f + 1] BY <3>y
      <4>5. \A f \in 1..k : f + 1 \in 1..Len(x) BY <3>t
      <4>6. \A f \in 1..k : ry[f] = z[f] BY <3>4, <4>1, <4>3, <4>4, <4>5
      <4>7. ry = z
        <5>1. ry \in Seq((-1)..n) /\ z \in Seq((-1)..n) /\ Len(ry) = Len(z) /\ \A f \in 1..Len(ry) : ry[f] = z[f]
          BY <4>3, <4>4, <4>6
        <5>q. QED BY <5>1, SameElements, Zenon
      <4>q. QED BY <4>1, <4>2, <4>4, <4>7
    <3>9. l = 2 /\ s[1] = <<<<Head(x)>>>> /\ s[2] = <<Tail(x)>>
      <4>1. PICK a, b : a = <<<<Head(x)>>>> /\ b = <<Tail(x)>> OBVIOUS
      <4>2. s = <<a, b>> BY <3>2, <4>1
      <4>3. Len(s) = 2 /\ s[1] = a /\ s[2] = b BY <4>2
      <4>q. QED BY <2>2, <4>1, <4>3
    <3>10. sides[1] = <<<<r[1]>>>> /\ sides[2] = <<Tail(r)>>
      <4>1. 1 \in 1..l /\ 2 \in 1..l BY <3>9
      <4>2. sides[1] = Resolve(s[1]) /\ sides[2] = Resolve(s[2]) BY <2>3, <4>1
      <4>q. QED BY <3>6, <3>7, <3>8, <3>9, <4>2, OneTermResolved
    <3>11. r[1] \in (-1)..n /\ Tail(r) \in Seq((-1)..n) /\ r # <<>> BY <3>y
    <3>12. <<r[1]>> \in Seq((-1)..n) BY <3>11
    <3>13. Left(c, w) = Eval(<<<<r[1]>>>>, w) * Eval(<<Tail(r)>>, w) BY <2>8, <3>10 DEF Left
    <3>14. Eval(<<<<r[1]>>>>, w) = Product(<<r[1]>>, w) BY <2>11, <3>12, EvalOne
    <3>15. Eval(<<Tail(r)>>, w) = Product(Tail(r), w) BY <2>11, <3>11, EvalOne
    <3>16. Eval(<<r>>, w) = Product(r, w) BY <2>11, <3>4, EvalOne
    <3>17. Product(r, w) = Product(<<r[1]>>, w) * Product(Tail(r), w) BY <2>11, <3>4, <3>11, ProductSplit
    <3>q. QED BY <3>5, <3>13, <3>14, <3>15, <3>16, <3>17
  <2>q. QED BY <1>1, <1>2, <1>3, <2>8, <2>9, <2>10, <2>11 DEF Agrees
<1>5. CASE ~(op = "===" /\ SplitMultiply(lhs) # <<>>)
  <2>1. PICK c : c = [kind |-> "Equality", sides |-> <<left>>, of |-> of] OBVIOUS
  <2>2. ReadAs(op, lhs, rhs) = c
    <3>1. ParseConstraint(op, lhs, rhs) = [kind |-> "Equality", sides |-> <<lhs>>, of |-> rhs]
      BY <1>5 DEF ParseConstraint
    <3>2. [i \in DOMAIN <<lhs>> |-> Resolve(<<lhs>>[i])] = <<Resolve(lhs)>> OBVIOUS
    <3>3. PICK parsed : parsed = ParseConstraint(op, lhs, rhs) OBVIOUS
    <3>4. parsed.kind = "Equality" /\ parsed.sides = <<lhs>> /\ parsed.of = rhs BY <3>1, <3>3
    <3>5. Read(parsed) = [kind |-> "Equality", of |-> Resolve(rhs), sides |-> [i \in DOMAIN <<lhs>> |-> Resolve(<<lhs>>[i])]]
      BY <3>4 DEF Read
    <3>q. QED BY <1>2, <1>3, <2>1, <3>2, <3>3, <3>5 DEF ReadAs
  <2>3. <<left>> \in Seq(Exprs(n)) /\ <<left>> # <<>> OBVIOUS
  <2>4. c \in ReadType(n) BY <2>1, <2>3 DEF ReadType
  <2>5. \A w : Left(c, w) = Eval(left, w) BY <2>1 DEF Left
  <2>q. QED BY <1>1, <1>2, <1>3, <2>1, <2>2, <2>4, <2>5 DEF Agrees
<1>q. QED BY <1>4, <1>5
-----------------------------------------------------------------------------
(* The random search.  Propagating keeps a value for every signal.         *)
LEMMA AssignedTyped ==
    ASSUME NEW n \in Nat, NEW v \in [1..n -> Int], NEW c \in ReadType(n)
    PROVE  Assigned(v, c) \in [1..n -> Int]
<1>1. Valued(v, n) BY DEF Valued
<1>2. PICK side \in Exprs(n) : side = c.sides[1]
  <2>1. PICK s \in Seq(Exprs(n)) : s = c.sides /\ s # <<>> BY DEF ReadType
  <2>q. QED BY <2>1
<1>3. c.of \in Exprs(n) BY DEF ReadType
<1>4. PICK x \in Int : x = Eval(c.of, v) BY <1>1, <1>3, EvalTyped
<1>5. PICK y \in Int : y = Eval(side, v) BY <1>1, <1>2, EvalTyped
<1>6. \A k, z \in Int : [v EXCEPT ![k] = z] \in [1..n -> Int] OBVIOUS
<1>7. \A k : \A z \in Int : [v EXCEPT ![k] = z] \in [1..n -> Int] OBVIOUS
<1>q. QED BY <1>2, <1>4, <1>5, <1>7 DEF Assigned

LEMMA PropagateTyped ==
    ASSUME NEW n \in Nat, constraints \in Seq(ReadType(n)), NEW w \in [1..n -> Int]
    PROVE  Propagate(w) \in [1..n -> Int]
<1>1. PICK l \in Nat : l = Len(constraints) OBVIOUS
<1>2. PICK W : W = [1..n -> Int] OBVIOUS
<1> DEFINE Taken(g) == [i \in 0..l |-> IF i = 0 THEN w ELSE Assigned(g[i - 1], constraints[i])]
           chosen == CHOOSE g : g = Taken(g)
<1>3. Propagate(w) = chosen[l] BY <1>1 DEF Propagate
<1>4. \A v \in W, i \in 1..l : Assigned(v, constraints[i]) \in W
  <2>1. \A i \in 1..l : constraints[i] \in ReadType(n) BY <1>1
  <2>q. QED BY <1>2, <2>1, AssignedTyped
<1>5. \E g : g = Taken(g)
  <2>1. PICK f : f = [q \in W \X (1..l) |-> Assigned(q[1], constraints[q[2]])] OBVIOUS
  <2>2. \A v \in W, i \in 1..l : f[<<v, i>>] = Assigned(v, constraints[i]) BY <2>1
  <2>3. f \in [W \X (1..l) -> W] BY <1>4, <2>1
  <2>4. PICK p : Repetition(p, W, w, l, f) BY <1>2, <2>3, Repeated
  <2>5. p \in [0..l -> W] /\ p[0] = w /\ \A i \in 1..l : p[i] = f[<<p[i - 1], i>>] BY <2>4 DEF Repetition
  <2>6. \A i \in 1..l : p[i - 1] \in W BY <2>5
  <2>7. \A i \in 1..l : p[i] = Assigned(p[i - 1], constraints[i]) BY <2>2, <2>5, <2>6
  <2>8. \A i \in 0..l : i # 0 => i \in 1..l OBVIOUS
  <2>9. \A i \in 0..l : p[i] = IF i = 0 THEN w ELSE Assigned(p[i - 1], constraints[i]) BY <2>5, <2>7, <2>8
  <2>q. QED BY <2>5, <2>9
<1> HIDE DEF Taken
<1>6. PICK g : g = chosen /\ g = Taken(g) BY <1>5
<1> HIDE DEF chosen
<1>7. \A i \in 0..l : g[i] \in W
  <2>1. \A i \in 0..l : g[i] = IF i = 0 THEN w ELSE Assigned(g[i - 1], constraints[i]) BY <1>6 DEF Taken
  <2>2. SUFFICES ASSUME NEW j \in 0..l, g[j] \notin W PROVE FALSE OBVIOUS
  <2>3. PICK B : B = {i \in 0..l : g[i] \notin W} OBVIOUS
  <2>4. B \in SUBSET Nat /\ j \in B BY <2>2, <2>3
  <2>5. PICK i \in B : \A k \in B : i <= k BY <2>4, LeastNat
  <2>6. g[0] = w BY <2>1
  <2>7. i # 0 /\ i \in 1..l /\ i - 1 \in 0..l BY <1>2, <2>3, <2>5, <2>6
  <2>8. i - 1 \notin B BY <2>5, <2>7
  <2>9. g[i - 1] \in W BY <2>3, <2>7, <2>8
  <2>10. g[i] \in W BY <1>4, <2>1, <2>7, <2>9
  <2>q. QED BY <2>3, <2>5, <2>10
<1>q. QED BY <1>2, <1>3, <1>6, <1>7

LEMMA PropagatedTyped ==
    ASSUME NEW n \in Nat, constraints \in Seq(ReadType(n)), NEW w \in [1..n -> Int]
    PROVE  Propagated(w) \in [1..n -> Int]
<1>1. PICK l \in Nat : l = Len(constraints) OBVIOUS
<1>2. PICK W : W = [1..n -> Int] OBVIOUS
<1> DEFINE Taken(g) == [i \in 0..l |-> IF i = 0 THEN w ELSE Propagate(g[i - 1])]
           chosen == CHOOSE g : g = Taken(g)
<1>3. Propagated(w) = chosen[l] BY <1>1 DEF Propagated
<1>4. \A v \in W : Propagate(v) \in W BY <1>2, PropagateTyped
<1>5. \E g : g = Taken(g)
  <2>1. PICK f : f = [q \in W \X (1..l) |-> Propagate(q[1])] OBVIOUS
  <2>2. \A v \in W, i \in 1..l : f[<<v, i>>] = Propagate(v) BY <2>1
  <2>3. f \in [W \X (1..l) -> W] BY <1>4, <2>1
  <2>4. PICK p : Repetition(p, W, w, l, f) BY <1>2, <2>3, Repeated
  <2>5. p \in [0..l -> W] /\ p[0] = w /\ \A i \in 1..l : p[i] = f[<<p[i - 1], i>>] BY <2>4 DEF Repetition
  <2>6. \A i \in 1..l : p[i - 1] \in W BY <2>5
  <2>7. \A i \in 1..l : p[i] = Propagate(p[i - 1]) BY <2>2, <2>5, <2>6
  <2>8. \A i \in 0..l : i # 0 => i \in 1..l OBVIOUS
  <2>9. \A i \in 0..l : p[i] = IF i = 0 THEN w ELSE Propagate(p[i - 1]) BY <2>5, <2>7, <2>8
  <2>q. QED BY <2>5, <2>9
<1> HIDE DEF Taken
<1>6. PICK g : g = chosen /\ g = Taken(g) BY <1>5
<1> HIDE DEF chosen
<1>7. \A i \in 0..l : g[i] \in W
  <2>1. \A i \in 0..l : g[i] = IF i = 0 THEN w ELSE Propagate(g[i - 1]) BY <1>6 DEF Taken
  <2>2. SUFFICES ASSUME NEW j \in 0..l, g[j] \notin W PROVE FALSE OBVIOUS
  <2>3. PICK B : B = {i \in 0..l : g[i] \notin W} OBVIOUS
  <2>4. B \in SUBSET Nat /\ j \in B BY <2>2, <2>3
  <2>5. PICK i \in B : \A k \in B : i <= k BY <2>4, LeastNat
  <2>6. g[0] = w BY <2>1
  <2>7. i # 0 /\ i \in 1..l /\ i - 1 \in 0..l BY <1>2, <2>3, <2>5, <2>6
  <2>8. i - 1 \notin B BY <2>5, <2>7
  <2>9. g[i - 1] \in W BY <2>3, <2>7, <2>8
  <2>10. g[i] \in W BY <1>4, <2>1, <2>7, <2>9
  <2>q. QED BY <2>3, <2>5, <2>10
<1>q. QED BY <1>2, <1>3, <1>6, <1>7

(* What it changes to find a second witness is an output.                  *)
LEMMA SearchTargetIsOutput ==
    ASSUME Signals, Unconstrained # {}
    PROVE  SearchTarget \in DOMAIN signals /\ signals[SearchTarget].kind = "output"
<1>1. PICK n \in Nat : n = Len(signals) /\ DOMAIN signals = 1..n BY DEF Signals
<1>2. PICK U : U = Unconstrained OBVIOUS
<1>3. U \in SUBSET Nat /\ \A i \in U : i \in 1..n /\ signals[i].kind = "output" BY <1>1, <1>2 DEF Unconstrained
<1>4. PICK first : first = CHOOSE i \in U : \A j \in U : i <= j OBVIOUS
<1>5. first \in U
  <2>1. \E i \in U : \A j \in U : i <= j BY <1>2, <1>3, LeastNat
  <2>q. QED BY <1>4, <2>1
<1>6. PICK E : E = {i \in 1..n : Same(i, first)} OBVIOUS
<1>7. first \in E BY <1>3, <1>5, <1>6 DEF Same
<1>8. \E i \in 1..n : Same(i, first) /\ \A j \in 1..n : Same(j, first) => i <= j
  <2>1. E \in SUBSET Nat /\ E # {} BY <1>6, <1>7
  <2>2. PICK i \in E : \A j \in E : i <= j BY <2>1, LeastNat
  <2>q. QED BY <1>6, <2>2
<1>9. SearchTarget = CHOOSE i \in 1..n : Same(i, first) /\ \A j \in 1..n : Same(j, first) => i <= j
  BY <1>1, <1>2, <1>4 DEF SearchTarget
<1>10. SearchTarget \in 1..n /\ Same(SearchTarget, first) BY <1>8, <1>9
<1>q. QED BY <1>1, <1>3, <1>5, <1>10 DEF Same

LEMMA HoldIsSatisfied ==
    ASSUME NEW w, ConstraintsHold(w)
    PROVE  Satisfies(w)
BY DEF ConstraintsHold, Satisfies, Equal

LEMMA SearchFindsWitnesses ==
    ASSUME Signals, constraints \in Seq(ReadType(Len(signals))), Unconstrained # {}, NEW pair \in Searches
    PROVE  /\ Satisfies(pair[1]) /\ Satisfies(pair[2]) /\ SameInputs(pair[1], pair[2])
           /\ \E i \in DOMAIN signals : signals[i].kind = "output" /\ pair[1][i] # pair[2][i]
<1>1. PICK n \in Nat : n = Len(signals) /\ DOMAIN signals = 1..n BY DEF Signals
<1>2. PICK t : t = SearchTarget OBVIOUS
<1>3. t \in 1..n /\ signals[t].kind = "output" BY <1>1, <1>2, SearchTargetIsOutput
<1>4. PICK w \in [1..n -> Draws] : pair = LET a == Propagated(w) IN <<a, [a EXCEPT ![t] = @ + 1]>>
  BY <1>1, <1>2 DEF Searches
<1>5. ConstraintsHold(pair[1]) /\ ConstraintsHold(pair[2]) BY DEF Searches
<1>6. PICK a \in [1..n -> Int] : a = Propagated(w)
  <2>1. w \in [1..n -> Int] BY <1>4, CircomAssumption
  <2>q. QED BY <1>1, <2>1, PropagatedTyped
<1>7. PICK b : b = [a EXCEPT ![t] = a[t] + 1] OBVIOUS
<1>8. pair = <<a, b>> BY <1>4, <1>6, <1>7
<1>9. pair[1] = a /\ pair[2] = b BY <1>8
<1>10. \A i \in 1..n : i # t => a[i] = b[i] BY <1>7
<1>11. a[t] # b[t] BY <1>3, <1>7
<1>12. SameInputs(a, b)
  <2>1. \A i \in 1..n : signals[i].kind = "input" => i # t BY <1>3
  <2>q. QED BY <1>1, <1>10, <2>1 DEF SameInputs
<1>q. QED BY <1>1, <1>3, <1>5, <1>9, <1>11, <1>12, HoldIsSatisfied
-----------------------------------------------------------------------------
(* What was read, with the circuit it was read from.                       *)
ReadSoFar ==
    /\ Signals
    /\ constraints \in Seq(ReadType(Len(signals))) /\ meant \in Seq(MeantType(Len(signals)))
ReadAsMeant ==
    plainCircuit => /\ Len(constraints) = Len(meant)
                    /\ \A i \in 1..Len(meant) : Agrees(constraints[i], meant[i], Len(signals))
NotYetChecked == circomStage # "checked" => result = NoResult
CircomInv == ReadSoFar /\ ReadAsMeant /\ NotYetChecked /\ VerdictAboutCircuit

LEMMA StillAgrees ==
    ASSUME NEW n \in Nat, NEW c, NEW m, Agrees(c, m, n)
    PROVE  Agrees(c, m, n + 1)
<1>1. \A w : Valued(w, n + 1) => Valued(w, n)
  <2>1. \A k \in 1..n : k \in 1..(n + 1) OBVIOUS
  <2>q. QED BY <2>1 DEF Valued
<1>q. QED BY <1>1 DEF Agrees

LEMMA SatisfiedIsMeant ==
    ASSUME ReadSoFar, ReadAsMeant, plainCircuit, NEW w \in Witnesses
    PROVE  Satisfies(w) <=> Means(w)
<1>1. PICK n \in Nat : n = Len(signals) /\ DOMAIN signals = 1..n BY DEF ReadSoFar, Signals
<1>2. Valued(w, n)
  <2>1. 0..(Prime - 1) \subseteq Int BY CircomAssumption
  <2>q. QED BY <1>1, <2>1 DEF Witnesses, Valued
<1>3. PICK l \in Nat : l = Len(meant) BY DEF ReadSoFar
<1>4. DOMAIN meant = 1..l /\ DOMAIN constraints = 1..l BY <1>3 DEF ReadSoFar, ReadAsMeant
<1>5. \A i \in 1..l : /\ constraints[i].of = meant[i].rhs
                      /\ Left(constraints[i], w) = Eval(meant[i].lhs, w)
  BY <1>1, <1>2, <1>3 DEF ReadAsMeant, Agrees
<1>q. QED BY <1>4, <1>5 DEF Satisfies, Means

LEMMA VerdictOf ==
    ASSUME ReadSoFar, ReadAsMeant, plainCircuit, Targets # {}
    PROVE  Satisfiable <=> ~Determined
BY SatisfiedIsMeant DEF Satisfiable, Query, TargetsDiffer, Determined

LEMMA InitCircomInv ==
    ASSUME CircomInit
    PROVE  CircomInv
<1> USE DEF CircomInit
<1>1. ReadSoFar
  <2>1. signals \in Seq(Declarations) /\ constraints \in Seq(ReadType(0)) /\ meant \in Seq(MeantType(0)) /\ Len(signals) = 0
    OBVIOUS
  <2>q. QED BY <2>1 DEF ReadSoFar, Signals
<1>2. ReadAsMeant BY DEF ReadAsMeant
<1>3. NotYetChecked BY DEF NotYetChecked
<1>4. VerdictAboutCircuit BY DEF VerdictAboutCircuit, FallbackIsWitness, NoResult
<1>q. QED BY <1>1, <1>2, <1>3, <1>4 DEF CircomInv

LEMMA NoVerdictNext ==
    ASSUME result' = NoResult
    PROVE  VerdictAboutCircuit'
BY DEF VerdictAboutCircuit, FallbackIsWitness, NoResult

LEMMA LongerRead ==
    ASSUME NEW S, NEW s \in Seq(S), NEW e \in S, NEW r, r = Append(s, e)
    PROVE  /\ r \in Seq(S) /\ Len(r) = Len(s) + 1 /\ r[Len(s) + 1] = e
           /\ \A i \in 1..Len(s) : r[i] = s[i]
OBVIOUS

LEMMA DeclareKeeps ==
    ASSUME CircomInv, Declare
    PROVE  CircomInv'
<1> USE DEF CircomInv
<1>1. PICK d \in Declarations :
          /\ circomStage = "reading"
          /\ signals' = Append(signals, d)
          /\ plainCircuit' = (plainCircuit /\ Lookup(d.name) = 0)
          /\ UNCHANGED <<constraints, meant, circomStage, result>>
  BY DEF Declare
<1>2. PICK n \in Nat : n = Len(signals) BY DEF ReadSoFar, Signals
<1>3. signals' \in Seq(Declarations) /\ Len(signals') = n + 1
  <2>1. signals \in Seq(Declarations) BY DEF ReadSoFar, Signals
  <2>q. QED BY <1>1, <1>2, <2>1, LongerRead
<1>4. ReadSoFar'
  <2>1. constraints \in Seq(ReadType(n + 1)) /\ meant \in Seq(MeantType(n + 1)) BY <1>2, WiderTypes DEF ReadSoFar
  <2>q. QED BY <1>1, <1>3, <2>1 DEF ReadSoFar, Signals
<1>5. ReadAsMeant'
  <2>1. ASSUME plainCircuit' PROVE \A i \in 1..Len(meant) : Agrees(constraints[i], meant[i], n + 1)
    <3>1. \A i \in 1..Len(meant) : Agrees(constraints[i], meant[i], n) BY <1>1, <1>2, <2>1 DEF ReadAsMeant
    <3>q. QED BY <1>2, <3>1, StillAgrees
  <2>2. plainCircuit' => Len(constraints) = Len(meant) BY <1>1 DEF ReadAsMeant
  <2>q. QED BY <1>1, <1>3, <2>1, <2>2 DEF ReadAsMeant, Agrees
<1>6. result' = NoResult BY <1>1 DEF NotYetChecked
<1>q. QED BY <1>4, <1>5, <1>6, NoVerdictNext DEF NotYetChecked

LEMMA ConstrainKeeps ==
    ASSUME CircomInv, Constrain
    PROVE  CircomInv'
<1> USE DEF CircomInv
<1>1. PICK op \in {"<==", "==="}, lhs \in Expressions, rhs \in Expressions :
          /\ circomStage = "reading"
          /\ constraints' = Append(constraints, ReadAs(op, lhs, rhs))
          /\ meant' = Append(meant, [lhs |-> Resolve(lhs), rhs |-> Resolve(rhs)])
          /\ plainCircuit' = (plainCircuit /\ Understood(op, lhs, rhs))
          /\ UNCHANGED <<signals, circomStage, result>>
  BY DEF Constrain, ReadAs
<1>2. lhs \in NameExprs /\ rhs \in NameExprs BY CircomAssumption DEF NameExprs
<1>3. PICK n \in Nat : n = Len(signals) BY DEF ReadSoFar, Signals
<1>4. PICK c \in ReadType(n) : c = ReadAs(op, lhs, rhs) BY <1>2, <1>3, ReadRightly DEF ReadSoFar
<1>5. PICK m \in MeantType(n) : m = [lhs |-> Resolve(lhs), rhs |-> Resolve(rhs)]
  BY <1>2, <1>3, ExprResolved DEF MeantType, ReadSoFar
<1>6. PICK k \in Nat : k = Len(constraints) BY DEF ReadSoFar
<1>7. PICK l \in Nat : l = Len(meant) BY DEF ReadSoFar
<1>8. /\ constraints' \in Seq(ReadType(n)) /\ Len(constraints') = k + 1 /\ constraints'[k + 1] = c
      /\ \A i \in 1..k : constraints'[i] = constraints[i]
  <2>1. constraints \in Seq(ReadType(n)) BY <1>3 DEF ReadSoFar
  <2>q. QED BY <1>1, <1>4, <1>6, <2>1, LongerRead
<1>9. /\ meant' \in Seq(MeantType(n)) /\ Len(meant') = l + 1 /\ meant'[l + 1] = m
      /\ \A i \in 1..l : meant'[i] = meant[i]
  <2>1. meant \in Seq(MeantType(n)) BY <1>3 DEF ReadSoFar
  <2>q. QED BY <1>1, <1>5, <1>7, <2>1, LongerRead
<1>10. ReadSoFar' BY <1>1, <1>3, <1>8, <1>9 DEF ReadSoFar, Signals
<1>11. ReadAsMeant'
  <2>1. ASSUME plainCircuit'
        PROVE  k = l /\ \A i \in 1..(l + 1) : Agrees(constraints'[i], meant'[i], n)
    <3>1. k = l /\ \A i \in 1..l : Agrees(constraints[i], meant[i], n) BY <1>1, <1>3, <1>6, <1>7, <2>1 DEF ReadAsMeant
    <3>2. Agrees(c, m, n) BY <1>1, <1>2, <1>3, <1>4, <1>5, <2>1, ReadRightly DEF ReadSoFar
    <3>3. \A i \in 1..(l + 1) : i \in 1..l \/ i = l + 1 OBVIOUS
    <3>q. QED BY <1>8, <1>9, <3>1, <3>2, <3>3
  <2>q. QED BY <1>1, <1>3, <1>8, <1>9, <2>1 DEF ReadAsMeant, Agrees, Valued
<1>12. result' = NoResult BY <1>1 DEF NotYetChecked
<1>q. QED BY <1>10, <1>11, <1>12, NoVerdictNext DEF NotYetChecked

LEMMA DeclareAndConstrainKeeps ==
    ASSUME CircomInv, DeclareAndConstrain
    PROVE  CircomInv'
<1> USE DEF CircomInv
<1>1. PICK d \in Declarations, rhs \in Expressions :
          /\ circomStage = "reading"
          /\ signals' = Append(signals, d)
          /\ meant' = Append(meant, [lhs |-> <<<<Len(signals) + 1>>>>, rhs |-> Resolve(rhs)])
          /\ plainCircuit' = FALSE
          /\ UNCHANGED <<constraints, circomStage, result>>
  BY DEF DeclareAndConstrain
<1>2. PICK n \in Nat : n = Len(signals) BY DEF ReadSoFar, Signals
<1>3. signals' \in Seq(Declarations) /\ Len(signals') = n + 1
  <2>1. signals \in Seq(Declarations) BY DEF ReadSoFar, Signals
  <2>q. QED BY <1>1, <1>2, <2>1, LongerRead
<1>4. PICK left \in Exprs(n + 1) : left = <<<<n + 1>>>>
  <2>1. n + 1 \in (-1)..(n + 1) OBVIOUS
  <2>2. <<n + 1>> \in Seq((-1)..(n + 1)) BY <2>1
  <2>3. <<<<n + 1>>>> \in Seq(Seq((-1)..(n + 1))) BY <2>2
  <2>q. QED BY <2>3 DEF Exprs
<1>5. PICK right \in Exprs(n + 1) : right = Resolve(rhs)
  <2>1. rhs \in NameExprs BY CircomAssumption DEF NameExprs
  <2>2. Resolve(rhs) \in Exprs(n) BY <1>2, <2>1, ExprResolved DEF ReadSoFar
  <2>q. QED BY <2>2, WiderTypes
<1>6. [lhs |-> left, rhs |-> right] \in MeantType(n + 1) BY DEF MeantType
<1>7. constraints \in Seq(ReadType(n + 1)) /\ meant \in Seq(MeantType(n + 1)) BY <1>2, WiderTypes DEF ReadSoFar
<1>8. meant' \in Seq(MeantType(n + 1)) BY <1>1, <1>2, <1>4, <1>5, <1>6, <1>7, LongerRead
<1>9. ReadSoFar' BY <1>1, <1>3, <1>7, <1>8 DEF ReadSoFar, Signals
<1>10. ReadAsMeant' BY <1>1 DEF ReadAsMeant
<1>11. result' = NoResult BY <1>1 DEF NotYetChecked
<1>q. QED BY <1>9, <1>10, <1>11, NoVerdictNext DEF NotYetChecked

(* What is read does not change once the file has ended.                   *)
LEMMA ReadKept ==
    ASSUME CircomInv, UNCHANGED <<signals, constraints, meant, plainCircuit>>
    PROVE  ReadSoFar' /\ ReadAsMeant'
BY DEF CircomInv, ReadSoFar, Signals, ReadAsMeant, Agrees

LEMMA EndOfFileKeeps ==
    ASSUME CircomInv, EndOfFile
    PROVE  CircomInv'
<1>1. UNCHANGED <<signals, constraints, meant, plainCircuit, result>> /\ circomStage = "reading" BY DEF EndOfFile
<1>2. result' = NoResult BY <1>1 DEF CircomInv, NotYetChecked
<1>q. QED BY <1>1, <1>2, ReadKept, NoVerdictNext DEF CircomInv, NotYetChecked

LEMMA SameCircuit ==
    ASSUME UNCHANGED <<signals, constraints, meant, target>>
    PROVE  /\ Determined' <=> Determined
           /\ Targets' = Targets
           /\ \A w : Satisfies(w)' <=> Satisfies(w)
           /\ \A a, b : SameInputs(a, b)' <=> SameInputs(a, b)
<1>1. \A w : Satisfies(w)' <=> Satisfies(w) BY DEF Satisfies, Equal, Left, Eval, Product, Value
<1>2. \A w : Means(w)' <=> Means(w) BY DEF Means, Equal, Eval, Product, Value
<1>3. \A a, b : SameInputs(a, b)' <=> SameInputs(a, b) BY DEF SameInputs
<1>4. Targets' = Targets /\ Witnesses' = Witnesses BY DEF Targets, Witnesses
<1>q. QED BY <1>1, <1>2, <1>3, <1>4 DEF Determined

LEMMA AnsweredKeeps ==
    ASSUME CircomInv, Answered
    PROVE  CircomInv'
<1>1. /\ UNCHANGED <<signals, constraints, meant, plainCircuit, target>> /\ circomStage' = "checked"
      /\ result' = [NoResult EXCEPT !.verdict = IF Satisfiable THEN "under_constrained" ELSE "constrained"]
  BY DEF Answered
<1>2. result'.fallback = <<>> /\ result'.verdict = IF Satisfiable THEN "under_constrained" ELSE "constrained"
  BY <1>1 DEF NoResult
<1>3. FallbackIsWitness' BY <1>2 DEF FallbackIsWitness
<1>4. ASSUME plainCircuit', Targets' # {}
      PROVE  (result'.verdict = "constrained" => Determined') /\ (result'.verdict = "under_constrained" => ~Determined')
  <2>1. plainCircuit /\ Targets # {} BY <1>1, <1>4, SameCircuit
  <2>2. Satisfiable <=> ~Determined BY <2>1, VerdictOf DEF CircomInv
  <2>3. Determined' <=> Determined BY <1>1, SameCircuit
  <2>q. QED BY <1>2, <2>2, <2>3
<1>5. VerdictAboutCircuit' BY <1>3, <1>4 DEF VerdictAboutCircuit
<1>q. QED BY <1>1, <1>5, ReadKept DEF CircomInv, NotYetChecked

LEMMA NotAnsweredKeeps ==
    ASSUME CircomInv, NotAnswered
    PROVE  CircomInv'
<1>1. /\ UNCHANGED <<signals, constraints, meant, plainCircuit, target>> /\ circomStage' = "checked"
  BY DEF NotAnswered
<1>2. PICK pair \in {<<>>} \cup (IF Unconstrained = {} THEN {} ELSE Searches) :
          result' = [verdict |-> "unknown", fallback |-> pair]
  BY DEF NotAnswered
<1>3. result'.verdict = "unknown" /\ result'.fallback = pair BY <1>2
<1>4. FallbackIsWitness'
  <2>1. CASE pair = <<>> BY <1>3, <2>1 DEF FallbackIsWitness
  <2>2. CASE pair # <<>>
    <3>1. Unconstrained # {} /\ pair \in Searches BY <1>2, <2>2
    <3>2. /\ Satisfies(pair[1]) /\ Satisfies(pair[2]) /\ SameInputs(pair[1], pair[2])
          /\ \E i \in DOMAIN signals : signals[i].kind = "output" /\ pair[1][i] # pair[2][i]
      BY <3>1, SearchFindsWitnesses DEF CircomInv, ReadSoFar
    <3>3. PICK a, b : a = pair[1] /\ b = pair[2] OBVIOUS
    <3>4. Satisfies(a)' /\ Satisfies(b)' /\ SameInputs(a, b)' BY <1>1, <3>2, <3>3, SameCircuit
    <3>5. \E i \in DOMAIN signals' : signals'[i].kind = "output" /\ a[i] # b[i] BY <1>1, <3>2, <3>3
    <3>q. QED BY <1>3, <3>3, <3>4, <3>5 DEF FallbackIsWitness, Satisfies, SameInputs
  <2>q. QED BY <2>1, <2>2
<1>5. VerdictAboutCircuit' BY <1>3, <1>4 DEF VerdictAboutCircuit
<1>q. QED BY <1>1, <1>5, ReadKept DEF CircomInv, NotYetChecked

LEMMA StepCircomInv ==
    ASSUME CircomInv, [CircomNext]_circomVars
    PROVE  CircomInv'
<1>1. CASE Declare BY <1>1, DeclareKeeps
<1>2. CASE Constrain BY <1>2, ConstrainKeeps
<1>3. CASE DeclareAndConstrain BY <1>3, DeclareAndConstrainKeeps
<1>4. CASE EndOfFile BY <1>4, EndOfFileKeeps
<1>5. CASE Answered BY <1>5, AnsweredKeeps
<1>6. CASE NotAnswered BY <1>6, NotAnsweredKeeps
<1>7. CASE UNCHANGED circomVars
  <2>1. UNCHANGED <<signals, constraints, meant, plainCircuit, target, circomStage, result>> BY <1>7 DEF circomVars
  <2>2. VerdictAboutCircuit'
    <3>1. FallbackIsWitness'
      <4>1. FallbackIsWitness BY DEF CircomInv, VerdictAboutCircuit
      <4>2. PICK a, b : a = result.fallback[1] /\ b = result.fallback[2] OBVIOUS
      <4>3. /\ Satisfies(a)' <=> Satisfies(a)
            /\ Satisfies(b)' <=> Satisfies(b)
            /\ SameInputs(a, b)' <=> SameInputs(a, b)
        BY <2>1, SameCircuit
      <4>q. QED BY <2>1, <4>1, <4>2, <4>3 DEF FallbackIsWitness, Satisfies, SameInputs
    <3>q. QED BY <2>1, <3>1, SameCircuit DEF CircomInv, VerdictAboutCircuit
  <2>q. QED BY <2>1, <2>2, ReadKept DEF CircomInv, NotYetChecked
<1>q. QED BY <1>1, <1>2, <1>3, <1>4, <1>5, <1>6, <1>7 DEF CircomNext

(* The check is about the circuit: of one that the parser understands the  *)
(* query of the solver is satisfiable exactly when the inputs do not       *)
(* determine the output, over every field and for all signals and          *)
(* constraints, and the pair a random search returns are two witnesses     *)
(* with the same inputs and different outputs.                             *)
THEOREM VerdictIsAboutTheCircuit == CircomSpec => []VerdictAboutCircuit
<1>1. CircomInit => CircomInv BY InitCircomInv
<1>2. CircomInv /\ [CircomNext]_circomVars => CircomInv' BY StepCircomInv
<1>3. CircomInv => VerdictAboutCircuit BY DEF CircomInv
<1>q. QED BY <1>1, <1>2, <1>3, PTL DEF CircomSpec
-----------------------------------------------------------------------------
(* The zero-knowledge analysis.  Every chip at risk stands in the queue    *)
(* once, so the answers that are missing are those of the chips that are   *)
(* left in the queue.                                                      *)
ChipsReported == {zkFindings[i].chip : i \in {k \in DOMAIN zkFindings : zkFindings[k].kind = "halo2"}}
QueuedChips == {queue[i] : i \in DOMAIN queue}
ZkFinding == [kind : {"halo2", "divergence", "binding"}, ordinal : Nat, chip : Chips \cup {"zkvm"}]

ZkInv ==
    /\ zkStage \in {"configure", "synthesize", "check", "zkvm", "done", "failed"}
    /\ known \subseteq Chips /\ queue \in Seq(Chips) /\ unanswered \subseteq Chips
    /\ zkFindings \in Seq(ZkFinding)
    /\ \A i \in DOMAIN zkFindings : zkFindings[i].ordinal = i
    /\ zkStage \in {"configure", "synthesize"} => zkFindings = <<>> /\ queue = <<>> /\ unanswered = {}
    /\ \A i, j \in DOMAIN queue : queue[i] = queue[j] => i = j
    /\ QueuedChips \cap unanswered = {}
    /\ zkStage \in {"check", "zkvm", "done"} => ChipsReported = IsolatedNodes \ (unanswered \cup QueuedChips)
    /\ zkStage \in {"zkvm", "done"} => queue = <<>>

LEMMA AtRisk ==
    ASSUME Halo2Assumption, known \subseteq Chips
    PROVE  HighRisk \subseteq known /\ IsFiniteSet(HighRisk) /\ IsolatedNodes \subseteq HighRisk
<1>1. IsolatedNodes \subseteq known BY DEF IsolatedNodes
<1>2. RangeGaps \cup SelectorConflicts \subseteq known \X known BY DEF RangeGaps, Edges, SelectorConflicts
<1>3. \A p \in RangeGaps \cup SelectorConflicts : {p[1], p[2]} \subseteq known BY <1>2
<1>4. UNION {{p[1], p[2]} : p \in RangeGaps \cup SelectorConflicts} \subseteq known BY <1>3
<1>5. HighRisk \subseteq known /\ IsolatedNodes \subseteq HighRisk BY <1>1, <1>4 DEF HighRisk
<1>6. HighRisk \in SUBSET Chips /\ IsFiniteSet(Chips) BY <1>5 DEF Halo2Assumption
<1>7. IsFiniteSet(HighRisk) BY <1>6, FS_Subset
<1>q. QED BY <1>5, <1>7

LEMMA FindingAppended ==
    ASSUME zkFindings \in Seq(ZkFinding), \A i \in DOMAIN zkFindings : zkFindings[i].ordinal = i,
           NEW kind \in {"halo2", "divergence", "binding"}, NEW c \in Chips \cup {"zkvm"},
           zkFindings' = Append(zkFindings, Finding(kind, c))
    PROVE  /\ zkFindings' \in Seq(ZkFinding) /\ \A i \in DOMAIN zkFindings' : zkFindings'[i].ordinal = i
           /\ ChipsReported' = ChipsReported \cup (IF kind = "halo2" THEN {c} ELSE {})
<1>1. PICK n \in Nat : n = Len(zkFindings) OBVIOUS
<1>2. PICK e \in ZkFinding : e = Finding(kind, c) /\ e.kind = kind /\ e.chip = c /\ e.ordinal = n + 1
  BY <1>1 DEF Finding, ZkFinding
<1>3. /\ zkFindings' \in Seq(ZkFinding) /\ Len(zkFindings') = n + 1 /\ zkFindings'[n + 1] = e
      /\ \A i \in 1..n : zkFindings'[i] = zkFindings[i]
  BY <1>1, <1>2
<1>4. DOMAIN zkFindings = 1..n /\ DOMAIN zkFindings' = 1..(n + 1) BY <1>1, <1>3
<1>5. 1..(n + 1) = 1..n \cup {n + 1} BY <1>1
<1>6. ChipsReported = {zkFindings[i].chip : i \in {k \in 1..n : zkFindings[k].kind = "halo2"}}
  BY <1>4 DEF ChipsReported
<1>7. ChipsReported' = {zkFindings'[i].chip : i \in {k \in 1..(n + 1) : zkFindings'[k].kind = "halo2"}}
  BY <1>4 DEF ChipsReported
<1>8. ASSUME NEW x PROVE x \in ChipsReported' <=> x \in ChipsReported \/ (kind = "halo2" /\ x = c)
  BY <1>2, <1>3, <1>5, <1>6, <1>7
<1>9. ChipsReported' = ChipsReported \cup (IF kind = "halo2" THEN {c} ELSE {}) BY <1>8
<1>10. \A i \in 1..(n + 1) : zkFindings'[i].ordinal = i BY <1>2, <1>3, <1>4, <1>5
<1>q. QED BY <1>3, <1>4, <1>9, <1>10

LEMMA InitZkInv == Halo2Init => ZkInv
<1> SUFFICES ASSUME Halo2Init PROVE ZkInv OBVIOUS
<1>1. zkFindings = <<>> /\ queue = <<>> /\ unanswered = {} /\ known = {} /\ zkStage = "configure" BY DEF Halo2Init
<1>2. QueuedChips \cap unanswered = {} BY <1>1
<1>q. QED BY <1>1, <1>2 DEF ZkInv

LEMMA StepZkInv == Halo2Assumption /\ ZkInv /\ [Halo2Next]_zkVars => ZkInv'
<1> SUFFICES ASSUME Halo2Assumption, ZkInv, [Halo2Next]_zkVars PROVE ZkInv' OBVIOUS
<1>S. ASSUME UNCHANGED <<configured, synthesized, known>> PROVE IsolatedNodes' = IsolatedNodes
  BY <1>S DEF IsolatedNodes, IsolatedIn
<1>R. ASSUME UNCHANGED zkFindings PROVE ChipsReported' = ChipsReported BY <1>R DEF ChipsReported
<1>Q. ASSUME UNCHANGED queue PROVE QueuedChips' = QueuedChips BY <1>Q DEF QueuedChips
<1>1. CASE Extract
  <2>1. /\ zkStage \in {"configure", "synthesize"} /\ zkStage' \in {"configure", "synthesize", "failed"}
        /\ known' \subseteq Chips /\ UNCHANGED <<queue, unanswered, zkFindings>>
    BY <1>1 DEF Extract, ZkInv
  <2>2. zkFindings' = <<>> /\ queue' = <<>> /\ unanswered' = {} BY <2>1 DEF ZkInv
  <2>q. QED BY <2>1, <2>2, <1>Q DEF ZkInv
<1>2. CASE Synthesize \/ Phase3Done \/ UNCHANGED zkVars
  <2>1. UNCHANGED <<configured, synthesized, known, queue, unanswered, tests, zkFindings>>
    BY <1>2 DEF Synthesize, Phase3Done, zkVars
  <2>2. \/ zkStage' = zkStage
        \/ zkStage = "configure" /\ zkStage' = "synthesize"
        \/ zkStage = "zkvm" /\ zkStage' = "done"
    BY <1>2 DEF Synthesize, Phase3Done, zkVars
  <2>q. QED BY <1>S, <1>R, <1>Q, <2>1, <2>2 DEF ZkInv
<1>3. CASE GraphBuilt
  <2>1. /\ zkStage = "synthesize" /\ zkStage' = "check"
        /\ queue' = IF known = {} THEN <<>> ELSE SetToSeq(HighRisk)
        /\ UNCHANGED <<configured, synthesized, known, unanswered, zkFindings>>
    BY <1>3 DEF GraphBuilt
  <2>2. zkFindings = <<>> /\ unanswered = {} /\ known \subseteq Chips BY <2>1 DEF ZkInv
  <2>3. ChipsReported' = {}
    <3>1. DOMAIN zkFindings' = {} BY <2>1, <2>2
    <3>q. QED BY <3>1 DEF ChipsReported
  <2>4. HighRisk \subseteq known /\ IsFiniteSet(HighRisk) /\ IsolatedNodes \subseteq HighRisk BY <2>2, AtRisk
  <2>5. /\ queue' \in Seq(HighRisk) /\ \A i, j \in DOMAIN queue' : queue'[i] = queue'[j] => i = j
        /\ QueuedChips' = HighRisk
    <3>1. CASE known = {}
      <4>1. HighRisk = {} /\ queue' = <<>> BY <2>1, <2>4, <3>1
      <4>2. DOMAIN queue' = {} BY <4>1
      <4>q. QED BY <4>1, <4>2 DEF QueuedChips
    <3>2. CASE known # {}
      <4>1. queue' = SetToSeq(HighRisk) BY <2>1, <3>2
      <4>q. QED BY <2>4, <4>1, EachInSeq DEF QueuedChips
    <3>q. QED BY <3>1, <3>2
  <2>6. queue' \in Seq(Chips)
    <3>1. \A s \in Seq(HighRisk) : s \in Seq(Chips) BY <2>2, <2>4
    <3>q. QED BY <2>5, <3>1
  <2>7. IsolatedNodes' = IsolatedNodes BY <1>S, <2>1
  <2>q. QED BY <2>1, <2>2, <2>3, <2>4, <2>5, <2>6, <2>7 DEF ZkInv
<1>4. CASE CheckChip
  <2>1. PICK answered \in BOOLEAN :
          /\ zkStage = "check" /\ queue # <<>>
          /\ zkFindings' = IF answered /\ QuerySatisfiable(Head(queue))
                           THEN Append(zkFindings, Finding("halo2", Head(queue))) ELSE zkFindings
          /\ unanswered' = IF answered THEN unanswered ELSE unanswered \cup {Head(queue)}
          /\ queue' = Tail(queue)
          /\ UNCHANGED <<zkStage, configured, synthesized, known, tests>>
    BY <1>4 DEF CheckChip
  <2>2. PICK n \in Nat : n = Len(queue) BY DEF ZkInv
  <2>3. queue \in Seq(Chips) /\ n > 0 BY <2>1, <2>2 DEF ZkInv
  <2>4. PICK c \in Chips : c = Head(queue) /\ c = queue[1] BY <2>1, <2>3
  <2>5. \A i, j \in 1..n : queue[i] = queue[j] => i = j BY <2>2 DEF ZkInv
  <2>6. /\ queue' \in Seq(Chips) /\ Len(queue') = n - 1 /\ \A i \in 1..(n - 1) : queue'[i] = queue[i + 1]
    BY <2>1, <2>2, <2>3
  <2>7. DOMAIN queue = 1..n /\ DOMAIN queue' = 1..(n - 1) BY <2>2, <2>3, <2>6
  <2>8. \A i, j \in DOMAIN queue' : queue'[i] = queue'[j] => i = j
    <3>1. \A i \in 1..(n - 1) : i + 1 \in 1..n BY <2>2
    <3>q. QED BY <2>5, <2>6, <2>7, <3>1
  <2>9. QueuedChips = QueuedChips' \cup {c} /\ c \notin QueuedChips'
    <3>1. QueuedChips = {queue[i] : i \in 1..n} /\ QueuedChips' = {queue'[i] : i \in 1..(n - 1)}
      BY <2>7 DEF QueuedChips
    <3>2. 1 \in 1..n /\ \A i \in 1..(n - 1) : i + 1 \in 1..n /\ i + 1 # 1 BY <2>2, <2>3
    <3>3. c \notin QueuedChips' BY <2>4, <2>5, <2>6, <3>1, <3>2
    <3>4. ASSUME NEW x \in QueuedChips PROVE x = c \/ x \in QueuedChips'
      <4>1. PICK i \in 1..n : x = queue[i] BY <3>1
      <4>2. i = 1 \/ (i - 1 \in 1..(n - 1) /\ queue'[i - 1] = queue[i]) BY <2>2, <2>6
      <4>q. QED BY <2>4, <3>1, <4>1, <4>2
    <3>5. ASSUME NEW x \in QueuedChips' PROVE x \in QueuedChips
      BY <2>6, <3>1, <3>2
    <3>6. c \in QueuedChips BY <2>4, <3>1, <3>2
    <3>q. QED BY <3>3, <3>4, <3>5, <3>6
  <2>10. IsolatedNodes' = IsolatedNodes BY <1>S, <2>1
  <2>11. QuerySatisfiable(c) <=> c \in IsolatedNodes BY DEF QuerySatisfiable
  <2>12. /\ zkFindings \in Seq(ZkFinding) /\ \A i \in DOMAIN zkFindings : zkFindings[i].ordinal = i
         /\ ChipsReported = IsolatedNodes \ (unanswered \cup QueuedChips)
         /\ QueuedChips \cap unanswered = {} /\ unanswered \subseteq Chips /\ known \subseteq Chips
    BY <2>1 DEF ZkInv
  <2>13. CASE answered /\ c \in IsolatedNodes
    <3>1. zkFindings' = Append(zkFindings, Finding("halo2", c)) /\ unanswered' = unanswered
      BY <2>1, <2>4, <2>11, <2>13
    <3>2. /\ zkFindings' \in Seq(ZkFinding) /\ \A i \in DOMAIN zkFindings' : zkFindings'[i].ordinal = i
          /\ ChipsReported' = ChipsReported \cup {c}
      BY <2>12, <3>1, FindingAppended
    <3>3. ChipsReported' = IsolatedNodes' \ (unanswered' \cup QueuedChips') BY <2>9, <2>10, <2>12, <2>13, <3>1, <3>2
    <3>4. QueuedChips' \cap unanswered' = {} BY <2>9, <2>12, <3>1
    <3>q. QED BY <2>1, <2>6, <2>8, <2>12, <3>1, <3>2, <3>3, <3>4 DEF ZkInv
  <2>14. CASE ~(answered /\ c \in IsolatedNodes)
    <3>1. zkFindings' = zkFindings /\ unanswered' = IF answered THEN unanswered ELSE unanswered \cup {c}
      BY <2>1, <2>4, <2>11, <2>14
    <3>2. ChipsReported' = ChipsReported BY <1>R, <3>1
    <3>3. ChipsReported' = IsolatedNodes' \ (unanswered' \cup QueuedChips') BY <2>9, <2>10, <2>12, <2>14, <3>1, <3>2
    <3>4. QueuedChips' \cap unanswered' = {} BY <2>9, <2>12, <3>1
    <3>5. unanswered' \subseteq Chips BY <2>12, <3>1
    <3>q. QED BY <2>1, <2>6, <2>8, <2>12, <3>1, <3>3, <3>4, <3>5 DEF ZkInv
  <2>q. QED BY <2>13, <2>14
<1>5. CASE ChipsChecked
  BY <1>5, <1>S, <1>R, <1>Q DEF ChipsChecked, ZkInv
<1>6. CASE ZkvmCheck
  <2>1. PICK answer \in {"same", "divergence", "binding", "error"} :
          /\ zkStage = "zkvm"
          /\ zkFindings' = IF answer \in {"divergence", "binding"} THEN Append(zkFindings, Finding(answer, "zkvm"))
                           ELSE IF answer = "error" THEN <<>> ELSE zkFindings
          /\ zkStage' = IF answer = "error" THEN "failed" ELSE zkStage
          /\ UNCHANGED <<configured, synthesized, known, queue, unanswered>>
    BY <1>6 DEF ZkvmCheck
  <2>2. zkFindings \in Seq(ZkFinding) /\ \A i \in DOMAIN zkFindings : zkFindings[i].ordinal = i BY DEF ZkInv
  <2>3. IsolatedNodes' = IsolatedNodes /\ QueuedChips' = QueuedChips BY <1>S, <1>Q, <2>1
  <2>4. CASE answer \in {"divergence", "binding"}
    <3>1. zkFindings' = Append(zkFindings, Finding(answer, "zkvm")) /\ zkStage' = zkStage BY <2>1, <2>4
    <3>2. /\ zkFindings' \in Seq(ZkFinding) /\ \A i \in DOMAIN zkFindings' : zkFindings'[i].ordinal = i
          /\ ChipsReported' = ChipsReported
      BY <2>2, <2>4, <3>1, FindingAppended
    <3>q. QED BY <2>1, <2>3, <3>1, <3>2 DEF ZkInv
  <2>5. CASE answer = "error"
    <3>1. zkFindings' = <<>> /\ zkStage' = "failed" BY <2>1, <2>5
    <3>q. QED BY <2>1, <2>3, <3>1 DEF ZkInv
  <2>6. CASE answer = "same"
    <3>1. zkFindings' = zkFindings /\ zkStage' = zkStage BY <2>1, <2>6
    <3>q. QED BY <1>R, <2>1, <2>3, <3>1 DEF ZkInv
  <2>q. QED BY <2>4, <2>5, <2>6
<1>q. QED BY <1>1, <1>2, <1>3, <1>4, <1>5, <1>6 DEF Halo2Next

(* However many chips a workspace has and however many queries stay        *)
(* unanswered, a finished analysis reports the under-constrained chips     *)
(* that were answered for and no other, and no ordinal twice.              *)
THEOREM ChipsReportedTruly == Halo2Spec => []ChipFindingsExact
<1>1. Halo2Assumption BY Halo2Assumption
<1>2. ZkInv => ChipFindingsExact
  <2> SUFFICES ASSUME ZkInv, zkStage = "done"
               PROVE  /\ ChipsReported = {c \in known : IsolatedIn(c) # {}} \ unanswered
                      /\ \A i, j \in DOMAIN zkFindings : zkFindings[i].ordinal = zkFindings[j].ordinal => i = j
    BY DEF ChipFindingsExact, ChipsReported
  <2>1. QueuedChips = {}
    <3>1. DOMAIN queue = {} BY DEF ZkInv
    <3>q. QED BY <3>1 DEF QueuedChips
  <2>2. ChipsReported = IsolatedNodes \ unanswered BY <2>1 DEF ZkInv
  <2>q. QED BY <2>2 DEF ZkInv, IsolatedNodes
<1>q. QED BY <1>1, <1>2, InitZkInv, StepZkInv, PTL DEF Halo2Spec
-----------------------------------------------------------------------------
(* Economic checklists.  Every finding is of a vector that the workspace   *)
(* triggers, and the workspace does not change while it is analyzed.       *)
EconFinding == [vector : Vectors, located : BOOLEAN, worded : BOOLEAN]
AllTriggered == \A i \in 1..Len(econFindings) : Triggered(econFindings[i].vector.detection)
EconInv ==
    /\ econStage \in {"checklist", "failed", "workspace", "analyzing", "analyzed"}
    /\ checklist \in Seq(Vectors) /\ econAt \in Nat \ {0}
    /\ econStage \in {"checklist", "failed", "workspace"} => econFindings = <<>>
    /\ econFindings \in Seq(EconFinding)
    /\ AllTriggered

LEMMA StepEconInv == EconInv /\ [EconNext]_econVars => EconInv'
<1> SUFFICES ASSUME EconInv, [EconNext]_econVars PROVE EconInv' OBVIOUS
<1>S. ASSUME UNCHANGED <<sources, indexed, parsing>>, NEW d PROVE Triggered(d)' <=> Triggered(d)
  BY <1>S DEF Triggered, CompiledCode, MatchingCalls, ConstsLike, CalledSymbols, Fields, Consts, Scanned, CallMatches
<1>N. ASSUME econFindings = <<>>, UNCHANGED econFindings PROVE AllTriggered' BY <1>N DEF AllTriggered
<1>1. CASE LoadVectors
  <2>1. PICK v \in Vectors : /\ econStage = "checklist" /\ econStage' \in {"checklist", "failed"}
                             /\ checklist' \in {checklist, Append(checklist, v)} /\ UNCHANGED <<econAt, econFindings>>
    BY <1>1 DEF LoadVectors
  <2>2. checklist' \in Seq(Vectors) BY <2>1 DEF EconInv
  <2>q. QED BY <1>N, <2>1, <2>2 DEF EconInv
<1>2. CASE Loaded
  <2>1. PICK order \in [DOMAIN checklist -> DOMAIN checklist] : checklist' = [i \in DOMAIN order |-> checklist[order[i]]]
    BY <1>2 DEF Loaded
  <2>2. PICK n \in Nat : n = Len(checklist) /\ DOMAIN checklist = 1..n BY DEF EconInv
  <2>3. \A i \in 1..n : checklist[order[i]] \in Vectors BY <2>1, <2>2 DEF EconInv
  <2>4. checklist' \in [1..n -> Vectors] BY <2>1, <2>2, <2>3
  <2>5. \A m \in Nat : \A u : u \in [1..m -> Vectors] => u \in Seq(Vectors) OBVIOUS
  <2>6. checklist' \in Seq(Vectors) BY <2>2, <2>4, <2>5
  <2>7. econStage = "checklist" /\ econStage' = "workspace" /\ UNCHANGED <<econAt, econFindings>> BY <1>2 DEF Loaded
  <2>q. QED BY <1>N, <2>6, <2>7 DEF EconInv
<1>3. CASE AddFile \/ Analyze
  <2>1. econStage = "workspace" /\ econStage' \in {"workspace", "analyzing"} /\ UNCHANGED <<checklist, econAt, econFindings>>
    BY <1>3 DEF AddFile, Analyze
  <2>q. QED BY <1>N, <2>1 DEF EconInv
<1>4. CASE CheckVector
  <2>0. PICK v : v = checklist[econAt] OBVIOUS
  <2>1. PICK worded \in BOOLEAN :
          /\ econStage = "analyzing" /\ econAt <= Len(checklist)
          /\ econFindings' = IF Triggered(v.detection)
                             THEN Append(econFindings, [vector |-> v, located |-> Located(v.detection), worded |-> worded])
                             ELSE econFindings
          /\ econAt' = econAt + 1 /\ UNCHANGED <<econStage, checklist, sources, indexed, parsing>>
    BY <1>4, <2>0 DEF CheckVector
  <2>2. v \in Vectors BY <2>0, <2>1 DEF EconInv
  <2>3. PICK e : e = [vector |-> v, located |-> Located(v.detection), worded |-> worded] OBVIOUS
  <2>4. e \in EconFinding /\ e.vector = v BY <2>2, <2>3 DEF EconFinding, Located
  <2>5. PICK n \in Nat : n = Len(econFindings) BY DEF EconInv
  <2>6. CASE Triggered(v.detection)
    <3>1. econFindings' = Append(econFindings, e) BY <2>1, <2>3, <2>6
    <3>2. /\ econFindings' \in Seq(EconFinding) /\ Len(econFindings') = n + 1 /\ econFindings'[n + 1] = e
          /\ \A i \in 1..n : econFindings'[i] = econFindings[i]
      BY <2>4, <2>5, <3>1 DEF EconInv
    <3>3. \A i \in 1..n : Triggered(econFindings[i].vector.detection) BY <2>5 DEF EconInv, AllTriggered
    <3>4. ASSUME NEW i \in 1..(n + 1) PROVE Triggered(econFindings[i].vector.detection)'
      <4>1. PICK d : d = econFindings'[i].vector.detection OBVIOUS
      <4>2. Triggered(d)
        <5>1. CASE i = n + 1 BY <2>4, <2>6, <3>2, <4>1, <5>1
        <5>2. CASE i \in 1..n BY <3>2, <3>3, <4>1, <5>2
        <5>q. QED BY <2>5, <5>1, <5>2
      <4>3. Triggered(d)' BY <1>S, <2>1, <4>2
      <4>q. QED BY <4>1, <4>3 DEF Triggered, MatchingCalls, ConstsLike
    <3>5. AllTriggered' BY <3>2, <3>4 DEF AllTriggered
    <3>q. QED BY <2>1, <3>2, <3>5 DEF EconInv
  <2>7. CASE ~Triggered(v.detection)
    <3>1. UNCHANGED econFindings BY <2>1, <2>7
    <3>2. AllTriggered' BY <1>S, <2>1, <3>1 DEF EconInv, AllTriggered
    <3>q. QED BY <2>1, <3>1, <3>2 DEF EconInv
  <2>q. QED BY <2>6, <2>7
<1>5. CASE Analyzed \/ UNCHANGED econVars
  <2>1. UNCHANGED <<checklist, sources, indexed, parsing, econAt, econFindings>> BY <1>5 DEF Analyzed, econVars
  <2>2. econStage' = econStage \/ (econStage = "analyzing" /\ econStage' = "analyzed") BY <1>5 DEF Analyzed, econVars
  <2>3. AllTriggered' BY <1>S, <2>1 DEF EconInv, AllTriggered
  <2>q. QED BY <2>1, <2>2, <2>3 DEF EconInv
<1>q. QED BY <1>1, <1>2, <1>3, <1>4, <1>5 DEF EconNext

(* Of a scan that failed nothing is located.                               *)
Blind == ~parsing => \A i \in 1..Len(econFindings) : ~econFindings[i].located

LEMMA FailedScanIsEmpty ==
    ASSUME ~parsing PROVE CalledSymbols = {} /\ Consts = {}
<1>1. Scanned = {} BY DEF Scanned
<1>q. QED BY <1>1 DEF CalledSymbols, Consts

LEMMA StepBlind == EconInv /\ Blind /\ [EconNext]_econVars => Blind'
<1> SUFFICES ASSUME EconInv, Blind, [EconNext]_econVars PROVE Blind' OBVIOUS
<1>1. CASE LoadVectors \/ Loaded \/ AddFile \/ Analyzed \/ UNCHANGED econVars
  <2>1. UNCHANGED <<parsing, econFindings>> BY <1>1 DEF LoadVectors, Loaded, AddFile, Analyzed, econVars
  <2>q. QED BY <2>1 DEF Blind
<1>2. CASE Analyze
  <2>1. econFindings' = <<>> BY <1>2 DEF Analyze, EconInv
  <2>q. QED BY <2>1 DEF Blind
<1>3. CASE CheckVector
  <2>0. PICK v : v = checklist[econAt] OBVIOUS
  <2>1. PICK worded \in BOOLEAN :
          /\ econFindings' = IF Triggered(v.detection)
                             THEN Append(econFindings, [vector |-> v, located |-> Located(v.detection), worded |-> worded])
                             ELSE econFindings
          /\ UNCHANGED parsing
    BY <1>3, <2>0 DEF CheckVector
  <2> SUFFICES ASSUME ~parsing PROVE \A i \in 1..Len(econFindings') : ~econFindings'[i].located
    BY <2>1 DEF Blind
  <2>2. ~Located(v.detection) BY FailedScanIsEmpty DEF Located, MatchingCalls, ConstsLike
  <2>3. PICK e : e = [vector |-> v, located |-> Located(v.detection), worded |-> worded] OBVIOUS
  <2>4. ~e.located BY <2>2, <2>3
  <2>5. PICK n \in Nat : n = Len(econFindings) BY DEF EconInv
  <2>6. \A i \in 1..n : ~econFindings[i].located BY <2>5 DEF Blind
  <2>7. CASE econFindings' = Append(econFindings, e)
    <3>1. /\ Len(econFindings') = n + 1 /\ econFindings'[n + 1] = e
          /\ \A i \in 1..n : econFindings'[i] = econFindings[i]
      BY <2>5, <2>7 DEF EconInv
    <3>q. QED BY <2>4, <2>5, <2>6, <3>1
  <2>8. CASE econFindings' = econFindings BY <2>5, <2>6, <2>8
  <2>q. QED BY <2>1, <2>3, <2>7, <2>8
<1>q. QED BY <1>1, <1>2, <1>3 DEF EconNext

(* Of any number of files and vectors, in whatever order they were read,   *)
(* no finding says that a call is absent that a readable file makes, even  *)
(* by the tail of its path only, unless the scan failed altogether: then   *)
(* the semantic index has calls and no finding points at code.             *)
THEOREM AbsenceIsProved == EconSpec => []AbsenceIsReal
<1>1. EconomicAssumption BY EconomicAssumption
<1>2. EconInit => EconInv /\ Blind
  <2> SUFFICES ASSUME EconInit PROVE EconInv /\ Blind OBVIOUS
  <2>1. EconInv BY DEF EconInit, EconInv, AllTriggered
  <2>2. Blind BY DEF EconInit, Blind
  <2>q. QED BY <2>1, <2>2
<1>3. EconomicAssumption /\ EconInv /\ Blind => AbsenceIsReal
  <2> SUFFICES ASSUME EconomicAssumption, EconInv, Blind, NEW i \in DOMAIN econFindings,
                      econFindings[i].vector.detection.kind = "call_absent"
               PROVE  \/ \A f \in ToSet(sources) : f.readable =>
                             ~\E c \in f.calls, p \in econFindings[i].vector.detection.patterns :
                                 SymbolTail[c] = SymbolTail[p]
                      \/ ~parsing /\ indexed /\ \A j \in DOMAIN econFindings : ~econFindings[j].located
    BY DEF AbsenceIsReal
  <2>1. PICK v : v = econFindings[i].vector /\ v \in Vectors /\ Triggered(v.detection)
    <3>1. i \in 1..Len(econFindings) /\ econFindings[i] \in EconFinding BY DEF EconInv
    <3>2. econFindings[i].vector \in Vectors BY <3>1 DEF EconFinding
    <3>3. Triggered(econFindings[i].vector.detection) BY <3>1 DEF EconInv, AllTriggered
    <3>q. QED BY <3>2, <3>3
  <2>2. PICK d : d = v.detection /\ d \in Detections /\ d.kind = "call_absent" BY <2>1 DEF Vectors
  <2>3. d.patterns \subseteq Symbols BY <2>2 DEF Detections
  <2>4. MatchingCalls(d.patterns) = {} /\ CompiledCode BY <2>1, <2>2 DEF Triggered
  <2>5. ASSUME ~parsing PROVE indexed /\ \A j \in DOMAIN econFindings : ~econFindings[j].located
    <3>1. indexed BY <2>4, <2>5, FailedScanIsEmpty DEF CompiledCode
    <3>2. DOMAIN econFindings = 1..Len(econFindings) BY DEF EconInv
    <3>q. QED BY <2>5, <3>1, <3>2 DEF Blind
  <2>6. ASSUME parsing, NEW f \in ToSet(sources), f.readable, NEW c \in f.calls, NEW p \in d.patterns
        PROVE  SymbolTail[c] # SymbolTail[p]
    <3>1. c \in CalledSymbols BY <2>6 DEF ToSet, CalledSymbols, Scanned
    <3>2. ~CallMatches(c, p) BY <2>4, <3>1 DEF MatchingCalls
    <3>3. <<SymbolTail[p], SymbolTail[p]>> \in Containing BY <2>3 DEF EconomicAssumption
    <3>q. QED BY <3>2, <3>3 DEF CallMatches
  <2>q. QED BY <2>1, <2>2, <2>5, <2>6
<1>q. QED BY <1>1, <1>2, <1>3, StepEconInv, StepBlind, PTL DEF EconSpec
-----------------------------------------------------------------------------
(* Supply chains.  The levels of the graph are what the search goes        *)
(* through: what is at most n calls away from a crypto entry.              *)
Farthest == Cardinality(Functions) + NearDepth
CalledFrom(S) == {g \in Functions : \E f \in S : <<f, g>> \in calls}
Levels(w) ==
    /\ w \in [0..Farthest -> SUBSET Functions] /\ w[0] = CryptoEntries
    /\ \A n \in 1..Farthest : w[n] = w[n - 1] \cup CalledFrom(w[n - 1])
EndOf(path) == path[Len(path)]

\* A path of the queue: a shortest chain of calls from an entry to its end.
IsChain(w, path) ==
    /\ path \in Seq(Functions) /\ Len(path) \in 1..Cardinality(Functions)
    /\ path[1] \in CryptoEntries
    /\ \A i \in 1..(Len(path) - 1) : <<path[i], path[i + 1]>> \in calls
    /\ \A i, j \in 1..Len(path) : path[i] = path[j] => i = j
    /\ \A i \in 1..Len(path) : path[i] \in visited
    /\ EndOf(path) \in w[Len(path) - 1]
    /\ \A n \in 0..(Len(path) - 2) : EndOf(path) \notin w[n]

\* The queue is in order of length, what was visited waits in it or led to all
\* of its callees, and all of the level of its front was visited.
Waiting(f) == \E k \in 1..Len(paths) : EndOf(paths[k]) = f
Expanded(f) == f # advisory.affected /\ Callees(f) \subseteq visited
ByLength(s) == \A k, l \in 1..Len(s) : k < l => Len(s[k]) <= Len(s[l]) /\ Len(s[l]) <= Len(s[k]) + 1
BreadthFirst(w) ==
    /\ \A k \in 1..Len(paths) : IsChain(w, paths[k])
    /\ ByLength(paths)
    /\ \A f \in visited : Waiting(f) \/ Expanded(f)
    /\ paths # <<>> => \A n \in 0..(Len(paths[1]) - 1) : w[n] \subseteq visited
    /\ CryptoEntries \subseteq visited

JudgedRightly(w) ==
    IF judged.chain = <<>>
    THEN judged.severity = advisory.severity /\ \A n \in 0..Farthest : advisory.affected \notin w[n]
    ELSE /\ IsChain(w, judged.chain) /\ EndOf(judged.chain) = advisory.affected
         /\ judged.severity = Adjusted(judged.chain)

SearchesRightly == \A w : Levels(w) => BreadthFirst(w)
JudgesRightly == \A w : Levels(w) => JudgedRightly(w)
SupplyInv ==
    /\ supplyStage \in {"scanning", "failed", "searching", "judged"}
    /\ defined \subseteq Functions /\ calls \subseteq Functions \X Functions
    /\ supplyStage \in {"searching", "judged"} => advisory \in Advisories
    /\ supplyStage = "searching" => /\ ~advisory.dev
                                    /\ paths \in Seq(Seq(Functions)) /\ visited \subseteq Functions
                                    /\ SearchesRightly
    /\ supplyStage = "judged" /\ ~advisory.dev => JudgesRightly
-----------------------------------------------------------------------------
LEMMA SupplySize == SupplyAssumption => Cardinality(Functions) \in Nat /\ Farthest \in Nat
BY FS_CardinalityType DEF SupplyAssumption, Farthest

(* The recursion of NearEntry has values: they are the levels.             *)
LEMMA NearIsLevels ==
    ASSUME SupplyAssumption, defined \subseteq Functions
    PROVE  Levels(NearEntry)
<1>1. PICK N \in Nat : N = Farthest BY SupplySize
<1>2. CryptoEntries \in SUBSET Functions BY DEF CryptoEntries
<1> DEFINE next == [p \in (SUBSET Functions) \X (1..N) |-> p[1] \cup CalledFrom(p[1])]
<1>3. next \in [(SUBSET Functions) \X (1..N) -> SUBSET Functions] BY DEF CalledFrom
<1>4. \A S \in SUBSET Functions, i \in 1..N : next[<<S, i>>] = S \cup CalledFrom(S) OBVIOUS
<1> HIDE DEF next
<1>5. PICK w : Repetition(w, SUBSET Functions, CryptoEntries, N, next) BY <1>1, <1>2, <1>3, Repeated
<1>6. w \in [0..N -> SUBSET Functions] /\ w[0] = CryptoEntries /\ \A i \in 1..N : w[i] = next[<<w[i - 1], i>>]
  BY <1>5 DEF Repetition
<1>7. ASSUME NEW i \in 1..N PROVE w[i] = w[i - 1] \cup CalledFrom(w[i - 1])
  <2>1. i - 1 \in 0..N BY <1>1
  <2>2. w[i - 1] \in SUBSET Functions BY <1>6, <2>1
  <2>q. QED BY <1>4, <1>6, <2>2
<1> DEFINE Body(g, n) == IF n = 0 THEN CryptoEntries ELSE g[n - 1] \cup {h \in Functions : \E f \in g[n - 1] : <<f, h>> \in calls}
<1>8. ASSUME NEW n \in 0..N PROVE w[n] = Body(w, n)
  <2>1. CASE n = 0 BY <1>6, <2>1
  <2>2. CASE n # 0
    <3>1. n \in 1..N BY <1>1, <2>2
    <3>2. w[n] = w[n - 1] \cup CalledFrom(w[n - 1]) BY <1>7, <3>1
    <3>q. QED BY <2>2, <3>2 DEF CalledFrom
  <2>q. QED BY <2>1, <2>2
<1>9. w = [n \in 0..N |-> w[n]] BY <1>6
<1>10. w = [n \in 0..N |-> Body(w, n)] BY <1>8, <1>9
<1>11. NearEntry = CHOOSE g : g = [n \in 0..N |-> Body(g, n)] BY <1>1 DEF NearEntry, Farthest
<1>12. NearEntry = [n \in 0..N |-> Body(NearEntry, n)] BY <1>10, <1>11, ZenonT(30)
<1>13. PICK near : near = NearEntry OBVIOUS
<1>14. near = [n \in 0..N |-> Body(near, n)] BY <1>12, <1>13
<1>15. near[0] = CryptoEntries BY <1>1, <1>14
<1>16. ASSUME NEW i \in 1..N PROVE near[i] = near[i - 1] \cup CalledFrom(near[i - 1])
  <2>1. i \in 0..N /\ i # 0 BY <1>1
  <2>2. near[i] = Body(near, i) BY <1>14, <2>1
  <2>q. QED BY <2>1, <2>2 DEF CalledFrom
<1>17. ASSUME NEW i \in 0..N PROVE near[i] \in SUBSET Functions
  <2> DEFINE B == {n \in 0..N : near[n] \notin SUBSET Functions}
  <2>1. CASE B = {} BY <2>1
  <2>2. CASE B # {}
    <3>1. B \in SUBSET Nat BY <1>1
    <3>2. PICK m \in B : \A k \in B : m <= k BY <2>2, <3>1, LeastNat
    <3>3. m \in 0..N /\ near[m] \notin SUBSET Functions BY <3>2
    <3>4. m # 0 BY <1>2, <1>15, <3>3
    <3>5. m \in 1..N /\ m - 1 \in 0..N /\ ~(m <= m - 1) BY <1>1, <3>3, <3>4
    <3>6. near[m - 1] \in SUBSET Functions BY <3>2, <3>5
    <3>q. QED BY <1>16, <3>3, <3>5, <3>6 DEF CalledFrom
  <2>q. QED BY <2>1, <2>2
<1>18. near \in [0..N -> SUBSET Functions]
  <2>1. near = [n \in 0..N |-> near[n]] BY <1>14
  <2>q. QED BY <1>17, <2>1
<1>q. QED BY <1>1, <1>13, <1>15, <1>16, <1>18 DEF Levels

LEMMA LevelsGrow ==
    ASSUME SupplyAssumption, NEW w, Levels(w), NEW m \in 0..Farthest, NEW n \in m..Farthest
    PROVE  w[m] \subseteq w[n]
<1>1. PICK N \in Nat : N = Farthest BY SupplySize
<1> DEFINE B == {k \in m..N : ~(w[m] \subseteq w[k])}
<1>2. CASE B = {} BY <1>1, <1>2
<1>3. CASE B # {}
  <2>1. B \in SUBSET Nat BY <1>1
  <2>2. PICK k \in B : \A j \in B : k <= j BY <1>3, <2>1, LeastNat
  <2>3. k \in m..N /\ ~(w[m] \subseteq w[k]) BY <2>2
  <2>4. k # m BY <2>3
  <2>5. k \in 1..N /\ k - 1 \in m..N /\ ~(k <= k - 1) BY <1>1, <2>3, <2>4
  <2>6. w[m] \subseteq w[k - 1] BY <2>2, <2>5
  <2>7. w[k] = w[k - 1] \cup CalledFrom(w[k - 1]) BY <1>1, <2>5 DEF Levels
  <2>q. QED BY <2>3, <2>6, <2>7
<1>q. QED BY <1>2, <1>3

(* An order of a finite set has each of its elements once.                 *)
LEMMA ArrangedAll ==
    ASSUME NEW S, IsFiniteSet(S), NEW order \in Arrangements(S)
    PROVE  /\ Cardinality(S) \in Nat /\ order \in [1..Cardinality(S) -> S]
           /\ \A f \in S : \E i \in 1..Cardinality(S) : order[i] = f
<1>1. PICK l \in Nat : l = Cardinality(S) BY FS_CardinalityType
<1>2. order \in [1..l -> S] /\ \A i, j \in 1..l : order[i] = order[j] => i = j BY <1>1 DEF Arrangements
<1>3. order \in Injection(1..l, S) BY <1>2 DEF Injection, IsInjective
<1>4. IsFiniteSet(1..l) /\ Cardinality(1..l) = l BY <1>1, FS_Interval
<1>5. order \in Surjection(1..l, S) BY <1>1, <1>3, <1>4, FS_Injection
<1>q. QED BY <1>1, <1>2, <1>5 DEF Surjection
-----------------------------------------------------------------------------
LEMMA TakeStarts ==
    ASSUME SupplyAssumption, SupplyInv, NEW w, Levels(w), Take, supplyStage' = "searching"
    PROVE  paths' \in Seq(Seq(Functions)) /\ visited' \subseteq Functions /\ BreadthFirst(w)'
<1>1. PICK order \in Arrangements(CryptoEntries) :
        paths' = [i \in DOMAIN order |-> <<order[i]>>] /\ visited' = CryptoEntries /\ UNCHANGED <<defined, calls>>
  BY DEF Take
<1>2. CryptoEntries \in SUBSET Functions BY DEF SupplyInv, CryptoEntries
<1>3. IsFiniteSet(CryptoEntries) BY <1>2, FS_Subset DEF SupplyAssumption
<1>4. PICK c \in Nat : c = Cardinality(CryptoEntries) BY <1>3, ArrangedAll
<1>5. order \in [1..c -> CryptoEntries] /\ \A f \in CryptoEntries : \E i \in 1..c : order[i] = f
  BY <1>3, <1>4, ArrangedAll
<1>6. c <= Cardinality(Functions) /\ Cardinality(Functions) \in Nat
  BY <1>2, <1>4, FS_Subset, FS_CardinalityType DEF SupplyAssumption
<1>7. paths' = [i \in 1..c |-> <<order[i]>>] BY <1>1, <1>5
<1>8. paths' \in Seq(Seq(Functions)) /\ Len(paths') = c /\ \A i \in 1..c : paths'[i] = <<order[i]>>
  <2>1. \A i \in 1..c : <<order[i]>> \in Seq(Functions) BY <1>2, <1>5
  <2>2. paths' \in [1..c -> Seq(Functions)] BY <1>7, <2>1
  <2>3. \A n \in Nat : \A u : u \in [1..n -> Seq(Functions)] => u \in Seq(Seq(Functions)) /\ Len(u) = n OBVIOUS
  <2>q. QED BY <1>7, <2>2, <2>3
<1>9. CryptoEntries' = CryptoEntries BY <1>1 DEF CryptoEntries
<1>10. w[0] = CryptoEntries BY DEF Levels
<1>11. ASSUME NEW k \in 1..c PROVE IsChain(w, paths[k])' /\ EndOf(paths'[k]) = order[k] /\ Len(paths'[k]) = 1
  <2>1. PICK f \in CryptoEntries : f = order[k] BY <1>5
  <2>2. PICK path : path = paths'[k] OBVIOUS
  <2>3. path \in Seq(Functions) /\ path = <<f>> /\ Len(path) = 1 /\ path[1] = f
    <3>1. path = <<f>> BY <1>8, <2>1, <2>2
    <3>2. f \in Functions BY <1>2, <2>1
    <3>q. QED BY <3>1, <3>2
  <2>4. c >= 1 BY <1>4
  <2>5. 1 \in 1..Cardinality(Functions) BY <1>4, <1>6, <2>4
  <2>6. EndOf(path) = f BY <2>3 DEF EndOf
  <2>7. f \in visited' /\ f \in CryptoEntries' /\ f \in w[0] BY <1>1, <1>9, <1>10, <2>1
  <2>8. (1..(Len(path) - 1)) = {} /\ (0..(Len(path) - 2)) = {} /\ 1..Len(path) = {1} /\ Len(path) - 1 = 0 BY <2>3
  <2>9. IsChain(w, path)' BY <2>3, <2>5, <2>6, <2>7, <2>8 DEF IsChain
  <2>10. IsChain(w, paths[k])' BY <2>2, <2>9 DEF IsChain, EndOf
  <2>q. QED BY <2>1, <2>2, <2>3, <2>6, <2>10
<1>12. ByLength(paths')
  <2>1. \A k \in 1..c : Len(paths'[k]) = 1 BY <1>11
  <2>q. QED BY <1>8, <2>1 DEF ByLength
<1>13. ASSUME NEW f \in visited' PROVE Waiting(f)'
  <2>1. PICK i \in 1..c : order[i] = f BY <1>1, <1>5
  <2>q. QED BY <1>8, <1>11, <2>1 DEF Waiting
<1>14. ASSUME paths' # <<>> PROVE \A n \in 0..(Len(paths'[1]) - 1) : w[n] \subseteq visited'
  <2>1. 1 \in 1..c BY <1>8, <1>14
  <2>2. Len(paths'[1]) = 1 BY <1>11, <2>1
  <2>3. 0..(Len(paths'[1]) - 1) = {0} BY <2>2
  <2>q. QED BY <1>1, <1>10, <2>3
<1>15. BreadthFirst(w)' BY <1>1, <1>8, <1>9, <1>11, <1>12, <1>13, <1>14 DEF BreadthFirst
<1>q. QED BY <1>1, <1>2, <1>8, <1>15

(* When the queue is empty everything that was visited led to all of its   *)
(* callees: no level has the affected function.                            *)
LEMMA NothingElseReached ==
    ASSUME SupplyAssumption, NEW w, Levels(w), BreadthFirst(w), paths = <<>>
    PROVE  \A n \in 0..Farthest : advisory.affected \notin w[n]
<1>1. PICK N \in Nat : N = Farthest BY SupplySize
<1>2. \A f \in visited : Expanded(f) BY DEF BreadthFirst, Waiting
<1>3. ASSUME NEW n \in 0..N PROVE w[n] \subseteq visited
  <2> DEFINE B == {k \in 0..N : ~(w[k] \subseteq visited)}
  <2>1. CASE B = {} BY <2>1
  <2>2. CASE B # {}
    <3>1. B \in SUBSET Nat BY <1>1
    <3>2. PICK m \in B : \A k \in B : m <= k BY <2>2, <3>1, LeastNat
    <3>3. m \in 0..N /\ ~(w[m] \subseteq visited) BY <3>2
    <3>4. m # 0 BY <3>3 DEF Levels, BreadthFirst
    <3>5. m \in 1..N /\ m - 1 \in 0..N /\ ~(m <= m - 1) BY <1>1, <3>3, <3>4
    <3>6. w[m - 1] \subseteq visited BY <3>2, <3>5
    <3>7. w[m] = w[m - 1] \cup CalledFrom(w[m - 1]) BY <1>1, <3>5 DEF Levels
    <3>8. CalledFrom(w[m - 1]) \subseteq visited BY <1>2, <3>6 DEF CalledFrom, Expanded, Callees
    <3>q. QED BY <3>3, <3>6, <3>7, <3>8
  <2>q. QED BY <2>1, <2>2
<1>4. advisory.affected \notin visited BY <1>2 DEF Expanded
<1>q. QED BY <1>1, <1>3, <1>4
-----------------------------------------------------------------------------
(* A chain that goes on to what was not visited is still a chain: what is  *)
(* nearer was visited.                                                     *)
LEMMA ChainGoesOn ==
    ASSUME SupplyAssumption, NEW w, Levels(w), NEW path, IsChain(w, path), calls \subseteq Functions \X Functions,
           NEW g \in Callees(EndOf(path)), g \notin visited,
           \A n \in 0..(Len(path) - 1) : w[n] \subseteq visited,
           UNCHANGED <<defined, calls>>, visited \subseteq visited', g \in visited'
    PROVE  /\ IsChain(w, Append(path, g))' /\ Append(path, g) \in Seq(Functions)
           /\ Len(Append(path, g)) = Len(path) + 1 /\ EndOf(Append(path, g)) = g
<1>1. PICK F \in Nat : F = Cardinality(Functions) BY SupplySize
<1>2. PICK l \in 1..F : l = Len(path) BY <1>1 DEF IsChain
<1>3. /\ path \in Seq(Functions) /\ path[1] \in CryptoEntries
      /\ \A i \in 1..(l - 1) : <<path[i], path[i + 1]>> \in calls
      /\ \A i, j \in 1..l : path[i] = path[j] => i = j
      /\ \A i \in 1..l : path[i] \in visited
      /\ path[l] \in w[l - 1]
  BY <1>2 DEF IsChain, EndOf
<1>4. g \in Functions /\ <<path[l], g>> \in calls BY <1>2 DEF Callees, EndOf
<1>5. PICK longer \in Seq(Functions) : longer = Append(path, g)
  <2>1. path \in Seq(Functions) /\ g \in Functions BY <1>3, <1>4
  <2>2. Append(path, g) \in Seq(Functions) BY ONLY <2>1
  <2>q. QED BY <2>2
<1>6. Len(longer) = l + 1 /\ longer[l + 1] = g /\ \A i \in 1..l : longer[i] = path[i] BY <1>2, <1>3, <1>5
<1>7. l \in Nat /\ 1..(l + 1) = 1..l \cup {l + 1} /\ 1 \in 1..l /\ l + 1 \notin 1..l BY <1>1, <1>2
<1>8. \A i, j \in 1..(l + 1) : longer[i] = longer[j] => i = j BY <1>3, <1>6, <1>7
<1>9. l + 1 <= F
  <2>1. longer \in [1..(l + 1) -> Functions] BY <1>6
  <2>2. longer \in Injection(1..(l + 1), Functions) BY <1>8, <2>1 DEF Injection, IsInjective
  <2>3. IsFiniteSet(1..(l + 1)) /\ Cardinality(1..(l + 1)) = l + 1 BY <1>7, FS_Interval
  <2>4. Cardinality(1..(l + 1)) <= Cardinality(Functions) BY <2>2, <2>3, FS_Injection DEF SupplyAssumption
  <2>q. QED BY <1>1, <2>3, <2>4
<1>10. \A i \in 1..l : <<longer[i], longer[i + 1]>> \in calls
  <2>1. \A i \in 1..l : i # l => i \in 1..(l - 1) /\ i + 1 \in 1..l BY <1>7
  <2>q. QED BY <1>3, <1>4, <1>6, <2>1
<1>11. g \in w[l]
  <2>1. l \in 1..Farthest BY <1>1, <1>2 DEF Farthest, SupplyAssumption
  <2>2. w[l] = w[l - 1] \cup CalledFrom(w[l - 1]) BY <2>1 DEF Levels
  <2>3. g \in CalledFrom(w[l - 1]) BY <1>3, <1>4 DEF CalledFrom
  <2>q. QED BY <2>2, <2>3
<1>12. \A n \in 0..(l - 1) : g \notin w[n] BY <1>2
<1>13. CryptoEntries' = CryptoEntries BY DEF CryptoEntries
<1>14. \A i \in 1..(l + 1) : longer[i] \in visited' BY <1>3, <1>6, <1>7
<1>15. EndOf(longer) = g BY <1>6 DEF EndOf
<1>16. Len(longer) \in 1..F /\ Len(longer) - 1 = l /\ Len(longer) - 2 = l - 1 BY <1>6, <1>7, <1>9, <1>1
<1>17. longer[1] \in CryptoEntries' BY <1>3, <1>6, <1>7, <1>13
<1>18. IsChain(w, longer)' BY <1>1, <1>6, <1>8, <1>10, <1>11, <1>12, <1>14, <1>15, <1>16, <1>17 DEF IsChain
<1>q. QED BY <1>2, <1>5, <1>6, <1>15, <1>18

LEMMA ChainStays ==
    ASSUME NEW w, NEW path, IsChain(w, path), UNCHANGED <<defined, calls>>, visited \subseteq visited'
    PROVE  IsChain(w, path)'
<1>1. CryptoEntries' = CryptoEntries BY DEF CryptoEntries
<1>q. QED BY <1>1 DEF IsChain

LEMMA VisitFinds ==
    ASSUME SupplyInv, NEW w, Levels(w), Visit, EndOf(Head(paths)) = advisory.affected
    PROVE  supplyStage' = "judged" /\ UNCHANGED <<defined, calls, advisory>> /\ JudgedRightly(w)'
<1>1. /\ supplyStage = "searching" /\ paths # <<>> /\ supplyStage' = "judged"
      /\ judged' = [chain |-> Head(paths), severity |-> Adjusted(Head(paths))]
      /\ UNCHANGED <<paths, visited, defined, calls, advisory>>
  BY DEF Visit, EndOf
<1>2. BreadthFirst(w) /\ paths \in Seq(Seq(Functions)) BY <1>1 DEF SupplyInv, SearchesRightly
<1>3. PICK path : path = Head(paths) /\ IsChain(w, path)
  <2>1. 1 \in 1..Len(paths) /\ Head(paths) = paths[1] BY <1>1, <1>2
  <2>q. QED BY <1>2, <2>1 DEF BreadthFirst
<1>4. IsChain(w, path)' BY <1>1, <1>3, ChainStays
<1>5. path # <<>> BY <1>3 DEF IsChain
<1>6. Adjusted(path)' = Adjusted(path) BY <1>1 DEF Adjusted
<1>q. QED BY <1>1, <1>3, <1>4, <1>5, <1>6 DEF JudgedRightly, EndOf

LEMMA VisitContinues ==
    ASSUME SupplyAssumption, SupplyInv, NEW w, Levels(w), Visit, EndOf(Head(paths)) # advisory.affected
    PROVE  /\ supplyStage' = "searching" /\ UNCHANGED <<defined, calls, advisory>>
           /\ paths' \in Seq(Seq(Functions)) /\ visited' \subseteq Functions /\ BreadthFirst(w)'
<1>1. PICK path : path = Head(paths) OBVIOUS
<1>2. PICK new : new = Callees(EndOf(path)) \ visited OBVIOUS
<1>3. PICK order \in Arrangements(new) :
        /\ paths' = Tail(paths) \o [i \in DOMAIN order |-> Append(path, order[i])]
        /\ visited' = visited \cup new
  BY <1>1, <1>2 DEF Visit, EndOf, PushBack
<1>4. supplyStage = "searching" /\ supplyStage' = "searching" /\ paths # <<>> /\ UNCHANGED <<defined, calls, advisory>>
  BY DEF Visit, EndOf
<1>5. /\ BreadthFirst(w) /\ paths \in Seq(Seq(Functions)) /\ visited \subseteq Functions
      /\ calls \subseteq Functions \X Functions
  BY <1>4 DEF SupplyInv, SearchesRightly
<1>6. PICK p \in Nat : p = Len(paths) BY <1>5
<1>7. p >= 1 /\ path = paths[1] BY <1>1, <1>4, <1>5, <1>6
<1>8. \A k \in 1..p : IsChain(w, paths[k]) BY <1>5, <1>6 DEF BreadthFirst
<1>9. PICK l \in Nat : l = Len(path) /\ l >= 1
  <2>1. IsChain(w, path) BY <1>6, <1>7, <1>8
  <2>q. QED BY <2>1, SupplySize DEF IsChain
<1>10. \A n \in 0..(l - 1) : w[n] \subseteq visited BY <1>4, <1>5, <1>7, <1>9 DEF BreadthFirst
<1>11. new \in SUBSET Functions /\ IsFiniteSet(new)
  <2>1. new \in SUBSET Functions BY <1>2 DEF Callees
  <2>q. QED BY <2>1, FS_Subset DEF SupplyAssumption
<1>12. PICK c \in Nat : c = Cardinality(new) BY <1>11, ArrangedAll
<1>13. order \in [1..c -> new] /\ \A f \in new : \E i \in 1..c : order[i] = f BY <1>11, <1>12, ArrangedAll
<1>14. ASSUME NEW i \in 1..c
       PROVE  /\ IsChain(w, Append(path, order[i]))' /\ Append(path, order[i]) \in Seq(Functions)
              /\ Len(Append(path, order[i])) = l + 1 /\ EndOf(Append(path, order[i])) = order[i]
  <2>1. PICK g : g = order[i] /\ g \in Callees(EndOf(path)) /\ g \notin visited /\ g \in visited'
    BY <1>2, <1>3, <1>13
  <2>2. IsChain(w, path) BY <1>6, <1>7, <1>8
  <2>3. visited \subseteq visited' BY <1>3
  <2>4. \A n \in 0..(Len(path) - 1) : w[n] \subseteq visited BY <1>9, <1>10
  <2>5. /\ IsChain(w, Append(path, g))' /\ Append(path, g) \in Seq(Functions)
        /\ Len(Append(path, g)) = Len(path) + 1 /\ EndOf(Append(path, g)) = g
    BY <1>4, <1>5, <2>1, <2>2, <2>3, <2>4, ChainGoesOn
  <2>q. QED BY <1>9, <2>1, <2>5
<1> DEFINE more == [i \in 1..c |-> Append(path, order[i])]
<1>15. more \in Seq(Seq(Functions)) /\ Len(more) = c /\ \A i \in 1..c : more[i] = Append(path, order[i])
  <2>1. more \in [1..c -> Seq(Functions)] BY <1>14
  <2>2. \A n \in Nat : \A u : u \in [1..n -> Seq(Functions)] => u \in Seq(Seq(Functions)) /\ Len(u) = n OBVIOUS
  <2>q. QED BY <2>1, <2>2
<1>16. paths' = Tail(paths) \o more BY <1>3, <1>13
<1> HIDE DEF more
<1>17. /\ paths' \in Seq(Seq(Functions)) /\ Len(paths') = p - 1 + c
       /\ \A k \in 1..(p - 1) : paths'[k] = paths[k + 1]
       /\ \A k \in p..(p - 1 + c) : paths'[k] = more[k - p + 1]
  <2>1. PICK rest : rest = Tail(paths) OBVIOUS
  <2>2. rest \in Seq(Seq(Functions)) /\ Len(rest) = p - 1 /\ \A k \in 1..(p - 1) : rest[k] = paths[k + 1]
    BY <1>4, <1>5, <1>6, <1>7, <2>1
  <2>3. PICK joined : joined = rest \o more OBVIOUS
  <2>4. rest \o more \in Seq(Seq(Functions)) BY <1>15, <2>2
  <2>5. Len(joined) = p - 1 + c
    <3>1. rest \in Seq(Seq(Functions)) /\ more \in Seq(Seq(Functions)) /\ Len(rest) = p - 1 /\ Len(more) = c BY <1>15, <2>2
    <3>2. Len(rest \o more) = Len(rest) + Len(more) BY <3>1, ConcatProperties
    <3>q. QED BY <2>3, <3>1, <3>2
  <2>6. \A k \in 1..(p - 1 + c) : joined[k] = IF k <= p - 1 THEN rest[k] ELSE more[k - (p - 1)]
    BY <1>6, <1>7, <1>12, <1>15, <2>2, <2>3
  <2>7. \A k \in p..(p - 1 + c) : k - (p - 1) = k - p + 1 /\ ~(k <= p - 1) /\ k \in 1..(p - 1 + c)
    BY <1>6, <1>7, <1>12
  <2>8. \A k \in 1..(p - 1) : k <= p - 1 /\ k \in 1..(p - 1 + c) BY <1>6, <1>7, <1>12
  <2>q. QED BY <1>16, <2>1, <2>2, <2>3, <2>4, <2>5, <2>6, <2>7, <2>8
<1>18. \A k \in 1..(p - 1 + c) : k \in 1..(p - 1) \/ (k \in p..(p - 1 + c) /\ k - p + 1 \in 1..c) BY <1>6, <1>7, <1>12
<1>19. \A k \in 1..(p - 1) : k + 1 \in 1..p BY <1>6, <1>7
<1>20. \A k \in p..(p - 1 + c) : paths'[k] = Append(path, order[k - p + 1]) /\ Len(paths'[k]) = l + 1
  <2>1. ASSUME NEW k \in p..(p - 1 + c)
        PROVE  paths'[k] = Append(path, order[k - p + 1]) /\ Len(paths'[k]) = l + 1
    <3>1. k - p + 1 \in 1..c BY <1>6, <1>7, <1>12
    <3>2. paths'[k] = more[k - p + 1] BY <1>17
    <3>3. more[k - p + 1] = Append(path, order[k - p + 1]) BY <1>15, <3>1
    <3>4. Len(Append(path, order[k - p + 1])) = l + 1 BY <1>14, <3>1
    <3>q. QED BY <3>2, <3>3, <3>4
  <2>q. QED BY <2>1
<1>21. ASSUME NEW k \in 1..(p - 1 + c) PROVE IsChain(w, paths[k])'
  <2>1. CASE k \in 1..(p - 1)
    <3>1. PICK old : old = paths[k + 1] /\ IsChain(w, old) BY <1>8, <1>19, <2>1
    <3>2. visited \subseteq visited' BY <1>3
    <3>3. IsChain(w, old)' BY <1>4, <3>1, <3>2, ChainStays
    <3>4. paths'[k] = old BY <1>17, <2>1, <3>1
    <3>q. QED BY <3>3, <3>4 DEF IsChain, EndOf
  <2>2. CASE k \in p..(p - 1 + c) /\ k - p + 1 \in 1..c
    <3>1. PICK new1 : new1 = Append(path, order[k - p + 1]) OBVIOUS
    <3>2. IsChain(w, new1)' BY <1>14, <2>2, <3>1
    <3>3. paths'[k] = new1 BY <1>20, <2>2, <3>1
    <3>q. QED BY <3>2, <3>3 DEF IsChain, EndOf
  <2>q. QED BY <1>18, <2>1, <2>2
<1>22. ASSUME NEW k \in 1..(p - 1) PROVE Len(paths'[k]) \in Nat /\ l <= Len(paths'[k]) /\ Len(paths'[k]) <= l + 1
  <2>1. k + 1 \in 1..p /\ 1 \in 1..p /\ 1 < k + 1 BY <1>6, <1>7
  <2>2. l <= Len(paths[k + 1]) /\ Len(paths[k + 1]) <= l + 1 BY <1>5, <1>6, <1>7, <1>9, <2>1 DEF BreadthFirst, ByLength
  <2>3. Len(paths[k + 1]) \in Nat BY <1>5, <1>6, <2>1
  <2>q. QED BY <1>17, <2>2, <2>3
<1>23. ByLength(paths')
  <2>1. \A k, m \in 1..(p - 1) : k < m => Len(paths'[k]) <= Len(paths'[m]) /\ Len(paths'[m]) <= Len(paths'[k]) + 1
    <3>1. \A k, m \in 1..(p - 1) : k < m => k + 1 < m + 1 BY <1>6
    <3>q. QED BY <1>5, <1>6, <1>17, <1>19, <3>1 DEF BreadthFirst, ByLength
  <2>2. ASSUME NEW k \in 1..(p - 1 + c), NEW m \in 1..(p - 1 + c), k < m
        PROVE  Len(paths'[k]) <= Len(paths'[m]) /\ Len(paths'[m]) <= Len(paths'[k]) + 1
    <3>1. CASE m \in 1..(p - 1)
      <4>1. k \in 1..(p - 1) BY <2>2, <3>1, <1>6
      <4>q. QED BY <2>1, <2>2, <3>1, <4>1
    <3>2. CASE m \in p..(p - 1 + c)
      <4>1. Len(paths'[m]) = l + 1 BY <1>20, <3>2
      <4>2. CASE k \in 1..(p - 1) BY <1>9, <1>22, <4>1, <4>2
      <4>3. CASE k \in p..(p - 1 + c) BY <1>9, <1>20, <4>1, <4>3
      <4>q. QED BY <1>18, <4>2, <4>3
    <3>q. QED BY <1>18, <3>1, <3>2
  <2>q. QED BY <1>17, <2>2 DEF ByLength
<1>24. ASSUME NEW f \in visited' PROVE Waiting(f)' \/ Expanded(f)'
  <2>1. CASE f \in new
    <3>1. PICK i \in 1..c : order[i] = f BY <1>13, <2>1
    <3>2. i + p - 1 \in p..(p - 1 + c) /\ i + p - 1 \in 1..(p - 1 + c) /\ i + p - 1 - p + 1 = i BY <1>6, <1>7, <1>12
    <3>3. paths'[i + p - 1] = Append(path, order[i]) BY <1>20, <3>2
    <3>4. EndOf(paths'[i + p - 1]) = f BY <1>14, <3>1, <3>3
    <3>q. QED BY <1>17, <3>2, <3>4 DEF Waiting
  <2>2. CASE f \in visited /\ Expanded(f)
    BY <1>3, <1>4, <2>2 DEF Expanded, Callees
  <2>3. CASE f \in visited /\ Waiting(f)
    <3>1. PICK k \in 1..p : EndOf(paths[k]) = f BY <1>6, <2>3 DEF Waiting
    <3>2. CASE k = 1
      <4>1. f = EndOf(path) /\ f # advisory.affected BY <1>1, <1>7, <3>1, <3>2
      <4>2. Callees(f) \subseteq visited' BY <1>2, <1>3, <4>1
      <4>q. QED BY <1>4, <4>1, <4>2 DEF Expanded, Callees
    <3>3. CASE k # 1
      <4>1. k - 1 \in 1..(p - 1) /\ k - 1 \in 1..(p - 1 + c) /\ k - 1 + 1 = k BY <1>6, <1>12, <3>3
      <4>2. EndOf(paths'[k - 1]) = f BY <1>17, <3>1, <4>1
      <4>q. QED BY <1>17, <4>1, <4>2 DEF Waiting
    <3>q. QED BY <3>2, <3>3
  <2>q. QED BY <1>3, <1>5, <2>1, <2>2, <2>3 DEF BreadthFirst
<1>25. ASSUME paths' # <<>> PROVE \A n \in 0..(Len(paths'[1]) - 1) : w[n] \subseteq visited'
  <2>1. 1 \in 1..(p - 1 + c) BY <1>6, <1>12, <1>17, <1>25
  <2>2. PICK m \in Nat : m = Len(paths'[1]) /\ l <= m /\ m <= l + 1
    <3>1. CASE 1 \in 1..(p - 1) BY <1>9, <1>22, <3>1
    <3>2. CASE 1 \in p..(p - 1 + c) BY <1>9, <1>20, <3>2
    <3>q. QED BY <1>18, <2>1, <3>1, <3>2
  <2>3. CASE m = l BY <1>3, <1>10, <2>2, <2>3
  <2>4. CASE m = l + 1
    <3>1. \A k \in 1..(p - 1 + c) : Len(paths'[k]) \in Nat /\ l + 1 <= Len(paths'[k])
      <4>1. ASSUME NEW k \in 1..(p - 1 + c) PROVE Len(paths'[k]) \in Nat /\ l + 1 <= Len(paths'[k])
        <5>1. k = 1 \/ 1 < k OBVIOUS
        <5>2. Len(paths'[k]) \in Nat BY <1>17
        <5>3. m <= Len(paths'[k]) BY <1>17, <1>23, <2>1, <2>2, <5>1 DEF ByLength
        <5>q. QED BY <2>4, <5>2, <5>3
      <4>q. QED BY <4>1
    <3>2. ASSUME NEW f \in w[l - 1] PROVE Callees(f) \subseteq visited'
      <4>1. f \in visited' BY <1>3, <1>9, <1>10
      <4>2. ~Waiting(f)'
        <5>1. SUFFICES ASSUME NEW k \in 1..(p - 1 + c), EndOf(paths'[k]) = f PROVE FALSE BY <1>17 DEF Waiting
        <5>2. \A n \in 0..(Len(paths'[k]) - 2) : EndOf(paths'[k]) \notin w[n] BY <1>21 DEF IsChain
        <5>3. l - 1 \in 0..(Len(paths'[k]) - 2) BY <1>9, <3>1
        <5>q. QED BY <3>2, <5>1, <5>2, <5>3
      <4>q. QED BY <1>4, <1>24, <4>1, <4>2 DEF Expanded, Callees
    <3>3. l \in 1..Farthest
      <4>1. Len(paths'[1]) \in 1..Cardinality(Functions) BY <1>21, <2>1 DEF IsChain
      <4>q. QED BY <1>9, <2>2, <2>4, <4>1, SupplySize DEF Farthest, SupplyAssumption
    <3>4. w[l] = w[l - 1] \cup CalledFrom(w[l - 1]) BY <3>3 DEF Levels
    <3>5. CalledFrom(w[l - 1]) \subseteq visited' BY <3>2 DEF CalledFrom, Callees
    <3>6. w[l - 1] \subseteq visited' BY <1>3, <1>9, <1>10
    <3>7. \A n \in 0..(m - 1) : n \in 0..(l - 1) \/ n = l BY <1>9, <2>4
    <3>q. QED BY <1>3, <1>10, <2>2, <3>4, <3>5, <3>6, <3>7
  <2>q. QED BY <1>9, <2>2, <2>3, <2>4
<1>26. CryptoEntries' \subseteq visited' BY <1>3, <1>4, <1>5 DEF BreadthFirst, CryptoEntries
<1>27. BreadthFirst(w)' BY <1>17, <1>21, <1>23, <1>24, <1>25, <1>26 DEF BreadthFirst
<1>28. visited' \subseteq Functions BY <1>3, <1>5, <1>11
<1>q. QED BY <1>4, <1>17, <1>27, <1>28
-----------------------------------------------------------------------------
LEMMA StepSupplyInv == SupplyAssumption /\ SupplyInv /\ [SupplyNext]_supplyVars => SupplyInv'
<1> SUFFICES ASSUME SupplyAssumption, SupplyInv, [SupplyNext]_supplyVars PROVE SupplyInv' OBVIOUS
<1>L. ASSUME UNCHANGED <<defined, calls>>, NEW w PROVE Levels(w)' <=> Levels(w)
  BY <1>L DEF Levels, CryptoEntries, CalledFrom
<1>1. CASE ReadCall \/ UnreadableFile
  BY <1>1 DEF ReadCall, UnreadableFile, SupplyInv
<1>2. CASE Take
  <2>1. supplyStage = "scanning" /\ advisory' \in Advisories /\ UNCHANGED <<defined, calls>> BY <1>2 DEF Take
  <2>2. CASE advisory'.dev
    <3>1. supplyStage' = "judged" BY <1>2, <2>2 DEF Take
    <3>q. QED BY <2>1, <2>2, <3>1 DEF SupplyInv
  <2>3. CASE ~advisory'.dev
    <3>1. supplyStage' = "searching" BY <1>2, <2>3 DEF Take
    <3>2. ASSUME NEW w, Levels(w) PROVE paths' \in Seq(Seq(Functions)) /\ visited' \subseteq Functions /\ BreadthFirst(w)'
      BY <1>2, <3>1, <3>2, TakeStarts
    <3>3. Levels(NearEntry) BY NearIsLevels DEF SupplyInv
    <3>4. paths' \in Seq(Seq(Functions)) /\ visited' \subseteq Functions BY <3>2, <3>3
    <3>5. SearchesRightly' BY <1>L, <2>1, <3>2 DEF SearchesRightly
    <3>q. QED BY <2>1, <2>3, <3>1, <3>4, <3>5 DEF SupplyInv
  <2>q. QED BY <2>2, <2>3
<1>3. CASE Visit /\ EndOf(Head(paths)) = advisory.affected
  <2>1. ASSUME NEW w, Levels(w)
        PROVE  supplyStage' = "judged" /\ UNCHANGED <<defined, calls, advisory>> /\ JudgedRightly(w)'
    BY <1>3, <2>1, VisitFinds
  <2>2. Levels(NearEntry) BY NearIsLevels DEF SupplyInv
  <2>3. supplyStage' = "judged" /\ UNCHANGED <<defined, calls, advisory>> BY <2>1, <2>2
  <2>4. JudgesRightly' BY <1>L, <2>1, <2>3 DEF JudgesRightly
  <2>5. supplyStage = "searching" BY <1>3 DEF Visit
  <2>q. QED BY <2>3, <2>4, <2>5 DEF SupplyInv
<1>4. CASE Visit /\ EndOf(Head(paths)) # advisory.affected
  <2>1. ASSUME NEW w, Levels(w)
        PROVE  /\ supplyStage' = "searching" /\ UNCHANGED <<defined, calls, advisory>>
               /\ paths' \in Seq(Seq(Functions)) /\ visited' \subseteq Functions /\ BreadthFirst(w)'
    BY <1>4, <2>1, VisitContinues
  <2>2. Levels(NearEntry) BY NearIsLevels DEF SupplyInv
  <2>3. /\ supplyStage' = "searching" /\ UNCHANGED <<defined, calls, advisory>>
        /\ paths' \in Seq(Seq(Functions)) /\ visited' \subseteq Functions
    BY <2>1, <2>2
  <2>4. SearchesRightly' BY <1>L, <2>1, <2>3 DEF SearchesRightly
  <2>5. supplyStage = "searching" BY <1>4 DEF Visit
  <2>q. QED BY <2>3, <2>4, <2>5 DEF SupplyInv
<1>5. CASE Unreachable
  <2>1. /\ supplyStage = "searching" /\ paths = <<>> /\ supplyStage' = "judged"
        /\ judged' = [chain |-> <<>>, severity |-> advisory.severity]
        /\ UNCHANGED <<defined, calls, advisory, paths, visited>>
    BY <1>5 DEF Unreachable
  <2>2. ASSUME NEW w, Levels(w) PROVE JudgedRightly(w)'
    <3>1. BreadthFirst(w) BY <2>1, <2>2 DEF SupplyInv, SearchesRightly
    <3>2. \A n \in 0..Farthest : advisory.affected \notin w[n] BY <2>1, <2>2, <3>1, NothingElseReached
    <3>q. QED BY <2>1, <3>2 DEF JudgedRightly
  <2>3. JudgesRightly' BY <1>L, <2>1, <2>2 DEF JudgesRightly
  <2>q. QED BY <2>1, <2>3 DEF SupplyInv
<1>6. CASE UNCHANGED supplyVars
  <2>1. UNCHANGED <<supplyStage, defined, calls, advisory, paths, visited, judged>> BY <1>6 DEF supplyVars
  <2>2. supplyStage = "searching" => SearchesRightly'
    <3> SUFFICES ASSUME supplyStage = "searching", NEW w, Levels(w)' PROVE BreadthFirst(w)' BY DEF SearchesRightly
    <3>1. BreadthFirst(w) BY <1>L, <2>1 DEF SupplyInv, SearchesRightly
    <3>3. ASSUME NEW k PROVE IsChain(w, paths[k])' <=> IsChain(w, paths[k]) BY <2>1 DEF IsChain, EndOf, CryptoEntries
    <3>4. ASSUME NEW f PROVE (Waiting(f)' <=> Waiting(f)) /\ (Expanded(f)' <=> Expanded(f))
      BY <2>1 DEF Waiting, EndOf, Expanded, Callees
    <3>5. ByLength(paths)' <=> ByLength(paths) BY <2>1 DEF ByLength
    <3>6. CryptoEntries' = CryptoEntries BY <2>1 DEF CryptoEntries
    <3>q. QED BY <2>1, <3>1, <3>3, <3>4, <3>5, <3>6 DEF BreadthFirst
  <2>3. supplyStage = "judged" /\ ~advisory.dev => JudgesRightly'
    <3> SUFFICES ASSUME supplyStage = "judged", ~advisory.dev, NEW w, Levels(w)' PROVE JudgedRightly(w)' BY DEF JudgesRightly
    <3>1. JudgedRightly(w) BY <1>L, <2>1 DEF SupplyInv, JudgesRightly
    <3>2. \A path : IsChain(w, path)' <=> IsChain(w, path) BY <2>1 DEF IsChain, EndOf, CryptoEntries
    <3>3. \A path : Adjusted(path)' = Adjusted(path) BY <2>1 DEF Adjusted
    <3>q. QED BY <2>1, <3>1, <3>2, <3>3 DEF JudgedRightly, EndOf
  <2>q. QED BY <2>1, <2>2, <2>3 DEF SupplyInv
<1>q. QED BY <1>1, <1>2, <1>3, <1>4, <1>5, <1>6 DEF SupplyNext

LEMMA Ranks ==
    /\ Rank("Low") = 2 /\ Rank("High") = 4 /\ Rank("Critical") = 5
<1>1. DOMAIN Severities = 1..5 BY DEF Severities
<1>2. \A i \in 1..5 : /\ Severities[i] = "Low" <=> i = 2
                      /\ Severities[i] = "High" <=> i = 4
                      /\ Severities[i] = "Critical" <=> i = 5
  BY DEF Severities
<1>3. 2 \in 1..5 /\ 4 \in 1..5 /\ 5 \in 1..5 OBVIOUS
<1>4. PICK l : l = Rank("Low") OBVIOUS
<1>5. l = CHOOSE i \in 1..5 : Severities[i] = "Low" BY <1>1, <1>4 DEF Rank
<1>6. PICK h : h = Rank("High") OBVIOUS
<1>7. h = CHOOSE i \in 1..5 : Severities[i] = "High" BY <1>1, <1>6 DEF Rank
<1>8. PICK c : c = Rank("Critical") OBVIOUS
<1>9. c = CHOOSE i \in 1..5 : Severities[i] = "Critical" BY <1>1, <1>8 DEF Rank
<1>q. QED BY <1>2, <1>3, <1>4, <1>5, <1>6, <1>7, <1>8, <1>9

(* Whatever a workspace calls, and in whatever order the hash sets of its  *)
(* call graph are met, the chain that the search reports for an advisory   *)
(* is a shortest one, it reports one whenever there is one, and only what  *)
(* is near an entry is made critical by it.                                *)
THEOREM SeverityIsByDistance == SupplySpec => []SeverityFollowsDistance
<1>1. SupplyAssumption BY SupplyAssumption
<1>2. SupplyInit => SupplyInv BY DEF SupplyInit, SupplyInv
<1>3. SupplyInv => SeverityFollowsDistance
  <2> SUFFICES ASSUME SupplyInv, supplyStage = "judged", ~advisory.dev PROVE SeverityFollowsDistance
    BY DEF SeverityFollowsDistance
  <2>1. PICK w : w = NearEntry /\ Levels(w) BY <1>1, NearIsLevels DEF SupplyInv
  <2>2. JudgedRightly(w) BY <2>1 DEF SupplyInv, JudgesRightly
  <2>3. PICK F \in Nat : F = Cardinality(Functions) /\ Farthest = F + NearDepth /\ NearDepth \in Nat
    BY <1>1, SupplySize DEF Farthest, SupplyAssumption
  <2>4. PICK chain : chain = judged.chain OBVIOUS
  <2>5. PICK sev : sev = advisory.severity /\ sev \in {"Low", "Critical"} BY DEF SupplyInv, Advisories
  <2>6. PICK aff : aff = advisory.affected OBVIOUS
  <2>7. CASE chain = <<>>
    <3>1. judged.severity = sev /\ \A n \in 0..Farthest : aff \notin w[n] BY <2>2, <2>4, <2>5, <2>6, <2>7 DEF JudgedRightly
    <3>2. F \in 0..Farthest /\ NearDepth \in 0..Farthest BY <2>3
    <3>3. aff \notin NearEntry[F] /\ aff \notin NearEntry[NearDepth] BY <2>1, <3>1, <3>2
    <3>4. Rank(judged.severity) >= Rank(advisory.severity) BY <2>5, <3>1, Ranks
    <3>q. QED BY <2>3, <2>4, <2>5, <2>6, <2>7, <3>1, <3>3, <3>4 DEF SeverityFollowsDistance
  <2>8. CASE chain # <<>>
    <3>1. IsChain(w, chain) /\ EndOf(chain) = aff /\ judged.severity = Adjusted(chain)
      BY <2>2, <2>4, <2>6, <2>8 DEF JudgedRightly
    <3>2. PICK l \in 1..F : l = Len(chain) BY <2>3, <3>1 DEF IsChain
    <3>3. /\ chain[1] \in CryptoEntries /\ \A i \in 1..(l - 1) : <<chain[i], chain[i + 1]>> \in calls
          /\ chain[l] = aff /\ aff \in w[l - 1] /\ \A n \in 0..(l - 2) : aff \notin w[n]
      BY <3>1, <3>2 DEF IsChain, EndOf
    <3>4. l - 1 <= NearDepth <=> aff \in w[NearDepth]
      <4>1. CASE l - 1 <= NearDepth
        <5>1. l - 1 \in 0..Farthest /\ NearDepth \in (l - 1)..Farthest BY <2>3, <3>2, <4>1
        <5>2. w[l - 1] \subseteq w[NearDepth] BY <1>1, <2>1, <5>1, LevelsGrow
        <5>q. QED BY <3>3, <4>1, <5>2
      <4>2. CASE ~(l - 1 <= NearDepth)
        <5>1. NearDepth \in 0..(l - 2) BY <2>3, <3>2, <4>2
        <5>q. QED BY <3>3, <4>2, <5>1
      <4>q. QED BY <4>1, <4>2
    <3>5. judged.severity = IF l - 1 <= NearDepth THEN "Critical" ELSE IF Rank(sev) >= Rank("High") THEN sev ELSE "High"
      BY <2>5, <3>1, <3>2 DEF Adjusted
    <3>6. /\ judged.severity = "Critical" <=> (sev = "Critical" \/ l - 1 <= NearDepth)
          /\ Rank(judged.severity) >= Rank(sev)
      BY <2>5, <3>5, Ranks
    <3>7. (judged.severity = "Critical") = (sev = "Critical" \/ aff \in w[NearDepth]) BY <3>4, <3>6
    <3>q. QED BY <2>1, <2>4, <2>5, <2>6, <2>8, <3>2, <3>3, <3>6, <3>7 DEF SeverityFollowsDistance
  <2>q. QED BY <2>7, <2>8
<1>q. QED BY <1>1, <1>2, <1>3, StepSupplyInv, PTL DEF SupplySpec
-----------------------------------------------------------------------------
(* The types of the scanner's own variables: a context is of a function    *)
(* or an impl block.                                                       *)
ContextsOf(names) == {ctx \in [name : names, depth : Int, opened : BOOLEAN] : ctx.opened => ctx.depth > 0}
InContext(names) == ContextsOf(names) \cup {Outside}
Backed == {"none", "building", "failed"} \cup ToSet(Backends)
ScannerTyped ==
    /\ file \in Seq(Lines) /\ Len(file) <= MaxLines
    /\ implCtx \in InContext(Types) /\ fnCtx \in InContext(FnNames)
    /\ callGraph \subseteq FnNames \X FnNames /\ symbols \subseteq FnNames
    /\ tries \in 0..MaxBuilds /\ backend \in Backed

LEMMA ContextStays ==
    ASSUME NEW names, NEW ctx \in ContextsOf(names), NEW line, NEW delta \in Int
    PROVE  AfterLine(ctx, line, delta) \in InContext(names)
<1>1. PICK n \in names, p \in Int, o \in BOOLEAN : ctx = [name |-> n, depth |-> p, opened |-> o]
  BY DEF ContextsOf
<1>2. ctx.name = n /\ ctx.depth = p /\ ctx.opened = o /\ p + delta \in Int BY <1>1
<1>3. PICK opened \in BOOLEAN : opened = (o \/ HasBrace(line)) OBVIOUS
<1>4. AfterLine(ctx, line, delta) =
        IF opened /\ p + delta <= 0 THEN Outside ELSE [name |-> n, depth |-> p + delta, opened |-> opened]
  BY <1>2, <1>3 DEF AfterLine
<1>5. ASSUME ~(opened /\ p + delta <= 0)
      PROVE  [name |-> n, depth |-> p + delta, opened |-> opened] \in ContextsOf(names)
  <2>1. opened => p + delta > 0 BY <1>2, <1>5
  <2>q. QED BY <1>2, <2>1 DEF ContextsOf
<1>q. QED BY <1>4, <1>5 DEF InContext

LEMMA ContextTyped ==
    ASSUME NEW names, NEW n \in names
    PROVE  Context(n) \in ContextsOf(names)
BY DEF Context, ContextsOf

LEMMA ScanTyped ==
    ASSUME FactsTyped, ScannerTyped, NEW line \in Lines, Scan(line)
    PROVE  /\ implCtx' \in InContext(Types) /\ fnCtx' \in InContext(FnNames)
           /\ callGraph' \subseteq FnNames \X FnNames /\ symbols' \subseteq FnNames
<1>1. PICK b \in LexStates : b = BraceDelta(line.toks) BY DeltaTyped
<1>2. b.delta \in Int BY DEF LexStates
<1>3. PICK f \in FnNames \cup {No} : f = MatchedFn(line) BY LineTyped DEF MatchedFn, Named
<1>4. PICK impl : impl = IF implCtx = Outside /\ line.impl # No THEN Context(line.impl) ELSE implCtx OBVIOUS
<1>5. PICK fn : fn = IF fnCtx = Outside /\ f # No THEN Context(f) ELSE fnCtx OBVIOUS
<1>6. PICK matched : matched = CalleesOf(line) \cup ({f} \ {No}) OBVIOUS
<1>7. /\ implCtx' = IF impl = Outside THEN Outside ELSE AfterLine(impl, line, b.delta)
      /\ fnCtx' = IF fn = Outside THEN Outside ELSE AfterLine(fn, line, b.delta)
      /\ symbols' = IF fnCtx = Outside /\ f # No THEN symbols \cup {f} ELSE symbols
      /\ callGraph' = IF fn = Outside THEN callGraph ELSE callGraph \cup {<<fn.name, c>> : c \in matched \ {fn.name}}
  BY <1>1, <1>3, <1>4, <1>5, <1>6 DEF Scan, CalleesOf
<1>8. impl = Outside \/ impl \in ContextsOf(Types)
  <2>1. line.impl \in Types \cup {No} BY LineTyped DEF Named
  <2>q. QED BY <1>4, <2>1, ContextTyped DEF ScannerTyped, InContext
<1>9. fn = Outside \/ fn \in ContextsOf(FnNames)
  BY <1>3, <1>5, ContextTyped DEF ScannerTyped, InContext
<1>10. implCtx' \in InContext(Types)
  <2>1. impl # Outside => AfterLine(impl, line, b.delta) \in InContext(Types) BY <1>2, <1>8, ContextStays
  <2>q. QED BY <1>7, <2>1 DEF InContext
<1>11. fnCtx' \in InContext(FnNames)
  <2>1. fn # Outside => AfterLine(fn, line, b.delta) \in InContext(FnNames) BY <1>2, <1>9, ContextStays
  <2>q. QED BY <1>7, <2>1 DEF InContext
<1>12. symbols' \subseteq FnNames BY <1>3, <1>7 DEF ScannerTyped
<1>13. callGraph' \subseteq FnNames \X FnNames
  <2>1. fn # Outside => fn.name \in FnNames BY <1>9 DEF ContextsOf
  <2>2. \A c \in line.calls : c.callee \in FnNames BY LineTyped DEF Named
  <2>3. matched \subseteq FnNames BY <1>3, <1>6, <2>2 DEF CalleesOf
  <2>4. callGraph \subseteq FnNames \X FnNames BY DEF ScannerTyped
  <2>q. QED BY <1>7, <2>1, <2>3, <2>4
<1>q. QED BY <1>10, <1>11, <1>12, <1>13

LEMMA StepScannerTyped ==
    ASSUME FactsInv, ScannerTyped, [FactsNext]_factVars
    PROVE  ScannerTyped'
<1>1. CASE ReadLine
  <2>1. PICK line \in Lines : /\ Len(file) < MaxLines /\ Scan(line) /\ Tree(line) /\ file' = Append(file, line)
                              /\ UNCHANGED <<tries, backend>>
    BY <1>1 DEF ReadLine
  <2>2. FactsTyped BY DEF FactsInv
  <2>3. /\ implCtx' \in InContext(Types) /\ fnCtx' \in InContext(FnNames)
        /\ callGraph' \subseteq FnNames \X FnNames /\ symbols' \subseteq FnNames
    BY <2>1, <2>2, ScanTyped
  <2>5. file' \in Seq(Lines) /\ Len(file') <= MaxLines
    <3>1. PICK S : S = Lines OBVIOUS
    <3>2. file \in Seq(S) /\ line \in S /\ MaxLines \in Nat BY <3>1, FactsAssumption DEF ScannerTyped, FactsAssumption
    <3>3. Append(file, line) \in Seq(S) /\ Len(Append(file, line)) = Len(file) + 1 /\ Len(file) \in Nat BY <3>2
    <3>q. QED BY <2>1, <3>1, <3>2, <3>3
  <2>6. tries' = tries /\ backend' = backend BY <2>1
  <2>q. QED BY <2>3, <2>5, <2>6 DEF ScannerTyped
<1>2. CASE Build
  <2>1. UNCHANGED <<file, implCtx, fnCtx, callGraph, symbols>> BY <1>2 DEF Build
  <2>2. MaxBuilds \in 1..3 /\ tries \in 0..MaxBuilds BY FactsAssumption DEF FactsAssumption, ScannerTyped
  <2>3. \A i \in 1..3 : Backends[i] \in ToSet(Backends)
    <3>1. DOMAIN Backends = 1..3 BY DEF Backends
    <3>q. QED BY <3>1 DEF ToSet
  <2>4. tries' \in 0..MaxBuilds /\ backend' \in Backed
    <3>1. CASE Built BY <2>2, <2>3, <3>1 DEF Built, Backed
    <3>2. CASE Unreadable BY <2>2, <3>2 DEF Unreadable, Backed
    <3>3. CASE WorkerLost BY <2>2, <3>3 DEF WorkerLost, Backed
    <3>q. QED BY <1>2, <3>1, <3>2, <3>3 DEF Build
  <2>q. QED BY <2>1, <2>4 DEF ScannerTyped
<1>3. CASE UNCHANGED factVars BY <1>3 DEF factVars, ScannerTyped
<1>q. QED BY <1>1, <1>2, <1>3 DEF FactsNext

(* Every variable of the scanner and of the tree keeps its type, on any    *)
(* file: a context that is open is at a depth of one or more.              *)
THEOREM FactsTypeCorrect == FactsSpec => []FactsTypeOK
<1>1. FactsInit => ScannerTyped
  BY FactsAssumption DEF FactsAssumption, FactsInit, ScannerTyped, InContext, Backed
<1>2. FactsInv /\ ScannerTyped => FactsTypeOK
  <2> SUFFICES ASSUME FactsInv, ScannerTyped PROVE FactsTypeOK OBVIOUS
  <2>1. /\ lex \in [mode : Modes, depth : Nat] /\ construct \in Constructs /\ blocks \in Seq(FnDecls \cup {Nobody})
        /\ pending \in FnDecls \cup {Nobody} /\ treeFns \subseteq FnDecls
    BY DEF FactsInv, FactsTyped, Decls
  <2>2. lex.mode \in {"code", "string", "escaped", "raw"} /\ lex.depth \in Nat BY <2>1 DEF Modes
  <2>3. file \in Seq(Lines) /\ \A i \in DOMAIN file : file[i].toks \in Seq(Tokens)
    <3>1. PICK S : S = Lines OBVIOUS
    <3>2. file \in Seq(S) BY <3>1 DEF ScannerTyped
    <3>3. \A i \in DOMAIN file : file[i] \in S BY <3>2
    <3>4. \A line \in S : line.toks \in Seq(Tokens) BY <3>1, LineTyped
    <3>q. QED BY <3>1, <3>2, <3>3, <3>4
  <2>4. \A names : \A ctx \in InContext(names) : ctx.depth \in Int /\ (ctx.opened => ctx.depth > 0)
    BY DEF InContext, ContextsOf, Outside, Context
  <2>q. QED BY <2>1, <2>2, <2>3, <2>4 DEF ScannerTyped, FactsTypeOK, Backed
<1>3. FactsInit => FactsInv BY InitFactsInv
<1>4. FactsInv /\ [FactsNext]_factVars => FactsInv' BY StepFactsInv
<1>5. FactsInv /\ ScannerTyped /\ [FactsNext]_factVars => ScannerTyped' BY StepScannerTyped
<1>q. QED BY <1>1, <1>2, <1>3, <1>4, <1>5, PTL DEF FactsSpec
-----------------------------------------------------------------------------
(* Every variable of the rule evaluator keeps its type.                    *)
THEOREM RulesTypeCorrect == RulesSpec => []RulesTypeOK
<1>1. RulesAssumption BY RulesAssumption
<1>2. RulesInv => RulesTypeOK BY DEF RulesInv, RulesTypeOK, VisitType, MatchType
<1>q. QED BY <1>1, <1>2, InitRulesInv, StepRulesInv, PTL DEF RulesSpec
-----------------------------------------------------------------------------
(* What an analysis counts stays within what it may read and ask for.      *)
ZkCounted ==
    /\ configured \in [Chips -> Blocks] /\ synthesized \in [Chips -> Blocks]
    /\ tests \in Nat
    /\ zkStage \in {"configure", "synthesize"} => tests <= MaxImpls
    /\ zkStage \in {"check", "zkvm", "done"} => tests <= MaxTests
    /\ zkStage = "failed" => tests <= MaxImpls \/ tests <= MaxTests

LEMMA StepZkCounted == Halo2Assumption /\ ZkCounted /\ [Halo2Next]_zkVars => ZkCounted'
<1> SUFFICES ASSUME Halo2Assumption, ZkCounted, [Halo2Next]_zkVars PROVE ZkCounted' OBVIOUS
<1> USE DEF ZkCounted
<1>0. MaxImpls \in Nat /\ MaxTests \in Nat BY DEF Halo2Assumption
<1>1. CASE Extract
  <2>1. PICK chip \in Chips, block \in Blocks, readable \in BOOLEAN :
          /\ zkStage \in {"configure", "synthesize"} /\ tests < MaxImpls /\ tests' = tests + 1
          /\ \/ zkStage' = "failed" /\ UNCHANGED <<configured, synthesized>>
             \/ zkStage' = zkStage /\ configured' = [configured EXCEPT ![chip] = block] /\ UNCHANGED synthesized
             \/ zkStage' = zkStage /\ synthesized' = [synthesized EXCEPT ![chip] = block] /\ UNCHANGED configured
    BY <1>1 DEF Extract
  <2>2. tests' \in Nat /\ tests' <= MaxImpls BY <1>0, <2>1
  <2>3. configured' \in [Chips -> Blocks] /\ synthesized' \in [Chips -> Blocks] BY <2>1
  <2>q. QED BY <2>1, <2>2, <2>3
<1>2. CASE Synthesize \/ CheckChip \/ ChipsChecked \/ Phase3Done \/ UNCHANGED zkVars
  <2>1. UNCHANGED <<configured, synthesized, tests>>
    BY <1>2 DEF Synthesize, CheckChip, ChipsChecked, Phase3Done, zkVars
  <2>2. \/ zkStage' = zkStage
        \/ zkStage = "configure" /\ zkStage' = "synthesize"
        \/ zkStage \in {"check", "zkvm"} /\ zkStage' \in {"zkvm", "done"}
    BY <1>2 DEF Synthesize, CheckChip, ChipsChecked, Phase3Done, zkVars
  <2>q. QED BY <2>1, <2>2
<1>3. CASE GraphBuilt
  BY <1>0, <1>3 DEF GraphBuilt
<1>4. CASE ZkvmCheck
  <2>1. /\ zkStage = "zkvm" /\ tests < MaxTests /\ tests' = tests + 1
        /\ zkStage' \in {"zkvm", "failed"} /\ UNCHANGED <<configured, synthesized>>
    BY <1>4 DEF ZkvmCheck
  <2>q. QED BY <1>0, <2>1
<1>q. QED BY <1>1, <1>2, <1>3, <1>4 DEF Halo2Next

(* Every variable of the zero-knowledge analysis keeps its type: no chip   *)
(* is asked about that the graph does not know.                            *)
THEOREM Halo2TypeCorrect == Halo2Spec => []Halo2TypeOK
<1>1. Halo2Assumption BY Halo2Assumption
<1>2. Halo2Assumption /\ Halo2Init => ZkCounted
  <2>1. NoBlock \in Blocks BY DEF NoBlock, Blocks
  <2>q. QED BY <2>1 DEF Halo2Init, ZkCounted, Halo2Assumption
<1>3. Halo2Assumption /\ ZkInv /\ ZkCounted => Halo2TypeOK
  BY DEF Halo2Assumption, ZkInv, ZkFinding, ZkCounted, Halo2TypeOK
<1>q. QED BY <1>1, <1>2, <1>3, InitZkInv, StepZkInv, StepZkCounted, PTL DEF Halo2Spec
-----------------------------------------------------------------------------
EconCounted ==
    /\ checklist \in Seq(Vectors) /\ Len(checklist) <= MaxVectors
    /\ sources \in Seq(SourceFiles) /\ Len(sources) <= MaxFiles
    /\ indexed \in BOOLEAN /\ parsing \in BOOLEAN
    /\ econAt \in 1..(MaxVectors + 1)

LEMMA StepEconCounted == EconomicAssumption /\ EconCounted /\ [EconNext]_econVars => EconCounted'
<1> SUFFICES ASSUME EconomicAssumption, EconCounted, [EconNext]_econVars PROVE EconCounted' OBVIOUS
<1> USE DEF EconCounted
<1>0. MaxVectors \in Nat /\ MaxFiles \in Nat BY DEF EconomicAssumption
<1>1. CASE LoadVectors
  <2>1. PICK v \in Vectors : /\ Len(checklist) < MaxVectors /\ checklist' \in {checklist, Append(checklist, v)}
                             /\ UNCHANGED <<sources, indexed, parsing, econAt>>
    BY <1>1 DEF LoadVectors
  <2>2. checklist' \in Seq(Vectors) /\ Len(checklist') <= MaxVectors BY <1>0, <2>1
  <2>q. QED BY <2>1, <2>2
<1>2. CASE Loaded
  <2>1. PICK order \in [DOMAIN checklist -> DOMAIN checklist] : checklist' = [i \in DOMAIN order |-> checklist[order[i]]]
    BY <1>2 DEF Loaded
  <2>2. PICK n \in Nat : n = Len(checklist) /\ DOMAIN checklist = 1..n OBVIOUS
  <2>3. \A i \in 1..n : checklist[order[i]] \in Vectors BY <2>1, <2>2
  <2>4. checklist' \in [1..n -> Vectors] BY <2>1, <2>2, <2>3
  <2>5. checklist' \in Seq(Vectors) /\ Len(checklist') = n BY <2>2, <2>4, FunctionsAreSequences
  <2>6. UNCHANGED <<sources, indexed, parsing, econAt>> BY <1>2 DEF Loaded
  <2>q. QED BY <2>2, <2>5, <2>6
<1>3. CASE AddFile
  <2>1. PICK f \in SourceFiles : /\ Len(sources) < MaxFiles /\ sources' = Append(sources, f)
                                 /\ UNCHANGED <<checklist, indexed, parsing, econAt>>
    BY <1>3 DEF AddFile
  <2>2. sources' \in Seq(SourceFiles) /\ Len(sources') <= MaxFiles BY <1>0, <2>1
  <2>q. QED BY <2>1, <2>2
<1>4. CASE Analyze \/ Analyzed \/ UNCHANGED econVars
  BY <1>4 DEF Analyze, Analyzed, econVars
<1>5. CASE CheckVector
  <2>1. econAt <= Len(checklist) /\ econAt' = econAt + 1 /\ UNCHANGED <<checklist, sources, indexed, parsing>>
    BY <1>5 DEF CheckVector
  <2>2. Len(checklist) \in Nat OBVIOUS
  <2>q. QED BY <1>0, <2>1, <2>2
<1>q. QED BY <1>1, <1>2, <1>3, <1>4, <1>5 DEF EconNext

(* Every variable of the checklists' analysis keeps its type.              *)
THEOREM EconTypeCorrect == EconSpec => []EconTypeOK
<1>1. EconomicAssumption BY EconomicAssumption
<1>2. EconInit => EconInv BY DEF EconInit, EconInv, AllTriggered
<1>3. EconomicAssumption /\ EconInit => EconCounted
  <2> SUFFICES ASSUME EconomicAssumption, EconInit PROVE EconCounted OBVIOUS
  <2>1. MaxVectors \in Nat /\ MaxFiles \in Nat BY DEF EconomicAssumption
  <2>2. checklist = <<>> /\ sources = <<>> /\ indexed = FALSE /\ parsing = TRUE /\ econAt = 1 BY DEF EconInit
  <2>3. Len(checklist) = 0 /\ Len(sources) = 0 BY <2>2
  <2>4. checklist \in Seq(Vectors) /\ sources \in Seq(SourceFiles) BY <2>2
  <2>5. Len(checklist) <= MaxVectors /\ Len(sources) <= MaxFiles BY <2>1, <2>3
  <2>6. econAt \in 1..(MaxVectors + 1) BY <2>1, <2>2
  <2>7. indexed \in BOOLEAN /\ parsing \in BOOLEAN BY <2>2
  <2>q. QED BY <2>4, <2>5, <2>6, <2>7 DEF EconCounted
<1>4. EconInv /\ EconCounted => EconTypeOK BY DEF EconInv, EconFinding, EconCounted, EconTypeOK
<1>q. QED BY <1>1, <1>2, <1>3, <1>4, StepEconInv, StepEconCounted, PTL DEF EconSpec
-----------------------------------------------------------------------------
(* What was read of a circuit stays within the bounds, and only what is    *)
(* meant is read.                                                          *)
CircomCounted ==
    /\ Len(signals) <= MaxCircomLines
    /\ Len(constraints) <= Len(meant) /\ Len(meant) <= MaxConstraints
    /\ circomStage \in {"reading", "refused", "checking", "checked"}
    /\ result.verdict \in {"none", "constrained", "under_constrained", "unknown"}

LEMMA StepCircomCounted == CircomInv /\ CircomCounted /\ [CircomNext]_circomVars => CircomCounted'
<1> SUFFICES ASSUME CircomInv, CircomCounted, [CircomNext]_circomVars PROVE CircomCounted' OBVIOUS
<1> USE DEF CircomCounted
<1>0. MaxCircomLines \in Nat /\ MaxConstraints \in Nat BY CircomAssumption
<1>1. PICK n \in Nat, k \in Nat, l \in Nat : n = Len(signals) /\ k = Len(constraints) /\ l = Len(meant)
  BY DEF CircomInv, ReadSoFar, Signals
<1>2. signals \in Seq(Declarations) BY DEF CircomInv, ReadSoFar, Signals
<1>3. \A x : /\ Len(Append(constraints, x)) = k + 1
             /\ Len(Append(meant, x)) = l + 1
             /\ Len(Append(signals, x)) = n + 1
  BY <1>1, <1>2 DEF CircomInv, ReadSoFar
<1>4. CASE Declare
  <2>1. PICK d : n < MaxCircomLines /\ signals' = Append(signals, d)
    BY <1>1, <1>4 DEF Declare
  <2>2. UNCHANGED <<constraints, meant, circomStage, result>> BY <1>4 DEF Declare
  <2>3. Len(signals') <= MaxCircomLines BY <1>0, <1>3, <2>1
  <2>q. QED BY <2>2, <2>3
<1>5. CASE Constrain
  <2>1. l < MaxConstraints /\ UNCHANGED <<signals, circomStage, result>> BY <1>1, <1>5 DEF Constrain
  <2>2. PICK x, y : constraints' = Append(constraints, x) /\ meant' = Append(meant, y) BY <1>5 DEF Constrain
  <2>3. Len(constraints') = k + 1 /\ Len(meant') = l + 1 BY <1>3, <2>2
  <2>q. QED BY <1>0, <1>1, <2>1, <2>3
<1>6. CASE DeclareAndConstrain
  <2>1. n < MaxCircomLines /\ l < MaxConstraints /\ UNCHANGED <<constraints, circomStage, result>>
    BY <1>1, <1>6 DEF DeclareAndConstrain
  <2>2. PICK x, y : signals' = Append(signals, x) /\ meant' = Append(meant, y) BY <1>6 DEF DeclareAndConstrain
  <2>3. Len(signals') = n + 1 /\ Len(meant') = l + 1 BY <1>3, <2>2
  <2>q. QED BY <1>0, <1>1, <2>1, <2>3
<1>7. CASE EndOfFile
  BY <1>7 DEF EndOfFile
<1>8. CASE Answered
  BY <1>8 DEF Answered, NoResult
<1>9. CASE NotAnswered
  BY <1>9 DEF NotAnswered
<1>10. CASE UNCHANGED circomVars
  BY <1>10 DEF circomVars
<1>q. QED BY <1>4, <1>5, <1>6, <1>7, <1>8, <1>9, <1>10 DEF CircomNext

(* Every variable of the circuit check keeps its type: no more constraints *)
(* are read than the circuit has.                                          *)
THEOREM CircomTypeCorrect == CircomSpec => []CircomTypeOK
<1>1. CircomInit => CircomInv BY InitCircomInv
<1>2. CircomInit => CircomCounted BY CircomAssumption DEF CircomInit, CircomCounted, NoResult
<1>3. CircomInv /\ [CircomNext]_circomVars => CircomInv' BY StepCircomInv
<1>4. CircomInv /\ CircomCounted => CircomTypeOK
  <2> SUFFICES ASSUME CircomInv, CircomCounted PROVE CircomTypeOK OBVIOUS
  <2>1. PICK n : constraints \in Seq(ReadType(n)) BY DEF CircomInv, ReadSoFar
  <2>2. \A i \in DOMAIN constraints : constraints[i] \in ReadType(n) BY <2>1
  <2>3. \A i \in DOMAIN constraints : constraints[i].kind \in {"R1CS", "Equality"} BY <2>2 DEF ReadType
  <2>q. QED BY <2>3 DEF CircomInv, ReadSoFar, Signals, CircomCounted, CircomTypeOK
<1>q. QED BY <1>1, <1>2, <1>3, <1>4, StepCircomCounted, PTL DEF CircomSpec
-----------------------------------------------------------------------------
(* Outside the search, too, the queue and the verdict are of functions.    *)
SupplyTyped ==
    /\ advisory \in Advisories /\ paths \in Seq(Seq(Functions)) /\ visited \subseteq Functions
    /\ judged.chain \in Seq(Functions) /\ judged.severity \in ToSet(Severities) \cup {"none"}

LEMMA SeveritiesAre == {"Low", "High", "Critical"} \subseteq ToSet(Severities)
<1>1. DOMAIN Severities = 1..5 /\ Severities[2] = "Low" /\ Severities[4] = "High" /\ Severities[5] = "Critical"
  BY DEF Severities
<1>2. {2, 4, 5} \subseteq 1..5 OBVIOUS
<1>q. QED BY <1>1, <1>2 DEF ToSet

LEMMA AdjustedIs ==
    ASSUME advisory \in Advisories, NEW chain
    PROVE  Adjusted(chain) \in {"Low", "High", "Critical"}
BY DEF Adjusted, Advisories

LEMMA StepSupplyTyped == SupplyAssumption /\ SupplyInv /\ SupplyTyped /\ [SupplyNext]_supplyVars => SupplyTyped'
<1> SUFFICES ASSUME SupplyAssumption, SupplyInv, SupplyTyped, [SupplyNext]_supplyVars PROVE SupplyTyped' OBVIOUS
<1>1. CASE ReadCall \/ UnreadableFile \/ UNCHANGED supplyVars
  BY <1>1 DEF ReadCall, UnreadableFile, supplyVars, SupplyTyped
<1>2. CASE Take
  <2>1. advisory' \in Advisories BY <1>2 DEF Take
  <2>2. CASE advisory'.dev
    <3>1. judged' = [chain |-> <<>>, severity |-> "Low"] /\ UNCHANGED <<paths, visited>> BY <1>2, <2>2 DEF Take
    <3>2. judged'.chain = <<>> /\ judged'.severity = "Low" BY <3>1
    <3>q. QED BY <2>1, <3>1, <3>2, SeveritiesAre DEF SupplyTyped
  <2>3. CASE ~advisory'.dev
    <3>1. supplyStage' = "searching" /\ UNCHANGED judged BY <1>2, <2>3 DEF Take
    <3>2. Levels(NearEntry) BY NearIsLevels DEF SupplyInv
    <3>3. paths' \in Seq(Seq(Functions)) /\ visited' \subseteq Functions BY <1>2, <3>1, <3>2, TakeStarts
    <3>q. QED BY <2>1, <3>1, <3>3 DEF SupplyTyped
  <2>q. QED BY <2>2, <2>3
<1>3. CASE Visit
  <2>1. supplyStage = "searching" /\ paths # <<>> /\ UNCHANGED advisory BY <1>3 DEF Visit
  <2>2. Head(paths) \in Seq(Functions) BY <2>1 DEF SupplyTyped
  <2>3. Levels(NearEntry) BY NearIsLevels DEF SupplyInv
  <2>4. CASE EndOf(Head(paths)) = advisory.affected
    <3>1. judged' = [chain |-> Head(paths), severity |-> Adjusted(Head(paths))] /\ UNCHANGED <<paths, visited>>
      BY <1>3, <2>4 DEF Visit, EndOf
    <3>2. judged'.chain = Head(paths) /\ judged'.severity = Adjusted(Head(paths)) BY <3>1
    <3>3. Adjusted(Head(paths)) \in ToSet(Severities) BY AdjustedIs, SeveritiesAre DEF SupplyTyped
    <3>q. QED BY <2>1, <2>2, <3>1, <3>2, <3>3 DEF SupplyTyped
  <2>5. CASE EndOf(Head(paths)) # advisory.affected
    <3>1. UNCHANGED judged BY <1>3, <2>5 DEF Visit, EndOf
    <3>2. paths' \in Seq(Seq(Functions)) /\ visited' \subseteq Functions BY <1>3, <2>3, <2>5, VisitContinues
    <3>q. QED BY <2>1, <3>1, <3>2 DEF SupplyTyped
  <2>q. QED BY <2>4, <2>5
<1>4. CASE Unreachable
  <2>1. judged' = [chain |-> <<>>, severity |-> advisory.severity] /\ UNCHANGED <<advisory, paths, visited>>
    BY <1>4 DEF Unreachable
  <2>2. judged'.chain = <<>> /\ judged'.severity = advisory.severity BY <2>1
  <2>3. advisory.severity \in {"Low", "Critical"} BY DEF SupplyTyped, Advisories
  <2>q. QED BY <2>1, <2>2, <2>3, SeveritiesAre DEF SupplyTyped
<1>q. QED BY <1>1, <1>2, <1>3, <1>4 DEF SupplyNext

(* Every variable of the supply chains keeps its type.                     *)
THEOREM SupplyTypeCorrect ==
    ASSUME Functions # {}
    PROVE  SupplySpec => []SupplyTypeOK
<1>1. SupplyAssumption BY SupplyAssumption
<1>2. SupplyInit => SupplyInv BY DEF SupplyInit, SupplyInv
<1>3. SupplyInit => SupplyTyped
  <2> SUFFICES ASSUME SupplyInit PROVE SupplyTyped OBVIOUS
  <2>1. PICK a \in Advisories : a = advisory
    <3>1. PICK f \in Functions : f = CHOOSE g \in Functions : TRUE OBVIOUS
    <3>2. advisory = [affected |-> f, severity |-> "Low", dev |-> FALSE] BY <3>1 DEF SupplyInit
    <3>q. QED BY <3>2 DEF Advisories
  <2>2. judged.chain = <<>> /\ judged.severity = "none" BY DEF SupplyInit, NoVerdict
  <2>3. paths = <<>> /\ visited = {} BY DEF SupplyInit
  <2>q. QED BY <2>1, <2>2, <2>3 DEF SupplyTyped
<1>4. SupplyInv /\ SupplyTyped => SupplyTypeOK BY DEF SupplyInv, SupplyTyped, SupplyTypeOK
<1>5. SupplyAssumption /\ SupplyInv /\ [SupplyNext]_supplyVars => SupplyInv' BY StepSupplyInv
<1>q. QED BY <1>1, <1>2, <1>3, <1>4, <1>5, StepSupplyTyped, PTL DEF SupplySpec
-----------------------------------------------------------------------------
(* The parts of a run share no variables: whichever of them takes the      *)
(* steps, each behaves as its own specification says, or stands still.     *)
LEMMA StaticRunsParts ==
    StaticSpec => FactsSpec /\ EconSpec /\ RulesSpec /\ SupplySpec /\ CircomSpec /\ Halo2Spec
<1>1. StaticInit => FactsInit /\ EconInit /\ RulesInit /\ SupplyInit /\ CircomInit /\ Halo2Init
  BY DEF StaticInit
<1>2. ASSUME [StaticNext]_staticVars
      PROVE  /\ [FactsNext]_factVars /\ [EconNext]_econVars /\ [RulesNext]_ruleVars
             /\ [SupplyNext]_supplyVars /\ [CircomNext]_circomVars /\ [Halo2Next]_zkVars
  BY <1>2, Zenon DEF StaticNext, staticVars
<1>q. QED
  BY <1>1, <1>2, PTL DEF StaticSpec, FactsSpec, EconSpec, RulesSpec, SupplySpec, CircomSpec, Halo2Spec

(* All static checks keep the types of their variables: no open context is *)
(* at depth zero, no window leaves its file, no count passes its bound.    *)
THEOREM StaticTypeCorrect ==
    ASSUME Functions # {}
    PROVE  StaticSpec => []StaticTypeOK
<1>1. StaticInit => engine \in Engines BY DEF StaticInit
<1>2. engine \in Engines /\ [StaticNext]_staticVars => (engine \in Engines)'
  BY Zenon DEF StaticNext, staticVars, Engines
<1>3. engine \in Engines /\ FactsTypeOK /\ EconTypeOK /\ RulesTypeOK /\ SupplyTypeOK /\ CircomTypeOK /\ Halo2TypeOK
        => StaticTypeOK
  BY Zenon DEF StaticTypeOK
<1>4. SupplySpec => []SupplyTypeOK BY SupplyTypeCorrect
<1>q. QED
  BY <1>1, <1>2, <1>3, <1>4, StaticRunsParts, FactsTypeCorrect, EconTypeCorrect, RulesTypeCorrect,
     CircomTypeCorrect, Halo2TypeCorrect, PTL DEF StaticSpec
=============================================================================
