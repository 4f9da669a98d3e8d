--------------------------- MODULE MCProjectGraph ---------------------------
EXTENDS ProjectGraph
(* Three files, two of them of one crate; a file has one of two texts, the *)
(* same one whenever it is walked.                                         *)
D(n, l) == [name |-> n, line |-> l]
Empty == [f \in TextFields |-> <<>>]
PathA == <<"k", "src", "a.rs">>
PathB == <<"k", "b.rs">>
PathC == <<"c.circom">>
MCPaths == {PathA, PathB, PathC}
\* Methods of one name, a let, macros in a known and in an unknown function; a
\* trait impl, a feature on two lines; templates of one name.
TextsA == {[Empty EXCEPT !.fns = <<D("f", 1), D("f", 4)>>, !.calls = <<[caller |-> "f", callee |-> "g"]>>,
                         !.vars = <<[name |-> "x", line |-> 2, fn |-> "f"]>>,
                         !.macros = <<[name |-> "m!", line |-> 2, caller |-> "f"]>>],
           [Empty EXCEPT !.fns = <<D("f", 1), D("g", 1)>>]}
TextsB == {[Empty EXCEPT !.fns = <<D("g", 1)>>, !.impls = <<[name |-> "I::g", method |-> "g", line |-> 1]>>,
                         !.calls = <<[caller |-> "g", callee |-> "f"]>>,
                         !.macros = <<[name |-> "m!", line |-> 2, caller |-> "lost"]>>],
           [Empty EXCEPT !.fns = <<D("g", 1)>>, !.cfgs = <<D("asm", 1), D("asm", 2)>>]}
TextsC == {[Empty EXCEPT !.templates = <<D("T", 1), D("T", 3)>>,
                         !.signals = <<[name |-> "s", line |-> 2, template |-> "T"]>>]}
MCTexts == [p \in MCPaths |-> IF p = PathA THEN TextsA ELSE IF p = PathB THEN TextsB ELSE TextsC]
=============================================================================
