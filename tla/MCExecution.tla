---------------------------- MODULE MCExecution -----------------------------
EXTENDS Execution
\* A line of code that asserts, and sources: none, and with one or two lines.
C(text) == InCodeLine(text)
WithLines(lines) == [harness |-> TRUE, lines |-> lines]
MCSources ==
    {NoSource, WithLines(<<C("required")>>), WithLines(<<C("stub"), C("required")>>),
     WithLines(<<C("stub"), [text |-> "required", code |-> FALSE]>>), WithLines(<<C("other"), C("required")>>)}

\* Findings of one id in two places, of four strengths.
MCStrengths == {[verified |-> v, cached |-> c, gate |-> g] :
                   v \in BOOLEAN, c \in BOOLEAN, g \in {0, 3}}
MCCollectable ==
    {[id |-> "r", at |-> l, verified |-> s.verified, cached |-> s.cached, gate |-> s.gate, test |-> s.verified] :
        l \in Locations, s \in {x \in MCStrengths : (x.cached => x.verified) /\ (x.verified => x.cached = (x.gate = 0))}}
=============================================================================
