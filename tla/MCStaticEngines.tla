--------------------------- MODULE MCStaticEngines ---------------------------
EXTENDS StaticEngines
\* "xa" contains "a" once normalised; "b" ends in "a" after its last "::".
MCContaining == {<<"a", "a">>, <<"xa", "xa">>, <<"b", "b">>, <<"xa", "a">>}
MCTail == [s \in {"a", "xa", "b"} |-> IF s = "b" THEN "b" ELSE "a"]
\* "XR" ends with "R".
MCWithin == {<<"R", "R">>, <<"XR", "XR">>, <<"C", "C">>, <<"XR", "R">>}
MCExpressions == {<<<<"x">>>>, <<<<"y">>>>, <<<<"x", "y">>>>, <<<<"x", "y">>, <<"1">>>>}
=============================================================================
