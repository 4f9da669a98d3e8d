-------------------------- MODULE MCResearchService --------------------------
EXTENDS ResearchService
(* Two sessions: a load each, and a tool action of the second.  The first  *)
(* load meets a dependency twice.                                          *)
MCSessionOf == [u \in Users |-> IF u = "load1" THEN "s1" ELSE "s2"]
MCQueries == [u \in Users |->
    IF u = "load1" THEN <<"a", "a", "b">>
    ELSE IF u = "load2" THEN <<"a">>
    ELSE IF u = "act" THEN <<"a">> ELSE <<"doc">>]
=============================================================================
