--------------------------- MODULE MCSessionReview ---------------------------
(* A bounded instance of SessionReview: the session's own workspace has    *)
(* two rule matches, another one has a match under the same id.            *)
EXTENDS SessionReview, TLC

CONSTANTS own, other, rule1, rule2, c1, c2

MCMatches == own :> <<rule1, rule2>> @@ other :> <<rule1>>
=============================================================================
