-------------------------- MODULE FailoverPromise --------------------------
(***************************************************************************)
(* What RoleAwareProvider promises to its callers, without breakers, chain *)
(* positions or locks.  A call has a primary and a set of fallbacks; it is *)
(* answered by its primary, refused by its primary, answered by a fallback *)
(* only after its primary was found unavailable, and given up only after   *)
(* all of them were.  A failover is reported in the very step in which a   *)
(* fallback answers, and in no other step.                                 *)
(***************************************************************************)
CONSTANTS Calls,      \* concurrent calls of complete_with_role
          Names,      \* provider names
          Registered, \* names in the `providers` map
          Nobody      \* the answerer of a call nobody has answered

VARIABLES status,     \* where each call stands, as its caller sees it
          primary,    \* the provider the call's role resolves to
          fallbacks,  \* the other registered providers of its chain
          unavailable,\* the providers found unavailable for this very call
          answerer,   \* who answered the call
          reported    \* failover records handed to the hook

pvars == <<status, primary, fallbacks, unavailable, answerer, reported>>

PInit ==
    /\ status = [c \in Calls |-> "idle"]
    /\ primary = [c \in Calls |-> Nobody]
    /\ fallbacks = [c \in Calls |-> {}]
    /\ unavailable = [c \in Calls |-> {}]
    /\ answerer = [c \in Calls |-> Nobody]
    /\ reported = {}

Start(c, p, F) ==
    /\ status[c] = "idle"
    /\ p \notin F
    /\ status' = [status EXCEPT ![c] = "pending"]
    /\ primary' = [primary EXCEPT ![c] = p]
    /\ fallbacks' = [fallbacks EXCEPT ![c] = F]
    /\ UNCHANGED <<unavailable, answerer, reported>>

(* The primary is given up for this call: the fallbacks may be asked. *)
LosePrimary(c) ==
    /\ status[c] = "pending"
    /\ unavailable' = [unavailable EXCEPT ![c] = @ \cup {primary[c]}]
    /\ UNCHANGED <<status, primary, fallbacks, answerer, reported>>

(* No fallback is asked, let alone given up, while the primary may answer. *)
LoseFallback(c, p) ==
    /\ status[c] = "pending"
    /\ primary[c] \in unavailable[c] /\ p \in fallbacks[c]
    /\ unavailable' = [unavailable EXCEPT ![c] = @ \cup {p}]
    /\ UNCHANGED <<status, primary, fallbacks, answerer, reported>>

AnswerPrimary(c) ==
    /\ status[c] = "pending"
    /\ primary[c] \notin unavailable[c]
    /\ status' = [status EXCEPT ![c] = "answered"]
    /\ answerer' = [answerer EXCEPT ![c] = primary[c]]
    /\ UNCHANGED <<primary, fallbacks, unavailable, reported>>

AnswerFailover(c, p) ==
    /\ status[c] = "pending"
    /\ primary[c] \in unavailable[c] /\ p \in fallbacks[c]
    /\ status' = [status EXCEPT ![c] = "answered"]
    /\ answerer' = [answerer EXCEPT ![c] = p]
    /\ reported' = reported \cup {[from |-> primary[c], to |-> p]}
    /\ UNCHANGED <<primary, fallbacks, unavailable>>

(* A permanent error, which only the primary can give the caller. *)
Refuse(c) ==
    /\ status[c] = "pending"
    /\ primary[c] \notin unavailable[c]
    /\ status' = [status EXCEPT ![c] = "refused"]
    /\ UNCHANGED <<primary, fallbacks, unavailable, answerer, reported>>

GiveUp(c) ==
    /\ status[c] = "pending"
    /\ {primary[c]} \cup fallbacks[c] \subseteq unavailable[c]
    /\ status' = [status EXCEPT ![c] = "exhausted"]
    /\ UNCHANGED <<primary, fallbacks, unavailable, answerer, reported>>

Leave(c) ==
    /\ status[c] \in {"answered", "refused", "exhausted"}
    /\ status' = [status EXCEPT ![c] = "idle"]
    /\ primary' = [primary EXCEPT ![c] = Nobody]
    /\ fallbacks' = [fallbacks EXCEPT ![c] = {}]
    /\ unavailable' = [unavailable EXCEPT ![c] = {}]
    /\ answerer' = [answerer EXCEPT ![c] = Nobody]
    /\ UNCHANGED reported

PNext ==
    \E c \in Calls :
        \/ \E p \in Names, F \in SUBSET Registered : Start(c, p, F)
        \/ LosePrimary(c)
        \/ \E p \in Registered : LoseFallback(c, p) \/ AnswerFailover(c, p)
        \/ AnswerPrimary(c)
        \/ Refuse(c)
        \/ GiveUp(c)
        \/ Leave(c)

PSpec == PInit /\ [][PNext]_pvars
=============================================================================
