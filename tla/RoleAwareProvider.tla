------------------------- MODULE RoleAwareProvider -------------------------
(***************************************************************************)
(* RoleAwareProvider::complete_with_role: several calls run concurrently   *)
(* over one shared map of circuit breakers.  Each breaker operation takes  *)
(* the map's async mutex on its own; the provider is awaited in between,   *)
(* so a breaker may change between the check that admits a call and the    *)
(* record of that call's outcome.                                          *)
(*                                                                         *)
(* Instants are abstracted to the age of a breaker's last failure: none,   *)
(* fresh (within circuit_breaker_reset_after) or expired.                  *)
(***************************************************************************)
EXTENDS Naturals, Sequences

CONSTANTS Calls,       \* concurrent calls
          Names,       \* every provider name a configuration can mention
          Registered,  \* the names in the `providers` map
          Default,     \* the name of the default provider
          Routes,      \* role configurations: [provider, chain]
          Threshold,   \* circuit_breaker_threshold
          CountMax,    \* the largest failure count (u32::MAX in the code)
          Nobody       \* no provider

ASSUME ProviderAssumption ==
    /\ Registered \subseteq Names
    /\ Default \in Names
    /\ Nobody \notin Names
    /\ Routes \subseteq [provider : Names \cup {Nobody}, chain : Seq(Names)]
    /\ Threshold \in Nat \ {0}
    /\ CountMax \in Nat
    /\ Threshold <= CountMax

VARIABLES failures,    \* consecutive_failures of each breaker
          age,         \* age of last_failure
          pc,          \* where each call stands
          route,       \* the role configuration the call resolved
          pos,         \* 0 for the primary, i for fallback_chain[i]
          reply,       \* what the provider awaited at pos answered
          result,      \* how the call ended
          failovers,   \* records given to the failover hook
          trail        \* history: why the call moved past a provider

vars == <<failures, age, pc, route, pos, reply, result, failovers, trail>>

NoRoute == [provider |-> Nobody, chain |-> <<>>]

(* resolve_for_role: an unset or unregistered provider means the default. *)
Primary(c) ==
    IF route[c].provider \in Registered THEN route[c].provider ELSE Default

Chain(c) == route[c].chain

(* The provider at the call's current position. *)
Current(c) == IF pos[c] = 0 THEN Primary(c) ELSE Chain(c)[pos[c]]

InRange(c) == pos[c] <= Len(Chain(c))

(* A chain entry the loop skips before it looks at any breaker. *)
Passed(c) ==
    /\ pos[c] > 0
    /\ \/ Current(c) = Primary(c)
       \/ Current(c) \notin Registered

IsCircuitOpen(p) == failures[p] >= Threshold /\ age[p] = "fresh"

(* record_failure: the count saturates. *)
SaturatingAdd(n) == IF n < CountMax THEN n + 1 ELSE CountMax

RecordFailure(p) ==
    /\ failures' = [failures EXCEPT ![p] = SaturatingAdd(@)]
    /\ age' = [age EXCEPT ![p] = "fresh"]

RecordSuccessKeepsInstant(p) ==
    /\ failures' = [failures EXCEPT ![p] = 0]
    /\ UNCHANGED age
RecordSuccessClearsAll(p) ==
    /\ failures' = [q \in Names |-> 0]
    /\ age' = [q \in Names |-> "none"]
RecordSuccess(p) ==
    /\ failures' = [failures EXCEPT ![p] = 0]
    /\ age' = [age EXCEPT ![p] = "none"]

(* The errors that send a call on to its next provider: all of a           *)
(* fallback's, but only the transient ones of the primary.                 *)
MovesOnWhatever(c, o) == pos[c] >= 0
MovesOn(c, o) == pos[c] > 0 \/ o = "transient"

(* What the failover hook is told. *)
FailoverRecord(c) == [from |-> Primary(c), to |-> Current(c)]

Init ==
    /\ failures = [p \in Names |-> 0]
    /\ age = [p \in Names |-> "none"]
    /\ pc = [c \in Calls |-> "idle"]
    /\ route = [c \in Calls |-> NoRoute]
    /\ pos = [c \in Calls |-> 0]
    /\ reply = [c \in Calls |-> "none"]
    /\ result = [c \in Calls |-> "none"]
    /\ failovers = {}
    /\ trail = [c \in Calls |-> {}]

Begin(c) ==
    /\ pc[c] = "idle"
    /\ pc' = [pc EXCEPT ![c] = "check"]
    /\ \E r \in Routes : route' = [route EXCEPT ![c] = r]
    /\ UNCHANGED <<failures, age, pos, reply, result, failovers, trail>>

SkipEntry(c) ==
    /\ pc[c] = "check" /\ InRange(c) /\ Passed(c)
    /\ pos' = [pos EXCEPT ![c] = @ + 1]
    /\ UNCHANGED <<failures, age, pc, route, reply, result, failovers, trail>>

SkipOpen(c) ==
    /\ pc[c] = "check" /\ InRange(c) /\ ~Passed(c)
    /\ IsCircuitOpen(Current(c))
    /\ pos' = [pos EXCEPT ![c] = @ + 1]
    /\ trail' = [trail EXCEPT ![c] = @ \cup {<<Current(c), "open">>}]
    /\ UNCHANGED <<failures, age, pc, route, reply, result, failovers>>

(* The breaker is closed, or its window has passed: the provider is called *)
(* and awaited with no lock held.                                          *)
Admit(c) ==
    /\ pc[c] = "check" /\ InRange(c) /\ ~Passed(c)
    /\ ~IsCircuitOpen(Current(c))
    /\ pc' = [pc EXCEPT ![c] = "calling"]
    /\ UNCHANGED <<failures, age, route, pos, reply, result, failovers, trail>>

(* A permanent error of the primary is returned as it is; any other reply  *)
(* waits for the breaker lock to be recorded.                              *)
Reply(c, o) ==
    /\ pc[c] = "calling"
    /\ o = "ok" \/ MovesOn(c, o)
    /\ reply' = [reply EXCEPT ![c] = o]
    /\ pc' = [pc EXCEPT ![c] = "record"]
    /\ trail' = [trail EXCEPT ![c] =
                     IF o = "ok" THEN @ ELSE @ \cup {<<Current(c), o>>}]
    /\ UNCHANGED <<failures, age, route, pos, result, failovers>>

RefusePrimary(c) ==
    /\ pc[c] = "calling" /\ ~MovesOn(c, "permanent")
    /\ result' = [result EXCEPT ![c] = "permanent"]
    /\ pc' = [pc EXCEPT ![c] = "done"]
    /\ trail' = [trail EXCEPT ![c] = @ \cup {<<Current(c), "permanent">>}]
    /\ UNCHANGED <<failures, age, route, pos, reply, failovers>>

Succeed(c) ==
    /\ pc[c] = "record" /\ reply[c] = "ok"
    /\ RecordSuccess(Current(c))
    /\ \/ /\ pos[c] = 0
          /\ pc' = [pc EXCEPT ![c] = "done"]
          /\ result' = [result EXCEPT ![c] = "ok"]
       \/ /\ pos[c] > 0
          /\ pc' = [pc EXCEPT ![c] = "hook"]
          /\ UNCHANGED result
    /\ UNCHANGED <<route, pos, reply, failovers, trail>>

(* A fallback answered: the hook runs after the breaker lock is released. *)
EmitFailover(c) ==
    /\ pc[c] = "hook"
    /\ failovers' = failovers \cup {FailoverRecord(c)}
    /\ pc' = [pc EXCEPT ![c] = "done"]
    /\ result' = [result EXCEPT ![c] = "ok"]
    /\ UNCHANGED <<failures, age, route, pos, reply, trail>>

Fail(c) ==
    /\ pc[c] = "record" /\ reply[c] # "ok"
    /\ RecordFailure(Current(c))
    /\ pos' = [pos EXCEPT ![c] = @ + 1]
    /\ reply' = [reply EXCEPT ![c] = "none"]
    /\ pc' = [pc EXCEPT ![c] = "check"]
    /\ UNCHANGED <<route, result, failovers, trail>>

Exhaust(c) ==
    /\ pc[c] = "check" /\ ~InRange(c)
    /\ pc' = [pc EXCEPT ![c] = "done"]
    /\ result' = [result EXCEPT ![c] = "exhausted"]
    /\ UNCHANGED <<failures, age, route, pos, reply, failovers, trail>>

(* The caller takes the result; the same slot can make another call. *)
Return(c) ==
    /\ pc[c] = "done"
    /\ pc' = [pc EXCEPT ![c] = "idle"]
    /\ route' = [route EXCEPT ![c] = NoRoute]
    /\ pos' = [pos EXCEPT ![c] = 0]
    /\ reply' = [reply EXCEPT ![c] = "none"]
    /\ result' = [result EXCEPT ![c] = "none"]
    /\ trail' = [trail EXCEPT ![c] = {}]
    /\ UNCHANGED <<failures, age, failovers>>

(* circuit_breaker_reset_after passes since the last failure of p. *)
Elapse(p) ==
    /\ age[p] = "fresh"
    /\ age' = [age EXCEPT ![p] = "expired"]
    /\ UNCHANGED <<failures, pc, route, pos, reply, result, failovers, trail>>

Outcomes == {"ok", "transient", "permanent"}

Step(c) ==
    \/ SkipEntry(c)
    \/ SkipOpen(c)
    \/ Admit(c)
    \/ \E o \in Outcomes : Reply(c, o)
    \/ RefusePrimary(c)
    \/ Succeed(c)
    \/ EmitFailover(c)
    \/ Fail(c)
    \/ Exhaust(c)

Next ==
    \/ \E c \in Calls : Begin(c) \/ Step(c) \/ Return(c)
    \/ \E p \in Names : Elapse(p)

Spec == Init /\ [][Next]_vars

(* Every provider call ends (the HTTP client has a timeout), the breaker   *)
(* mutex is fair, and the runtime keeps polling a call that can go on.     *)
FairSpec == Spec /\ \A c \in Calls : WF_vars(Step(c))
-----------------------------------------------------------------------------
Reasons == {"open", "transient", "permanent"}

(* Every variable keeps to its type. *)
TypeOK ==
    /\ failures \in [Names -> 0..CountMax]
    /\ age \in [Names -> {"none", "fresh", "expired"}]
    /\ pc \in [Calls -> {"idle", "check", "calling", "record", "hook", "done"}]
    /\ route \in [Calls -> Routes \cup {NoRoute}]
    /\ pos \in [Calls -> Nat]
    /\ reply \in [Calls -> Outcomes \cup {"none"}]
    /\ result \in [Calls -> {"none", "ok", "permanent", "exhausted"}]
    /\ failovers \subseteq [from : Names, to : Names]
    /\ trail \in [Calls -> SUBSET (Names \X Reasons)]

(* A breaker counts failures exactly while it remembers when the last one  *)
(* was, whatever the order in which concurrent calls record: otherwise     *)
(* is_circuit_open would let a failing provider through for ever (a count  *)
(* and no instant) or the first failure after a success would reopen it.   *)
BreakerConsistent == \A p \in Names : failures[p] = 0 <=> age[p] = "none"

(* A call turns to its fallback chain only because its own primary was     *)
(* skipped by the breaker or failed transiently, never after a permanent   *)
(* error of the primary, which must reach the caller.                      *)
FallbackOnlyWhenPrimaryUnavailable ==
    \A c \in Calls :
        pos[c] > 0 =>
            /\ <<Primary(c), "permanent">> \notin trail[c]
            /\ \/ <<Primary(c), "open">> \in trail[c]
               \/ <<Primary(c), "transient">> \in trail[c]

(* "all providers failed ... exhausted" is only said when the primary and  *)
(* every registered provider of the chain was skipped by its breaker or    *)
(* has failed for this very call.                                          *)
ExhaustedMeansAllTried ==
    \A c \in Calls :
        result[c] = "exhausted" =>
            \A p \in {Primary(c)} \cup (Registered \cap
                     {Chain(c)[i] : i \in 1..Len(Chain(c))}) :
                \E r \in Reasons : <<p, r>> \in trail[c]

(* An open breaker is closed by time or by a success of that very provider *)
(* and its count never goes down in between: skipping a provider, or other *)
(* providers' outcomes, cannot heal it.                                    *)
BreakerHealsByItself ==
    [][\A p \in Names :
          failures'[p] < failures[p] \/ (IsCircuitOpen(p) /\ ~IsCircuitOpen(p)') =>
              \/ failures'[p] = failures[p] /\ age'[p] = "expired"
              \/ \E c \in Calls : /\ pc[c] = "record" /\ reply[c] = "ok"
                                  /\ Current(c) = p /\ pc'[c] # "record"]_vars

(* Every call that begins ends, whatever the other calls do to the         *)
(* breakers and however often a provider is skipped.                       *)
CallsEnd == \A c \in Calls : pc[c] = "check" ~> pc[c] = "done"
-----------------------------------------------------------------------------
(* The caller's view: the failover record and the answer appear together.  *)
StatusOf(c) ==
    IF pc[c] = "idle" THEN "idle"
    ELSE IF pc[c] # "done" THEN "pending"
    ELSE IF result[c] = "ok" THEN "answered"
    ELSE IF result[c] = "permanent" THEN "refused"
    ELSE "exhausted"

PrimaryOf(c) == IF pc[c] = "idle" THEN Nobody ELSE Primary(c)

AnswererOf(c) == IF pc[c] = "done" /\ result[c] = "ok" THEN Current(c) ELSE Nobody

FallbacksOf(c) ==
    IF pc[c] = "idle" THEN {}
    ELSE (Registered \cap {Chain(c)[i] : i \in 1..Len(Chain(c))}) \ {Primary(c)}

(* A permanent error makes a fallback unavailable, but not the primary:    *)
(* it is the primary's answer.                                             *)
UnavailableTo(c) ==
    {p \in Names : \/ <<p, "open">> \in trail[c]
                   \/ <<p, "transient">> \in trail[c]
                   \/ p # Primary(c) /\ <<p, "permanent">> \in trail[c]}

Promise == INSTANCE FailoverPromise WITH
    status <- [c \in Calls |-> StatusOf(c)],
    primary <- [c \in Calls |-> PrimaryOf(c)],
    fallbacks <- [c \in Calls |-> FallbacksOf(c)],
    unavailable <- [c \in Calls |-> UnavailableTo(c)],
    answerer <- [c \in Calls |-> AnswererOf(c)],
    reported <- failovers

(* RoleAwareProvider keeps the promise of FailoverPromise, whatever other  *)
(* calls do to the breakers in between: a fallback answers only after the  *)
(* primary was skipped or failed transiently for this very call, a         *)
(* permanent error of the primary reaches the caller, a call is given up   *)
(* only when its primary and each registered fallback were unavailable to  *)
(* it, and a failover is reported exactly when a fallback answers.         *)
ImplementsPromise == Promise!PSpec
=============================================================================
