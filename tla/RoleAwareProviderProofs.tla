---------------------- MODULE RoleAwareProviderProofs ----------------------
(***************************************************************************)
(* Proofs about RoleAwareProvider, for every set of calls, names, routes   *)
(* and every threshold.  The inductive invariant IInv adds to TypeOK where *)
(* a call is in its chain (PosInv) and which providers its trail must      *)
(* already account for (TrailInv).                                         *)
(***************************************************************************)
EXTENDS RoleAwareProvider, TLAPS

USE ProviderAssumption DEF ProviderAssumption

Past(c) == {Chain(c)[i] : i \in {j \in 1..Len(Chain(c)) : j < pos[c]}}

(* Where call c is in its chain. *)
PosOf(c) ==
    /\ pc[c] = "idle" => pos[c] = 0 /\ trail[c] = {}
    /\ pc[c] \in {"calling", "record", "hook"} => InRange(c) /\ ~Passed(c)
    /\ pc[c] = "hook" => pos[c] > 0
    /\ pc[c] = "record" /\ reply[c] # "ok" => MovesOn(c, reply[c])
    /\ pc[c] = "record" => reply[c] # "none"
    /\ pc[c] # "done" => result[c] = "none"
    /\ pc[c] = "done" => result[c] # "none"
    /\ result[c] = "ok" => InRange(c) /\ ~Passed(c)
    /\ result[c] = "exhausted" => ~InRange(c)
    /\ result[c] = "permanent" => pos[c] = 0
    /\ pos[c] = 0 /\ pc[c] \in {"check", "calling"} => trail[c] = {}
    /\ pos[c] = 0 /\ pc[c] = "record" /\ reply[c] = "ok" => trail[c] = {}

(* What the trail of call c accounts for. *)
TrailOf(c) ==
    /\ <<Primary(c), "permanent">> \in trail[c] => result[c] = "permanent"
    /\ pos[c] > 0 => \/ <<Primary(c), "open">> \in trail[c]
                     \/ <<Primary(c), "transient">> \in trail[c]
    /\ \A p \in Past(c) \cap Registered :
          \E r \in Reasons : <<p, r>> \in trail[c]
    /\ pc[c] = "record" /\ reply[c] # "ok" =>
          <<Current(c), reply[c]>> \in trail[c]

PosInv == \A c \in Calls : PosOf(c)
TrailInv == \A c \in Calls : TrailOf(c)

IInv == TypeOK /\ BreakerConsistent /\ PosInv /\ TrailInv
-----------------------------------------------------------------------------
(* The provider a call looks at is always a configured name. *)
LEMMA NamesTyped ==
    ASSUME TypeOK, NEW c \in Calls
    PROVE  /\ Primary(c) \in Names
           /\ Chain(c) \in Seq(Names)
           /\ InRange(c) => Current(c) \in Names
<1>1. route[c] \in [provider : Names \cup {Nobody}, chain : Seq(Names)]
  <2>1. <<>> \in Seq(Names)
    OBVIOUS
  <2>2. NoRoute \in [provider : Names \cup {Nobody}, chain : Seq(Names)]
    BY <2>1 DEF NoRoute
  <2>3. route[c] \in Routes \cup {NoRoute}
    BY DEF TypeOK
  <2>4. QED BY <2>2, <2>3
<1>2. Primary(c) \in Names /\ Chain(c) \in Seq(Names)
  BY <1>1 DEF Primary, Chain
<1>3. pos[c] \in Nat
  BY DEF TypeOK
<1>4. QED
  BY <1>2, <1>3 DEF InRange, Current

(* complete_with_role keeps every variable in its type. *)
LEMMA TypeInit == Init => TypeOK
BY DEF Init, TypeOK, NoRoute

LEMMA TypeStep ==
    ASSUME TypeOK, PosInv, [Next]_vars
    PROVE  TypeOK'
<1> USE DEF TypeOK
<1>1. ASSUME NEW c \in Calls, Begin(c) PROVE TypeOK'
  BY <1>1 DEF Begin
<1>2. ASSUME NEW c \in Calls, SkipEntry(c) PROVE TypeOK'
  BY <1>2 DEF SkipEntry
<1>3. ASSUME NEW c \in Calls, SkipOpen(c) PROVE TypeOK'
  <2>1. Current(c) \in Names
    BY <1>3, NamesTyped DEF SkipOpen
  <2>2. QED BY <1>3, <2>1 DEF SkipOpen, Reasons
<1>4. ASSUME NEW c \in Calls, Admit(c) PROVE TypeOK'
  BY <1>4 DEF Admit
<1>5. ASSUME NEW c \in Calls, NEW o \in Outcomes, Reply(c, o) PROVE TypeOK'
  <2>1. Current(c) \in Names
    BY <1>5, NamesTyped DEF Reply, PosInv, PosOf
  <2>2. QED BY <1>5, <2>1 DEF Reply, Reasons, Outcomes
<1>6. ASSUME NEW c \in Calls, RefusePrimary(c) PROVE TypeOK'
  <2>1. Current(c) \in Names
    BY <1>6, NamesTyped DEF RefusePrimary, PosInv, PosOf
  <2>2. QED BY <1>6, <2>1 DEF RefusePrimary, Reasons
<1>7. ASSUME NEW c \in Calls, Succeed(c) PROVE TypeOK'
  <2>1. Current(c) \in Names
    BY <1>7, NamesTyped DEF Succeed, PosInv, PosOf
  <2>2. failures' \in [Names -> 0..CountMax] /\ age' \in [Names -> {"none", "fresh", "expired"}]
    BY <1>7, <2>1 DEF Succeed, RecordSuccess
  <2>3. /\ pc' \in [Calls -> {"idle", "check", "calling", "record", "hook", "done"}]
        /\ result' \in [Calls -> {"none", "ok", "permanent", "exhausted"}]
    BY <1>7 DEF Succeed
  <2>4. QED BY <1>7, <2>2, <2>3 DEF Succeed
<1>8. ASSUME NEW c \in Calls, EmitFailover(c) PROVE TypeOK'
  <2>1. Current(c) \in Names /\ Primary(c) \in Names
    BY <1>8, NamesTyped DEF EmitFailover, PosInv, PosOf
  <2>2. QED BY <1>8, <2>1 DEF EmitFailover, FailoverRecord
<1>9. ASSUME NEW c \in Calls, Fail(c) PROVE TypeOK'
  <2>1. Current(c) \in Names
    BY <1>9, NamesTyped DEF Fail, PosInv, PosOf
  <2>2. SaturatingAdd(failures[Current(c)]) \in 0..CountMax
    BY <2>1 DEF SaturatingAdd
  <2>3. failures' \in [Names -> 0..CountMax]
    BY <1>9, <2>1, <2>2 DEF Fail, RecordFailure
  <2>4. QED BY <1>9, <2>1, <2>3 DEF Fail, RecordFailure, Outcomes
<1>10. ASSUME NEW c \in Calls, Exhaust(c) PROVE TypeOK'
  BY <1>10 DEF Exhaust
<1>11. ASSUME NEW c \in Calls, Return(c) PROVE TypeOK'
  BY <1>11 DEF Return
<1>12. ASSUME NEW p \in Names, Elapse(p) PROVE TypeOK'
  BY <1>12 DEF Elapse
<1>13. CASE UNCHANGED vars
  BY <1>13 DEF vars
<1>14. QED
  BY <1>1, <1>2, <1>3, <1>4, <1>5, <1>6, <1>7, <1>8, <1>9, <1>10, <1>11,
     <1>12, <1>13 DEF Next, Step
-----------------------------------------------------------------------------
(* A call whose own state does not change keeps PosOf and TrailOf. *)
LEMMA Frame ==
    ASSUME NEW d \in Calls, PosOf(d), TrailOf(d),
           pc'[d] = pc[d], route'[d] = route[d], pos'[d] = pos[d],
           reply'[d] = reply[d], result'[d] = result[d], trail'[d] = trail[d]
    PROVE  PosOf(d)' /\ TrailOf(d)'
BY DEF PosOf, TrailOf, InRange, Passed, Current, Chain, Primary, MovesOn, Past

(* Moving past the current provider adds only that provider to Past. *)
LEMMA PastGrows ==
    ASSUME TypeOK, NEW c \in Calls, InRange(c),
           route'[c] = route[c], pos'[c] = pos[c] + 1
    PROVE  Past(c)' \subseteq Past(c) \cup {Current(c)}
<1> SUFFICES ASSUME NEW i \in 1..Len(Chain(c)), i < pos[c] + 1
             PROVE  Chain(c)[i] \in Past(c) \cup {Current(c)}
  BY DEF Past, Chain
<1>1. pos[c] \in Nat
  BY DEF TypeOK
<1>2. CASE i < pos[c]
  BY <1>2 DEF Past
<1>3. CASE i = pos[c]
  BY <1>3, <1>1 DEF Current
<1>4. Len(Chain(c)) \in Nat
  BY NamesTyped
<1>5. QED
  BY <1>1, <1>2, <1>3, <1>4

LEMMA CallStep ==
    ASSUME TypeOK, PosInv, TrailInv, [Next]_vars
    PROVE  PosInv' /\ TrailInv'
<1> SUFFICES ASSUME NEW d \in Calls PROVE PosOf(d)' /\ TrailOf(d)'
  BY DEF PosInv, TrailInv
<1>pre. PosOf(d) /\ TrailOf(d)
  BY DEF PosInv, TrailInv
<1>typ. /\ pos[d] \in Nat /\ Len(Chain(d)) \in Nat
        /\ Primary(d) \in Names /\ Chain(d) \in Seq(Names)
  BY NamesTyped DEF TypeOK
<1>fun. /\ pc \in [Calls -> {"idle", "check", "calling", "record", "hook", "done"}]
        /\ pos \in [Calls -> Nat]
        /\ trail \in [Calls -> SUBSET (Names \X Reasons)]
        /\ route \in [Calls -> Routes \cup {NoRoute}]
        /\ reply \in [Calls -> Outcomes \cup {"none"}]
        /\ result \in [Calls -> {"none", "ok", "permanent", "exhausted"}]
  BY DEF TypeOK
<1>0. ASSUME NEW c \in Calls, c # d, Begin(c) \/ Step(c) \/ Return(c)
      PROVE  PosOf(d)' /\ TrailOf(d)'
  <2>1. /\ pc'[d] = pc[d] /\ route'[d] = route[d] /\ pos'[d] = pos[d]
        /\ reply'[d] = reply[d] /\ result'[d] = result[d] /\ trail'[d] = trail[d]
    BY <1>0, <1>fun DEF Begin, Step, Return, SkipEntry, SkipOpen, Admit, Reply,
       RefusePrimary, Succeed, EmitFailover, Fail, Exhaust
  <2>2. QED BY <2>1, <1>pre, Frame
<1>1. ASSUME Begin(d) PROVE PosOf(d)' /\ TrailOf(d)'
  <2>1. pos'[d] = 0 /\ pc'[d] = "check" /\ trail'[d] = {} /\ result'[d] = "none"
    BY <1>1, <1>pre, <1>fun DEF Begin, PosOf
  <2>2. Past(d)' = {}
    BY <2>1 DEF Past
  <2>3. QED BY <2>1, <2>2 DEF PosOf, TrailOf
<1>2. ASSUME SkipEntry(d) PROVE PosOf(d)' /\ TrailOf(d)'
  <2>1. /\ pc'[d] = "check" /\ pos'[d] = pos[d] + 1 /\ trail'[d] = trail[d]
        /\ result'[d] = result[d] /\ route'[d] = route[d] /\ pc[d] = "check"
        /\ result[d] = "none" /\ InRange(d) /\ Passed(d)
    BY <1>2, <1>pre, <1>fun DEF SkipEntry, PosOf
  <2>2. PosOf(d)'
    BY <2>1, <1>typ DEF PosOf
  <2>3. Primary(d)' = Primary(d)
    BY <2>1 DEF Primary
  <2>4. \A p \in Past(d)' \cap Registered : \E r \in Reasons : <<p, r>> \in trail[d]
    <3>1. Current(d) \in Registered => \E r \in Reasons : <<Current(d), r>> \in trail[d]
      BY <2>1, <1>pre DEF Passed, TrailOf, Reasons
    <3>2. QED BY <3>1, <2>1, <1>pre, PastGrows DEF TrailOf
  <2>5. QED
    BY <2>1, <2>2, <2>3, <2>4, <1>pre, <1>typ DEF TrailOf, Passed
<1>3. ASSUME SkipOpen(d) PROVE PosOf(d)' /\ TrailOf(d)'
  <2>1. /\ pc'[d] = "check" /\ pos'[d] = pos[d] + 1
        /\ trail'[d] = trail[d] \cup {<<Current(d), "open">>}
        /\ result'[d] = result[d] /\ route'[d] = route[d] /\ pc[d] = "check"
        /\ result[d] = "none" /\ InRange(d) /\ ~Passed(d)
    BY <1>3, <1>pre, <1>fun DEF SkipOpen, PosOf
  <2>2. PosOf(d)'
    BY <2>1, <1>typ DEF PosOf
  <2>3. Primary(d)' = Primary(d)
    BY <2>1 DEF Primary
  <2>4. \A p \in Past(d)' \cap Registered : \E r \in Reasons : <<p, r>> \in trail'[d]
    BY <2>1, <1>pre, PastGrows DEF TrailOf, Reasons
  <2>5. pos[d] = 0 => Current(d) = Primary(d)
    BY DEF Current
  <2>6. <<Primary(d), "permanent">> \in trail'[d] => <<Primary(d), "permanent">> \in trail[d]
    BY <2>1
  <2>7. pos[d] > 0 => \/ <<Primary(d), "open">> \in trail[d]
                     \/ <<Primary(d), "transient">> \in trail[d]
    BY <1>pre DEF TrailOf
  <2>8. \/ <<Primary(d), "open">> \in trail'[d]
        \/ <<Primary(d), "transient">> \in trail'[d]
    BY <2>1, <2>5, <2>7, <1>typ
  <2>9. QED
    BY <2>1, <2>2, <2>3, <2>4, <2>6, <2>8, <1>pre DEF TrailOf
<1>4. ASSUME Admit(d) PROVE PosOf(d)' /\ TrailOf(d)'
  BY <1>4, <1>pre, <1>fun
     DEF Admit, PosOf, TrailOf, InRange, Passed, Current, Chain, Primary, MovesOn, Past
<1>5. ASSUME NEW o \in Outcomes, Reply(d, o) PROVE PosOf(d)' /\ TrailOf(d)'
  <2>1. /\ pc[d] = "calling" /\ pc'[d] = "record" /\ pos'[d] = pos[d]
        /\ reply'[d] = o /\ result'[d] = result[d] /\ route'[d] = route[d]
        /\ trail'[d] = IF o = "ok" THEN trail[d] ELSE trail[d] \cup {<<Current(d), o>>}
        /\ o = "ok" \/ MovesOn(d, o)
        /\ result[d] = "none" /\ InRange(d) /\ ~Passed(d)
    BY <1>5, <1>pre, <1>fun DEF Reply, PosOf
  <2>2. /\ Primary(d)' = Primary(d) /\ Current(d)' = Current(d) /\ Past(d)' = Past(d)
        /\ InRange(d)' = InRange(d) /\ Passed(d)' = Passed(d)
        /\ MovesOn(d, o)' = MovesOn(d, o)
    BY <2>1 DEF InRange, Passed, Current, Chain, Primary, MovesOn, Past
  <2>3. PosOf(d)'
    BY <2>1, <2>2, <1>pre DEF PosOf, Outcomes, MovesOn
  <2>4. <<Primary(d), "permanent">> \in trail'[d] => <<Primary(d), "permanent">> \in trail[d]
    BY <2>1, <1>typ DEF MovesOn, Passed, Current
  <2>5. QED
    BY <2>1, <2>2, <2>3, <2>4, <1>pre DEF TrailOf
<1>6. ASSUME RefusePrimary(d) PROVE PosOf(d)' /\ TrailOf(d)'
  <2>1. /\ pc[d] = "calling" /\ pc'[d] = "done" /\ pos'[d] = pos[d] /\ pos[d] = 0
        /\ result'[d] = "permanent" /\ route'[d] = route[d]
    BY <1>6, <1>fun, <1>typ DEF RefusePrimary, MovesOn
  <2>2. Past(d)' = {}
    BY <2>1 DEF Past
  <2>3. QED BY <2>1, <2>2 DEF PosOf, TrailOf
<1>7. ASSUME Succeed(d) PROVE PosOf(d)' /\ TrailOf(d)'
  <2>1. /\ pc[d] = "record" /\ pos'[d] = pos[d] /\ trail'[d] = trail[d]
        /\ route'[d] = route[d] /\ result[d] = "none" /\ InRange(d) /\ ~Passed(d)
        /\ \/ pc'[d] = "done" /\ result'[d] = "ok"
           \/ pc'[d] = "hook" /\ result'[d] = "none" /\ pos[d] > 0
    BY <1>7, <1>pre, <1>fun, <1>typ DEF Succeed, PosOf
  <2>2. /\ Primary(d)' = Primary(d) /\ Current(d)' = Current(d) /\ Past(d)' = Past(d)
        /\ InRange(d)' = InRange(d) /\ Passed(d)' = Passed(d)
    BY <2>1 DEF InRange, Passed, Current, Chain, Primary, Past
  <2>3. PosOf(d)'
    BY <2>1, <2>2 DEF PosOf
  <2>4. QED
    BY <2>1, <2>2, <2>3, <1>pre DEF TrailOf
<1>8. ASSUME EmitFailover(d) PROVE PosOf(d)' /\ TrailOf(d)'
  <2>1. /\ pc[d] = "hook" /\ pos'[d] = pos[d] /\ trail'[d] = trail[d]
        /\ route'[d] = route[d] /\ result[d] = "none" /\ InRange(d) /\ ~Passed(d)
        /\ pc'[d] = "done" /\ result'[d] = "ok"
    BY <1>8, <1>pre, <1>fun DEF EmitFailover, PosOf
  <2>2. /\ Primary(d)' = Primary(d) /\ Current(d)' = Current(d) /\ Past(d)' = Past(d)
        /\ InRange(d)' = InRange(d) /\ Passed(d)' = Passed(d)
    BY <2>1 DEF InRange, Passed, Current, Chain, Primary, Past
  <2>3. PosOf(d)'
    BY <2>1, <2>2 DEF PosOf
  <2>4. QED
    BY <2>1, <2>2, <2>3, <1>pre DEF TrailOf
<1>9. ASSUME Fail(d) PROVE PosOf(d)' /\ TrailOf(d)'
  <2>1. /\ pc[d] = "record" /\ pc'[d] = "check" /\ pos'[d] = pos[d] + 1
        /\ trail'[d] = trail[d] /\ route'[d] = route[d]
        /\ result'[d] = result[d] /\ result[d] = "none" /\ InRange(d) /\ ~Passed(d)
        /\ reply[d] # "ok" /\ MovesOn(d, reply[d]) /\ reply[d] \in Outcomes
        /\ <<Current(d), reply[d]>> \in trail[d]
    BY <1>9, <1>pre, <1>fun DEF Fail, PosOf, TrailOf
  <2>2. PosOf(d)'
    BY <2>1, <1>typ DEF PosOf
  <2>3. Primary(d)' = Primary(d)
    BY <2>1 DEF Primary
  <2>4. \A p \in Past(d)' \cap Registered : \E r \in Reasons : <<p, r>> \in trail[d]
    BY <2>1, <1>pre, PastGrows DEF TrailOf, Reasons, Outcomes
  <2>5. pos[d] = 0 => <<Primary(d), "transient">> \in trail[d]
    BY <2>1 DEF Current, MovesOn
  <2>6. QED
    BY <2>1, <2>2, <2>3, <2>4, <2>5, <1>pre, <1>typ DEF TrailOf
<1>10. ASSUME Exhaust(d) PROVE PosOf(d)' /\ TrailOf(d)'
  BY <1>10, <1>pre, <1>fun
     DEF Exhaust, PosOf, TrailOf, InRange, Passed, Current, Chain, Primary, MovesOn, Past
<1>11. ASSUME Return(d) PROVE PosOf(d)' /\ TrailOf(d)'
  <2>1. /\ pc'[d] = "idle" /\ pos'[d] = 0 /\ trail'[d] = {} /\ result'[d] = "none"
    BY <1>11, <1>fun DEF Return
  <2>2. Past(d)' = {}
    BY <2>1 DEF Past
  <2>3. QED BY <2>1, <2>2 DEF PosOf, TrailOf
<1>12. CASE UNCHANGED vars \/ \E p \in Names : Elapse(p)
  BY <1>12, <1>pre, Frame DEF vars, Elapse
<1>13. QED
  <2>1. CASE Begin(d) \/ Step(d) \/ Return(d)
    BY <2>1, <1>1, <1>2, <1>3, <1>4, <1>5, <1>6, <1>7, <1>8, <1>9, <1>10, <1>11
       DEF Step
  <2>2. QED BY <2>1, <1>0, <1>12 DEF Next
-----------------------------------------------------------------------------
LEMMA BreakerStep ==
    ASSUME TypeOK, PosInv, BreakerConsistent, [Next]_vars
    PROVE  BreakerConsistent'
<1> SUFFICES ASSUME NEW p \in Names PROVE (failures[p] = 0 <=> age[p] = "none")'
  BY DEF BreakerConsistent
<1>1. failures[p] = 0 <=> age[p] = "none"
  BY DEF BreakerConsistent
<1>2. /\ failures \in [Names -> 0..CountMax]
      /\ age \in [Names -> {"none", "fresh", "expired"}]
  BY DEF TypeOK
<1>3. ASSUME NEW c \in Calls, Succeed(c) PROVE (failures[p] = 0 <=> age[p] = "none")'
  BY <1>1, <1>2, <1>3 DEF Succeed, RecordSuccess
<1>4. ASSUME NEW c \in Calls, Fail(c) PROVE (failures[p] = 0 <=> age[p] = "none")'
  <2>1. \A n \in 0..CountMax : SaturatingAdd(n) > 0
    BY DEF SaturatingAdd
  <2>2. QED BY <1>1, <1>2, <1>4, <2>1 DEF Fail, RecordFailure
<1>5. ASSUME NEW q \in Names, Elapse(q) PROVE (failures[p] = 0 <=> age[p] = "none")'
  BY <1>1, <1>2, <1>5 DEF Elapse
<1>6. ASSUME NEW c \in Calls,
             \/ Begin(c) \/ SkipEntry(c) \/ SkipOpen(c) \/ Admit(c)
             \/ \E o \in Outcomes : Reply(c, o)
             \/ RefusePrimary(c) \/ EmitFailover(c) \/ Exhaust(c) \/ Return(c)
      PROVE  failures' = failures /\ age' = age
  BY <1>6 DEF Begin, SkipEntry, SkipOpen, Admit, Reply, RefusePrimary,
     EmitFailover, Exhaust, Return
<1>7. CASE UNCHANGED vars
  BY <1>7, <1>1 DEF vars
<1>8. QED
  BY <1>1, <1>3, <1>4, <1>5, <1>6, <1>7 DEF Next, Step

(* IInv is inductive. *)
LEMMA Inductive == Spec => []IInv
<1>1. Init => IInv
  <2> SUFFICES ASSUME Init PROVE IInv
    OBVIOUS
  <2>1. TypeOK
    BY TypeInit
  <2>2. BreakerConsistent
    BY DEF Init, BreakerConsistent
  <2>3. ASSUME NEW c \in Calls PROVE PosOf(c) /\ TrailOf(c)
    <3>1. /\ pc[c] = "idle" /\ pos[c] = 0 /\ trail[c] = {} /\ result[c] = "none"
      BY DEF Init
    <3>2. Past(c) = {}
      BY <3>1 DEF Past
    <3>3. QED BY <3>1, <3>2 DEF PosOf, TrailOf
  <2>4. QED BY <2>1, <2>2, <2>3 DEF IInv, PosInv, TrailInv
<1>2. IInv /\ [Next]_vars => IInv'
  BY TypeStep, CallStep, BreakerStep DEF IInv
<1>3. QED
  BY <1>1, <1>2, PTL DEF Spec

(* Whatever the calls do concurrently, every variable keeps its type: in   *)
(* particular the failure count saturates and never exceeds CountMax.      *)
THEOREM TypeCorrect == Spec => []TypeOK
BY Inductive, PTL DEF IInv

(* A breaker has a failure count exactly while it has a failure instant.   *)
THEOREM BreakersStayConsistent == Spec => []BreakerConsistent
BY Inductive, PTL DEF IInv

(* A permanent error of the primary always reaches the caller: the chain   *)
(* is only entered after an open breaker or a transient error.             *)
THEOREM FallbackSound == Spec => []FallbackOnlyWhenPrimaryUnavailable
<1>1. IInv => FallbackOnlyWhenPrimaryUnavailable
  <2> SUFFICES ASSUME IInv, NEW c \in Calls, pos[c] > 0
               PROVE  /\ <<Primary(c), "permanent">> \notin trail[c]
                      /\ \/ <<Primary(c), "open">> \in trail[c]
                         \/ <<Primary(c), "transient">> \in trail[c]
    BY DEF FallbackOnlyWhenPrimaryUnavailable
  <2>1. PosOf(c) /\ TrailOf(c)
    BY DEF IInv, PosInv, TrailInv
  <2>2. QED BY <2>1 DEF PosOf, TrailOf
<1>2. QED
  BY <1>1, Inductive, PTL

(* A call reports exhaustion only when its primary and every registered    *)
(* provider of its chain was skipped by a breaker or failed for it.        *)
THEOREM ExhaustionSound == Spec => []ExhaustedMeansAllTried
<1>1. IInv => ExhaustedMeansAllTried
  <2> SUFFICES ASSUME IInv, NEW c \in Calls, result[c] = "exhausted",
                      NEW p \in {Primary(c)} \cup (Registered \cap
                                    {Chain(c)[i] : i \in 1..Len(Chain(c))})
               PROVE  \E r \in Reasons : <<p, r>> \in trail[c]
    BY DEF ExhaustedMeansAllTried
  <2>1. PosOf(c) /\ TrailOf(c) /\ TypeOK
    BY DEF IInv, PosInv, TrailInv
  <2>2. pos[c] \in Nat /\ Len(Chain(c)) \in Nat /\ pos[c] > Len(Chain(c))
    BY <2>1, NamesTyped DEF PosOf, InRange, TypeOK
  <2>3. CASE p = Primary(c)
    BY <2>1, <2>2, <2>3 DEF TrailOf, Reasons
  <2>4. CASE p \in Registered \cap {Chain(c)[i] : i \in 1..Len(Chain(c))}
    <3>1. p \in Past(c)
      BY <2>2, <2>4 DEF Past
    <3>2. QED BY <3>1, <2>1, <2>4 DEF TrailOf
  <2>5. QED BY <2>3, <2>4
<1>2. QED
  BY <1>1, Inductive, PTL

(* Only the time since its last failure, or a success recorded of that     *)
(* very provider, closes a breaker or takes its count down, whatever the   *)
(* other calls skip, record and return meanwhile.                          *)
THEOREM HealsOnlyByItself == Spec => BreakerHealsByItself
<1>1. IInv /\ [Next]_vars =>
          [\A p \in Names :
               failures'[p] < failures[p] \/ (IsCircuitOpen(p) /\ ~IsCircuitOpen(p)') =>
                   \/ failures'[p] = failures[p] /\ age'[p] = "expired"
                   \/ \E c \in Calls : /\ pc[c] = "record" /\ reply[c] = "ok"
                                       /\ Current(c) = p /\ pc'[c] # "record"]_vars
  <2> SUFFICES ASSUME IInv, Next, NEW p \in Names,
                      failures'[p] < failures[p] \/ (IsCircuitOpen(p) /\ ~IsCircuitOpen(p)')
               PROVE  \/ failures'[p] = failures[p] /\ age'[p] = "expired"
                      \/ \E c \in Calls : /\ pc[c] = "record" /\ reply[c] = "ok"
                                          /\ Current(c) = p /\ pc'[c] # "record"
    OBVIOUS
  <2>1. /\ failures \in [Names -> 0..CountMax]
        /\ age \in [Names -> {"none", "fresh", "expired"}]
        /\ pc \in [Calls -> {"idle", "check", "calling", "record", "hook", "done"}]
    BY DEF IInv, TypeOK
  <2>2. ~(failures'[p] = failures[p] /\ age'[p] = age[p])
    BY <2>1 DEF IsCircuitOpen
  <2>3. ASSUME NEW c \in Calls,
               \/ Begin(c) \/ SkipEntry(c) \/ SkipOpen(c) \/ Admit(c)
               \/ \E o \in Outcomes : Reply(c, o)
               \/ RefusePrimary(c) \/ EmitFailover(c) \/ Exhaust(c) \/ Return(c)
        PROVE  FALSE
    BY <2>2, <2>3 DEF Begin, SkipEntry, SkipOpen, Admit, Reply, RefusePrimary,
       EmitFailover, Exhaust, Return
  <2>4. ASSUME NEW c \in Calls, Succeed(c)
        PROVE  pc[c] = "record" /\ reply[c] = "ok" /\ Current(c) = p /\ pc'[c] # "record"
    <3>1. Current(c) = p BY <2>1, <2>2, <2>4 DEF Succeed, RecordSuccess
    <3>2. QED BY <2>1, <2>4, <3>1 DEF Succeed
  <2>5. ASSUME NEW c \in Calls, Fail(c) PROVE FALSE
    <3>1. Current(c) = p BY <2>1, <2>2, <2>5 DEF Fail, RecordFailure
    <3>2. failures'[p] = SaturatingAdd(failures[p]) /\ age'[p] = "fresh"
      BY <2>1, <2>5, <3>1 DEF Fail, RecordFailure
    <3>3. failures[p] <= failures'[p]
      BY <2>1, <3>2 DEF SaturatingAdd
    <3>4. failures'[p] \in Nat /\ ~(failures'[p] < failures[p])
      BY <2>1, <3>2, <3>3 DEF SaturatingAdd
    <3>5. QED BY <2>1, <3>2, <3>3, <3>4 DEF IsCircuitOpen
  <2>6. ASSUME NEW q \in Names, Elapse(q)
        PROVE  failures'[p] = failures[p] /\ age'[p] = "expired"
    BY <2>1, <2>2, <2>6 DEF Elapse
  <2>7. QED BY <2>3, <2>4, <2>5, <2>6 DEF Next, Step
<1>2. QED
  BY <1>1, Inductive, PTL DEF Spec, BreakerHealsByItself
-----------------------------------------------------------------------------
(* Steps that keep the caller's view of every call are stutters of Promise. *)
LEMMA SameView ==
    ASSUME failovers' = failovers,
           \A d \in Calls : /\ StatusOf(d)' = StatusOf(d)
                            /\ PrimaryOf(d)' = PrimaryOf(d)
                            /\ FallbacksOf(d)' = FallbacksOf(d)
                            /\ UnavailableTo(d)' = UnavailableTo(d)
                            /\ AnswererOf(d)' = AnswererOf(d)
    PROVE  UNCHANGED Promise!pvars
BY DEF Promise!pvars

(* A step of call c leaves the caller's view of the others as it is. *)
LEMMA OtherViews ==
    ASSUME TypeOK, NEW c \in Calls, Begin(c) \/ Step(c) \/ Return(c),
           NEW d \in Calls, c # d
    PROVE  /\ StatusOf(d)' = StatusOf(d)
           /\ PrimaryOf(d)' = PrimaryOf(d)
           /\ FallbacksOf(d)' = FallbacksOf(d)
           /\ UnavailableTo(d)' = UnavailableTo(d)
           /\ AnswererOf(d)' = AnswererOf(d)
<1>1. /\ pc'[d] = pc[d] /\ route'[d] = route[d] /\ pos'[d] = pos[d]
      /\ result'[d] = result[d] /\ trail'[d] = trail[d]
  BY DEF TypeOK, Begin, Step, Return, SkipEntry, SkipOpen, Admit, Reply,
     RefusePrimary, Succeed, EmitFailover, Fail, Exhaust
<1>2. QED
  BY <1>1 DEF StatusOf, PrimaryOf, FallbacksOf, UnavailableTo, AnswererOf,
     Primary, Current, Chain

(* A step that only changes the view of call c, stated once for all. *)
LEMMA ViewStep ==
    ASSUME TypeOK, NEW c \in Calls, Begin(c) \/ Step(c) \/ Return(c)
    PROVE  /\ [d \in Calls |-> StatusOf(d)]' =
                  [[d \in Calls |-> StatusOf(d)] EXCEPT ![c] = StatusOf(c)']
           /\ [d \in Calls |-> PrimaryOf(d)]' =
                  [[d \in Calls |-> PrimaryOf(d)] EXCEPT ![c] = PrimaryOf(c)']
           /\ [d \in Calls |-> FallbacksOf(d)]' =
                  [[d \in Calls |-> FallbacksOf(d)] EXCEPT ![c] = FallbacksOf(c)']
           /\ [d \in Calls |-> UnavailableTo(d)]' =
                  [[d \in Calls |-> UnavailableTo(d)] EXCEPT ![c] = UnavailableTo(c)']
           /\ [d \in Calls |-> AnswererOf(d)]' =
                  [[d \in Calls |-> AnswererOf(d)] EXCEPT ![c] = AnswererOf(c)']
           /\ PrimaryOf(c)' = PrimaryOf(c) =>
                  UNCHANGED [d \in Calls |-> PrimaryOf(d)]
           /\ FallbacksOf(c)' = FallbacksOf(c) =>
                  UNCHANGED [d \in Calls |-> FallbacksOf(d)]
           /\ UnavailableTo(c)' = UnavailableTo(c) =>
                  UNCHANGED [d \in Calls |-> UnavailableTo(d)]
           /\ AnswererOf(c)' = AnswererOf(c) =>
                  UNCHANGED [d \in Calls |-> AnswererOf(d)]
BY OtherViews

(* What the providers unavailable to a call are for a call in its chain:   *)
(* the facts of PosOf and TrailOf in the promise's own terms.              *)
LEMMA Unavailability ==
    ASSUME IInv, NEW c \in Calls
    PROVE  /\ pos[c] > 0 => Primary(c) \in UnavailableTo(c)
           /\ pos[c] > 0 /\ InRange(c) /\ ~Passed(c) /\ pc[c] # "idle" =>
                  Current(c) \in FallbacksOf(c)
           /\ pos[c] > 0 /\ ~InRange(c) =>
                  {Primary(c)} \cup FallbacksOf(c) \subseteq UnavailableTo(c)
           /\ trail[c] = {} => UnavailableTo(c) = {}
<1>1. TypeOK /\ PosOf(c) /\ TrailOf(c)
  BY DEF IInv, PosInv, TrailInv
<1>2. Primary(c) \in Names /\ Chain(c) \in Seq(Names) /\ Len(Chain(c)) \in Nat /\ pos[c] \in Nat
  BY <1>1, NamesTyped DEF TypeOK
<1>3. pos[c] > 0 => Primary(c) \in UnavailableTo(c)
  BY <1>1, <1>2 DEF TrailOf, UnavailableTo
<1>4. ASSUME pos[c] > 0, InRange(c), ~Passed(c), pc[c] # "idle"
      PROVE  Current(c) \in FallbacksOf(c)
  BY <1>2, <1>4 DEF InRange, Passed, Current, FallbacksOf
<1>5. ASSUME pos[c] > 0, ~InRange(c), NEW p \in FallbacksOf(c)
      PROVE  p \in UnavailableTo(c)
  <2>1. /\ p \in Registered /\ p # Primary(c)
        /\ p \in {Chain(c)[i] : i \in 1..Len(Chain(c))}
    BY <1>5 DEF FallbacksOf
  <2>2. p \in Past(c)
    BY <1>2, <1>5, <2>1 DEF Past, InRange
  <2>3. \E r \in Reasons : <<p, r>> \in trail[c]
    BY <1>1, <2>1, <2>2 DEF TrailOf
  <2>4. QED BY <2>1, <2>3 DEF UnavailableTo, Reasons
<1>6. trail[c] = {} => UnavailableTo(c) = {}
  BY DEF UnavailableTo
<1>7. QED BY <1>3, <1>4, <1>5, <1>6

(* Adding a reason to the trail makes that provider unavailable, unless it *)
(* is the primary's permanent error.                                       *)
LEMMA TrailAdds ==
    ASSUME NEW c \in Calls, NEW p \in Names, NEW r \in Reasons,
           trail'[c] = trail[c] \cup {<<p, r>>}, route'[c] = route[c]
    PROVE  UnavailableTo(c)' = IF p = Primary(c) /\ r = "permanent"
                               THEN UnavailableTo(c) ELSE UnavailableTo(c) \cup {p}
<1>1. Primary(c)' = Primary(c)
  BY DEF Primary
<1>2. ASSUME NEW q \in Names
      PROVE  (q \in UnavailableTo(c)') <=>
                 (q \in UnavailableTo(c) \/ (q = p /\ ~(p = Primary(c) /\ r = "permanent")))
  <2>1. (q \in UnavailableTo(c)) <=>
            \/ <<q, "open">> \in trail[c] \/ <<q, "transient">> \in trail[c]
            \/ q # Primary(c) /\ <<q, "permanent">> \in trail[c]
    BY DEF UnavailableTo
  <2>2. (q \in UnavailableTo(c)') <=>
            \/ <<q, "open">> \in trail'[c] \/ <<q, "transient">> \in trail'[c]
            \/ q # Primary(c) /\ <<q, "permanent">> \in trail'[c]
    BY <1>1 DEF UnavailableTo
  <2>3. ASSUME NEW s \in Reasons
        PROVE  (<<q, s>> \in trail'[c]) <=> (<<q, s>> \in trail[c] \/ (q = p /\ s = r))
    OBVIOUS
  <2>4. /\ (<<q, "open">> \in trail'[c]) <=>
              (<<q, "open">> \in trail[c] \/ (q = p /\ r = "open"))
        /\ (<<q, "transient">> \in trail'[c]) <=>
              (<<q, "transient">> \in trail[c] \/ (q = p /\ r = "transient"))
        /\ (<<q, "permanent">> \in trail'[c]) <=>
              (<<q, "permanent">> \in trail[c] \/ (q = p /\ r = "permanent"))
    BY <2>3 DEF Reasons
  <2>5. r = "open" \/ r = "transient" \/ r = "permanent"
    BY DEF Reasons
  <2>6. QED
    <3>1. CASE q = p
      BY <2>1, <2>2, <2>4, <2>5, <3>1
    <3>2. CASE q # p
      BY <2>1, <2>2, <2>4, <3>2
    <3>3. QED BY <3>1, <3>2
<1>3. UnavailableTo(c) \subseteq Names /\ UnavailableTo(c)' \subseteq Names
  BY DEF UnavailableTo
<1>4. CASE p = Primary(c) /\ r = "permanent"
  <2>1. \A q \in Names : (q \in UnavailableTo(c)') <=> (q \in UnavailableTo(c))
    BY <1>2, <1>4
  <2>2. QED BY <2>1, <1>3, <1>4
<1>5. CASE ~(p = Primary(c) /\ r = "permanent")
  <2>1. \A q \in Names : (q \in UnavailableTo(c)') <=> (q \in UnavailableTo(c) \/ q = p)
    BY <1>2, <1>5
  <2>2. UnavailableTo(c)' = UnavailableTo(c) \cup {p}
    BY <2>1, <1>3
  <2>3. QED BY <2>2, <1>5
<1>6. QED BY <1>4, <1>5

(* A step that finds the current provider unavailable is one of Promise.   *)
LEMMA LoseStep ==
    ASSUME IInv, NEW c \in Calls, pc[c] \in {"check", "calling"}, pc'[c] \in {"check", "record"},
           InRange(c), ~Passed(c), Step(c), route'[c] = route[c], failovers' = failovers,
           UnavailableTo(c)' = UnavailableTo(c) \cup {Current(c)}
    PROVE  Promise!PNext
<1>0. TypeOK
  BY DEF IInv
<1>1. /\ StatusOf(c) = "pending" /\ StatusOf(c)' = StatusOf(c)
      /\ PrimaryOf(c) = Primary(c) /\ PrimaryOf(c)' = PrimaryOf(c)
      /\ FallbacksOf(c)' = FallbacksOf(c) /\ AnswererOf(c)' = AnswererOf(c)
  BY DEF StatusOf, PrimaryOf, FallbacksOf, AnswererOf, Primary, Chain
<1>2. UNCHANGED [d \in Calls |-> StatusOf(d)]
  BY <1>0, <1>1, ViewStep
<1>3. CASE pos[c] = 0
  <2>1. Current(c) = PrimaryOf(c)
    BY <1>1, <1>3 DEF Current
  <2>2. Promise!LosePrimary(c)
    BY <1>0, <1>1, <1>2, <2>1, ViewStep DEF Promise!LosePrimary
  <2>3. QED BY <2>2 DEF Promise!PNext
<1>4. CASE pos[c] > 0
  <2>1. PrimaryOf(c) \in UnavailableTo(c) /\ Current(c) \in FallbacksOf(c)
    BY <1>1, <1>4, Unavailability
  <2>2. Promise!LoseFallback(c, Current(c))
    BY <1>0, <1>1, <1>2, <2>1, ViewStep DEF Promise!LoseFallback
  <2>3. Current(c) \in Registered
    BY <2>1 DEF FallbacksOf
  <2>4. QED BY <2>2, <2>3 DEF Promise!PNext
<1>5. pos[c] \in Nat
  BY <1>0 DEF TypeOK
<1>6. QED BY <1>3, <1>4, <1>5

LEMMA PromiseStep ==
    ASSUME IInv, [Next]_vars
    PROVE  [Promise!PNext]_Promise!pvars
<1>0. /\ TypeOK /\ PosInv
      /\ pc \in [Calls -> {"idle", "check", "calling", "record", "hook", "done"}]
      /\ route \in [Calls -> Routes \cup {NoRoute}]
      /\ reply \in [Calls -> Outcomes \cup {"none"}]
      /\ result \in [Calls -> {"none", "ok", "permanent", "exhausted"}]
      /\ pos \in [Calls -> Nat]
      /\ trail \in [Calls -> SUBSET (Names \X Reasons)]
  BY DEF IInv, TypeOK
<1>1. ASSUME NEW c \in Calls, Begin(c) PROVE Promise!PNext
  <2>1. PICK p \in Names : p = Primary(c)'
    BY <1>1 DEF Begin, Primary
  <2>2. trail'[c] = {} /\ trail[c] = {}
    BY <1>0, <1>1 DEF Begin, PosInv, PosOf
  <2>3. UnavailableTo(c)' = UnavailableTo(c)
    BY <2>2 DEF UnavailableTo
  <2>4. PICK F \in SUBSET Registered : F = FallbacksOf(c)' /\ p \notin F
    <3>1. FallbacksOf(c)' =
              ((Registered \cap {Chain(c)[i] : i \in 1..Len(Chain(c))}) \ {Primary(c)})'
      BY <1>0, <1>1 DEF Begin, FallbacksOf
    <3>2. FallbacksOf(c)' \subseteq Registered /\ Primary(c)' \notin FallbacksOf(c)'
      BY <3>1
    <3>3. QED BY <2>1, <3>2
  <2>5. /\ StatusOf(c) = "idle" /\ StatusOf(c)' = "pending" /\ failovers' = failovers
        /\ PrimaryOf(c)' = p /\ AnswererOf(c)' = AnswererOf(c)
    BY <1>0, <1>1, <2>1 DEF Begin,
       StatusOf, PrimaryOf, AnswererOf
  <2>6. Promise!Start(c, p, F)
    BY <2>3, <2>4, <2>5, <1>0, <1>1, ViewStep DEF Promise!Start
  <2>7. QED BY <2>4, <2>6 DEF Promise!PNext
<1>2. ASSUME NEW c \in Calls, SkipEntry(c) \/ Admit(c) \/ Reply(c, "ok") \/ Fail(c)
      PROVE  UNCHANGED Promise!pvars
  <2>0. Step(c)
    BY <1>2 DEF Step, Outcomes
  <2>1. /\ StatusOf(c)' = StatusOf(c) /\ PrimaryOf(c)' = PrimaryOf(c)
        /\ FallbacksOf(c)' = FallbacksOf(c) /\ UnavailableTo(c)' = UnavailableTo(c)
        /\ AnswererOf(c)' = AnswererOf(c) /\ failovers' = failovers
    <3>1. /\ route'[c] = route[c] /\ trail'[c] = trail[c] /\ failovers' = failovers
          /\ pc[c] \in {"check", "calling", "record"} /\ pc'[c] \in {"check", "calling", "record"}
      BY <1>0, <1>2 DEF SkipEntry, Admit, Reply, Fail
    <3>2. Primary(c)' = Primary(c) /\ Chain(c)' = Chain(c)
      BY <3>1 DEF Primary, Chain
    <3>3. UnavailableTo(c)' = UnavailableTo(c)
      BY <3>1, <3>2 DEF UnavailableTo
    <3>4. FallbacksOf(c)' = FallbacksOf(c)
      BY <3>1, <3>2 DEF FallbacksOf
    <3>5. QED
      BY <3>1, <3>2, <3>3, <3>4 DEF StatusOf, PrimaryOf, AnswererOf
  <2>2. QED BY <2>0, <2>1, <1>0, OtherViews, SameView
<1>10. ASSUME NEW c \in Calls, SkipOpen(c) PROVE Promise!PNext
  <2>1. /\ Step(c) /\ InRange(c) /\ ~Passed(c) /\ pc[c] = "check" /\ pc'[c] = "check"
        /\ route'[c] = route[c] /\ failovers' = failovers
        /\ trail'[c] = trail[c] \cup {<<Current(c), "open">>}
    BY <1>0, <1>10 DEF SkipOpen, Step
  <2>2. UnavailableTo(c)' = UnavailableTo(c) \cup {Current(c)}
    BY <1>0, <2>1, NamesTyped, TrailAdds DEF Reasons
  <2>3. QED BY <2>1, <2>2, LoseStep
<1>11. ASSUME NEW c \in Calls, NEW o \in Outcomes, o # "ok", Reply(c, o) PROVE Promise!PNext
  <2>1. /\ Step(c) /\ InRange(c) /\ ~Passed(c) /\ pc[c] = "calling" /\ pc'[c] = "record"
        /\ route'[c] = route[c] /\ failovers' = failovers /\ MovesOn(c, o)
        /\ trail'[c] = trail[c] \cup {<<Current(c), o>>}
    BY <1>0, <1>11 DEF Reply, Step, PosInv, PosOf
  <2>2. ~(Current(c) = Primary(c) /\ o = "permanent")
    BY <1>0, <2>1 DEF MovesOn, Passed
  <2>3. o \in Reasons /\ Current(c) \in Names
    BY <1>0, <1>11, <2>1, NamesTyped DEF Outcomes, Reasons
  <2>4. UnavailableTo(c)' = UnavailableTo(c) \cup {Current(c)}
    BY <2>1, <2>2, <2>3, TrailAdds
  <2>5. QED BY <2>1, <2>4, LoseStep
<1>3. ASSUME NEW c \in Calls, RefusePrimary(c) PROVE Promise!Refuse(c)
  <2>0. Step(c)
    BY <1>3 DEF Step
  <2>1. /\ pos[c] = 0 /\ trail[c] = {} /\ Current(c) = Primary(c) /\ route'[c] = route[c]
        /\ trail'[c] = trail[c] \cup {<<Primary(c), "permanent">>}
    BY <1>0, <1>3 DEF RefusePrimary, MovesOn, PosInv, PosOf, Current
  <2>2. UnavailableTo(c) = {} /\ UnavailableTo(c)' = UnavailableTo(c)
    BY <1>0, <2>1, NamesTyped, TrailAdds, Unavailability DEF Reasons
  <2>3. /\ StatusOf(c) = "pending" /\ StatusOf(c)' = "refused" /\ failovers' = failovers
        /\ PrimaryOf(c)' = PrimaryOf(c) /\ FallbacksOf(c)' = FallbacksOf(c)
        /\ AnswererOf(c)' = AnswererOf(c)
    BY <1>0, <1>3 DEF RefusePrimary, Primary, Chain,
       StatusOf, PrimaryOf, FallbacksOf, AnswererOf
  <2>4. QED BY <2>0, <2>2, <2>3, <1>0, ViewStep DEF Promise!Refuse
<1>4. ASSUME NEW c \in Calls, Succeed(c)
      PROVE  Promise!AnswerPrimary(c) \/ UNCHANGED Promise!pvars
  <2>0. Step(c)
    BY <1>4 DEF Step
  <2>u. FallbacksOf(c)' = FallbacksOf(c) /\ UnavailableTo(c)' = UnavailableTo(c)
    BY <1>0, <1>4 DEF Succeed, Primary, Chain, FallbacksOf, UnavailableTo
  <2>1. CASE pos[c] = 0
    <3>1. /\ StatusOf(c) = "pending" /\ StatusOf(c)' = "answered"
          /\ failovers' = failovers /\ PrimaryOf(c)' = PrimaryOf(c)
          /\ AnswererOf(c)' = PrimaryOf(c)
      BY <1>0, <1>4, <2>1 DEF Succeed, Primary, Current,
       StatusOf, PrimaryOf, AnswererOf
    <3>2. UnavailableTo(c) = {}
      BY <1>0, <1>4, <2>1, Unavailability DEF Succeed, PosInv, PosOf
    <3>3. QED BY <2>0, <2>u, <3>1, <3>2, <1>0, ViewStep DEF Promise!AnswerPrimary
  <2>2. CASE pos[c] > 0
    <3>1. /\ StatusOf(c)' = StatusOf(c) /\ PrimaryOf(c)' = PrimaryOf(c)
          /\ AnswererOf(c)' = AnswererOf(c) /\ failovers' = failovers
      BY <1>0, <1>4, <2>2 DEF Succeed, Primary,
       StatusOf, PrimaryOf, AnswererOf
    <3>2. QED BY <2>0, <2>u, <3>1, <1>0, OtherViews, SameView
  <2>3. QED BY <2>1, <2>2, <1>0
<1>5. ASSUME NEW c \in Calls, EmitFailover(c) PROVE Promise!PNext
  <2>0. Step(c)
    BY <1>5 DEF Step
  <2>1. pos[c] > 0 /\ InRange(c) /\ ~Passed(c) /\ pc[c] = "hook"
    BY <1>0, <1>5 DEF EmitFailover, PosInv, PosOf
  <2>2. Primary(c) \in UnavailableTo(c) /\ Current(c) \in FallbacksOf(c)
    BY <2>1, Unavailability
  <2>3. /\ StatusOf(c) = "pending" /\ StatusOf(c)' = "answered"
        /\ PrimaryOf(c) = Primary(c) /\ PrimaryOf(c)' = PrimaryOf(c)
        /\ AnswererOf(c)' = Current(c)
        /\ failovers' = failovers \cup {[from |-> Primary(c), to |-> Current(c)]}
    BY <1>0, <1>5 DEF EmitFailover, FailoverRecord, Primary, Current, Chain,
       StatusOf, PrimaryOf, AnswererOf
  <2>4. FallbacksOf(c)' = FallbacksOf(c) /\ UnavailableTo(c)' = UnavailableTo(c)
    BY <1>0, <1>5 DEF EmitFailover, Primary, Chain, FallbacksOf, UnavailableTo
  <2>5. Promise!AnswerFailover(c, Current(c))
    BY <2>0, <2>2, <2>3, <2>4, <1>0, ViewStep DEF Promise!AnswerFailover
  <2>6. Current(c) \in Registered
    BY <2>2 DEF FallbacksOf
  <2>7. QED BY <2>5, <2>6 DEF Promise!PNext
<1>6. ASSUME NEW c \in Calls, Exhaust(c) PROVE Promise!GiveUp(c)
  <2>0. Step(c)
    BY <1>6 DEF Step
  <2>1. /\ StatusOf(c) = "pending" /\ StatusOf(c)' = "exhausted" /\ failovers' = failovers
        /\ PrimaryOf(c) = Primary(c) /\ PrimaryOf(c)' = PrimaryOf(c)
        /\ FallbacksOf(c)' = FallbacksOf(c) /\ UnavailableTo(c)' = UnavailableTo(c)
        /\ AnswererOf(c)' = AnswererOf(c)
    BY <1>0, <1>6 DEF Exhaust, Primary, Chain,
       StatusOf, PrimaryOf, FallbacksOf, UnavailableTo, AnswererOf
  <2>2. ~InRange(c) /\ pos[c] > 0
    BY <1>0, <1>6, NamesTyped DEF Exhaust, InRange
  <2>3. {PrimaryOf(c)} \cup FallbacksOf(c) \subseteq UnavailableTo(c)
    BY <2>1, <2>2, Unavailability
  <2>4. QED BY <2>0, <2>1, <2>3, <1>0, ViewStep DEF Promise!GiveUp
<1>7. ASSUME NEW c \in Calls, Return(c) PROVE Promise!Leave(c)
  <2>1. /\ StatusOf(c) \in {"answered", "refused", "exhausted"} /\ StatusOf(c)' = "idle"
        /\ failovers' = failovers /\ PrimaryOf(c)' = Nobody /\ AnswererOf(c)' = Nobody
        /\ FallbacksOf(c)' = {}
    BY <1>0, <1>7 DEF Return,
       StatusOf, PrimaryOf, FallbacksOf, AnswererOf
  <2>2. UnavailableTo(c)' = {}
    BY <1>0, <1>7 DEF Return, UnavailableTo
  <2>3. QED BY <2>1, <2>2, <1>0, <1>7, ViewStep DEF Promise!Leave
<1>8. CASE UNCHANGED vars \/ \E p \in Names : Elapse(p)
  BY <1>8, SameView DEF vars, Elapse, Primary, Current, Chain,
       StatusOf, PrimaryOf, FallbacksOf, UnavailableTo, AnswererOf
<1>9. QED
  BY <1>1, <1>2, <1>3, <1>4, <1>5, <1>6, <1>7, <1>8, <1>10, <1>11
     DEF Next, Step, Promise!PNext

(* The provider keeps FailoverPromise for any calls, routes and threshold: *)
(* a fallback answers a call only after its primary was unavailable to it, *)
(* a call is given up only after all of its providers were, and there is a *)
(* failover record exactly when a fallback answers.                        *)
THEOREM KeepsPromise == Spec => ImplementsPromise
<1>1. Init => Promise!PInit
  BY DEF Init, Promise!PInit, StatusOf, PrimaryOf, FallbacksOf, UnavailableTo, AnswererOf
<1>2. QED
  BY <1>1, Inductive, PromiseStep, PTL DEF Spec, ImplementsPromise, Promise!PSpec
=============================================================================
